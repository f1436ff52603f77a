SPECIFICATION SoloSpec
CONSTANTS
    s1 = s1
    s2 = s2
    x1 = x1
    v1 = v1
    c1 = c1
    c2 = c2
    n1 = n1
    n2 = n2
    page = page
    challenge = challenge
    shell = shell
    wall = wall
    binary = binary
    Absent = Absent
    Truncated = Truncated
    Garbled = Garbled
    Empty = Empty
    None = None
    Refusal = Refusal
    Failed = Failed
    NotInstalled = NotInstalled
    Replaced = Replaced
    Url = Url
    Solos = {s1, s2}
    Scrapes = {x1}
    Processes = {s1, s2, x1}
    Verifiers = {v1}
    Sessions = {c1, c2}
    Notaries = {n1, n2}
    Shells = {shell}
    Walls = {wall}
    Binary = {binary}
    ChallengeUrls = {challenge}
    Together <- MCTogether
    Answers <- MCAnswers
    Pages <- MCPages
INVARIANTS
    IdentityKept
    KeySettled
    UndisturbedVerifies
    JobsAttest
    ContactsConsented
SYMMETRY Symmetry
CHECK_DEADLOCK FALSE
