SPECIFICATION Spec
CONSTANTS
    u1 = u1
    u2 = u2
    page1 = page1
    page2 = page2
    None = None
    Refusal = Refusal
    Malformed = Malformed
    Failed = Failed
    Raised = Raised
    NotInstalled = NotInstalled
    Empty = Empty
    Shells = {}
    Walls = {}
    ChallengeUrls = {}
    Worker = Worker
    Notary = Notary
    Tsa = Tsa
    Rogue = Rogue
    Children = Children
    Urls = {u1, u2}
    Backends <- MCBackends
    Answers <- MCAnswers
    Plans <- MCPlans
    Bodies = {page1, page2}
    Drift <- MCDrift
    MaxClock = 1
    MaxCorroborations = 2
    MaxTokens = 1
    MaxAlterations = 1
INVARIANTS
    UpperBound
    NativeMeansObserved
    CorroborationsHold
    ChunkCheckExact
CHECK_DEADLOCK FALSE
