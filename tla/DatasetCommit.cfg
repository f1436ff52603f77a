SPECIFICATION Spec
CONSTANTS
    k1 = k1
    None = None
    Records <- ThreeRecords
    Carried <- CarriedByThree
    KeyringGiven = TRUE
    MaxRecords = 3
    MaxRejected = 1
    MaxManifests = 2
    MaxCorroborations = 1
    Keys = {k1}
    Time = {1, 2}
    Slack = 0
    Reasons = {"compromised", "lost"}
    MaxEntries = 1
INVARIANTS
    ManifestsCommit
    MembershipExact
    IncludedStaysExplained
CHECK_DEADLOCK FALSE
