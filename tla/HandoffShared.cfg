SPECIFICATION Spec
CONSTANTS
    a1 = a1
    a2 = a2
    s1 = s1
    s2 = s2
    c1 = c1
    c2 = c2
    k1 = k1
    k2 = k2
    None = None
    Agents = {a1, a2}
    Signatures = {s1, s2}
    Contents = {c1, c2}
    Requests <- AgelessRequests
    TTL = None
    MaxClock = 3
    MaxPause = 1
    Keys = {k1, k2}
    Time = {1, 2, 3}
    Slack = 1
    Reasons = {"compromised", "lost"}
    MaxEntries = 0
PROPERTY ImplementsReplayGuard
CHECK_DEADLOCK FALSE
