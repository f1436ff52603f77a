SPECIFICATION Spec
CONSTANTS
    k1 = k1
    k2 = k2
    None = None
    Keys <- TwoKeys
    Reasons <- MCReasons
    Time = {1, 2, 3}
    Slack = 1
    MaxEntries = 2
PROPERTY CompromiseSticks
CHECK_DEADLOCK FALSE
