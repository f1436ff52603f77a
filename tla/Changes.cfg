SPECIFICATION Spec
CONSTANTS
    d1 = d1
    d2 = d2
    u1 = u1
    u2 = u2
    None = None
    Detectors = {d1, d2}
    Urls = {u1, u2}
    Times = {1, 2}
    Feeds <- MCFeeds
    MaxRows = 3
    Contents <- AllPages
    Similarity <- AllRatio
    Prices <- AllPrices
    StockWords <- AllStock
    Numbers <- AllNumbers
    CosmeticThreshold = 98
    MaterialThreshold = 60
INVARIANTS
    ReportsEvidenced
    BaselineIsLatest
    SignalsTold
PROPERTY EvidenceKept
CHECK_DEADLOCK FALSE
