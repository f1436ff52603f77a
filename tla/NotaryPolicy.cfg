SPECIFICATION FairSpec
CONSTANTS
    h1 = h1
    h2 = h2
    page = page
    login = login
    t1 = t1
    t2 = t2
    t3 = t3
    None = None
    Tasks <- TwoTasks
    Urls <- TwoUrls
    Hosts <- TwoHosts
    Host <- HostOfTwo
    Disallowed = {page}
    Gated = {login}
    RobotsAnswers = {"served", "absent", "error"}
    EnforceRobots = TRUE
    RefuseLoginWalled = TRUE
    AllowPrivateNetworks = FALSE
    Interval = 1
    MaxRedirects = 2
    MaxClock = 2
INVARIANTS
    OnlyCheckedHosts
    RobotsHonouredIfServed
    SpacedOnceSettled
PROPERTY ObserveReturns
