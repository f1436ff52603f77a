SPECIFICATION Spec
CONSTANTS
    h1 = h1
    h2 = h2
    page = page
    login = login
    t1 = t1
    t2 = t2
    t3 = t3
    None = None
    Tasks <- ThreeTasks
    Urls = {page}
    Hosts = {h1}
    Host <- HostOfOne
    Disallowed = {}
    Gated = {}
    RobotsAnswers = {"served", "error"}
    EnforceRobots = TRUE
    RefuseLoginWalled = TRUE
    AllowPrivateNetworks = FALSE
    Interval = 2
    MaxRedirects = 0
    MaxClock = 5
INVARIANTS
    FetchesSpaced
