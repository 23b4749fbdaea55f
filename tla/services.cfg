CONSTANTS
    NoKey = NoKey
    Keys = {k1, k2, k3}
    Threads = {h1, h2}
    SavesMayFail = TRUE
    Restarts = TRUE
    ImagesUpstream = {k1}
    Owners = {o1, o2}
    TaskIds = {t1}
    MaxStoreFaults = 2
    Photos = {p1, p2}
    Nobody = Nobody
    Calls = {c1, c2, c3}
    ApiKeys = {a1, a2}
    Backends = {"json", "database", "git"}
    MaxSaves = 1
    MaxFaults = 1
SPECIFICATION ServiceSpec
INVARIANTS OneThreadEach PaidOnce SavedIsServed DeletedIsGone LoggedAsEnded SavedStays
CHECK_DEADLOCK FALSE
