CONSTANTS
    k1 = k1
    h1 = h1
    NoKey = NoKey
    Keys = {k1}
    Threads = {h1}
    SavesMayFail = FALSE
    Restarts = FALSE
    ImagesUpstream = {k1}
SPECIFICATION FairSpec
PROPERTIES ContinuedTaskRecovers
