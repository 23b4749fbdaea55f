CONSTANTS
    k1 = k1
    k2 = k2
    k3 = k3
    h1 = h1
    h2 = h2
    NoKey = NoKey
    Keys = {k1, k2, k3}
    Threads = {h1, h2}
    SavesMayFail = FALSE
    Restarts = TRUE
    ImagesUpstream = {k1}
    Keeps = {0, 1, 2}
    MaxUploads = 3
SPECIFICATION TaskSpec
INVARIANTS NoTaskAbandoned AcceptedTasksKept SuccessIsThere
PROPERTIES EveryTaskEnds SuccessIsFinal ImplementsLifecycle BackupsEnd
