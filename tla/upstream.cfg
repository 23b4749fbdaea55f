CONSTANTS
    NoAccount = NoAccount
    Accounts = {aa, ab}
    N = 2
    MaxTextReply = 1
    MaxTls = 1
    MaxConnTimeout = 0
    MaxPollTimeout = 1
    Pictures = {i1, i2}
    Settle = 2
    Interval = 3
    InitialWait = 2
    Backoffs = {0, 1, 3}
    PollTimeout = 9
    Length = 4
    Pause = 2
    Readings = 7
    ClearanceCallers = {c1, c2}
    NoCaller = NoCaller
    RuntimeProxy = RuntimeProxy
    GlobalProxy = GlobalProxy
    MaxSolved = 2
    NoBundle = NoBundle
    Manual = Manual
    Servers = {v1}
    NoServer = NoServer
    ImportRuns = {m1, m2}
    ImportApis = {"cpa", "sub2api"}
    Files = 2
    MaxExported = 2
    MaxEdits = 2
SPECIFICATION UpstreamSpec
INVARIANTS NoImageLost AgreedIsWhole ReturnedIsWhole OperatorHasLastWord CompletedAddsUp
PROPERTIES EveryRequestEnds EveryRefreshReturns AnswersAreNewest
CHECK_DEADLOCK FALSE
