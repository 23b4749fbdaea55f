CONSTANTS
    ta = ta
    tb = tb
    r1 = r1
    r2 = r2
    NoToken = NoToken
    NoThread = NoThread
    Tokens = {ta, tb}
    InitTokens = {ta}
    Requests = {r1, r2}
    Workers = {}
    MaxConcurrency = 1
    MaxQuota = 1
    MaxAttempts = 2
    MaxRelogins = 1
    AutoRemoveLimited = FALSE
    AutoRemoveInvalid = TRUE
    Operations = {"import", "reimport", "delete", "update", "relogin", "restart"}
    SaveFaults = {}
    Outcomes = {"result", "error"}
SPECIFICATION Spec
SYMMETRY RequestSymmetry
INVARIANTS SlotsMatchHolders
PROPERTIES ReplacedTokensStayOut
CHECK_DEADLOCK FALSE
