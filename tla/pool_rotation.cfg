CONSTANTS
    ta = ta
    tb = tb
    tc = tc
    r1 = r1
    r2 = r2
    w1 = w1
    NoToken = NoToken
    NoThread = NoThread
    Tokens = {ta, tb, tc}
    InitTokens = {ta, tb}
    Requests = {r1, r2}
    Workers = {}
    MaxConcurrency = 2
    MaxQuota = 1
    MaxAttempts = 2
    MaxRelogins = 1
    AutoRemoveLimited = TRUE
    AutoRemoveInvalid = FALSE
    Operations = {"restart"}
    SaveFaults = {"pool"}
    Outcomes = {"result", "error"}
SPECIFICATION Spec
SYMMETRY RequestSymmetry
INVARIANTS TypeOK SlotsMatchHolders
PROPERTIES ImplementsSlotPool ReplacedTokensStayOut
CHECK_DEADLOCK FALSE
