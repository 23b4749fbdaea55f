CONSTANTS
    ta = ta
    tb = tb
    r1 = r1
    r2 = r2
    w1 = w1
    NoToken = NoToken
    NoThread = NoThread
    Tokens = {ta, tb}
    InitTokens = {ta}
    Requests = {r1, r2}
    Workers = {w1}
    MaxConcurrency = 1
    MaxQuota = 1
    MaxAttempts = 2
    MaxRelogins = 1
    AutoRemoveLimited = FALSE
    AutoRemoveInvalid = FALSE
    Operations = {}
    SaveFaults = {}
    Outcomes = {"result", "message", "error", "noImage"}
    Mailboxes = {1, 2}
    NoMailbox = NoMailbox
    RegWorkers = {g1, g2}
    NoWorker = NoWorker
    RegModes = {"total", "available"}
    RegTarget = 2
    MaxSubmitted = 2
    MaxEvents = 2
    Signups = {s1, s2}
    Aliases = {a1, a2}
    EntryLists <- MailProviders
    OutlookBox = OutlookBox
    NoAddress = NoAddress
    ScanLimit = 2
    MaxMails = 2
    Finishers = {f1, f2}
    MaxSessions = 2
    MaxLogins = 4
    Checked = {k1}
    JobAccounts = {j1, j2, j3}
    JobKinds = {"refresh", "relogin"}
SPECIFICATION SupplySpec
INVARIANTS MailboxTakenOnce CodesAreOwn LoginsApart CondemnedWithCause
PROPERTIES EveryRequestEnds EveryRunEnds EveryJobIsDone
CHECK_DEADLOCK FALSE
