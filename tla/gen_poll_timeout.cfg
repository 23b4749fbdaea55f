SPECIFICATION Spec
CONSTANTS
    NoAccount = NoAccount
    Accounts = {aa, ab}
    N = 1
    MaxTextReply = 3
    MaxTls = 3
    MaxConnTimeout = 3
    MaxPollTimeout = 4
PROPERTIES PollsAndTextsRetried
CHECK_DEADLOCK FALSE
