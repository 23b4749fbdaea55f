SPECIFICATION FairSpec
CONSTANTS
    ra = ra
    rb = rb
    rc = rc
    rd = rd
    kstream = kstream
    kwhole = kwhole
    Requests = {ra, rb, rc}
    Keys = {kstream, kwhole}
    KeyOf <- AllWhole
    StreamKeys = {kstream}
    Workers = {wa, wb}
    Loop = Loop
    Nobody = Nobody
    Modes = {"dedupe", "cache"}
    MaxEntries = 1
    ClientsLeave = FALSE
PROPERTY EveryRequestEnds
CHECK_DEADLOCK FALSE
