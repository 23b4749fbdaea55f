SPECIFICATION Spec
CONSTANTS
    ra = ra
    rb = rb
    rc = rc
    rd = rd
    kstream = kstream
    kwhole = kwhole
    Requests = {ra, rb, rc, rd}
    Keys = {kstream, kwhole}
    KeyOf <- TwoPairs
    StreamKeys = {kstream}
    Workers = {wa, wb}
    Loop = Loop
    Nobody = Nobody
    Modes = {"dedupe"}
    MaxEntries = 1
    ClientsLeave = FALSE
INVARIANT ReplaysAreAnswered
CHECK_DEADLOCK FALSE
