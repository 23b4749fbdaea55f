SPECIFICATION Spec
CONSTANTS
    ra = ra
    rb = rb
    rc = rc
    rd = rd
    kstream = kstream
    kwhole = kwhole
    Requests = {ra, rb, rc, rd}
    Keys = {kstream, kwhole}
    KeyOf <- ThreeStreams
    StreamKeys = {kstream}
    Workers = {wa, wb}
    Loop = Loop
    Nobody = Nobody
    Modes = {"dedupe", "cache", "off"}
    MaxEntries = 1
    ClientsLeave = TRUE
INVARIANTS SingleFlight WholeAnswersOnly NobodyWaitsInVain
CHECK_DEADLOCK FALSE
