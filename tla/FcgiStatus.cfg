\* As in FcgiStdio.cfg, with less to write, no signals, and three calls: two closes and a status.
CONSTANTS
    HeaderLen = 2
    BodyLen = 2
    BuffLen = 4
    Align = 2
    Statuses = {0, 1}
    MaxRequests = 2
    MaxPut = 1
    MaxCalls = 3
    MaxSignals = 0
SPECIFICATION Spec
INVARIANTS StatusOfItsOwn
CHECK_DEADLOCK FALSE
