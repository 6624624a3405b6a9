\* Buffers of a header and two bytes; three bytes and two other calls in two requests, two signals.
CONSTANTS
    HeaderLen = 2
    BodyLen = 2
    BuffLen = 4
    Align = 2
    Statuses = {0, 1}
    MaxRequests = 2
    MaxPut = 3
    MaxCalls = 2
    MaxSignals = 2
SPECIFICATION Spec
INVARIANTS OutputArrives EndsWithStatus
PROPERTIES KeptInStep
CHECK_DEADLOCK FALSE
