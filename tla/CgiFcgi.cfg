\* Reads of up to five bytes and a socket that takes three: records are cut anywhere.
CONSTANTS
    HeaderLen = 2
    BodyLen = 2
    BuffLen = 5
    SockBuf = 3
    Requests <- AllRequests
SPECIFICATION Spec
INVARIANTS OutputWhole InputWhole
PROPERTIES Progress
CHECK_DEADLOCK FALSE
