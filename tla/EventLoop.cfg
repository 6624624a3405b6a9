\* Two connections at a time on two descriptors, either of which the second
\* connection may get again after the first; accept may be refused throughout.
CONSTANTS
    FD = {f1, f2}
    MaxUnits = 2
    IOVCount = 2
    SndBuf = 1
    MaxConn = 2
    MaxReq = 2
    MaxReset = 1
SPECIFICATION Spec
INVARIANTS RegistriesAgree EventsReachTheirUnit ResponsesConserved
PROPERTIES GoneIsDeleted Flushed
CHECK_DEADLOCK FALSE
