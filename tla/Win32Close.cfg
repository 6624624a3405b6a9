\* As in Win32.cfg: operations on descriptors that are closed and used again.
CONSTANTS
    OpenMax = 5
    Handles = {3, 7, 8}
    MaxOps = 2
    Processes = {p1, p2}
    Clients = {c1, c2}
    MaxUsed = 1
    Free = Free
SPECIFICATION Spec
PROPERTIES NoCallbackAfterClose
CHECK_DEADLOCK FALSE
