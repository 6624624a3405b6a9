\* A program with two descriptors besides the standard ones and three handles: one can
\* be its own descriptor, the table can be full, descriptors and handles are used again.
\* Or two processes on a pipe or a socket, with and without a mutex, two clients and one descriptor each.
CONSTANTS
    OpenMax = 5
    Handles = {3, 7, 8}
    MaxOps = 2
    Processes = {p1, p2}
    Clients = {c1, c2}
    MaxUsed = 1
    Free = Free
SPECIFICATION Spec
INVARIANTS OnePlace DescriptorsMatch OneAccepts
PROPERTIES Answered ShutdownEnds ClientsAccepted
CHECK_DEADLOCK FALSE
