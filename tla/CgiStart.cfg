\* Three processes, up to two servers each, one of which may crash.
CONSTANTS
    Cgis = {c1, c2, c3}
    ArgLists <- MCArgLists
    MaxServers = 2
    MaxCrashes = 1
    None = None
SPECIFICATION Spec
PROPERTIES OneGetsThrough
CHECK_DEADLOCK FALSE
