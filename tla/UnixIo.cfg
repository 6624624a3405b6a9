\* Standard input and two more descriptors; the table starts with two entries and is grown.
CONSTANTS
    Fds = {0, 1, 2}
    TableSize = 2
    MaxPosts = 4
SPECIFICATION UnixSpec
PROPERTIES OnlyReady Dispatched
CHECK_DEADLOCK FALSE
