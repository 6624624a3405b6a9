\* Three connections on two addresses, so one address is used again.  In a pipe, loads
\* up to what it holds, and beyond: growth, refusal, torn writes.
CONSTANTS
    Address = {a1, a2}
    Slack = 1
    MaxConn = 3
    MaxTask = 4
    K = 3
    W = 8
    PipeBuf = 4
    PipeCap = 6
    MaxPush = 14
    Loads = {6, 14}
    MaxRefused = 1
SPECIFICATION TasksSpec
INVARIANTS NeverTorn InOrder WithinVolume OnePlace StrayFirst
PROPERTIES ChannelSafety ChannelProgress WriterDrains ServiceSafety BacklogShrinks
CHECK_DEADLOCK FALSE
