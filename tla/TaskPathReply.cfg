\* A connection may go while its requests are on their way.
CONSTANTS
    Address = {a1}
    Slack = 1
    MaxConn = 2
    MaxTask = 3
SPECIFICATION SafetySpec
INVARIANTS ReplyHasConnection
CHECK_DEADLOCK FALSE
