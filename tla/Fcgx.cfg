CONSTANTS
    HeaderLen = 2
    BodyLen = 2
    BuffLen = 3
    PairLen = 2
    WriterLen = 2
    Align = 2
    MaxPut = 1
    Scripts <- AllScripts
    Pipelined <- PipelinedScripts
SPECIFICATION Spec
INVARIANTS ReadsItsQuietRecords AnswersWellFormed
PROPERTIES ClosedForCause Served ShutdownEnds
CHECK_DEADLOCK FALSE
