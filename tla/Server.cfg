\* Headers of two bytes, so that a read can end inside one; reads of up to 5.
\* Three signals to the process, at any time.
CONSTANTS
    HeaderSize = 2
    ReadSize = 5
    IOVCount = 2
    Word = 16
    ResponseBody = 1
    Streams <- MCStreams
    Listen = "listen_thread"
    Work = "work_thread"
    Thread = {"listen_thread", "work_thread"}
    Port = 8000
    MaxSignal = 3
SPECIFICATION ServerSpec
INVARIANTS DecodesTheStream ResponsesWhole PoolNotShared
PROPERTIES BadFrontDeletes StopEnds
CHECK_DEADLOCK FALSE
