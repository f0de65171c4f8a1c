SPECIFICATION FairSpec
CONSTANTS
    Threads = {t1, t2}
    Entities = {e1}
    SinkKinds = {"buffered", "file"}
    RowThreshold <- MCRowThreshold
    MaxUnsorted = 2
    RowData <- MCRowData
    Calls = {"row", "chunk", "msg", "flush", "set_sink", "finalize"}
    MaxCalls = 2
    QueueLen = 1
CHECK_DEADLOCK FALSE
PROPERTY CallsReturn
