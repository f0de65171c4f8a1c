SPECIFICATION Spec
CONSTANTS
    Threads = {t1, t2}
    Entities = {e1}
    SinkKinds = {"buffered", "file"}
    RowThreshold <- MCRowThreshold
    MaxUnsorted = 2
    RowData <- MCRowData
    Calls = {"row", "msg", "flush", "set_sink", "finalize"}
    MaxCalls = 3
    QueueLen = 1
SYMMETRY MCSymmetry
CHECK_DEADLOCK FALSE
INVARIANTS
    TypeOK
    Conservation
    ShutdownDrains
    RowOrder
    SwapGuarantee
PROPERTY FlushGuarantee
