SPECIFICATION FairSpec
CONSTANTS
    Callers = {c1, c2}
    QueueLen = 3
    MaxOps = 3
CHECK_DEADLOCK FALSE
INVARIANTS
    SentInOrder
    FlushDelivers
PROPERTY CallsReturn
