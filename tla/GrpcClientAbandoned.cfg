SPECIFICATION Spec
CONSTANTS
    Callers = {c1}
    QueueLen = 2
    MaxOps = 3
CHECK_DEADLOCK FALSE
INVARIANT StreamSurvivesFlush
