SPECIFICATION FairSpec
CONSTANTS
    Writers = {w1, w2}
    Clients = {c1, c2}
    Kinds = {"static", "temporal"}
    Size <- MCSize
    MaxWrites = 3
    QueueLen = 1
    MaxMessages = 1
    Options <- MCOptions
CHECK_DEADLOCK FALSE
INVARIANTS
    ExactlyOnce
    LateJoinerSeesAll
    StoreInfoFirst
    HistoryBound
PROPERTIES
    PushReturns
    StreamsCatchUp
