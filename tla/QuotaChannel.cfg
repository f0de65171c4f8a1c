SPECIFICATION FairSpec
CONSTANTS
    Senders = {s1, s2}
    Receivers = {r1, r2}
    First = r1
    CapacityBytes = 2
    Sizes = {1, 3}
    MaxCalls = 2
CHECK_DEADLOCK FALSE
INVARIANTS
    ByteAccounting
    OneActiveSender
    NoLostWakeup
    MemoryBound
    Lossless
PROPERTY SendReturns
