SPECIFICATION FairSpec
CONSTANTS
    Senders = {s1}
    Receivers = {r1, r2}
    First = r1
    MaxMessages = 2
    BufferLen = 2
    MaxBytes = 2
    Sizes = {1, 3}
    MaxCalls = 3
CHECK_DEADLOCK FALSE
INVARIANTS
    CountersExact
PROPERTIES
    ImplementsBroadcast
    UnwarnedSendReturns
