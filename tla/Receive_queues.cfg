\* Two sockets and two files that are retried; writers fail.
CONSTANTS
    Files = {f1, f2}
    Receivers = {r1, r2}
    Capacity = 1
    MaxRetries = 1
    MaxAttempts = 2
SPECIFICATION FairSpec
INVARIANTS
    TypeOK
    OpenHasWriter
    OwnQueue
PROPERTY BackToSocket
CHECK_DEADLOCK FALSE
