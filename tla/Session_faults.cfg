\* Two files one after the other, some there already, and everything may go wrong
\* but the data: disks fail, space runs out, and with them one stream breaks,
\* sockets fail or a host is cancelled.
CONSTANTS
    Files = {0, 1}
    Max = 1
    Verify = TRUE
    Overwrite = FALSE
    Size = 1
    MaxAttempts = 1
    FaultSets = {{"rts", "disk"}, {"rts", "cancel"}, {"str", "disk"}, {"cancel", "sockets"}, {"disk", "space"}, {"disk", "long"}}
    NoFile = NoFile
SPECIFICATION FairSpec
INVARIANTS
    TypeOK
    AtMostMax
    DoneLast
    SuccessMeansSettled
    CipherLockstep
    NothingForgotten
PROPERTIES
    BothExit
    BatchSpec
CHECK_DEADLOCK FALSE
