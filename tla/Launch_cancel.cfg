\* Eight ports instead of 2^16; ranges that are empty, too small, too large, and
\* the one that is all ports; no threads, some, and as many as Width.
CONSTANTS
    Ports = {0, 2, 4, 5, 7}
    Threads = {0, 1, 3, 8}
    Width = 8
SPECIFICATION FairSpec
INVARIANTS
    TypeOK
    StreamsPaired
    PortsAgree
PROPERTIES
    OneLeavesAllLeave
    CancelEndsAll
CHECK_DEADLOCK FALSE
