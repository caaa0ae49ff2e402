\* A failed verification: the retry is given up while it is under way.
CONSTANTS
    Files = {0}
    Max = 1
    Verify = TRUE
    Overwrite = TRUE
    Size = 1
    MaxAttempts = 2
    FaultSets = {{"data"}}
    NoFile = NoFile
SPECIFICATION Spec
INVARIANT DoneLast
CHECK_DEADLOCK FALSE
