\* Two files at a time whose data may arrive wrong: verification fails, partial
\* files are removed and transfers retried, while writers fail for other reasons.
CONSTANTS
    Files = {0, 1}
    Max = 2
    Verify = TRUE
    Overwrite = TRUE
    Size = 1
    MaxAttempts = 2
    FaultSets = {{"data"}}
    NoFile = NoFile
SPECIFICATION Spec
INVARIANTS
    CipherLockstep
    RetriedWasRefuted
    StoredIsRight
PROPERTY BatchSpec
CHECK_DEADLOCK FALSE
