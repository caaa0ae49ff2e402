\* One file of two chunks, two sender tasks, socket errors: every interleaving
\* of sends, confirmations and requeues of two jobs.
CONSTANTS
    Files = {f1}
    First <- FromStart
    Size <- OneFile
    Senders = {s1, s2}
    JobLimit = 2
    MaxRetries = 2
    SendCap = 1
    ConfCap = 2
    NoJob = NoJob
SYMMETRY Symmetry
SPECIFICATION Spec
INVARIANTS
    TypeOK
    Causality
    NoChunkLost
    ConfirmationKept
    OnePlace
    PermitsConserved
PROPERTY DeliverySpec
CHECK_DEADLOCK FALSE
