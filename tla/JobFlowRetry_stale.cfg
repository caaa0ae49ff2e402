\* A confirmation noted in one attempt makes the next one drop a job.
CONSTANTS
    Files = {f1}
    First <- FromStart
    Size <- OneFile
    Senders = {s1}
    JobLimit = 2
    MaxRetries = 2
    SendCap = 1
    ConfCap = 2
    NoJob = NoJob
    MaxAttempts = 2
SPECIFICATION SpecRetry
PROPERTY DroppedWasConfirmed
CHECK_DEADLOCK FALSE
