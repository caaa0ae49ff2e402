\* A one-chunk file transferred three times, two permits and one sender task: jobs
\* and readers of several attempts are at work together, and an old reader has
\* chunks left to read.
CONSTANTS
    Files = {f1}
    First <- FromStart
    Size <- OneFile
    Senders = {s1}
    JobLimit = 2
    MaxRetries = 2
    SendCap = 1
    ConfCap = 2
    NoJob = NoJob
    MaxAttempts = 3
SPECIFICATION SpecRetry
INVARIANT PermitsBounded
CHECK_DEADLOCK FALSE
