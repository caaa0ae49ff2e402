\* One file of two chunks and one sender task: the instance on which liveness
\* is affordable, with chunks still written and confirmed out of order.
CONSTANTS
    Files = {f1}
    First <- FromStart
    Size <- OneFile
    Senders = {s1}
    JobLimit = 2
    MaxRetries = 1
    SendCap = 1
    ConfCap = 1
    NoJob = NoJob
SPECIFICATION FairSpec
PROPERTIES
    Delivered
    PermitsReturn
CHECK_DEADLOCK FALSE
