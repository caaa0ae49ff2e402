\* Two files of one chunk and two permits: the jobs of one file that goes wrong
\* take half of them, and one of its jobs fills the queue its failed writer leaves.
CONSTANTS
    Files = {f1, f2}
    First <- FromStart
    Size <- OneChunk
    Senders = {s1}
    JobLimit = 2
    MaxRetries = 1
    SendCap = 1
    ConfCap = 1
    NoJob = NoJob
    QueueCap = 1
    Faulty = {f2}
SPECIFICATION FairSpecFaults
PROPERTIES
    OthersDelivered
CHECK_DEADLOCK FALSE
