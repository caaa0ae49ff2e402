------------------------------ MODULE JobFlow ------------------------------
(***************************************************************************)
(* The data path of one cccp transfer, one attempt per file: reader tasks  *)
(* (sender/reader.rs) fill the job queue under the `read` semaphore,       *)
(* sender tasks (sender/mod.rs) put jobs on the wire and cache them until  *)
(* they are confirmed, the requeue thread puts expired jobs back on the    *)
(* queue, and the writer of each file (receiver/writer.rs) accepts chunks  *)
(* in order, keeps early ones, and confirms what it accepts.               *)
(*                                                                         *)
(* A job is its key <<id, index>>; an index counts chunks, not bytes.  UDP *)
(* may lose, duplicate and reorder datagrams.  The confirmation stream     *)
(* (TCP) loses nothing; batching and grouping by file id only reorder it,  *)
(* so it is a bag.  The queue between a receiver task and its writer only  *)
(* delays, drops or reorders datagrams further and is part of `net` here.  *)
(***************************************************************************)
EXTENDS Naturals, Sequences, FiniteSets

CONSTANTS
    Files,       \* ids of the files being transferred
    First,       \* [Files -> Nat]: the start index the receiver asked for
    Size,        \* [Files -> Nat]: one past the last chunk of the file
    Senders,     \* the sender tasks, one for each UDP socket
    JobLimit,    \* options.job_limit: initial permits of the read semaphore
    MaxRetries,  \* options.max_retries
    SendCap,     \* most permits the rate semaphore holds (1_000 in the code)
    ConfCap,     \* bound: confirmations of one chunk in transit
    NoJob        \* what the hand of a sender holds between two jobs

Key == UNION {{f} \X (First[f]..(Size[f] - 1)) : f \in Files}

ASSUME FilesAssumption ==
    /\ First \in [Files -> Nat]
    /\ Size \in [Files -> Nat]
    /\ \A f \in Files : First[f] <= Size[f]

ASSUME LimitsAssumption ==
    /\ JobLimit \in Nat
    /\ MaxRetries \in Nat
    /\ SendCap \in Nat
    /\ ConfCap \in Nat

ASSUME NoJobAssumption == NoJob \notin Key

VARIABLES
    read,                \* available permits of the read semaphore
    reader,              \* state of the reader task of each file
    index,               \* the chunk each reader reads next
    queue,               \* the job queue (unbounded FIFO channel)
    send,                \* available permits of the rate semaphore
    task,                \* state of each sender task
    hand,                \* the job a sender task took from the queue
    retries,             \* consecutive send errors of each sender task
    cache,               \* jobs sent and not confirmed
    lost_confirmations,  \* confirmations that found no job in the cache
    requeuer,            \* state of the requeue thread
    keys_to_remove,      \* expired keys it collected
    net,                 \* datagrams in flight
    position,            \* the chunk each writer writes next
    ahead,               \* chunks each writer holds out of order
    confirmations        \* how many confirmations of each chunk are in transit

readVars == <<reader, index>>
taskVars == <<task, hand, retries>>
requeueVars == <<requeuer, keys_to_remove>>
writerVars == <<position, ahead>>
vars == <<read, readVars, queue, send, taskVars, cache, lost_confirmations,
          requeueVars, net, writerVars, confirmations>>

(* A sender task goes on while retries < max_retries. *)
LoopHead(r) == IF r < MaxRetries THEN "permit" ELSE "exited"

(* Both sides of every file begin at the start index the receiver sent.    *)
InitAt(start_index) ==
    /\ read = JobLimit
    /\ reader = [f \in Files |-> "permit"]
    /\ index = start_index
    /\ queue = <<>>
    /\ send = 0
    /\ task = [s \in Senders |-> LoopHead(0)]
    /\ hand = [s \in Senders |-> NoJob]
    /\ retries = [s \in Senders |-> 0]
    /\ cache = {}
    /\ lost_confirmations = {}
    /\ requeuer = "idle"
    /\ keys_to_remove = {}
    /\ net = {}
    /\ position = start_index
    /\ ahead = [f \in Files |-> {}]
    /\ confirmations = [k \in Key |-> 0]

Init == InitAt(First)

-----------------------------------------------------------------------------
(* The reader tasks. *)

ReaderAcquire(f) ==
    /\ reader[f] = "permit"
    /\ read > 0
    /\ read' = read - 1
    /\ reader' = [reader EXCEPT ![f] = "reading"]
    /\ UNCHANGED <<index, queue, send, taskVars, cache, lost_confirmations,
                   requeueVars, net, writerVars, confirmations>>

(* A chunk was read: the job is pushed and its permit forgotten. *)
ReaderPush(f) ==
    /\ reader[f] = "reading"
    /\ index[f] < Size[f]
    /\ queue' = Append(queue, <<f, index[f]>>)
    /\ index' = [index EXCEPT ![f] = @ + 1]
    /\ reader' = [reader EXCEPT ![f] = "permit"]
    /\ UNCHANGED <<read, send, taskVars, cache, lost_confirmations,
                   requeueVars, net, writerVars, confirmations>>

(* End of file: the permit is dropped, which returns it. *)
ReaderEof(f) ==
    /\ reader[f] = "reading"
    /\ index[f] = Size[f]
    /\ read' = read + 1
    /\ reader' = [reader EXCEPT ![f] = "eof"]
    /\ UNCHANGED <<index, queue, send, taskVars, cache, lost_confirmations,
                   requeueVars, net, writerVars, confirmations>>

(* Mutant: a reader that fails keeps its permit. *)
ReaderFailKeepsPermit(f) ==
    /\ \/ reader[f] = "permit" /\ index[f] = First[f]
       \/ reader[f] = "reading"
    /\ reader' = [reader EXCEPT ![f] = "failed"]
    /\ UNCHANGED <<read, index, queue, send, taskVars, cache, lost_confirmations,
                   requeueVars, net, writerVars, confirmations>>

(* Opening, seeking or reading the file fails: the error is only logged. *)
ReaderFail(f) ==
    /\ \/ /\ reader[f] = "permit"
          /\ index[f] = First[f]
          /\ UNCHANGED read
       \/ /\ reader[f] = "reading"
          /\ read' = read + 1
    /\ reader' = [reader EXCEPT ![f] = "failed"]
    /\ UNCHANGED <<index, queue, send, taskVars, cache, lost_confirmations,
                   requeueVars, net, writerVars, confirmations>>

-----------------------------------------------------------------------------
(* The sender tasks and the rate semaphore they share. *)

AddPermit ==
    /\ send < SendCap
    /\ send' = send + 1
    /\ UNCHANGED <<read, readVars, queue, taskVars, cache, lost_confirmations,
                   requeueVars, net, writerVars, confirmations>>

(* Mutant: the rate semaphore is not waited for. *)
SenderAcquireUnpaced(s) ==
    /\ task[s] = "permit"
    /\ send' = send - 1
    /\ task' = [task EXCEPT ![s] = "recv"]
    /\ UNCHANGED <<read, readVars, queue, hand, retries, cache,
                   lost_confirmations, requeueVars, net, writerVars,
                   confirmations>>

SenderAcquire(s) ==
    /\ task[s] = "permit"
    /\ send > 0
    /\ send' = send - 1
    /\ task' = [task EXCEPT ![s] = "recv"]
    /\ UNCHANGED <<read, readVars, queue, hand, retries, cache,
                   lost_confirmations, requeueVars, net, writerVars,
                   confirmations>>

SenderRecv(s) ==
    /\ task[s] = "recv"
    /\ queue # <<>>
    /\ hand' = [hand EXCEPT ![s] = Head(queue)]
    /\ queue' = Tail(queue)
    /\ task' = [task EXCEPT ![s] = "send"]
    /\ UNCHANGED <<read, readVars, send, retries, cache, lost_confirmations,
                   requeueVars, net, writerVars, confirmations>>

(* The datagram leaves before its job is in the cache. *)
SendOk(s) ==
    /\ task[s] = "send"
    /\ net' = net \cup {hand[s]}
    /\ task' = [task EXCEPT ![s] = "cache"]
    /\ UNCHANGED <<read, readVars, queue, send, hand, retries, cache,
                   lost_confirmations, requeueVars, writerVars, confirmations>>

(* The write lock of the cache is free unless the requeue thread holds it. *)
CacheJob(s) ==
    /\ task[s] = "cache"
    /\ requeuer # "locked"
    /\ cache' = cache \cup {hand[s]}
    /\ hand' = [hand EXCEPT ![s] = NoJob]
    /\ retries' = [retries EXCEPT ![s] = 0]
    /\ task' = [task EXCEPT ![s] = LoopHead(0)]
    /\ UNCHANGED <<read, readVars, queue, send, lost_confirmations,
                   requeueVars, net, writerVars, confirmations>>

(* Mutant: the job is not put back in the queue. *)
SendErrorDrops(s) ==
    /\ task[s] = "send"
    /\ hand' = [hand EXCEPT ![s] = NoJob]
    /\ retries' = [retries EXCEPT ![s] = @ + 1]
    /\ task' = [task EXCEPT ![s] = LoopHead(retries[s] + 1)]
    /\ UNCHANGED <<read, readVars, queue, send, cache, lost_confirmations,
                   requeueVars, net, writerVars, confirmations>>

(* The socket refuses the datagram: the job goes back to the queue. *)
SendError(s) ==
    /\ task[s] = "send"
    /\ queue' = Append(queue, hand[s])
    /\ hand' = [hand EXCEPT ![s] = NoJob]
    /\ retries' = [retries EXCEPT ![s] = @ + 1]
    /\ task' = [task EXCEPT ![s] = LoopHead(retries[s] + 1)]
    /\ UNCHANGED <<read, readVars, send, cache, lost_confirmations,
                   requeueVars, net, writerVars, confirmations>>

-----------------------------------------------------------------------------
(* The requeue thread: it collects the expired keys under the read lock,   *)
(* lets go of it, takes both write locks and then handles key after key.   *)
(* Any cached job may have been there for longer than requeue_interval.    *)

RequeueScan(K) ==
    /\ requeuer = "idle"
    /\ K # {}
    /\ keys_to_remove' = K
    /\ requeuer' = "scanned"
    /\ UNCHANGED <<read, readVars, queue, send, taskVars, cache,
                   lost_confirmations, net, writerVars, confirmations>>

RequeueLock ==
    /\ requeuer = "scanned"
    /\ requeuer' = "locked"
    /\ UNCHANGED <<read, readVars, queue, send, taskVars, cache,
                   lost_confirmations, keys_to_remove, net, writerVars,
                   confirmations>>

(* The key was confirmed since the scan and has left the cache. *)
RequeueGone(k) ==
    /\ k \notin cache
    /\ UNCHANGED <<read, queue, cache, lost_confirmations>>

(* Mutant: the read permit of the job is not returned. *)
RequeueConfirmedKeepsPermit(k) ==
    /\ k \in cache \cap lost_confirmations
    /\ cache' = cache \ {k}
    /\ lost_confirmations' = lost_confirmations \ {k}
    /\ UNCHANGED <<queue, read>>

(* The job was confirmed while it was outside the cache. *)
RequeueConfirmed(k) ==
    /\ k \in cache \cap lost_confirmations
    /\ cache' = cache \ {k}
    /\ lost_confirmations' = lost_confirmations \ {k}
    /\ read' = read + 1
    /\ UNCHANGED queue

(* Mutant: the job is requeued and stays in the cache. *)
RequeueJobCopies(k) ==
    /\ k \in cache \ lost_confirmations
    /\ queue' = Append(queue, k)
    /\ UNCHANGED <<cache, read, lost_confirmations>>

(* Mutant: the job leaves the cache and is not requeued. *)
RequeueJobDrops(k) ==
    /\ k \in cache \ lost_confirmations
    /\ cache' = cache \ {k}
    /\ UNCHANGED <<queue, read, lost_confirmations>>

RequeueJob(k) ==
    /\ k \in cache \ lost_confirmations
    /\ cache' = cache \ {k}
    /\ queue' = Append(queue, k)
    /\ UNCHANGED <<read, lost_confirmations>>

RequeueKey(k) ==
    /\ requeuer = "locked"
    /\ k \in keys_to_remove
    /\ RequeueGone(k) \/ RequeueConfirmed(k) \/ RequeueJob(k)
    /\ keys_to_remove' = keys_to_remove \ {k}
    /\ requeuer' = IF keys_to_remove = {k} THEN "idle" ELSE "locked"
    /\ UNCHANGED <<readVars, send, taskVars, net, writerVars, confirmations>>

(* Mutant: a confirmation that finds no job in the cache is forgotten. *)
ConfirmForgets(k) ==
    /\ confirmations[k] > 0
    /\ requeuer # "locked"
    /\ confirmations' = [confirmations EXCEPT ![k] = @ - 1]
    /\ IF k \in cache
       THEN cache' = cache \ {k} /\ read' = read + 1
       ELSE UNCHANGED <<cache, read>>
    /\ UNCHANGED <<readVars, queue, send, taskVars, lost_confirmations,
                   requeueVars, net, writerVars>>

(* Mutant: every confirmation returns a permit. *)
ConfirmPaysTwice(k) ==
    /\ confirmations[k] > 0
    /\ requeuer # "locked"
    /\ confirmations' = [confirmations EXCEPT ![k] = @ - 1]
    /\ read' = read + 1
    /\ IF k \in cache
       THEN cache' = cache \ {k} /\ UNCHANGED lost_confirmations
       ELSE /\ lost_confirmations' = lost_confirmations \cup {k}
            /\ UNCHANGED cache
    /\ UNCHANGED <<readVars, queue, send, taskVars, requeueVars, net,
                   writerVars>>

(* A confirmation from the receiver, under both write locks. *)
Confirm(k) ==
    /\ confirmations[k] > 0
    /\ requeuer # "locked"
    /\ confirmations' = [confirmations EXCEPT ![k] = @ - 1]
    /\ IF k \in cache
       THEN /\ cache' = cache \ {k}
            /\ read' = read + 1
            /\ UNCHANGED lost_confirmations
       ELSE /\ lost_confirmations' = lost_confirmations \cup {k}
            /\ UNCHANGED <<cache, read>>
    /\ UNCHANGED <<readVars, queue, send, taskVars, requeueVars, net,
                   writerVars>>

-----------------------------------------------------------------------------
(* The network, and the writer of each file. *)

Lose(k) ==
    /\ k \in net
    /\ net' = net \ {k}
    /\ UNCHANGED <<read, readVars, queue, send, taskVars, cache,
                   lost_confirmations, requeueVars, writerVars, confirmations>>

(* A chunk behind the position was written before: no confirmation. *)
WriterSkip(k) ==
    /\ k[2] < position[k[1]]
    /\ UNCHANGED <<position, ahead, confirmations>>

(* Mutant: a chunk ahead of the position is confirmed and not kept. *)
WriterKeepForgets(k) ==
    /\ k[2] > position[k[1]]
    /\ confirmations[k] < ConfCap
    /\ confirmations' = [confirmations EXCEPT ![k] = @ + 1]
    /\ UNCHANGED <<position, ahead>>

(* Mutant: a chunk ahead of the position is written where the file ends. *)
WriterKeepWrites(k) ==
    /\ k[2] > position[k[1]]
    /\ confirmations[k] < ConfCap
    /\ confirmations' = [confirmations EXCEPT ![k] = @ + 1]
    /\ position' = [position EXCEPT ![k[1]] = k[2] + 1]
    /\ UNCHANGED ahead

(* A chunk ahead of the position is confirmed and kept for later. *)
WriterKeep(k) ==
    /\ k[2] > position[k[1]]
    /\ confirmations[k] < ConfCap
    /\ confirmations' = [confirmations EXCEPT ![k] = @ + 1]
    /\ ahead' = [ahead EXCEPT ![k[1]] = @ \cup {k[2]}]
    /\ UNCHANGED position

WriterWrite(k) ==
    /\ k[2] = position[k[1]]
    /\ confirmations[k] < ConfCap
    /\ confirmations' = [confirmations EXCEPT ![k] = @ + 1]
    /\ position' = [position EXCEPT ![k[1]] = @ + 1]
    /\ UNCHANGED ahead

(* The writer of a file receives a chunk, unless it has written them all   *)
(* (its queue is gone) or is still writing out chunks it kept.             *)
WriterRecv(k) ==
    /\ k \in net
    /\ net' \in {net, net \ {k}}   \* UDP may deliver it again
    /\ position[k[1]] # Size[k[1]]
    /\ position[k[1]] \notin ahead[k[1]]
    /\ WriterSkip(k) \/ WriterKeep(k) \/ WriterWrite(k)
    /\ UNCHANGED <<read, readVars, queue, send, taskVars, cache,
                   lost_confirmations, requeueVars>>

(* One pass of the loop that writes concurrent chunks from the cache; the  *)
(* writer receives nothing before the loop has ended.                      *)
WriterDrain(f) ==
    /\ position[f] \in ahead[f]
    /\ ahead' = [ahead EXCEPT ![f] = @ \ {position[f]}]
    /\ position' = [position EXCEPT ![f] = @ + 1]
    /\ UNCHANGED <<read, readVars, queue, send, taskVars, cache,
                   lost_confirmations, requeueVars, net, confirmations>>

-----------------------------------------------------------------------------
ReaderStep(f) ==
    ReaderAcquire(f) \/ ReaderPush(f) \/ ReaderEof(f) \/ ReaderFail(f)

SenderStep(s) ==
    SenderAcquire(s) \/ SenderRecv(s) \/ SendOk(s) \/ CacheJob(s) \/ SendError(s)

Next ==
    \/ \E f \in Files : ReaderStep(f) \/ WriterDrain(f)
    \/ AddPermit
    \/ \E s \in Senders : SenderStep(s)
    \/ \E K \in SUBSET cache : RequeueScan(K)
    \/ RequeueLock
    \/ \E k \in Key : RequeueKey(k) \/ Confirm(k) \/ Lose(k) \/ WriterRecv(k)

Spec == Init /\ [][Next]_vars

(* Semaphores and locks of tokio are first come, first served, so a task   *)
(* that keeps asking gets one (SF); every other step of a task is only     *)
(* assumed to happen when it stays possible (WF).  The network delivers a  *)
(* datagram that is sent again and again.  Faults are never fair.          *)
SendingFairness ==
    /\ \A f \in Files : /\ SF_vars(ReaderAcquire(f))
                        /\ WF_vars(ReaderPush(f) \/ ReaderEof(f))
    /\ WF_vars(AddPermit)
    /\ \A s \in Senders : /\ SF_vars(SenderAcquire(s))
                          /\ SF_vars(SenderRecv(s))
                          /\ WF_vars(SendOk(s) \/ SendError(s))
                          /\ SF_vars(CacheJob(s))
    /\ WF_vars(RequeueLock)
    /\ WF_vars(\E k \in Key : RequeueKey(k))
    /\ SF_vars(\E k \in Key : Confirm(k))
    /\ \A k \in Key : SF_vars(\E K \in SUBSET cache :
                                  k \in K /\ RequeueScan(K))

Fairness ==
    /\ SendingFairness
    /\ \A f \in Files : WF_vars(WriterDrain(f))
    /\ \A k \in Key : SF_vars(WriterRecv(k))

FairSpec == Spec /\ Fairness

-----------------------------------------------------------------------------
(* Properties. *)

InHand == {hand[s] : s \in Senders} \ {NoJob}
InQueue == {queue[i] : i \in DOMAIN queue}

(* Jobs the sending host still answers for. *)
Outstanding == InQueue \cup InHand \cup cache

Reading == {f \in Files : reader[f] = "reading"}

WasRead(k) == k[2] < index[k[1]]

(* The writer has written the chunk, or holds it to write it later. *)
Accepted(k) == k[2] < position[k[1]] \/ k[2] \in ahead[k[1]]

(* Every variable has its type. *)
TypeOK ==
    /\ read \in Nat
    /\ reader \in [Files -> {"permit", "reading", "eof", "failed"}]
    /\ index \in [Files -> Nat]
    /\ \A f \in Files : First[f] <= index[f]
    /\ queue \in Seq(Key)
    /\ send \in Nat
    /\ task \in [Senders -> {"permit", "recv", "send", "cache", "exited"}]
    /\ hand \in [Senders -> Key \cup {NoJob}]
    /\ \A s \in Senders : hand[s] # NoJob <=> task[s] \in {"send", "cache"}
    /\ retries \in [Senders -> Nat]
    /\ cache \in SUBSET Key
    /\ lost_confirmations \in SUBSET Key
    /\ requeuer \in {"idle", "scanned", "locked"}
    /\ keys_to_remove \in SUBSET Key
    /\ net \in SUBSET Key
    /\ position \in [Files -> Nat]
    /\ ahead \in [Files -> SUBSET Nat]
    /\ confirmations \in [Key -> Nat]

(* Nothing is confirmed that the writer has not accepted, and nothing is   *)
(* queued, sent or written that was not read: whatever the sending host    *)
(* learns of a chunk, through a confirmation or lost_confirmations, has    *)
(* happened at the writer.                                                 *)
Causality ==
    /\ \A f \in Files :
          /\ First[f] <= position[f]
          /\ position[f] <= index[f]
          /\ index[f] <= Size[f]
          /\ \A i \in ahead[f] : position[f] <= i /\ i < index[f]
    /\ \A k \in Outstanding \cup net : WasRead(k)
    /\ \A k \in Key :
          confirmations[k] > 0 \/ k \in lost_confirmations => Accepted(k)

(* No chunk is lost: whatever the network, a failing socket or the order   *)
(* of confirmations and requeues does, a chunk that was read is either     *)
(* held by the sending host, to be sent again, or accepted by the writer.  *)
(* (sender 173-209, receive_confirmations 350-431)                         *)
NoChunkLost ==
    \A k \in Key : WasRead(k) => k \in Outstanding \/ Accepted(k)

(* A job never leaves the sending host unconfirmed for good: the writer    *)
(* never confirms a chunk behind its position again (writer.rs 108), so an *)
(* accepted job that is still outstanding must have its confirmation on    *)
(* the way or noted in lost_confirmations; otherwise it would be sent      *)
(* again forever and its read permit would never come back.                *)
ConfirmationKept ==
    \A k \in Outstanding :
        Accepted(k) => confirmations[k] > 0 \/ k \in lost_confirmations

(* A job is in one place at a time: once in the queue, or in the hands of  *)
(* one sender task, or in the cache.  The cache is a map from key to job,  *)
(* so a second job of the same key would overwrite the first and its       *)
(* permit would be gone.                                                   *)
OnePlace ==
    /\ \A i, j \in DOMAIN queue : queue[i] = queue[j] => i = j
    /\ \A s, t \in Senders : hand[s] = hand[t] /\ hand[s] # NoJob => s = t
    /\ InQueue \cap InHand = {}
    /\ InQueue \cap cache = {}
    /\ InHand \cap cache = {}

(* Read permits are conserved: job_limit of them are free, held by a       *)
(* reader, or forgotten on behalf of one outstanding job each.  So no more *)
(* than job_limit jobs are ever in memory and none of the permits leaks.   *)
PermitsConserved ==
    read + Cardinality(Reading) + Cardinality(Outstanding) = JobLimit

(* The data path implements the abstract chunk delivery. *)
D == INSTANCE Delivery WITH Files <- Files, First <- First, Size <- Size,
                            index <- index, position <- position
DeliverySpec == D!Spec

Healthy ==
    /\ \A s \in Senders : task[s] # "exited"
    /\ \A f \in Files : reader[f] # "failed"

(* With no failing reader and no sender task out of retries, and a network *)
(* that now and then delivers, every file is delivered to its end.         *)
Delivered == []Healthy => <>D!Complete

(* ... and every read permit comes back: no job lingers after its chunk    *)
(* was written, whichever confirmations crossed a requeue.                 *)
PermitsReturn == []Healthy => <>[](read = JobLimit)

=============================================================================
