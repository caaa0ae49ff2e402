---------------------------- MODULE JobFlowRetry ----------------------------
(***************************************************************************)
(* JobFlow when a file fails signature verification and the sender's       *)
(* controller starts its transfer again: a new reader and a new writer for *)
(* the same file id, hence jobs with the same keys <<id, index>>, while    *)
(* the queue, the cache, lost_confirmations, the datagrams and the         *)
(* confirmations in transit are still those of the attempt before.  Nobody *)
(* waits for the old reader: it may still be at work beside the new one.   *)
(***************************************************************************)
EXTENDS JobFlow

CONSTANT MaxAttempts   \* bound: how often a file is transferred

ASSUME AttemptsAssumption == MaxAttempts \in Nat \ {0}

VARIABLES
    attempt,   \* [Files -> 1..MaxAttempts]
    start,     \* the start index of the current attempt of each file
    old        \* the readers of earlier attempts

attemptVars == <<attempt, start, old>>
retryVars == <<vars, attemptVars>>

(* A reader is its state, the chunk it reads next and where it started.    *)
OldReaders == Files \X (1..MaxAttempts)
NoReader == [reader |-> "none", index |-> 0, start |-> 0]

(* The receiver sends the length of the partial file it finds, which is    *)
(* anything up to the whole file when an earlier run was stopped.          *)
StartIndices ==
    {s \in [Files -> UNION {First[f]..Size[f] : f \in Files}] :
        \A f \in Files : s[f] \in First[f]..Size[f]}

InitRetry ==
    /\ start \in StartIndices
    /\ InitAt(start)
    /\ attempt = [f \in Files |-> 1]
    /\ old = [r \in OldReaders |-> NoReader]

(* The writer of f has written every chunk, the hash of the partial file   *)
(* differs, Failure 0 reaches the sender's controller, and it calls        *)
(* start_file_transfer, whatever the reader it started before is doing.    *)
(* The receiver starts where it did before, or at the beginning (First)    *)
(* when the refused partial file is gone by then.                          *)
Restart(f) ==
    /\ position[f] = Size[f]
    /\ attempt[f] < MaxAttempts
    /\ attempt' = [attempt EXCEPT ![f] = @ + 1]
    /\ old' = [old EXCEPT ![<<f, attempt[f]>>] =
                  [reader |-> reader[f], index |-> index[f], start |-> start[f]]]
    /\ reader' = [reader EXCEPT ![f] = "permit"]
    /\ \E s \in {start[f], First[f]} :
          /\ start' = [start EXCEPT ![f] = s]
          /\ index' = [index EXCEPT ![f] = s]
          /\ position' = [position EXCEPT ![f] = s]
    /\ ahead' = [ahead EXCEPT ![f] = {}]
    /\ UNCHANGED <<read, queue, send, taskVars, cache, lost_confirmations,
                   requeueVars, net, confirmations>>

(* Opening or seeking the source fails where an attempt does not start at  *)
(* First.                                                                  *)
OpenFail(f) ==
    /\ reader[f] = "permit"
    /\ index[f] = start[f]
    /\ reader' = [reader EXCEPT ![f] = "failed"]
    /\ UNCHANGED <<read, index, queue, send, taskVars, cache,
                   lost_confirmations, requeueVars, net, writerVars,
                   confirmations>>

-----------------------------------------------------------------------------
(* The readers of earlier attempts go on like the current one.             *)

OldGoto(r, to) == old' = [old EXCEPT ![r].reader = to]

OldFrame == UNCHANGED <<readVars, send, taskVars, cache, lost_confirmations,
                        requeueVars, net, writerVars, confirmations,
                        attempt, start>>

OldAcquire(r) ==
    /\ old[r].reader = "permit"
    /\ read > 0
    /\ read' = read - 1
    /\ OldGoto(r, "reading")
    /\ UNCHANGED queue
    /\ OldFrame

OldPush(r) ==
    /\ old[r].reader = "reading"
    /\ old[r].index < Size[r[1]]
    /\ queue' = Append(queue, <<r[1], old[r].index>>)
    /\ old' = [old EXCEPT ![r].reader = "permit", ![r].index = @ + 1]
    /\ UNCHANGED read
    /\ OldFrame

OldEof(r) ==
    /\ old[r].reader = "reading"
    /\ old[r].index = Size[r[1]]
    /\ read' = read + 1
    /\ OldGoto(r, "eof")
    /\ UNCHANGED queue
    /\ OldFrame

OldFail(r) ==
    /\ \/ /\ old[r].reader = "permit"
          /\ old[r].index = old[r].start
          /\ UNCHANGED read
       \/ /\ old[r].reader = "reading"
          /\ read' = read + 1
    /\ OldGoto(r, "failed")
    /\ UNCHANGED queue
    /\ OldFrame

OldStep(r) == OldAcquire(r) \/ OldPush(r) \/ OldEof(r) \/ OldFail(r)

NextRetry ==
    \/ Next /\ UNCHANGED attemptVars
    \/ \E f \in Files : \/ Restart(f)
                        \/ OpenFail(f) /\ UNCHANGED attemptVars
    \/ \E r \in OldReaders : OldStep(r)

SpecRetry == InitRetry /\ [][NextRetry]_retryVars

-----------------------------------------------------------------------------
Jobs == Len(queue) + Cardinality({s \in Senders : hand[s] # NoJob})
            + Cardinality(cache)

OldReading == {r \in OldReaders : old[r].reader = "reading"}

(* Even when confirmations of an earlier attempt meet the jobs of a later  *)
(* one, and readers of both attempts fill one queue, no confirmation is    *)
(* paid for twice: free permits, readers that hold one and jobs together   *)
(* never exceed job_limit, so the memory for unconfirmed jobs stays        *)
(* bounded.  (Some may leak: two jobs of one key share one entry of the    *)
(* cache.)                                                                 *)
PermitsBounded ==
    read + Cardinality(Reading) + Cardinality(OldReading) + Jobs <= JobLimit

(* What receive_confirmations says of a job it drops instead of requeueing *)
(* it: "it was confirmed while outside the cache" (sender/mod.rs 392).  A  *)
(* lost confirmation is used up only there; the chunk the running attempt  *)
(* has read must then have reached its writer, or another job holds it.    *)
DroppedWasConfirmed ==
    [][\A k \in lost_confirmations \ lost_confirmations' :
           WasRead(k) => Accepted(k) \/ k \in Outstanding']_retryVars
=============================================================================
