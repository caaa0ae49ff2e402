--------------------------- MODULE JobFlowFaults ---------------------------
(***************************************************************************)
(* JobFlow when the writer of one file ends early while other files are    *)
(* under way.  The sending host does not notice: the reader of the file    *)
(* reads on, its jobs are sent, requeued and sent again for good, and each *)
(* keeps a read permit, of which all files share job_limit.  On the        *)
(* receiving host a writer that is done has removed its queue, but one     *)
(* that failed leaves it where the receiver tasks find it: the queue       *)
(* fills, and a receiver task that offers it one job more waits for good.  *)
(***************************************************************************)
EXTENDS JobFlow

CONSTANTS
    QueueCap,   \* jobs a writer's queue holds (1_000 in the code)
    Faulty      \* bound: the files whose writer may end early

ASSUME FaultsAssumption == QueueCap \in Nat /\ Faulty \subseteq Files

VARIABLES
    done,     \* files whose writer is done although the reader reads on
    failed,   \* files whose writer failed
    stuck,    \* jobs in the queue of each failed writer
    blocked   \* receiver tasks that wait for room in one of these queues

endVars == <<done, failed, stuck, blocked>>
faultVars == <<vars, endVars>>

InitFaults ==
    /\ Init
    /\ done = {}
    /\ failed = {}
    /\ stuck = [f \in Files |-> 0]
    /\ blocked = {}

Ended == done \cup failed

(* The source has grown since the manifest was built: the writer of f has  *)
(* details.size bytes and removes its queue; jobs still to come find none. *)
WriterDone(f) ==
    /\ f \notin Ended
    /\ position[f] # Size[f]
    /\ done' = done \cup {f}
    /\ UNCHANGED <<vars, failed, stuck, blocked>>

(* Opening, writing or flushing fails: the writer returns before pop_queue *)
(* and both maps keep its queue.                                           *)
WriterFails(f) ==
    /\ f \notin Ended
    /\ failed' = failed \cup {f}
    /\ UNCHANGED <<vars, done, stuck, blocked>>

(* The receiver task of socket s puts a job into the queue of a failed     *)
(* writer, where it stays, or waits there for room, without a timeout.     *)
RecvForFailed(k, s) ==
    /\ k \in net
    /\ net' \in {net, net \ {k}}
    /\ k[1] \in failed
    /\ s \notin blocked
    /\ IF stuck[k[1]] < QueueCap
       THEN stuck' = [stuck EXCEPT ![k[1]] = @ + 1] /\ UNCHANGED blocked
       ELSE blocked' = blocked \cup {s} /\ UNCHANGED stuck
    /\ UNCHANGED <<read, readVars, queue, send, taskVars, cache,
                   lost_confirmations, requeueVars, writerVars, confirmations,
                   done, failed>>

(* Steps of the sending host and the network, as in JobFlow. *)
SendingStep ==
    \/ \E f \in Files : ReaderStep(f)
    \/ AddPermit
    \/ \E s \in Senders : SenderStep(s)
    \/ \E K \in SUBSET cache : RequeueScan(K)
    \/ RequeueLock
    \/ \E k \in Key : RequeueKey(k) \/ Confirm(k) \/ Lose(k)

(* A receiver task that is not blocked takes a datagram off its socket.    *)
RecvUnlessBlocked(k) ==
    k[1] \notin Ended /\ blocked # Senders /\ WriterRecv(k)

DrainUnlessEnded(f) == f \notin Ended /\ WriterDrain(f)

NextFaults ==
    \/ /\ \/ SendingStep
          \/ \E f \in Files : DrainUnlessEnded(f)
          \/ \E k \in Key : RecvUnlessBlocked(k)
       /\ UNCHANGED endVars
    \/ \E f \in Faulty : WriterDone(f) \/ WriterFails(f)
    \/ \E k \in Key, s \in Senders : RecvForFailed(k, s)

(* The network delivers a datagram that is sent again and again only as    *)
(* long as a receiver task is left to read a socket.                       *)
FairSpecFaults ==
    /\ InitFaults /\ [][NextFaults]_faultVars
    /\ SendingFairness
    /\ \A f \in Files : WF_vars(DrainUnlessEnded(f))
    /\ \A k \in Key : SF_vars(RecvUnlessBlocked(k))

-----------------------------------------------------------------------------
(* Unconfirmed jobs of files whose writer has ended. *)
Stranded == {k \in Outstanding : k[1] \in Ended}

(* The sender tasks and the reader of f go on, and the jobs of other files *)
(* leave it a read permit.                                                 *)
Untouched(f) ==
    /\ \A s \in Senders : task[s] # "exited"
    /\ reader[f] # "failed"
    /\ Cardinality(Stranded) < JobLimit

(* One file that goes wrong takes another with it in two ways only: its    *)
(* jobs hold every read permit (reader.rs 42), or the queue its failed     *)
(* writer left behind has filled and every receiver task waits for room in *)
(* it (writer.rs 42-50, receiver/mod.rs 261).  Otherwise a file whose      *)
(* writer does not end early and whose reader does not fail is delivered.  *)
OthersDelivered ==
    \A f \in Files \ Faulty :
        []Untouched(f) => <>(position[f] = Size[f] \/ blocked = Senders)
=============================================================================
