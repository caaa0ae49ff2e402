------------------------------ MODULE Receive ------------------------------
(***************************************************************************)
(* How datagrams reach the writers (receiver/mod.rs receiver, receiver/    *)
(* writer.rs SplitQueue): one receiver task for each UDP socket puts every *)
(* job on the bounded channel of its file, and waits while that is full.   *)
(* The two ends of the channel of a file are kept in two maps under two    *)
(* locks; the controller puts them in, the writer takes its end out of one *)
(* and, when it has all data, removes both.                                *)
(*                                                                         *)
(* Datagrams of any file may arrive at any time, so the network is not     *)
(* part of the state.  A channel is named by its file and the attempt it   *)
(* was made for, and holds a number of jobs.                               *)
(***************************************************************************)
EXTENDS Naturals

CONSTANTS
    Files,        \* ids of the files
    Receivers,    \* the receiver tasks, one for each UDP socket
    Capacity,     \* jobs a channel holds (1_000 in the code)
    MaxRetries,   \* options.max_retries
    MaxAttempts   \* bound: transfers of one file

ASSUME ReceiveAssumption ==
    /\ Capacity \in Nat \ {0}
    /\ MaxRetries \in Nat
    /\ MaxAttempts \in Nat \ {0}

Channels == Files \X (1..MaxAttempts)

VARIABLES
    task,        \* each receiver task: recv, send, exited
    target,      \* the channel whose sender it cloned, while in send
    retries,     \* receive errors and timeouts in a row
    senders,     \* SplitQueue.senders: the attempt whose channel is in it, or 0
    receivers,   \* SplitQueue.receivers: likewise
    jobs,        \* jobs in each channel
    writer,      \* the writer of each channel: none, open, loop, pop, popped,
                 \* over, failed
    controller,  \* a channel push_queue is halfway through, or none
    made,        \* how many channels were made for each file
    again        \* files whose transfer is to be started again

vars == <<task, target, retries, senders, receivers, jobs, writer, controller,
          made, again>>

None == <<>>

LoopHead(r) == IF r < MaxRetries THEN "recv" ELSE "exited"

Init ==
    /\ task = [r \in Receivers |-> LoopHead(0)]
    /\ target = [r \in Receivers |-> None]
    /\ retries = [r \in Receivers |-> 0]
    /\ senders = [f \in Files |-> 0]
    /\ receivers = [f \in Files |-> 0]
    /\ jobs = [c \in Channels |-> 0]
    /\ writer = [c \in Channels |-> "none"]
    /\ controller = None
    /\ made = [f \in Files |-> 0]
    /\ again = Files

(* The writer holds its own clone of the receiving end. *)
Holds(c) == writer[c] \in {"loop", "pop", "popped"}

(* A channel is closed once no receiving end is left. *)
Closed(c) == receivers[c[1]] # c[2] /\ ~Holds(c)

-----------------------------------------------------------------------------
(* The receiver tasks. *)

taskFrame == <<senders, receivers, writer, controller, made, again>>

(* A datagram of f: the sending end is cloned, or there is no queue for f. *)
Recv(r, f) ==
    /\ task[r] = "recv"
    /\ retries' = [retries EXCEPT ![r] = 0]
    /\ IF senders[f] = 0
       THEN task' = [task EXCEPT ![r] = LoopHead(0)] /\ UNCHANGED target
       ELSE /\ task' = [task EXCEPT ![r] = "send"]
            /\ target' = [target EXCEPT ![r] = <<f, senders[f]>>]
    /\ UNCHANGED <<jobs, taskFrame>>

(* Mutant: the channel is not bounded. *)
SendJobUnbounded(r) ==
    /\ task[r] = "send"
    /\ LET c == target[r]
       IN  IF Closed(c)
           THEN UNCHANGED jobs
           ELSE jobs[c] <= Capacity /\ jobs' = [jobs EXCEPT ![c] = @ + 1]
    /\ task' = [task EXCEPT ![r] = LoopHead(0)]
    /\ target' = [target EXCEPT ![r] = None]
    /\ UNCHANGED <<retries, taskFrame>>

(* The job is on the channel, or the channel is closed and the job dropped. *)
SendJob(r) ==
    /\ task[r] = "send"
    /\ LET c == target[r]
       IN  IF Closed(c)
           THEN UNCHANGED jobs
           ELSE jobs[c] < Capacity /\ jobs' = [jobs EXCEPT ![c] = @ + 1]
    /\ task' = [task EXCEPT ![r] = LoopHead(0)]
    /\ target' = [target EXCEPT ![r] = None]
    /\ UNCHANGED <<retries, taskFrame>>

(* A receive error, or nothing received within receive_timeout. *)
RecvError(r) ==
    /\ task[r] = "recv"
    /\ retries' = [retries EXCEPT ![r] = @ + 1]
    /\ task' = [task EXCEPT ![r] = LoopHead(retries[r] + 1)]
    /\ UNCHANGED <<target, jobs, taskFrame>>

-----------------------------------------------------------------------------
(* The controller: a Start for f makes a channel and spawns a writer.      *)

PushReceiver(f) ==
    /\ controller = None
    /\ f \in again /\ made[f] < MaxAttempts
    /\ again' = again \ {f}
    /\ made' = [made EXCEPT ![f] = @ + 1]
    /\ receivers' = [receivers EXCEPT ![f] = made'[f]]
    /\ controller' = <<f, made'[f]>>
    /\ UNCHANGED <<task, target, retries, senders, jobs, writer>>

PushSender ==
    /\ controller # None
    /\ senders' = [senders EXCEPT ![controller[1]] = controller[2]]
    /\ writer' = [writer EXCEPT ![controller] = "open"]
    /\ controller' = None
    /\ UNCHANGED <<task, target, retries, receivers, jobs, made, again>>

-----------------------------------------------------------------------------
(* The writer of a channel. *)

writerFrame == <<task, target, retries, controller, made>>

At(c, phase) == writer[c] = phase
Goto(c, phase) == writer' = [writer EXCEPT ![c] = phase]

(* The file is open; get_receiver, which must find the queue. *)
GetReceiver(c) ==
    /\ At(c, "open")
    /\ Goto(c, IF receivers[c[1]] = 0 THEN "failed" ELSE "loop")
    /\ UNCHANGED <<senders, receivers, jobs, again, writerFrame>>

Take(c) ==
    /\ At(c, "loop")
    /\ jobs[c] > 0
    /\ jobs' = [jobs EXCEPT ![c] = @ - 1]
    /\ UNCHANGED <<senders, receivers, writer, again, writerFrame>>

(* Mutant: the receiving end stays in its map. *)
PopNothing(c) ==
    /\ At(c, "loop")
    /\ Goto(c, "pop")
    /\ UNCHANGED <<senders, receivers, jobs, again, writerFrame>>

(* All bytes are written: pop_queue, first one map and then the other. *)
PopReceiver(c) ==
    /\ At(c, "loop")
    /\ receivers' = [receivers EXCEPT ![c[1]] = 0]
    /\ Goto(c, "pop")
    /\ UNCHANGED <<senders, jobs, again, writerFrame>>

(* Then the signature is compared; if it differs, Failure 0 has the        *)
(* transfer started again while this writer removes the partial file.      *)
PopSender(c) ==
    /\ At(c, "pop")
    /\ senders' = [senders EXCEPT ![c[1]] = 0]
    /\ Goto(c, "popped")
    /\ again' \in {again, again \cup {c[1]}}
    /\ UNCHANGED <<receivers, jobs, writerFrame>>

(* Mutant: the queue is popped when the writer returns. *)
WriterReturnPops(c) ==
    /\ At(c, "popped")
    /\ Goto(c, "over")
    /\ jobs' = [jobs EXCEPT ![c] = 0]
    /\ senders' = [senders EXCEPT ![c[1]] = 0]
    /\ receivers' = [receivers EXCEPT ![c[1]] = 0]
    /\ UNCHANGED <<again, writerFrame>>

(* The writer returns and drops its receiving end; a channel without one   *)
(* drops its jobs.                                                         *)
WriterReturn(c) ==
    /\ At(c, "popped")
    /\ Goto(c, "over")
    /\ jobs' = [jobs EXCEPT ![c] = 0]
    /\ UNCHANGED <<senders, receivers, again, writerFrame>>

(* An I/O error ends the writer.  Its queue stays where it is. *)
WriterFail(c) ==
    /\ At(c, "open") \/ At(c, "loop")
    /\ Goto(c, "failed")
    /\ UNCHANGED <<senders, receivers, jobs, again, writerFrame>>

-----------------------------------------------------------------------------
TaskStep(r) == SendJob(r) \/ RecvError(r) \/ \E f \in Files : Recv(r, f)

WriterStep(c) ==
    GetReceiver(c) \/ Take(c) \/ PopReceiver(c) \/ PopSender(c) \/ WriterReturn(c)

Next ==
    \/ \E r \in Receivers : TaskStep(r)
    \/ PushSender \/ \E f \in Files : PushReceiver(f)
    \/ \E c \in Channels : WriterStep(c) \/ WriterFail(c)

Spec == Init /\ [][Next]_vars

(* kanal serves waiting senders in turn (SF).  A writer takes jobs until   *)
(* it has all bytes (JobFlow: Delivered), and gets on.                     *)
FairSpec ==
    /\ Spec
    /\ \A r \in Receivers : SF_vars(SendJob(r))
    /\ WF_vars(PushSender)
    /\ \A c \in Channels : WF_vars(WriterStep(c))

-----------------------------------------------------------------------------
(* Properties. *)

(* Every variable has its type. *)
TypeOK ==
    /\ task \in [Receivers -> {"recv", "send", "exited"}]
    /\ target \in [Receivers -> Channels \cup {None}]
    /\ retries \in [Receivers -> 0..MaxRetries]
    /\ senders \in [Files -> 0..MaxAttempts]
    /\ receivers \in [Files -> 0..MaxAttempts]
    /\ jobs \in [Channels -> 0..Capacity]
    /\ writer \in [Channels -> {"none", "open", "loop", "pop", "popped", "over",
                                "failed"}]
    /\ controller \in Channels \cup {None}
    /\ made \in [Files -> 0..MaxAttempts]
    /\ again \subseteq Files

(* Someone has, or can get, a sending end of the channel. *)
Reachable(c) == senders[c[1]] = c[2] \/ \E r \in Receivers : target[r] = c

(* A writer that is done leaves no open channel behind, whoever took a     *)
(* sending end before the two maps were cleared and however the queue of   *)
(* the next attempt came into them: a channel that someone can send to is  *)
(* closed, or its writer is still to return.  A writer that fails is the   *)
(* exception: its channel stays in both maps, open, and nobody reads it.   *)
OpenHasWriter ==
    \A c \in Channels : Reachable(c) /\ ~Closed(c) =>
        writer[c] \in {"open", "loop", "pop", "popped", "failed"}

(* The writer that is spawned for a Start finds the queue that was made    *)
(* for it, even while the writer of an earlier attempt still removes its   *)
(* own.                                                                    *)
OwnQueue ==
    \A c \in Channels : writer[c] \in {"open", "loop"} =>
        receivers[c[1]] = c[2] /\ senders[c[1]] = c[2]

(* A receiver task always gets back to its socket from the queue of a      *)
(* writer that does not fail: the queue is emptied, or closed when its     *)
(* writer is done with it, also while other tasks fill it again and other  *)
(* writers fail.  (The queue of a writer that fails is never popped: it    *)
(* fills up, and every task that has a job for it blocks for good, though  *)
(* receiver/mod.rs 262 takes such a job for one to be dropped.)            *)
BackToSocket ==
    \A r \in Receivers, c \in Channels :
        LET waits == task[r] = "send" /\ target[r] = c
        IN  [](writer[c] # "failed") => (waits ~> ~waits)
=============================================================================
