------------------------------ MODULE Session ------------------------------
(***************************************************************************)
(* One transfer of cccp as its two hosts negotiate it: the handshake, the  *)
(* controllers that start, retry, drop and end files, the writer task of   *)
(* each attempt with the partial file it works on, and how both main       *)
(* functions pick their result from their tasks.                           *)
(*                                                                         *)
(* The sending and the receiving host share two TCP streams.  str carries  *)
(* requests of the sender and replies of the receiver; each end runs ONE   *)
(* cipher over what it writes and what it reads.  rts carries End and      *)
(* Failure (and the confirmations, see JobFlow) to the sender.  A file is  *)
(* its id; lengths and indexes count chunks; the data of an attempt is     *)
(* written in one step (JobFlow shows the steps).                          *)
(***************************************************************************)
EXTENDS Naturals, Sequences, FiniteSets

CONSTANTS
    Files,        \* the ids the manifest may hold
    Max,          \* options.max: maximum concurrent transfers
    Verify,       \* options.verify: the manifest carries signatures
    Overwrite,    \* options.overwrite
    Size,         \* chunks of each file
    MaxAttempts,  \* bound: writers of one file
    FaultSets,    \* what may go wrong together: sets of faults
    NoFile        \* no file: the controller awaits no StartIndex

AllFaults == {"rts", "str", "sockets", "disk", "data", "space", "long", "cancel"}

ASSUME SessionAssumption ==
    /\ Files \subseteq Nat /\ IsFiniteSet(Files)
    /\ Max \in Nat
    /\ Verify \in BOOLEAN
    /\ Overwrite \in BOOLEAN
    /\ Size \in Nat \ {0}
    /\ MaxAttempts \in Nat \ {0}
    /\ FaultSets \subseteq SUBSET AllFaults
    /\ NoFile \notin Files

Writers == Files \X (1..MaxAttempts)

VARIABLES
    sender,        \* sender::main: hello, reply, run, ok, err, cancelled
    files,         \* files its controller has not started
    active,        \* files it has started and not heard the end of
    controller,    \* its controller: fill, index, done, exited
    current,       \* the file a StartIndex is awaited for
    started,       \* readers started for each file
    inbox,         \* the channel from split_receiver to the controller
    results,       \* [task |-> ..., result |-> ...] of its ended tasks
    receiver,      \* receiver::main: hello, run, ok, err, cancelled
    wanted,        \* files the receiver has details of
    start_index,   \* their start index
    listening,     \* its controller: TRUE, FALSE when it has ended
    closed,        \* message_sender.close() was called
    rresults,      \* results of its ended tasks
    writer,        \* where each writer task is
    leftover,      \* the queue of a writer that failed: none, left, full
    fd,            \* the partial file each writer has open
    partial,       \* what the partial path of each file names
    contents,      \* what is in a partial file: length, and whether it is right
    final,         \* what the path of each file names
    str,           \* the two directions of the stream of requests and replies
    rts,           \* the stream of Ends and Failures
    position,      \* messages that went through the str cipher of each end
    cut,           \* streams that broke
    faults         \* what may go wrong in this transfer; never changes

controlVars == <<files, active, controller, current, started, inbox>>
diskVars == <<writer, leftover, fd, partial, contents, final>>
receiverVars == <<wanted, start_index, listening, closed>>
hostVars == <<sender, controlVars, results, receiver, receiverVars, rresults,
              diskVars, str, rts, position, cut>>
vars == <<hostVars, faults>>

(* A file on the disk before the transfer is inode 0; writer n creates n. *)
Inodes == 0..MaxAttempts
NoInode == MaxAttempts + 1

(* Its length then; Size + 1 stands for any that is longer than the file.  *)
Lengths == IF "long" \in faults THEN 0..(Size + 1) ELSE 0..Size

Init ==
    /\ faults \in FaultSets
    /\ sender = "hello"
    /\ files = {}
    /\ active = {}
    /\ controller = "fill"
    /\ current = NoFile
    /\ started = [f \in Files |-> 0]
    /\ inbox = <<>>
    /\ results = {}
    /\ receiver = "hello"
    /\ wanted = {}
    /\ start_index = [f \in Files |-> 0]
    /\ listening = TRUE
    /\ closed = FALSE
    /\ rresults = {}
    /\ writer = [w \in Writers |-> "none"]
    /\ leftover = [f \in Files |-> "none"]
    /\ fd = [w \in Writers |-> NoInode]
    /\ partial \in [Files -> {0, NoInode}]
    /\ \E len \in [Files -> Lengths],
          right \in [Files -> IF "data" \in faults THEN BOOLEAN ELSE {TRUE}] :
          contents = [f \in Files |-> [i \in Inodes |->
                        IF i = 0 /\ partial[f] = 0
                        THEN [len |-> len[f], right |-> right[f]]
                        ELSE [len |-> 0, right |-> TRUE]]]
    /\ final \in [Files -> {"none", "old"}]
    /\ str = [to \in {"sender", "receiver"} |-> <<>>]
    /\ rts = <<>>
    /\ position = [end \in {"sender", "receiver"} |-> 0]
    /\ cut = {}

-----------------------------------------------------------------------------
(* The two streams. *)

Other(end) == IF end = "sender" THEN "receiver" ELSE "sender"

(* CipherStream: what is written is encrypted at the position of the       *)
(* writing end; written and read messages advance it.                      *)
After(end, channels, pos, msg) ==
    /\ str' = [channels EXCEPT ![Other(end)] =
                  Append(@, [msg |-> msg, at |-> pos[end]])]
    /\ position' = [pos EXCEPT ![end] = @ + 1]

Write(end, msg) == After(end, str, position, msg)

CanRead(end) == "str" \notin cut /\ str[end] # <<>>
Message(end) == Head(str[end]).msg
Popped(end) == [str EXCEPT ![end] = Tail(@)]

(* Mutant: what is read does not advance the cipher. *)
AdvancedByWrites(end) == position

Advanced(end) == [position EXCEPT ![end] = @ + 1]

Read(end) == str' = Popped(end) /\ position' = Advanced(end)
ReadThenWrite(end, msg) == After(end, Popped(end), Advanced(end), msg)

Exited(main) == main \in {"ok", "err", "cancelled"}

(* The peer has gone and everything it wrote was read, or the stream broke. *)
StrEnded(end) ==
    \/ "str" \in cut
    \/ /\ str[end] = <<>>
       /\ Exited(IF end = "sender" THEN receiver ELSE sender)

(* Nothing reads the channel of messages any more: it was closed, or       *)
(* send_messages could not write what it read.                             *)
Gone == closed \/ [task |-> "messages", result |-> "err"] \in rresults

Send(msg) == rts' = IF Gone THEN rts ELSE Append(rts, msg)

Completed(ids) == [type |-> "Completed", ids |-> ids]
Manifest(ids) == [type |-> "Manifest", ids |-> ids]
Start(f) == [type |-> "Start", id |-> f]
StartIndex(i) == [type |-> "StartIndex", index |-> i]
Done(reason) == [type |-> "Done", reason |-> reason]
End(f) == [type |-> "End", id |-> f]
Failure(f, reason) == [type |-> "Failure", id |-> f, reason |-> reason]

-----------------------------------------------------------------------------
(* sender::main up to its tasks. *)

SendManifest(ids, dirs) ==
    /\ sender = "hello"
    /\ IF ids = {} /\ ~dirs
       THEN Write("sender", Done(0)) /\ sender' = "ok"
       ELSE Write("sender", Manifest(ids)) /\ sender' = "reply"
    /\ files' = ids
    /\ UNCHANGED <<active, controller, current, started, inbox, results,
                   receiver, receiverVars, rresults, diskVars, rts, cut>>

(* The crawl of the source may find any files, and directories or none ... *)
BuildManifest ==
    \E ids \in SUBSET Files, dirs \in BOOLEAN : SendManifest(ids, dirs)

(* ... or fail: a directory, or a file to be measured or hashed, cannot be *)
(* read.  Nothing is sent then.                                            *)
CrawlFails ==
    /\ sender = "hello"
    /\ "disk" \in faults
    /\ sender' = "err"
    /\ UNCHANGED <<controlVars, results, receiver, receiverVars, rresults,
                   diskVars, str, rts, position, cut>>

ReadCompleted ==
    /\ Message("sender").type = "Completed"
    /\ files' = files \ Message("sender").ids
    /\ IF files' = {}
       THEN ReadThenWrite("sender", Done(1)) /\ sender' = "ok"
       ELSE /\ Read("sender")
            /\ sender' \in {"run"} \cup IF "sockets" \in faults THEN {"err"} ELSE {}

ReadRefusal ==
    /\ Message("sender").type = "Failure"
    /\ Read("sender")
    /\ sender' = "err"
    /\ UNCHANGED files

ReadReply ==
    /\ sender = "reply"
    /\ CanRead("sender")
    /\ ReadCompleted \/ ReadRefusal
    /\ UNCHANGED <<active, controller, current, started, inbox, results,
                   receiver, receiverVars, rresults, diskVars, rts, cut>>

-----------------------------------------------------------------------------
(* The sender's controller. *)

controllerFrame == <<sender, receiver, receiverVars, rresults, diskVars, rts, cut>>

(* Mutant: one transfer too many. *)
MayStartOneMore == Cardinality(active) <= Max /\ files # {}

MayStart == Cardinality(active) < Max /\ files # {}

(* start_file_transfer: Start is written and the reply awaited.  Ids are   *)
(* started in ascending order.                                             *)
StartFile(f) ==
    /\ sender = "run" /\ controller = "fill"
    /\ MayStart
    /\ f \in files /\ \A g \in files : f <= g
    /\ files' = files \ {f}
    /\ Write("sender", Start(f))
    /\ controller' = "index"
    /\ current' = f
    /\ UNCHANGED <<active, started, inbox, results, controllerFrame>>

(* Mutant: the file is not entered in active. *)
ReadStartIndexForgets ==
    /\ sender = "run" /\ controller = "index"
    /\ CanRead("sender")
    /\ Message("sender").type = "StartIndex"
    /\ Read("sender")
    /\ started' = [started EXCEPT ![current] = @ + 1]
    /\ controller' = "fill"
    /\ current' = NoFile
    /\ UNCHANGED <<files, active, inbox, results, controllerFrame>>

(* ... then the reader of the file is spawned. *)
ReadStartIndex ==
    /\ sender = "run" /\ controller = "index"
    /\ CanRead("sender")
    /\ Message("sender").type = "StartIndex"
    /\ Read("sender")
    /\ active' = active \cup {current}
    /\ started' = [started EXCEPT ![current] = @ + 1]
    /\ controller' = "fill"
    /\ current' = NoFile
    /\ UNCHANGED <<files, inbox, results, controllerFrame>>

Refuted(msg) == msg.type = "Failure" /\ msg.reason = 0 /\ msg.id \in active

(* Mutant: the controller goes on before it has read the StartIndex. *)
RetryAhead(msg) ==
    /\ Refuted(msg)
    /\ Write("sender", Start(msg.id))
    /\ controller' = "fill"
    /\ UNCHANGED <<active, current>>

(* Failure 0 of an active file: the transfer is started again. *)
Retry(msg) ==
    /\ Refuted(msg)
    /\ Write("sender", Start(msg.id))
    /\ controller' = "index"
    /\ current' = msg.id
    /\ UNCHANGED active

(* End, Failure 2, or a Failure 0 of a file that is not active. *)
Settle(msg) ==
    /\ ~Refuted(msg)
    /\ active' = active \ {msg.id}
    /\ controller' = IF files = {} /\ active' = {} THEN "done" ELSE "fill"
    /\ UNCHANGED <<current, str, position>>

ControllerRecv ==
    /\ sender = "run" /\ controller = "fill"
    /\ ~MayStart
    /\ inbox # <<>>
    /\ inbox' = Tail(inbox)
    /\ Retry(Head(inbox)) \/ Settle(Head(inbox))
    /\ UNCHANGED <<files, started, results, controllerFrame>>

TaskEnds(task, result) == results' = results \cup {[task |-> task, result |-> result]}

SendDone ==
    /\ sender = "run" /\ controller = "done"
    /\ Write("sender", Done(2))
    /\ TaskEnds("controller", IF "str" \in cut THEN "err" ELSE "ok")
    /\ controller' = "exited"
    /\ UNCHANGED <<files, active, current, started, inbox, controllerFrame>>

ControllerFails ==
    /\ sender = "run"
    /\ \/ controller = "index" /\ StrEnded("sender")
       \/ /\ controller = "fill" /\ ~MayStart
          /\ inbox = <<>>
          /\ \E r \in results : r.task = "receiver"
    /\ TaskEnds("controller", "err")
    /\ controller' = "exited"
    /\ UNCHANGED <<files, active, current, started, inbox, str, position,
                   controllerFrame>>

-----------------------------------------------------------------------------
(* The sender's other tasks, and the select of sender::main. *)

senderFrame == <<receiver, receiverVars, rresults, diskVars, str, position, cut>>

SplitRecv ==
    /\ sender = "run"
    /\ "rts" \notin cut /\ rts # <<>>
    /\ inbox' = Append(inbox, Head(rts))
    /\ rts' = Tail(rts)
    /\ UNCHANGED <<sender, files, active, controller, current, started, results,
                   senderFrame>>

(* The stream ends: split_receiver returns the error and drops its ends of *)
(* the two channels.                                                       *)
SplitFails ==
    /\ sender = "run"
    /\ "rts" \in cut \/ (rts = <<>> /\ Exited(receiver))
    /\ TaskEnds("receiver", "err")
    /\ UNCHANGED <<sender, controlVars, rts, senderFrame>>

(* receive_confirmations ends with Ok when its channel does. *)
ConfirmationsEnd ==
    /\ sender = "run"
    /\ \E r \in results : r.task = "receiver"
    /\ TaskEnds("confirmation", "ok")
    /\ UNCHANGED <<sender, controlVars, rts, senderFrame>>

SendersFail ==
    /\ sender = "run"
    /\ "sockets" \in faults
    /\ TaskEnds("senders", "err")
    /\ UNCHANGED <<sender, controlVars, rts, senderFrame>>

(* select takes any task that has ended: the program does not order them.  *)
(* Before that, main itself waits for a reply.                             *)
SenderExit ==
    /\ \/ sender = "run" /\ \E r \in results : sender' = r.result
       \/ sender = "reply" /\ StrEnded("sender") /\ sender' = "err"
    /\ UNCHANGED <<controlVars, results, rts, senderFrame>>

-----------------------------------------------------------------------------
(* receiver::main up to its tasks. *)

Existing(ids) == {f \in ids : final[f] # "none" /\ ~Overwrite}

(* start_index of what the partial path names, whatever its length. *)
Found(f) == IF partial[f] = NoInode THEN 0 ELSE contents[f][partial[f]].len

(* Mutant: the files that are there already are reported, and kept. *)
AcceptManifestWhole(ids) ==
    /\ wanted' = ids
    /\ UNCHANGED start_index
    /\ ReadThenWrite("receiver", Completed(Existing(ids)))
    /\ receiver' = "run"

(* Directories are created and sockets opened after the answer is sent. *)
AcceptManifest(ids) ==
    /\ wanted' = ids \ Existing(ids)
    /\ start_index' = [f \in Files |-> IF f \in wanted' THEN Found(f) ELSE 0]
    /\ ReadThenWrite("receiver", Completed(Existing(ids)))
    /\ receiver' \in {"run"} \cup
           IF {"disk", "sockets"} \cap faults # {} THEN {"err"} ELSE {}

(* A partial file, or the room below the destination, cannot be measured.  *)
MeasureFails ==
    /\ "disk" \in faults
    /\ Read("receiver")
    /\ receiver' = "err"
    /\ UNCHANGED <<wanted, start_index>>

(* free_space finds too little room below the destination; or a partial    *)
(* file is longer than its file, and details.size - start_index wraps to   *)
(* more bytes than any disk has.                                           *)
MayLackSpace(ids) ==
    "space" \in faults \/ \E f \in ids \ Existing(ids) : Found(f) > Size

RefuseManifest(ids) ==
    /\ MayLackSpace(ids)
    /\ ReadThenWrite("receiver", Failure(0, 1))
    /\ receiver' = "err"
    /\ UNCHANGED <<wanted, start_index>>

ReadManifest ==
    /\ Message("receiver").type = "Manifest"
    /\ \/ AcceptManifest(Message("receiver").ids)
       \/ RefuseManifest(Message("receiver").ids)
       \/ MeasureFails

ReadNothingToSend ==
    /\ Message("receiver") = Done(0)
    /\ Read("receiver")
    /\ receiver' = "ok"
    /\ UNCHANGED <<wanted, start_index>>

ReadHello ==
    /\ receiver = "hello"
    /\ CanRead("receiver")
    /\ ReadManifest \/ ReadNothingToSend
    /\ UNCHANGED <<sender, controlVars, results, listening, closed, rresults,
                   diskVars, rts, cut>>

-----------------------------------------------------------------------------
(* The receiver's controller. *)

RTaskEnds(task, result) == rresults' = rresults \cup {[task |-> task, result |-> result]}

Attempts(f) == {n \in 1..MaxAttempts : writer[<<f, n>>] # "none"}

(* Start: the start index is sent back and a writer spawned.  A file whose *)
(* partial file is gone starts at 0, and its new queue takes the place of  *)
(* an old one.  An unknown id gets no reply.                               *)
OnStart(f) ==
    /\ UNCHANGED <<listening, closed, rresults>>
    /\ IF f \notin wanted
       THEN Read("receiver") /\ UNCHANGED <<start_index, writer, leftover>>
       ELSE LET n == Cardinality(Attempts(f)) + 1
            IN  /\ n <= MaxAttempts
                /\ start_index' = [start_index EXCEPT ![f] =
                                      IF partial[f] = NoInode THEN 0 ELSE @]
                /\ ReadThenWrite("receiver", StartIndex(start_index'[f]))
                /\ writer' = [writer EXCEPT ![<<f, n>>] = "open"]
                /\ leftover' = [leftover EXCEPT ![f] = "none"]

OnDone ==
    /\ Read("receiver")
    /\ closed' = TRUE
    /\ listening' = FALSE
    /\ RTaskEnds("controller", "ok")
    /\ UNCHANGED <<start_index, writer, leftover>>

ReceiverRecv ==
    /\ receiver = "run" /\ listening
    /\ CanRead("receiver")
    /\ LET msg == Message("receiver")
       IN  \/ msg.type = "Start" /\ OnStart(msg.id)
           \/ msg.type = "Done" /\ OnDone
    /\ UNCHANGED <<sender, controlVars, results, receiver, wanted, fd, partial,
                   contents, final, rts, cut>>

ListenFails ==
    /\ receiver = "run" /\ listening
    /\ StrEnded("receiver")
    /\ RTaskEnds("controller", "err")
    /\ listening' = FALSE
    /\ UNCHANGED <<sender, controlVars, results, receiver, wanted, start_index,
                   closed, diskVars, str, rts, position, cut>>

-----------------------------------------------------------------------------
(* A writer task: attempt n at file f. *)

writerFrame == <<sender, controlVars, results, receiver, receiverVars, rresults,
                 str, position, cut>>

(* Mutant: writers outlive the main function of the receiver. *)
AtForEver(w, phase) == writer[w] = phase

(* Where writer w is, in a receiver that still runs. *)
At(w, phase) == receiver = "run" /\ writer[w] = phase

Goto(w, phase) == writer' = [writer EXCEPT ![w] = phase]

(* Every receiver task is stuck with a chunk for a queue that is full and  *)
(* that nobody reads (SplitQueue::send); no other file gets a chunk then.  *)
Clogged == \E f \in Files : leftover[f] = "full"

(* The partial path is opened, and created if it names nothing. *)
WriterOpen(f, n) ==
    /\ At(<<f, n>>, "open")
    /\ LET i == IF partial[f] = NoInode THEN n ELSE partial[f]
       IN  /\ fd' = [fd EXCEPT ![<<f, n>>] = i]
           /\ partial' = [partial EXCEPT ![f] = i]
    /\ Goto(<<f, n>>, "data")
    /\ UNCHANGED <<leftover, contents, final, rts, writerFrame>>

(* Its chunks come.  A reader that starts behind the end of its file reads *)
(* nothing, and `while position != details.size` goes on for ever.         *)
Fed(f) == ~Clogged /\ start_index[f] <= Size

(* Mutant: the length still to come is computed from the wrong end. *)
WriterDataUnderflows(f, n) ==
    /\ At(<<f, n>>, "data")
    /\ started[f] >= n
    /\ Fed(f)
    /\ LET i == fd[<<f, n>>]
           old == contents[f][i]
       IN  contents' = [contents EXCEPT ![f][i].len = Size - old.len - start_index[f]]
    /\ Goto(<<f, n>>, IF Verify THEN "verify" ELSE "rename")
    /\ UNCHANGED <<leftover, fd, partial, final, rts, writerFrame>>

(* The reader of this attempt delivers the rest of the file, the writer    *)
(* appends it, flushes and pops its queue.  The data is wrong when it is   *)
(* appended elsewhere than at the start index, or the source has changed.  *)
WriterData(f, n) ==
    /\ At(<<f, n>>, "data")
    /\ started[f] >= n
    /\ Fed(f)
    /\ LET i == fd[<<f, n>>]
           old == contents[f][i]
       IN  \E right \in {TRUE} \cup IF "data" \in faults THEN {FALSE} ELSE {} :
              contents' = [contents EXCEPT ![f][i] =
                  [len |-> old.len + Size - start_index[f],
                   right |-> old.right /\ old.len = start_index[f] /\ right]]
    /\ Goto(<<f, n>>, IF Verify THEN "verify" ELSE "rename")
    /\ UNCHANGED <<leftover, fd, partial, final, rts, writerFrame>>

(* Mutant: the hashes are not compared. *)
WriterTrusts(f, n) ==
    /\ At(<<f, n>>, "verify")
    /\ partial[f] # NoInode
    /\ Goto(<<f, n>>, "rename")
    /\ UNCHANGED <<leftover, fd, partial, contents, final, rts, writerFrame>>

(* Mutant: End is sent before the file has its name. *)
WriterEndsEarly(f, n) ==
    /\ At(<<f, n>>, "verify")
    /\ partial[f] # NoInode /\ contents[f][partial[f]].right
    /\ Send(End(f))
    /\ Goto(<<f, n>>, "rename")
    /\ UNCHANGED <<leftover, fd, partial, contents, final, writerFrame>>

(* hash_file(partial_path) matches the signature ... *)
WriterVerified(f, n) ==
    /\ At(<<f, n>>, "verify")
    /\ partial[f] # NoInode /\ contents[f][partial[f]].right
    /\ Goto(<<f, n>>, "rename")
    /\ UNCHANGED <<leftover, fd, partial, contents, final, rts, writerFrame>>

(* Mutant: the writer goes on with a file it has found to be wrong. *)
WriterRefutedStays(f, n) ==
    /\ At(<<f, n>>, "verify")
    /\ partial[f] # NoInode /\ ~contents[f][partial[f]].right
    /\ n < MaxAttempts
    /\ Send(Failure(f, 0))
    /\ Goto(<<f, n>>, "rename")
    /\ UNCHANGED <<leftover, fd, partial, contents, final, writerFrame>>

(* ... or not: the sender is told, then the partial file removed.  (The    *)
(* last attempt of the bound is not seen to fail.)                         *)
WriterRefuted(f, n) ==
    /\ At(<<f, n>>, "verify")
    /\ partial[f] # NoInode /\ ~contents[f][partial[f]].right
    /\ n < MaxAttempts
    /\ Send(Failure(f, 0))
    /\ Goto(<<f, n>>, IF Gone THEN "report" ELSE "remove")
    /\ UNCHANGED <<leftover, fd, partial, contents, final, writerFrame>>

(* Either way the writer then returns an error. *)
WriterRemove(f, n) ==
    /\ At(<<f, n>>, "remove")
    /\ partial' = [partial EXCEPT ![f] = NoInode]
    /\ Goto(<<f, n>>, "report")
    /\ UNCHANGED <<leftover, fd, contents, final, rts, writerFrame>>

WriterRename(f, n) ==
    /\ At(<<f, n>>, "rename")
    /\ partial[f] # NoInode
    /\ final' = [final EXCEPT ![f] =
                    IF contents[f][partial[f]].right THEN "right" ELSE "wrong"]
    /\ partial' = [partial EXCEPT ![f] = NoInode]
    /\ Goto(<<f, n>>, "end")
    /\ UNCHANGED <<leftover, fd, contents, rts, writerFrame>>

WriterEnd(f, n) ==
    /\ At(<<f, n>>, "end")
    /\ Send(End(f))
    /\ Goto(<<f, n>>, "stored")
    /\ UNCHANGED <<leftover, fd, partial, contents, final, writerFrame>>

(* Hashing or renaming fails, as the partial file is gone. *)
WriterMisses(f, n) ==
    /\ partial[f] = NoInode
    /\ At(<<f, n>>, "verify") \/ At(<<f, n>>, "rename")
    /\ Goto(<<f, n>>, "report")
    /\ UNCHANGED <<leftover, fd, partial, contents, final, rts, writerFrame>>

(* Opening, writing, hashing, removing or renaming fails on the disk.  A   *)
(* writer that has not come to pop_queue leaves its queue behind.          *)
DiskFails(f, n) ==
    /\ "disk" \in faults
    /\ \E phase \in {"open", "data", "verify", "remove", "rename"} :
          At(<<f, n>>, phase)
    /\ leftover' = IF writer[<<f, n>>] \in {"open", "data"}
                   THEN [leftover EXCEPT ![f] = "left"] ELSE leftover
    /\ Goto(<<f, n>>, "report")
    /\ UNCHANGED <<fd, partial, contents, final, rts, writerFrame>>

(* Chunks of that file still come, and again as they are never confirmed,  *)
(* until the queue is full and the next ones hold up the receiver tasks.   *)
QueueFills(f) ==
    /\ sender = "run" /\ receiver = "run"
    /\ leftover[f] = "left"
    /\ started[f] > 0
    /\ leftover' = [leftover EXCEPT ![f] = "full"]
    /\ UNCHANGED <<writer, fd, partial, contents, final, rts, writerFrame>>

(* Mutant: the error of a writer is not reported. *)
WriterSilent(f, n) ==
    /\ At(<<f, n>>, "report")
    /\ Goto(<<f, n>>, "failed")
    /\ UNCHANGED <<leftover, fd, partial, contents, final, rts, writerFrame>>

(* The spawned task reports every error of the writer as Failure 2. *)
WriterReport(f, n) ==
    /\ At(<<f, n>>, "report")
    /\ Send(Failure(f, 2))
    /\ Goto(<<f, n>>, "failed")
    /\ UNCHANGED <<leftover, fd, partial, contents, final, writerFrame>>

WriterStep(f, n) ==
    \/ WriterOpen(f, n) \/ WriterData(f, n) \/ WriterVerified(f, n)
    \/ WriterRefuted(f, n) \/ WriterRemove(f, n) \/ WriterRename(f, n)
    \/ WriterEnd(f, n) \/ WriterMisses(f, n) \/ WriterReport(f, n)

-----------------------------------------------------------------------------
(* The receiver's other tasks, and the select of receiver::main. *)

Idle == {"none", "stored", "failed"}

receiverFrame == <<sender, controlVars, results, receiverVars, diskVars, str,
                   rts, position, cut>>

(* send_messages ends when its channel is closed, or cannot write. *)
MessagesEnd ==
    /\ receiver = "run"
    /\ \/ closed /\ RTaskEnds("messages", "ok")
       \/ /\ "rts" \in cut \/ Exited(sender)
          /\ RTaskEnds("messages", "err")
    /\ UNCHANGED <<receiver, receiverFrame>>

(* send_confirmations ends with Ok when the controller and all writers are *)
(* gone, and with an error when it still has some to send and cannot.      *)
ConfirmationsSent ==
    /\ receiver = "run"
    /\ \/ /\ ~listening /\ \A w \in Writers : writer[w] \in Idle
          /\ RTaskEnds("confirmation", "ok")
       \/ /\ Gone
          /\ \E w \in Writers : writer[w] # "none"
          /\ RTaskEnds("confirmation", "err")
    /\ UNCHANGED <<receiver, receiverFrame>>

ReceiversFail ==
    /\ receiver = "run"
    /\ "sockets" \in faults
    /\ RTaskEnds("receivers", "err")
    /\ UNCHANGED <<receiver, receiverFrame>>

(* The receiver tasks time out when a writer waits for chunks that never   *)
(* come and no other writer gets any.  (That they fail for another reason  *)
(* is ReceiversFail.)                                                      *)
ReceiversStarve ==
    /\ receiver = "run" /\ ~Clogged
    /\ \E w \in Writers : writer[w] = "data"
    /\ \A w \in Writers : writer[w] = "data" => ~Fed(w[1])
    /\ RTaskEnds("receivers", "err")
    /\ UNCHANGED <<receiver, receiverFrame>>

ReceiverExit ==
    /\ \/ receiver = "run" /\ \E r \in rresults : receiver' = r.result
       \/ receiver = "hello" /\ StrEnded("receiver") /\ receiver' = "err"
    /\ UNCHANGED <<rresults, receiverFrame>>

(* The cancel signal reaches the select of a host. *)
CancelSender ==
    /\ sender = "run" /\ "cancel" \in faults
    /\ sender' = "cancelled"
    /\ UNCHANGED <<controlVars, results, rts, senderFrame>>

CancelReceiver ==
    /\ receiver = "run" /\ "cancel" \in faults
    /\ receiver' = "cancelled"
    /\ UNCHANGED <<rresults, receiverFrame>>

(* A TCP connection breaks; what is in flight is gone. *)
Cut(stream) ==
    /\ stream \in faults \cap {"rts", "str"}
    /\ cut' = cut \cup {stream}
    /\ UNCHANGED <<sender, controlVars, results, receiver, receiverVars, rresults,
                   diskVars, str, rts, position>>

-----------------------------------------------------------------------------
SenderStep ==
    \/ BuildManifest \/ ReadReply
    \/ \E f \in Files : StartFile(f)
    \/ ReadStartIndex \/ ControllerRecv \/ SendDone \/ ControllerFails
    \/ SplitRecv \/ SplitFails \/ ConfirmationsEnd \/ SenderExit

ReceiverStep ==
    \/ ReadHello \/ ReceiverRecv \/ ListenFails
    \/ \E f \in Files, n \in 1..MaxAttempts : WriterStep(f, n)
    \/ MessagesEnd \/ ConfirmationsSent \/ ReceiversStarve \/ ReceiverExit

Fault ==
    \/ CrawlFails \/ SendersFail \/ ReceiversFail
    \/ CancelSender \/ CancelReceiver
    \/ \E stream \in {"rts", "str"} : Cut(stream)
    \/ \E f \in Files, n \in 1..MaxAttempts : DiskFails(f, n)
    \/ \E f \in Files : QueueFills(f)

Next ==
    /\ SenderStep \/ ReceiverStep \/ Fault
    /\ UNCHANGED faults

Spec == Init /\ [][Next]_vars

(* Each host keeps running: as long as a task of it can go on, one does.   *)
(* Faults are never fair.                                                  *)
FairSpec == Spec /\ WF_hostVars(SenderStep) /\ WF_hostVars(ReceiverStep)

-----------------------------------------------------------------------------
(* Properties. *)

Underway == {w \in Writers : writer[w] \notin Idle}

(* The writer of the last attempt at f came to its end, one way or the     *)
(* other.                                                                  *)
Settled(f) ==
    \E n \in 1..MaxAttempts :
        /\ writer[<<f, n>>] \in {"stored", "failed"}
        /\ \A m \in (n + 1)..MaxAttempts : writer[<<f, m>>] = "none"

(* f was started again, and the writer that refuted it has reported its    *)
(* error as well.                                                          *)
Retried(f) ==
    \E m, n \in 1..MaxAttempts :
        m < n /\ writer[<<f, m>>] = "failed" /\ writer[<<f, n>>] # "none"

AwaitedFile == {current} \ {NoFile}

(* Every variable has its type. *)
TypeOK ==
    /\ sender \in {"hello", "reply", "run", "ok", "err", "cancelled"}
    /\ receiver \in {"hello", "run", "ok", "err", "cancelled"}
    /\ files \subseteq Files /\ active \subseteq Files /\ wanted \subseteq Files
    /\ controller \in {"fill", "index", "done", "exited"}
    /\ current \in Files \cup {NoFile}
    /\ started \in [Files -> 0..MaxAttempts]
    /\ start_index \in [Files -> Nat]
    /\ listening \in BOOLEAN /\ closed \in BOOLEAN
    /\ results \subseteq [task : {"controller", "receiver", "confirmation", "senders"},
                          result : {"ok", "err"}]
    /\ rresults \subseteq [task : {"controller", "messages", "confirmation", "receivers"},
                           result : {"ok", "err"}]
    /\ writer \in [Writers -> Idle \cup {"open", "data", "verify", "remove",
                                         "rename", "end", "report"}]
    /\ leftover \in [Files -> {"none", "left", "full"}]
    /\ fd \in [Writers -> Inodes \cup {NoInode}]
    /\ partial \in [Files -> Inodes \cup {NoInode}]
    /\ contents \in [Files -> [Inodes -> [len : Nat, right : BOOLEAN]]]
    /\ final \in [Files -> {"none", "old", "right", "wrong"}]
    /\ cut \subseteq {"rts", "str"}
    /\ faults \in FaultSets

(* The two ends of the str stream never decrypt with a keystream that is   *)
(* out of step: what an end reads next was encrypted at the position its   *)
(* own cipher has reached.  Since one cipher serves both directions        *)
(* (cipher.rs 35-94) this needs strict turns of requests and replies,      *)
(* through every retry, refusal and failure.                               *)
CipherLockstep ==
    \A end \in {"sender", "receiver"} :
        str[end] # <<>> => Len(str[end]) = 1 /\ Head(str[end]).at = position[end]

(* The two hosts agree on what is left: the sender starts only files the   *)
(* receiver has details of (it would wait for a StartIndex forever,        *)
(* receiver/mod.rs 300-306), and takes a file off its books only when the  *)
(* last writer of that file has come to its end.  Excepted is a file that  *)
(* was started again once the writer that refuted it has returned: its     *)
(* Failure 2, which follows the Failure 0, takes the file off the books    *)
(* while the next writer is at work (see DoneLast).                        *)
NothingForgotten ==
    sender = "run" =>
        LET booked == files \cup active \cup AwaitedFile
        IN  /\ booked \subseteq wanted
            /\ \A f \in wanted \ booked : Settled(f) \/ Retried(f)

(* A file is started again only when its last writer has refuted what it   *)
(* wrote and will do no more than remove the partial file and report: two  *)
(* attempts, of which one may report late, never both write, verify or     *)
(* rename (sender/mod.rs 257, writer.rs 154-159).                          *)
RetriedWasRefuted ==
    \A f \in Files : \A n \in 1..MaxAttempts : \A m \in 1..(n - 1) :
        writer[<<f, n>>] # "none" => writer[<<f, m>>] \in {"remove", "report", "failed"}

(* With --verify a file never gets its final name with the wrong contents, *)
(* whichever attempts share and remove its partial file.                   *)
StoredIsRight == Verify => \A f \in Files : final[f] # "wrong"

(* -m, --max: maximum concurrent transfers, counted where they are written *)
AtMostMax == Cardinality({w[1] : w \in Underway}) <= Max

(* When the sender says Done(2), which makes the receiver leave and takes  *)
(* its tasks along, no writer is at work.                                  *)
DoneLast ==
    [task |-> "controller", result |-> "ok"] \in results => Underway = {}

(* What either controller calls a success is one, whatever broke on the    *)
(* way: every wanted file is settled.  So is the success a host reports,   *)
(* though main takes the result of any task that has ended ("propagate the *)
(* first error", sender/mod.rs 163), except where a stream broke or the    *)
(* peer failed or was cancelled: then receive_confirmations and            *)
(* send_confirmations end with Ok as well, and main may take that.         *)
SuccessMeansSettled ==
    LET settled == \A f \in wanted : Settled(f) \/ Retried(f)
        success == [task |-> "controller", result |-> "ok"]
    IN  /\ success \in results \cup rresults => settled
        /\ sender = "ok" =>
              settled \/ cut # {} \/ receiver \in {"err", "cancelled"}
        /\ receiver = "ok" =>
              settled \/ cut # {} \/ sender \in {"err", "cancelled"}

(* The session implements the abstract transfer of Batch: through retries, *)
(* shared partial files, failures of streams, disks and tasks, each file   *)
(* the receiver agreed to changes at most once and no other changes at     *)
(* all, never from a file that was there unless --overwrite, never to      *)
(* something wrong with --verify, and never after the receiver has left.   *)
B == INSTANCE Batch WITH asked <- wanted, path <- final,
                         open <- ~Exited(receiver)
BatchSpec == B!Spec

(* Both hosts wait for a file that gets no chunk any more, as the queue of *)
(* another writer, which failed, holds up every receiver task.  No timeout *)
(* covers that wait (receiver/mod.rs 261).                                 *)
Hung ==
    /\ sender = "run" /\ receiver = "run"
    /\ Clogged
    /\ \E w \in Writers : writer[w] = "data"

(* Whatever fails, both main functions return in the end, but where a full *)
(* queue leaves them Hung.                                                 *)
BothExit == <>[](Hung \/ (Exited(sender) /\ Exited(receiver)))
=============================================================================
