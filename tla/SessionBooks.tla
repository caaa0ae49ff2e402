---------------------------- MODULE SessionBooks ----------------------------
(***************************************************************************)
(* What the two hosts tell each other and the user about files is true:    *)
(* the books of the sender's controller (Books), and from them what the    *)
(* end of each task and of each main function says (Success).              *)
(***************************************************************************)
EXTENDS SessionFiles

(* A writer of f has come to its end. *)
Over(f) == \E n \in 1..MaxAttempts : writer[<<f, n>>] \in {"stored", "failed"}

AllOver == \A f \in wanted : Over(f)

(* It was the last one, or it failed and another had begun. *)
LEMMA OverMeans ==
    ASSUME Held, NEW f \in Files, Over(f)
    PROVE  Settled(f) \/ Retried(f)
  <1> USE DEF Held
  <1>1. PICK m \in 1..MaxAttempts : writer[<<f, m>>] \in {"stored", "failed"}
    BY DEF Over
  <1>2. CASE \A n \in (m + 1)..MaxAttempts : writer[<<f, n>>] = "none"
    BY <1>1, <1>2 DEF Settled
  <1>3. ASSUME NEW n \in (m + 1)..MaxAttempts, writer[<<f, n>>] # "none"
        PROVE  Retried(f)
    <2>1. n \in 1..MaxAttempts /\ m \in 1..(n - 1) /\ m < n
      BY SessionAssumption
    <2>2. writer[<<f, m>>] \in {"remove", "report", "failed"}
      BY <1>3, <2>1 DEF RetriedWasRefuted
    <2> QED BY <1>1, <1>3, <2>1, <2>2 DEF Retried
  <1> QED BY <1>2, <1>3

LEMMA OverStays ==
    ASSUME Held, [Next]_vars
    PROVE  \A f \in Files : Over(f) => Over(f)'
  <1> USE DEF Held
  <1>0. \A f \in Files, n \in 1..MaxAttempts : <<f, n>> \in Writers
    BY DEF Writers
  <1>1. CASE \E f \in Files, n \in 1..MaxAttempts : WriterStep(f, n) \/ DiskFails(f, n)
    <2>1. PICK f \in Files, n \in 1..MaxAttempts : WriterStep(f, n) \/ DiskFails(f, n)
      BY <1>1
    <2>2. writer[<<f, n>>] \notin {"stored", "failed"}
      BY <2>1 DEF WriterStep, WriterOpen, WriterData, WriterVerified, WriterRefuted, WriterRemove,
             WriterRename, WriterEnd, WriterMisses, DiskFails, WriterReport, At
    <2>3. \E phase : writer' = [writer EXCEPT ![<<f, n>>] = phase]
      BY <2>1 DEF WriterStep, WriterOpen, WriterData, WriterVerified, WriterRefuted, WriterRemove,
             WriterRename, WriterEnd, WriterMisses, DiskFails, WriterReport, Goto
    <2>4. ASSUME NEW g \in Files, NEW m \in 1..MaxAttempts,
                 writer[<<g, m>>] \in {"stored", "failed"}
          PROVE  writer'[<<g, m>>] = writer[<<g, m>>]
      <3>1. <<g, m>> # <<f, n>> /\ <<g, m>> \in Writers
        BY <1>0, <2>2, <2>4
      <3> QED BY <2>3, <3>1 DEF Stage, StageTypes
    <2> QED BY <2>4 DEF Over
  <1>2. CASE ReceiverRecv
    <2>1. UNCHANGED <<started, current, wanted>>
      BY <1>2 DEF ReceiverRecv, controlVars
    <2>2. ASSUME NEW f \in wanted, NEW i \in Nat, NEW n \in 1..MaxAttempts,
                 OnWire("receiver", Start(f)), Left("sender", StartIndex(i)),
                 n = Cardinality(Attempts(f)) + 1,
                 writer' = [writer EXCEPT ![<<f, n>>] = "open"]
          PROVE  \A g \in Files : Over(g) => Over(g)'
      <3>1. writer[<<f, n>>] = "none"
        BY <2>1, <2>2, CountedStart
      <3>2. ASSUME NEW g \in Files, NEW m \in 1..MaxAttempts,
                   writer[<<g, m>>] \in {"stored", "failed"}
            PROVE  writer'[<<g, m>>] = writer[<<g, m>>]
        <4>1. <<g, m>> # <<f, n>> /\ <<g, m>> \in Writers
          BY <1>0, <3>1, <3>2
        <4> QED BY <2>2, <4>1 DEF Stage, StageTypes
      <3> QED BY <3>2 DEF Over
    <2> QED BY <1>2, <2>2, RequestRead DEF Over
  <1>3. CASE UNCHANGED writer
    BY <1>3 DEF Over
  <1>4. \/ \E f \in Files, n \in 1..MaxAttempts : WriterStep(f, n) \/ DiskFails(f, n)
        \/ ReceiverRecv
        \/ UNCHANGED writer
    BY Steps
    DEF SendManifest, ReadReply, ReadStartIndex, SendDone, ReadHello, StartFile,
        ControllerRecv, CrawlFails, ControllerFails, SplitRecv, SplitFails, ConfirmationsEnd,
        SendersFail, SenderExit, CancelSender, ListenFails, MessagesEnd, ConfirmationsSent,
        ReceiversFail, ReceiversStarve, HeldUp, QueueFills, writerFrame,
        ReceiverExit, CancelReceiver, Cut, vars, hostVars, diskVars,
        senderFrame, controllerFrame, receiverFrame
  <1> QED BY <1>1, <1>2, <1>3, <1>4

-----------------------------------------------------------------------------
(* The reports on their way to the sender's controller.                    *)

Reported(msg) == msg.type = "End" \/ msg.reason = 2

Truthful == \A i \in DOMAIN Carried : Reported(Carried[i]) => Over(Carried[i].id)

(* A writer reports a file that is through in the step it is through. *)
LEMMA WriterReports ==
    ASSUME Stage, NEW f \in Files, NEW n \in 1..MaxAttempts, WriterStep(f, n) \/ DiskFails(f, n)
    PROVE  \/ rts' = rts
           \/ rts' = Append(rts, Failure(f, 0))
           \/ /\ \E msg \in {End(f), Failure(f, 2)} : rts' = Append(rts, msg)
              /\ Over(f)'
  <1>1. <<f, n>> \in Writers
    BY DEF Writers
  <1>2. CASE WriterEnd(f, n) \/ WriterReport(f, n)
    BY <1>1, <1>2 DEF WriterEnd, WriterReport, Send, Goto, Over, Stage, StageTypes
  <1>3. CASE ~(WriterEnd(f, n) \/ WriterReport(f, n))
    BY <1>3 DEF WriterStep, WriterOpen, WriterData, WriterVerified, WriterRefuted, WriterRemove,
           WriterRename, WriterMisses, DiskFails, Send
  <1> QED BY <1>2, <1>3

LEMMA CarriedSteps ==
    ASSUME Held, [Next]_vars
    PROVE  \/ UNCHANGED Carried
           \/ ControllerRecv
           \/ \E f \in Files, n \in 1..MaxAttempts : WriterStep(f, n) \/ DiskFails(f, n)
  <1> USE DEF Held
  <1>1. CASE SplitRecv
    BY <1>1, CarriedOver DEF SplitRecv
  <1>2. CASE UNCHANGED <<inbox, rts>>
    BY <1>2 DEF Carried
  <1>3. \/ UNCHANGED <<inbox, rts>> \/ SplitRecv \/ ControllerRecv
        \/ \E f \in Files, n \in 1..MaxAttempts : WriterStep(f, n) \/ DiskFails(f, n)
    BY Steps
    DEF SendManifest, ReadReply, ReadStartIndex, SendDone, ReadHello, ReceiverRecv, StartFile,
        CrawlFails, ControllerFails, SplitFails, ConfirmationsEnd,
        SendersFail, SenderExit, CancelSender, ListenFails, MessagesEnd, ConfirmationsSent,
        ReceiversFail, ReceiversStarve, HeldUp, QueueFills, writerFrame,
        ReceiverExit, CancelReceiver, Cut, vars, hostVars, controlVars,
        senderFrame, controllerFrame, receiverFrame
  <1> QED BY <1>1, <1>2, <1>3

LEMMA TruthfulStep ==
    ASSUME Truthful, Held, [Next]_vars
    PROVE  Truthful'
  <1> USE DEF Held
  <1>0. \A i \in DOMAIN Carried : Carried[i].id \in Files
    BY CarriedType, ElementOfSeq, ReportFacts
  <1>1. CASE UNCHANGED Carried
    BY <1>0, <1>1, OverStays DEF Truthful, Reported
  <1>2. CASE ControllerRecv
    <2>1. inbox # <<>> /\ inbox' = Tail(inbox) /\ UNCHANGED rts
      BY <1>2 DEF ControllerRecv, controllerFrame
    <2>2. \A i \in DOMAIN Carried' : i + 1 \in DOMAIN Carried /\ Carried'[i] = Carried[i + 1]
      BY <2>1, CarriedTaken
    <2> QED BY <1>0, <2>2, OverStays DEF Truthful, Reported
  <1>3. CASE \E f \in Files, n \in 1..MaxAttempts : WriterStep(f, n) \/ DiskFails(f, n)
    <2>1. PICK f \in Files, n \in 1..MaxAttempts : WriterStep(f, n) \/ DiskFails(f, n)
      BY <1>3
    <2>2. UNCHANGED inbox
      BY <2>1, WriterStepMoves DEF WriterMoves, writerFrame, controlVars
    <2>3. ASSUME NEW msg \in Reports, rts' = Append(rts, msg), Reported(msg) => Over(msg.id)'
          PROVE  Truthful'
      <3>1. /\ DOMAIN Carried' = 1..(Len(Carried) + 1)
            /\ \A i \in DOMAIN Carried : Carried'[i] = Carried[i]
            /\ Carried'[Len(Carried) + 1] = msg
        BY <2>2, <2>3, CarriedMore
      <3>2. \A i \in DOMAIN Carried' : i \in DOMAIN Carried \/ i = Len(Carried) + 1
        BY <3>1, CarriedType
      <3>3. ASSUME NEW i \in DOMAIN Carried', NEW g, g = Carried'[i].id, Reported(Carried'[i])
            PROVE  Over(g)'
        <4>1. CASE i \in DOMAIN Carried
          <5>1. g = Carried[i].id /\ Over(g) /\ g \in Files
            BY <1>0, <3>1, <3>3, <4>1 DEF Truthful
          <5> QED BY <5>1, OverStays
        <4>2. CASE i = Len(Carried) + 1
          BY <2>3, <3>1, <3>3, <4>2 DEF Over
        <4> QED BY <3>2, <4>1, <4>2
      <3> QED BY <3>3 DEF Truthful, Reported, Over
    <2>4. CASE rts' = rts
      BY <1>1, <2>2, <2>4 DEF Carried
    <2>5. CASE rts' = Append(rts, Failure(f, 0))
      <3>1. Failure(f, 0) \in Reports /\ ~Reported(Failure(f, 0))
        BY ReportFacts DEF Reported
      <3> QED BY <2>3, <2>5, <3>1
    <2>6. ASSUME NEW msg \in {End(f), Failure(f, 2)}, rts' = Append(rts, msg), Over(f)'
          PROVE  Truthful'
      <3>1. msg \in Reports /\ msg.id = f
        BY ReportFacts
      <3> QED BY <2>3, <2>6, <3>1
    <2> QED BY <2>1, <2>4, <2>5, <2>6, WriterReports
  <1> QED BY <1>1, <1>2, <1>3, CarriedSteps

-----------------------------------------------------------------------------
(* The books of the sender's controller. *)

Ended(task, result) == [task |-> task, result |-> result]

NothingLost ==
    sender = "run" =>
        LET booked == files \cup active \cup AwaitedFile
        IN  /\ booked \subseteq wanted
            /\ \A f \in wanted \ booked : Over(f)

Books ==
    /\ NothingLost
    /\ controller = "done" => files = {} /\ active = {}
    /\ Ended("controller", "ok") \in results =>
          controller = "exited" /\ active = {} /\ current = NoFile /\ AllOver
    /\ receiver = "hello" => results = {}

(* The receiver agrees to files once, before there is anything to settle.  *)
LEMMA WantedKept ==
    ASSUME Stage, Wire, [Next]_vars
    PROVE  UNCHANGED wanted \/ (ReadHello /\ receiver = "hello" /\ sender \in {"reply", "err"})
  <1>1. UNCHANGED wanted \/ ReadHello
    BY Steps, WriterStepMoves
    DEF SendManifest, ReadReply, ReadStartIndex, SendDone, ReceiverRecv, StartFile,
        ControllerRecv, CrawlFails, ControllerFails, SplitRecv, SplitFails, ConfirmationsEnd,
        SendersFail, SenderExit, CancelSender, ListenFails, MessagesEnd, ConfirmationsSent,
        ReceiversFail, ReceiversStarve, HeldUp, QueueFills, writerFrame,
        ReceiverExit, CancelReceiver, Cut, WriterMoves, vars, hostVars,
        receiverVars, senderFrame, controllerFrame, receiverFrame, writerFrame
  <1>2. CASE ReadHello
    <2>1. receiver = "hello"
      BY <1>2 DEF ReadHello
    <2>2. ASSUME NEW ids \in SUBSET Files, OnWire("receiver", Manifest(ids))
          PROVE  sender \in {"reply", "err"}
      BY <2>2 DEF Stage, OnTheWay
    <2> QED BY <1>2, <2>1, <2>2, HelloRead
  <1> QED BY <1>1, <1>2

LEMMA AllOverStays ==
    ASSUME Held, [Next]_vars, UNCHANGED wanted, AllOver
    PROVE  AllOver'
  BY OverStays DEF AllOver, Held, Stage, StageTypes

(* Steps that leave the books alone. *)
LEMMA LostKept ==
    ASSUME NothingLost, Held, [Next]_vars, UNCHANGED <<files, active, current>>,
           sender' = sender \/ sender' # "run"
    PROVE  NothingLost'
  <1> SUFFICES ASSUME sender' = "run"
               PROVE  LET booked == files' \cup active' \cup AwaitedFile'
                      IN  /\ booked \subseteq wanted'
                          /\ \A f \in wanted' \ booked : Over(f)'
    BY DEF NothingLost
  <1>1. sender = "run" /\ UNCHANGED wanted
    BY WantedKept DEF Held
  <1>2. wanted \subseteq Files
    BY DEF Held, Stage, StageTypes
  <1> QED BY <1>1, <1>2, OverStays DEF NothingLost, AwaitedFile

ResultTypes ==
    /\ results \subseteq {Ended("controller", "ok"), Ended("controller", "err"),
                          Ended("receiver", "err"), Ended("confirmation", "ok"),
                          Ended("senders", "err")}
    /\ rresults \subseteq {Ended("controller", "ok"), Ended("controller", "err"),
                           Ended("messages", "ok"), Ended("messages", "err"),
                           Ended("confirmation", "ok"), Ended("confirmation", "err"),
                           Ended("receivers", "err")}

LEMMA EndedFacts ==
    \A t, r, u, v : /\ Ended(t, r) = Ended(u, v) <=> t = u /\ r = v
                    /\ Ended(t, r).task = t /\ Ended(t, r).result = r
  <1>1. \A t, r : Ended(t, r).task = t /\ Ended(t, r).result = r
    BY DEF Ended
  <1>2. \A t, r, u, v : Ended(t, r) = Ended(u, v) => t = u /\ r = v
    BY <1>1
  <1> QED BY <1>1, <1>2

(* What ends when. *)
LEMMA ResultSteps ==
    ASSUME [Next]_vars
    PROVE  /\ \/ UNCHANGED results
              \/ /\ SendDone /\ sender = "run"
                 /\ results' = results \cup {Ended("controller", IF "str" \in cut THEN "err" ELSE "ok")}
              \/ /\ ControllerFails /\ sender = "run"
                 /\ results' = results \cup {Ended("controller", "err")}
              \/ SplitFails /\ sender = "run" /\ results' = results \cup {Ended("receiver", "err")}
              \/ /\ ConfirmationsEnd /\ sender = "run"
                 /\ results' = results \cup {Ended("confirmation", "ok")}
              \/ SendersFail /\ sender = "run" /\ results' = results \cup {Ended("senders", "err")}
           /\ \/ UNCHANGED rresults
              \/ /\ ReceiverRecv /\ closed' = TRUE
                 /\ rresults' = rresults \cup {Ended("controller", "ok")}
              \/ ListenFails /\ rresults' = rresults \cup {Ended("controller", "err")}
              \/ /\ MessagesEnd
                 /\ \/ closed /\ rresults' = rresults \cup {Ended("messages", "ok")}
                    \/ rresults' = rresults \cup {Ended("messages", "err")}
              \/ /\ ConfirmationsSent
                 /\ \/ ~listening /\ rresults' = rresults \cup {Ended("confirmation", "ok")}
                    \/ rresults' = rresults \cup {Ended("confirmation", "err")}
              \/ /\ ReceiversFail \/ ReceiversStarve
                 /\ rresults' = rresults \cup {Ended("receivers", "err")}
  <1>1. \/ UNCHANGED results
        \/ SendDone \/ ControllerFails \/ SplitFails \/ ConfirmationsEnd \/ SendersFail
    BY Steps, WriterStepMoves
    DEF SendManifest, ReadReply, ReadStartIndex, ReadHello, ReceiverRecv, StartFile,
        ControllerRecv, CrawlFails, SplitRecv, SenderExit, CancelSender, ListenFails,
        MessagesEnd, ConfirmationsSent, ReceiversFail, ReceiversStarve, HeldUp, QueueFills, writerFrame,
        ReceiverExit, CancelReceiver, Cut,
        WriterMoves, vars, hostVars, receiverFrame, writerFrame
  <1>2. \/ UNCHANGED rresults
        \/ ReceiverRecv \/ ListenFails \/ MessagesEnd \/ ConfirmationsSent
        \/ ReceiversFail \/ ReceiversStarve
    BY Steps, WriterStepMoves
    DEF SendManifest, ReadReply, ReadStartIndex, SendDone, ReadHello, StartFile,
        ControllerRecv, CrawlFails, ControllerFails, SplitRecv, SplitFails, ConfirmationsEnd,
        SendersFail, SenderExit, CancelSender, ReceiverExit, CancelReceiver, HeldUp, QueueFills,
        Cut, WriterMoves, vars, hostVars, senderFrame, controllerFrame, writerFrame
  <1>3. SendDone => /\ sender = "run"
                    /\ results' = results \cup {Ended("controller",
                                                      IF "str" \in cut THEN "err" ELSE "ok")}
    BY DEF SendDone, TaskEnds, Ended
  <1>4. ControllerFails => /\ sender = "run"
                           /\ results' = results \cup {Ended("controller", "err")}
    BY DEF ControllerFails, TaskEnds, Ended
  <1>5. /\ SplitFails => sender = "run" /\ results' = results \cup {Ended("receiver", "err")}
        /\ ConfirmationsEnd => /\ sender = "run"
                               /\ results' = results \cup {Ended("confirmation", "ok")}
        /\ SendersFail => sender = "run" /\ results' = results \cup {Ended("senders", "err")}
    BY DEF SplitFails, ConfirmationsEnd, SendersFail, TaskEnds, Ended
  <1>6. ReceiverRecv => \/ UNCHANGED rresults
                        \/ closed' = TRUE /\ rresults' = rresults \cup {Ended("controller", "ok")}
    BY DEF ReceiverRecv, OnStart, OnDone, RTaskEnds, Ended
  <1>7. /\ ListenFails => rresults' = rresults \cup {Ended("controller", "err")}
        /\ ReceiversFail \/ ReceiversStarve =>
              rresults' = rresults \cup {Ended("receivers", "err")}
    BY DEF ListenFails, ReceiversFail, ReceiversStarve, RTaskEnds, Ended
  <1>8. /\ MessagesEnd => \/ closed /\ rresults' = rresults \cup {Ended("messages", "ok")}
                          \/ rresults' = rresults \cup {Ended("messages", "err")}
        /\ ConfirmationsSent =>
              \/ ~listening /\ rresults' = rresults \cup {Ended("confirmation", "ok")}
              \/ rresults' = rresults \cup {Ended("confirmation", "err")}
    BY DEF MessagesEnd, ConfirmationsSent, RTaskEnds, Ended
  <1>9. \/ UNCHANGED results
        \/ /\ SendDone /\ sender = "run"
           /\ results' = results \cup {Ended("controller", IF "str" \in cut THEN "err" ELSE "ok")}
        \/ /\ ControllerFails /\ sender = "run"
           /\ results' = results \cup {Ended("controller", "err")}
        \/ SplitFails /\ sender = "run" /\ results' = results \cup {Ended("receiver", "err")}
        \/ /\ ConfirmationsEnd /\ sender = "run"
           /\ results' = results \cup {Ended("confirmation", "ok")}
        \/ SendersFail /\ sender = "run" /\ results' = results \cup {Ended("senders", "err")}
    BY <1>1, <1>3, <1>4, <1>5
  <1> QED BY <1>2, <1>6, <1>7, <1>8, <1>9

LEMMA ResultTypesStep ==
    ASSUME ResultTypes, [Next]_vars
    PROVE  ResultTypes'
  <1>1. /\ results' \subseteq {Ended("controller", "ok"), Ended("controller", "err"),
                               Ended("receiver", "err"), Ended("confirmation", "ok"),
                               Ended("senders", "err")}
    BY ResultSteps DEF ResultTypes
  <1>2. /\ rresults' \subseteq {Ended("controller", "ok"), Ended("controller", "err"),
                                Ended("messages", "ok"), Ended("messages", "err"),
                                Ended("confirmation", "ok"), Ended("confirmation", "err"),
                                Ended("receivers", "err")}
    BY ResultSteps DEF ResultTypes
  <1> QED BY <1>1, <1>2 DEF ResultTypes

(* Which steps change the books. *)
LEMMA BookSteps ==
    ASSUME Stage, [Next]_vars
    PROVE  \/ \E ids \in SUBSET Files, dirs \in BOOLEAN : SendManifest(ids, dirs)
           \/ ReadReply \/ ReadStartIndex
           \/ \E f \in Files : StartFile(f)
           \/ ControllerRecv /\ Retry(Head(inbox))
           \/ ControllerRecv /\ Settle(Head(inbox))
           \/ /\ UNCHANGED <<files, active, current>>
              /\ sender' = sender \/ sender' # "run"
              /\ controller' = controller \/ controller' = "exited"
  <1>1. CASE \E f \in Files, n \in 1..MaxAttempts : WriterStep(f, n) \/ DiskFails(f, n)
    BY <1>1, WriterStepMoves DEF WriterMoves, writerFrame, controlVars
  <1>2. CASE SenderExit
    <2>1. UNCHANGED <<files, active, current, controller>>
      BY <1>2 DEF SenderExit, controlVars
    <2>2. sender' \in {"ok", "err"}
      BY <1>2 DEF SenderExit, Stage, StageTypes
    <2> QED BY <2>1, <2>2
  <1>3. CASE CrawlFails \/ CancelSender
    BY <1>3 DEF CrawlFails, CancelSender, controlVars
  <1>4. CASE \/ SendDone \/ ReadHello \/ ReceiverRecv \/ ControllerFails
             \/ SplitRecv \/ SplitFails \/ ConfirmationsEnd \/ SendersFail
             \/ ListenFails \/ MessagesEnd \/ ConfirmationsSent \/ ReceiversFail
             \/ ReceiversStarve \/ HeldUp \/ ReceiverExit \/ CancelReceiver
             \/ (\E stream \in {"rts", "str"} : Cut(stream)) \/ UNCHANGED vars
    BY <1>4 DEF SendDone, ReadHello, ReceiverRecv, ControllerFails, SplitRecv, SplitFails,
       ConfirmationsEnd, SendersFail, ListenFails, MessagesEnd, ConfirmationsSent, ReceiversFail,
       ReceiversStarve, HeldUp, QueueFills, writerFrame, ReceiverExit, CancelReceiver, Cut, vars, hostVars, controlVars, senderFrame,
       controllerFrame, receiverFrame
  <1> QED BY <1>1, <1>2, <1>3, <1>4, Steps

(* A file that goes from one of the controller's hands to the other stays  *)
(* on the books; one that comes off was reported.                          *)
LEMMA BooksLose ==
    ASSUME Books, Truthful, Held, [Next]_vars
    PROVE  NothingLost'
  <1> USE DEF Held
  <1>0. wanted \subseteq Files /\ active \subseteq Files /\ files \subseteq Files
    BY DEF Stage, StageTypes
  <1>1. CASE \E ids \in SUBSET Files, dirs \in BOOLEAN : SendManifest(ids, dirs)
    BY <1>1 DEF SendManifest, NothingLost
  <1>2. CASE ReadReply
    <2>1. sender = "reply" /\ UNCHANGED <<active, current, wanted>> /\ active = {} /\ current = NoFile
      BY <1>2 DEF ReadReply, receiverVars, Stage, Handshake
    <2>2. sender' = "run" => wanted = files'
      BY <1>2, ReplyRead
    <2> QED BY <2>1, <2>2 DEF NothingLost, AwaitedFile
  <1>3. CASE ReadStartIndex
    <2>1. /\ sender = "run" /\ current \in Files /\ current' = NoFile
          /\ active' = active \cup {current} /\ UNCHANGED <<files, wanted>>
      BY <1>3 DEF ReadStartIndex, controllerFrame, receiverVars, Stage, Handshake
    <2>2. files' \cup active' \cup AwaitedFile' = files \cup active \cup AwaitedFile
      BY <2>1, SessionAssumption DEF AwaitedFile
    <2> QED BY <1>0, <2>1, <2>2, OverStays DEF NothingLost, Books
  <1>4. ASSUME NEW f \in Files, StartFile(f)
        PROVE  NothingLost'
    <2>1. /\ sender = "run" /\ current = NoFile /\ current' = f /\ f \in files
          /\ files' = files \ {f} /\ UNCHANGED <<active, wanted>>
      BY <1>4 DEF StartFile, controllerFrame, receiverVars, Stage, Handshake
    <2>2. files' \cup active' \cup AwaitedFile' = files \cup active \cup AwaitedFile
      BY <2>1, SessionAssumption DEF AwaitedFile
    <2> QED BY <1>0, <2>1, <2>2, OverStays DEF NothingLost, Books
  <1>5. CASE ControllerRecv /\ Retry(Head(inbox))
    <2>1. /\ sender = "run" /\ current = NoFile /\ current' \in active
          /\ UNCHANGED <<files, active, wanted>>
      BY <1>5 DEF ControllerRecv, Retry, Refuted, controllerFrame, receiverVars, Stage, Handshake
    <2>2. files' \cup active' \cup AwaitedFile' = files \cup active \cup AwaitedFile
      BY <1>0, <2>1, SessionAssumption DEF AwaitedFile
    <2> QED BY <1>0, <2>1, <2>2, OverStays DEF NothingLost, Books
  <1>6. CASE ControllerRecv /\ Settle(Head(inbox))
    <2> DEFINE msg == Head(inbox)
    <2>1. /\ sender = "run" /\ inbox # <<>> /\ inbox' = Tail(inbox)
          /\ active' = active \ {msg.id} /\ ~Refuted(msg)
          /\ UNCHANGED <<files, current, wanted, rts>>
      BY <1>6 DEF ControllerRecv, Settle, controllerFrame, receiverVars
    <2>2. msg \in Reports /\ (Reported(msg) => Over(msg.id))
      BY <2>1, CarriedTaken DEF Truthful
    <2>3. msg.id \in active => Over(msg.id)
      <3>1. msg = End(msg.id) \/ msg = Failure(msg.id, 0) \/ msg = Failure(msg.id, 2)
        BY <2>2, ReportFacts
      <3>2. msg.id \in active => Reported(msg)
        BY <2>1, <3>1, ReportFacts DEF Reported, Refuted
      <3> QED BY <2>2, <3>2
    <2> HIDE DEF msg
    <2>4. \A f \in active \ active' : Over(f)
      BY <2>1, <2>3
    <2> QED BY <1>0, <2>1, <2>4, OverStays DEF NothingLost, AwaitedFile, Books
  <1>7. CASE UNCHANGED <<files, active, current>> /\ (sender' = sender \/ sender' # "run")
    BY <1>7, LostKept DEF Books
  <1> QED BY <1>1, <1>2, <1>3, <1>4, <1>5, <1>6, <1>7, BookSteps

LEMMA BooksStep ==
    ASSUME Books, Truthful, Held, [Next]_vars
    PROVE  Books'
  <1> USE DEF Held
  <1>1. NothingLost'
    BY BooksLose
  <1>2. controller' = "done" => files' = {} /\ active' = {}
    <2>1. CASE ControllerRecv /\ Settle(Head(inbox))
      BY <2>1 DEF ControllerRecv, Settle
    <2>2. CASE \/ \E ids \in SUBSET Files, dirs \in BOOLEAN : SendManifest(ids, dirs)
               \/ ReadReply
      BY <2>2 DEF SendManifest, ReadReply, Stage, Handshake
    <2>3. CASE \/ ReadStartIndex
               \/ \E f \in Files : StartFile(f)
               \/ ControllerRecv /\ Retry(Head(inbox))
      BY <2>3 DEF ReadStartIndex, StartFile, Retry
    <2>4. CASE /\ UNCHANGED <<files, active, current>>
               /\ controller' = controller \/ controller' = "exited"
      BY <2>4 DEF Books
    <2> QED BY <2>1, <2>2, <2>3, <2>4, BookSteps
  <1>3. receiver' = "hello" => results' = {}
    <2>1. receiver' = "hello" => receiver = "hello"
      BY Steps, WriterStepMoves
      DEF SendManifest, ReadReply, ReadStartIndex, SendDone, ReceiverRecv, StartFile, ReadHello,
          ControllerRecv, CrawlFails, ControllerFails, SplitRecv, SplitFails, ConfirmationsEnd,
          SendersFail, SenderExit, CancelSender, ListenFails, MessagesEnd, ConfirmationsSent,
          ReceiversFail, ReceiversStarve, HeldUp, QueueFills, writerFrame,
          ReceiverExit, CancelReceiver, Cut, WriterMoves, vars, hostVars,
          senderFrame, controllerFrame, receiverFrame, writerFrame, Stage, StageTypes
    <2>2. receiver = "hello" => UNCHANGED results
      BY ResultSteps DEF Stage, Handshake
    <2> QED BY <2>1, <2>2 DEF Books
  <1>4. ASSUME Ended("controller", "ok") \in results'
        PROVE  controller' = "exited" /\ active' = {} /\ current' = NoFile /\ AllOver'
    <2>1. UNCHANGED wanted
      <3>1. CASE receiver = "hello"
        <4>1. results = {} /\ sender # "run"
          BY <3>1 DEF Books, Stage, Handshake
        <4> QED BY <1>4, <4>1, ResultSteps
      <3> QED BY <3>1, WantedKept
    <2>2. CASE Ended("controller", "ok") \in results
      <3>1. /\ controller = "exited" /\ active = {} /\ current = NoFile /\ AllOver
            /\ sender \notin {"hello", "reply"}
        BY <2>2 DEF Books, Stage, Handshake
      <3>2. UNCHANGED <<active, current>> /\ controller' = "exited"
        BY <3>1, BookSteps
        DEF SendManifest, ReadReply, ReadStartIndex, StartFile, ControllerRecv
      <3> QED BY <2>1, <3>1, <3>2, AllOverStays
    <2>3. CASE Ended("controller", "ok") \notin results
      <3>1. SendDone
        <4>1. Ended("controller", "ok") \notin {Ended("controller", "err"), Ended("receiver", "err"),
                                               Ended("confirmation", "ok"), Ended("senders", "err")}
          BY EndedFacts
        <4> QED BY <1>4, <2>3, <4>1, ResultSteps
      <3>2. /\ sender = "run" /\ controller = "done" /\ controller' = "exited"
            /\ UNCHANGED <<active, current>>
        BY <3>1 DEF SendDone
      <3>3. files = {} /\ active = {} /\ current = NoFile
        BY <3>2 DEF Books, Stage, Handshake
      <3>4. AllOver
        BY <3>2, <3>3 DEF Books, NothingLost, AwaitedFile, AllOver
      <3> QED BY <2>1, <3>2, <3>3, <3>4, AllOverStays
    <2> QED BY <2>2, <2>3
  <1> QED BY <1>1, <1>2, <1>3, <1>4 DEF Books

LEMMA BooksInit == Init => Books /\ Truthful /\ ResultTypes
  <1> SUFFICES ASSUME Init PROVE Books /\ Truthful /\ ResultTypes
    OBVIOUS
  <1>1. Books /\ ResultTypes
    BY DEF Init, Books, NothingLost, ResultTypes
  <1>2. DOMAIN Carried = {}
    <2>1. inbox = <<>> /\ rts = <<>>
      BY DEF Init
    <2> QED BY <2>1, StageInit, CarriedType
  <1> QED BY <1>1, <1>2 DEF Truthful

(* The two hosts agree on what is left, whatever fails and however often:  *)
(* the sender starts only files the receiver has details of, and takes a   *)
(* file off its books only when its last writer has come to its end, or    *)
(* when it was started again and the writer that refuted it has reported   *)
(* its error as well.                                                      *)
THEOREM BooksAgree == Spec => []NothingForgotten
  <1>1. Init => Books /\ Truthful
    BY BooksInit
  <1>2. Held /\ Books /\ Truthful /\ [Next]_vars => Books' /\ Truthful'
    BY BooksStep, TruthfulStep
  <1>3. Held /\ Books => NothingForgotten
    BY OverMeans DEF Books, NothingLost, NothingForgotten, Held, Stage, StageTypes
  <1> QED BY <1>1, <1>2, <1>3, HeldAlways, PTL DEF Spec

-----------------------------------------------------------------------------
(* What the end of a task, and of a main function, says.                   *)

Failed(main) == main \in {"err", "cancelled"}

Success ==
    /\ OnWire("receiver", Done(2)) => AllOver
    /\ closed => AllOver
    /\ Ended("controller", "ok") \in rresults => AllOver
    /\ Ended("messages", "ok") \in rresults => AllOver
    /\ ~listening => AllOver \/ cut # {} \/ Exited(sender)
    /\ Ended("receiver", "err") \in results \/ Ended("confirmation", "ok") \in results =>
          cut # {} \/ Exited(receiver)
    /\ Ended("confirmation", "ok") \in rresults =>
          AllOver \/ cut # {} \/ Failed(sender)
    /\ sender = "ok" => AllOver \/ cut # {} \/ Exited(receiver)
    /\ receiver = "ok" => AllOver \/ cut # {} \/ Failed(sender)

(* What has ended or broken stays so. *)
LEMMA NothingReturns ==
    ASSUME Stage, [Next]_vars
    PROVE  /\ Exited(sender) => sender' = sender
           /\ Exited(receiver) => receiver' = receiver
           /\ cut # {} => cut' # {}
  <1>1. Exited(sender) => sender' = sender
    BY Steps, WriterStepMoves
    DEF SendManifest, ReadReply, ReadStartIndex, SendDone, ReadHello, ReceiverRecv, StartFile,
        ControllerRecv, CrawlFails, ControllerFails, SplitRecv, SplitFails, ConfirmationsEnd,
        SendersFail, SenderExit, CancelSender, ListenFails, MessagesEnd, ConfirmationsSent,
        ReceiversFail, ReceiversStarve, HeldUp, QueueFills, writerFrame,
        ReceiverExit, CancelReceiver, Cut, WriterMoves, vars, hostVars,
        controllerFrame, receiverFrame, writerFrame, Exited
  <1>2. Exited(receiver) => receiver' = receiver
    BY Steps, WriterStepMoves
    DEF SendManifest, ReadReply, ReadStartIndex, SendDone, ReadHello, ReceiverRecv, StartFile,
        ControllerRecv, CrawlFails, ControllerFails, SplitRecv, SplitFails, ConfirmationsEnd,
        SendersFail, SenderExit, CancelSender, ListenFails, MessagesEnd, ConfirmationsSent,
        ReceiversFail, ReceiversStarve, HeldUp, QueueFills, writerFrame,
        ReceiverExit, CancelReceiver, Cut, WriterMoves, vars, hostVars,
        senderFrame, controllerFrame, receiverFrame, writerFrame, Exited
  <1>3. cut \subseteq cut'
    BY Steps, WriterStepMoves
    DEF SendManifest, ReadReply, ReadStartIndex, SendDone, ReadHello, ReceiverRecv, StartFile,
        ControllerRecv, CrawlFails, ControllerFails, SplitRecv, SplitFails, ConfirmationsEnd,
        SendersFail, SenderExit, CancelSender, ListenFails, MessagesEnd, ConfirmationsSent,
        ReceiversFail, ReceiversStarve, HeldUp, QueueFills, writerFrame,
        ReceiverExit, CancelReceiver, Cut, WriterMoves, vars, hostVars,
        senderFrame, controllerFrame, receiverFrame, writerFrame
  <1> QED BY <1>1, <1>2, <1>3

LEMMA DoneSteps ==
    ASSUME Wire, Stage, [Next]_vars, OnWire("receiver", Done(2))'
    PROVE  OnWire("receiver", Done(2)) \/ SendDone
  <1> USE MessageFacts DEF Ends
  <1>1. CASE \E ids \in SUBSET Files, dirs \in BOOLEAN : SendManifest(ids, dirs)
    <2>1. PICK ids \in SUBSET Files : Left("receiver", Done(0)) \/ Left("receiver", Manifest(ids))
      BY <1>1, ManifestSent
    <2>2. Done(2) # Done(0) /\ Done(2) # Manifest(ids)
      OBVIOUS
    <2> QED BY <2>1, <2>2 DEF Left
  <1>2. CASE ReadReply
    <2>1. Done(2) # Done(1)
      OBVIOUS
    <2> QED BY <1>2, <2>1, ReplyRead DEF Left, Hushed
  <1>3. CASE ReadStartIndex
    BY <1>3, IndexRead DEF Hushed
  <1>4. CASE ReadHello
    BY <1>4, HelloRead DEF Left, Hushed
  <1>5. CASE ReceiverRecv
    BY <1>5, RequestRead DEF Left, Hushed
  <1>6. CASE \E f \in Files : StartFile(f)
    BY <1>6, FileStarted DEF Left
  <1>7. CASE ControllerRecv /\ Retry(Head(inbox))
    BY <1>7, FileRetried DEF Left
  <1>8. CASE UNCHANGED str
    BY <1>8 DEF OnWire, Message
  <1>9. \/ \E ids \in SUBSET Files, dirs \in BOOLEAN : SendManifest(ids, dirs)
        \/ ReadReply \/ ReadStartIndex \/ SendDone \/ ReadHello \/ ReceiverRecv
        \/ \E f \in Files : StartFile(f)
        \/ ControllerRecv /\ Retry(Head(inbox))
        \/ UNCHANGED str
    BY Steps, WriterStepMoves
    DEF Settle, CrawlFails, ControllerFails, SplitRecv, SplitFails, ConfirmationsEnd,
        SendersFail, SenderExit, CancelSender, ListenFails, MessagesEnd, ConfirmationsSent,
        ReceiversFail, ReceiversStarve, HeldUp, QueueFills, writerFrame,
        ReceiverExit, CancelReceiver, Cut, WriterMoves, vars, hostVars,
        senderFrame, receiverFrame, writerFrame
  <1> QED BY <1>1, <1>2, <1>3, <1>4, <1>5, <1>6, <1>7, <1>8, <1>9

LEMMA DoneRead ==
    ASSUME Success, Wire, Stage, ReceiverRecv, closed' # closed \/ listening' # listening
    PROVE  AllOver /\ closed' = TRUE
  <1>1. PICK r \in 0..2 : OnWire("receiver", Done(r)) /\ closed' = TRUE
    BY RequestRead
  <1>2. receiver = "run" /\ (r = 0 \/ r = 1 \/ r = 2)
    BY DEF ReceiverRecv
  <1> QED BY <1>1, <1>2 DEF Success, AllOver, Stage, OnTheWay

(* The manifest is read. *)
LEMMA SuccessHello ==
    ASSUME Success, Books, Held, [Next]_vars, ReadHello, receiver = "hello"
    PROVE  Success'
  <1> USE DEF Held
  <1>1. /\ wanted = {} /\ rresults' = {} /\ results' = {} /\ listening' /\ ~closed'
        /\ UNCHANGED <<sender, cut>>
    BY DEF ReadHello, Books, Stage, Handshake
  <1>2. ~OnWire("receiver", Done(2))'
    BY HelloRead DEF Left, Hushed, Ends
  <1>3. UNCHANGED wanted => AllOver'
    BY <1>1 DEF AllOver
  <1>4. UNCHANGED wanted \/ (sender # "ok" /\ receiver' # "ok")
    <2>1. ASSUME NEW ids \in SUBSET Files, OnWire("receiver", Manifest(ids)), AcceptManifest(ids)
          PROVE  sender # "ok" /\ receiver' # "ok"
      BY <2>1 DEF Stage, OnTheWay, AcceptManifest
    <2> QED BY <2>1, HelloRead
  <1> QED BY <1>1, <1>2, <1>3, <1>4 DEF Success

LEMMA SuccessStep ==
    ASSUME Success, Books, ResultTypes, Held, [Next]_vars
    PROVE  Success'
  <1> USE DEF Held
  <1>1. CASE ~UNCHANGED wanted
    BY <1>1, WantedKept, SuccessHello
  <1>2. CASE UNCHANGED wanted
    <2>0. AllOver => AllOver'
      BY <1>2, AllOverStays
    <2>1. OnWire("receiver", Done(2))' => AllOver'
      <3>1. CASE SendDone
        BY <2>0, <3>1 DEF SendDone, Books, Stage, Handshake, NothingLost, AwaitedFile,
                          AllOver
      <3>2. CASE OnWire("receiver", Done(2))
        BY <2>0, <3>2 DEF Success
      <3> QED BY <3>1, <3>2, DoneSteps
    <2>2. closed' => AllOver'
      <3>1. UNCHANGED closed \/ ReceiverRecv
        BY Steps, WriterStepMoves
        DEF SendManifest, ReadReply, ReadStartIndex, SendDone, ReadHello, StartFile,
            ControllerRecv, CrawlFails, ControllerFails, SplitRecv, SplitFails, ConfirmationsEnd,
            SendersFail, SenderExit, CancelSender, ListenFails, MessagesEnd, ConfirmationsSent,
            ReceiversFail, ReceiversStarve, HeldUp, QueueFills, writerFrame,
            ReceiverExit, CancelReceiver, Cut, WriterMoves, vars, hostVars,
            receiverVars, senderFrame, controllerFrame, receiverFrame, writerFrame
      <3> QED BY <2>0, <3>1, DoneRead DEF Success
    <2>3. Ended("controller", "ok") \in rresults' => AllOver'
      <3>1. Ended("controller", "ok") \notin
               {Ended("controller", "err"), Ended("messages", "ok"), Ended("messages", "err"),
                Ended("confirmation", "ok"), Ended("confirmation", "err"), Ended("receivers", "err")}
        BY EndedFacts
      <3> QED BY <2>0, <2>2, <3>1, ResultSteps DEF Success
    <2>4. Ended("messages", "ok") \in rresults' => AllOver'
      <3>1. Ended("messages", "ok") \notin
               {Ended("controller", "err"), Ended("controller", "ok"), Ended("messages", "err"),
                Ended("confirmation", "ok"), Ended("confirmation", "err"), Ended("receivers", "err")}
        BY EndedFacts
      <3> QED BY <2>0, <3>1, ResultSteps DEF Success
    <2>5. ~listening' => AllOver' \/ cut' # {} \/ Exited(sender)'
      <3>1. UNCHANGED listening \/ ReceiverRecv \/ ListenFails
        BY Steps, WriterStepMoves
        DEF SendManifest, ReadReply, ReadStartIndex, SendDone, ReadHello, StartFile,
            ControllerRecv, CrawlFails, ControllerFails, SplitRecv, SplitFails, ConfirmationsEnd,
            SendersFail, SenderExit, CancelSender, MessagesEnd, ConfirmationsSent,
            ReceiversFail, ReceiversStarve, HeldUp, QueueFills, writerFrame,
            ReceiverExit, CancelReceiver, Cut, WriterMoves, vars, hostVars,
            receiverVars, senderFrame, controllerFrame, receiverFrame, writerFrame
      <3>2. CASE ListenFails
        BY <3>2 DEF ListenFails, StrEnded, Exited
      <3>3. CASE UNCHANGED listening
        BY <2>0, <3>3, NothingReturns DEF Success, Exited
      <3>4. CASE ReceiverRecv /\ listening' # listening
        BY <2>0, <3>4, DoneRead
      <3> QED BY <3>1, <3>2, <3>3, <3>4
    <2>6. Ended("receiver", "err") \in results' \/ Ended("confirmation", "ok") \in results' =>
             cut' # {} \/ Exited(receiver)'
      <3>1. {Ended("receiver", "err"), Ended("confirmation", "ok")} \cap
               {Ended("controller", "err"), Ended("controller", "ok"), Ended("senders", "err")} = {}
        BY EndedFacts
      <3>2. CASE SplitFails
        BY <3>2 DEF SplitFails, senderFrame, Exited
      <3>3. CASE ConfirmationsEnd
        <4>1. Ended("receiver", "err") \in results
          BY <3>3, EndedFacts DEF ConfirmationsEnd, ResultTypes
        <4> QED BY <4>1, NothingReturns DEF Success, Exited
      <3>4. CASE \/ Ended("receiver", "err") \in results
                 \/ Ended("confirmation", "ok") \in results
        BY <3>4, NothingReturns DEF Success, Exited
      <3> QED BY <3>1, <3>2, <3>3, <3>4, ResultSteps
    <2>7. Ended("confirmation", "ok") \in rresults' =>
             AllOver' \/ cut' # {} \/ Failed(sender)'
      <3>1. Ended("confirmation", "ok") \notin
               {Ended("controller", "err"), Ended("controller", "ok"), Ended("messages", "ok"),
                Ended("messages", "err"), Ended("confirmation", "err"), Ended("receivers", "err")}
        BY EndedFacts
      <3>2. CASE ConfirmationsSent /\ ~listening
        <4>1. receiver = "run"
          BY <3>2 DEF ConfirmationsSent
        <4>2. ~Exited(receiver)
          BY <4>1 DEF Exited
        <4>3. AllOver \/ cut # {} \/ Failed(sender)
          BY <3>2, <4>2 DEF Success, Exited, Failed
        <4> QED BY <2>0, <4>3, NothingReturns DEF Exited, Failed
      <3>3. CASE Ended("confirmation", "ok") \in rresults
        BY <2>0, <3>3, NothingReturns DEF Success, Exited, Failed
      <3> QED BY <3>1, <3>2, <3>3, ResultSteps
    <2>8. sender' = "ok" => AllOver' \/ cut' # {} \/ Exited(receiver)'
      <3>1. \/ sender' = sender \/ SenderExit \/ ReadReply
            \/ \E ids \in SUBSET Files, dirs \in BOOLEAN : SendManifest(ids, dirs)
            \/ sender' # "ok"
        BY Steps, WriterStepMoves
        DEF ReadStartIndex, SendDone, ReadHello, ReceiverRecv, StartFile,
            ControllerRecv, CrawlFails, ControllerFails, SplitRecv, SplitFails, ConfirmationsEnd,
            SendersFail, CancelSender, ListenFails, MessagesEnd, ConfirmationsSent,
            ReceiversFail, ReceiversStarve, HeldUp, QueueFills, writerFrame,
            ReceiverExit, CancelReceiver, Cut, WriterMoves, vars, hostVars,
            controllerFrame, receiverFrame, writerFrame
      <3>2. CASE sender' = sender
        BY <2>0, <3>2, NothingReturns DEF Success, Exited
      <3>3. ASSUME SenderExit, sender' = "ok"
            PROVE  AllOver' \/ cut' # {} \/ Exited(receiver)'
        <4>1. PICK r \in results : r.result = "ok"
          BY <3>3 DEF SenderExit
        <4>2. r = Ended("controller", "ok") \/ r = Ended("confirmation", "ok")
          BY <4>1, EndedFacts DEF ResultTypes
        <4> QED BY <2>0, <4>1, <4>2, NothingReturns DEF Books, Success, Exited
      <3>4. ASSUME ReadReply, sender' = "ok"
            PROVE  AllOver'
        <4>1. wanted = {}
          BY <3>4, ReplyRead
        <4> QED BY <2>0, <4>1 DEF AllOver
      <3>5. CASE \E ids \in SUBSET Files, dirs \in BOOLEAN : SendManifest(ids, dirs)
        <4>1. wanted = {}
          BY <3>5 DEF SendManifest, Stage, Handshake
        <4> QED BY <2>0, <4>1 DEF AllOver
      <3> QED BY <3>1, <3>2, <3>3, <3>4, <3>5
    <2>9. receiver' = "ok" => AllOver' \/ cut' # {} \/ Failed(sender)'
      <3>1. \/ receiver' = receiver \/ ReceiverExit \/ ReadHello \/ receiver' # "ok"
        BY Steps, WriterStepMoves
        DEF SendManifest, ReadReply, ReadStartIndex, SendDone, ReceiverRecv, StartFile,
            ControllerRecv, CrawlFails, ControllerFails, SplitRecv, SplitFails, ConfirmationsEnd,
            SendersFail, SenderExit, CancelSender, ListenFails, MessagesEnd, ConfirmationsSent,
            ReceiversFail, ReceiversStarve, HeldUp, QueueFills, writerFrame,
            CancelReceiver, Cut, WriterMoves, vars, hostVars,
            senderFrame, controllerFrame, receiverFrame, writerFrame
      <3>2. CASE receiver' = receiver
        BY <2>0, <3>2, NothingReturns DEF Success, Exited, Failed
      <3>3. ASSUME ReceiverExit, receiver' = "ok"
            PROVE  AllOver' \/ cut' # {} \/ Failed(sender)'
        <4>1. PICK r \in rresults : r.result = "ok"
          BY <3>3 DEF ReceiverExit
        <4>2. \/ r = Ended("controller", "ok") \/ r = Ended("messages", "ok")
              \/ r = Ended("confirmation", "ok")
          BY <4>1, EndedFacts DEF ResultTypes
        <4> QED BY <2>0, <4>1, <4>2, NothingReturns DEF Success, Exited, Failed
      <3>4. CASE ReadHello
        <4>1. wanted = {}
          BY <3>4 DEF ReadHello, Stage, Handshake
        <4> QED BY <2>0, <4>1 DEF AllOver
      <3> QED BY <3>1, <3>2, <3>3, <3>4
    <2> QED BY <2>1, <2>2, <2>3, <2>4, <2>5, <2>6, <2>7, <2>8, <2>9 DEF Success
  <1> QED BY <1>1, <1>2

(* A controller that ends well has seen every wanted file settled (or      *)
(* failed after it was started again), whatever broke.  A host that        *)
(* reports success has too, whichever of its tasks ended first, unless a   *)
(* stream broke or its peer failed or was cancelled.                       *)
THEOREM SuccessIsTrue == Spec => []SuccessMeansSettled
  <1>1. Init => Success /\ Books /\ Truthful /\ ResultTypes
    <2>1. Init => Success
      BY DEF Init, Success, OnWire, AllOver, Exited
    <2> QED BY <2>1, BooksInit
  <1>2. /\ Held /\ Success /\ Books /\ Truthful /\ ResultTypes /\ [Next]_vars
        => Success' /\ Books' /\ Truthful' /\ ResultTypes'
    BY SuccessStep, BooksStep, TruthfulStep, ResultTypesStep
  <1>3. Held /\ Success /\ Books => SuccessMeansSettled
    <2> SUFFICES ASSUME Held, Success, Books PROVE SuccessMeansSettled
      OBVIOUS
    <2>1. AllOver => \A f \in wanted : Settled(f) \/ Retried(f)
      BY OverMeans DEF AllOver, Held, Stage, StageTypes
    <2>2. [task |-> "controller", result |-> "ok"] \in results \cup rresults => AllOver
      BY DEF Success, Books, Ended
    <2>3. sender = "ok" => AllOver \/ cut # {} \/ receiver \in {"err", "cancelled"}
      BY DEF Success, Exited, Failed
    <2>4. receiver = "ok" => AllOver \/ cut # {} \/ sender \in {"err", "cancelled"}
      BY DEF Success, Failed
    <2> QED BY <2>1, <2>2, <2>3, <2>4 DEF SuccessMeansSettled
  <1> QED BY <1>1, <1>2, <1>3, HeldAlways, PTL DEF Spec

-----------------------------------------------------------------------------
(* Where no verification can fail (a transfer without --verify, or of a    *)
(* source that stays as it is), no file is retried: it has one writer, and *)
(* that writer is at work only while the file is on the sender's books.    *)

NothingRefuted == Verify => \A F \in FaultSets : "data" \notin F

(* The contents of f are those of the source as far as they go, and they   *)
(* go to where its writer will append.                                     *)
Intact(f) ==
    /\ \A i \in Inodes : contents[f][i].right
    /\ writer[<<f, 1>>] \in {"none", "open"} => contents[f][1].len = 0
    /\ writer[<<f, 1>>] = "none" /\ f \in wanted =>
          partial[f] = NoInode \/ contents[f][partial[f]].len = start_index[f]
    /\ writer[<<f, 1>>] = "open" =>
          IF partial[f] = NoInode THEN start_index[f] = 0
          ELSE contents[f][partial[f]].len = start_index[f]
    /\ writer[<<f, 1>>] = "data" => contents[f][fd[<<f, 1>>]].len = start_index[f]

Once ==
    /\ \A f \in Files :
          /\ Verify => Intact(f)
          /\ AskedAt(f) = {}
          /\ Pending(f) => Attempts(f) = {}
          /\ Attempts(f) \subseteq {1}
          /\ writer[<<f, 1>>] # "remove"
          /\ ~Verify => writer[<<f, 1>>] # "verify"
          /\ writer[<<f, 1>>] \notin Idle => f \in active \cup AwaitedFile
    /\ Verify => "data" \notin faults

LEMMA OneInodes == /\ 1 \in Inodes /\ 1 \in 1..MaxAttempts /\ NoInode \notin Inodes
                   /\ \A f \in Files : <<f, 1>> \in Writers
  BY SessionAssumption DEF Inodes, NoInode, Writers

LEMMA OnceInit == Init /\ NothingRefuted => Once
  <1> SUFFICES ASSUME Init, NothingRefuted PROVE Once
    OBVIOUS
  <1> USE OneInodes
  <1>1. Verify => "data" \notin faults
    BY DEF Init, NothingRefuted
  <1>2. /\ \A w \in Writers : writer[w] = "none"
        /\ wanted = {} /\ files = {} /\ str["receiver"] = <<>> /\ inbox = <<>> /\ rts = <<>>
    BY DEF Init
  <1>3. ASSUME NEW f \in Files
        PROVE  Attempts(f) = {} /\ AskedAt(f) = {} /\ ~Pending(f) /\ writer[<<f, 1>>] = "none"
    <2>1. Attempts(f) = {}
      BY <1>2 DEF Attempts, Writers
    <2>2. AskedAt(f) = {}
      BY <1>2, StageInit, CarriedType DEF AskedAt
    <2> QED BY <1>2, <2>1, <2>2 DEF Pending, OnWire
  <1>4. ASSUME Verify, NEW f \in Files
        PROVE  Intact(f)
    <2>1. PICK len \in [Files -> Lengths],
               right \in [Files -> IF "data" \in faults THEN BOOLEAN ELSE {TRUE}] :
             contents = [g \in Files |-> [i \in Inodes |->
                           IF i = 0 /\ partial[g] = 0
                           THEN [len |-> len[g], right |-> right[g]]
                           ELSE [len |-> 0, right |-> TRUE]]]
      BY DEF Init
    <2>2. right[f] = TRUE
      BY <1>1, <1>4
    <2>3. \A i \in Inodes : contents[f][i].right
      BY <2>1, <2>2
    <2>4. contents[f][1].len = 0
      BY <2>1
    <2> QED BY <1>2, <1>3, <2>3, <2>4 DEF Intact
  <1> QED BY <1>1, <1>3, <1>4 DEF Once, Idle

(* The one writer of a file appends where its contents end, and so leaves  *)
(* them right.                                                             *)
LEMMA IntactWriter ==
    ASSUME Once, Verify, Held, NEW f \in Files, WriterStep(f, 1) \/ DiskFails(f, 1)
    PROVE  \A g \in Files : Intact(g)'
  <1> USE OneInodes DEF Held
  <1>0. /\ writer \in [Writers -> Idle \cup Phases]
        /\ partial \in [Files -> Inodes \cup {NoInode}]
        /\ fd \in [Writers -> Inodes \cup {NoInode}]
        /\ contents \in [Files -> [Inodes -> [len : Nat, right : BOOLEAN]]]
        /\ UNCHANGED <<start_index, wanted>>
        /\ \E phase \in (Idle \cup Phases) \ {"none", "open"} :
              writer' = [writer EXCEPT ![<<f, 1>>] = phase]
    BY DEF WriterStep, WriterOpen, WriterData, WriterVerified, WriterRefuted, WriterRemove,
           WriterRename, WriterEnd, WriterMisses, DiskFails, WriterReport, Goto, Idle, Phases,
           writerFrame, receiverVars, Stage, StageTypes, OtherTypes
  <1>1. ASSUME NEW g \in Files, g # f
        PROVE  Intact(g)'
    <2>1. /\ writer'[<<g, 1>>] = writer[<<g, 1>>] /\ fd'[<<g, 1>>] = fd[<<g, 1>>]
          /\ partial'[g] = partial[g] /\ contents'[g] = contents[g]
      BY <1>0, <1>1 DEF WriterStep, WriterOpen, WriterData, WriterVerified, WriterRefuted,
             WriterRemove, WriterRename, WriterEnd, WriterMisses, DiskFails, WriterReport
    <2>2. Intact(g)
      BY DEF Once
    <2> QED BY <1>0, <2>1, <2>2 DEF Intact
  <1>2. Intact(f) /\ writer'[<<f, 1>>] \notin {"none", "open"}
    BY <1>0 DEF Once
  <1>3. ASSUME WriterOpen(f, 1)
        PROVE  Intact(f)'
    <2>1. /\ writer[<<f, 1>>] = "open" /\ UNCHANGED contents
          /\ fd'[<<f, 1>>] = IF partial[f] = NoInode THEN 1 ELSE partial[f]
      BY <1>0, <1>3 DEF WriterOpen, At
    <2>2. contents'[f][fd'[<<f, 1>>]].len = start_index'[f]
      BY <1>0, <1>2, <2>1 DEF Intact
    <2> QED BY <1>2, <2>1, <2>2 DEF Intact
  <1>4. ASSUME WriterData(f, 1)
        PROVE  Intact(f)'
    <2> DEFINE i == fd[<<f, 1>>]
    <2>1. /\ writer[<<f, 1>>] = "data" /\ writer'[<<f, 1>>] # "data"
          /\ contents' = [contents EXCEPT ![f][i] =
                [len |-> contents[f][i].len + Size - start_index[f],
                 right |-> contents[f][i].right /\ contents[f][i].len = start_index[f] /\ TRUE]]
      BY <1>0, <1>4 DEF WriterData, At, Goto, Once
    <2>2. contents[f][i].len = start_index[f]
      BY <1>2, <2>1 DEF Intact
    <2>3. \A k \in Inodes : contents[f][k].right
      BY <1>2 DEF Intact
    <2>4. \A k \in Inodes : contents'[f][k].right
      <3>1. ASSUME NEW k \in Inodes
            PROVE  contents'[f][k].right
        <4>1. CASE k = i
          <5>1. contents'[f][k].right =
                   (contents[f][i].right /\ contents[f][i].len = start_index[f] /\ TRUE)
            BY <1>0, <2>1, <4>1
          <5> QED BY <2>2, <2>3, <4>1, <5>1
        <4>2. CASE k # i
          <5>1. contents'[f][k] = contents[f][k]
            BY <1>0, <2>1, <4>2
          <5> QED BY <2>3, <5>1
        <4> QED BY <4>1, <4>2
      <3> QED BY <3>1
    <2> QED BY <1>2, <2>1, <2>4 DEF Intact
  <1>5. ASSUME ~WriterOpen(f, 1) /\ ~WriterData(f, 1)
        PROVE  Intact(f)'
    <2>1. UNCHANGED contents /\ writer'[<<f, 1>>] # "data"
      BY <1>0, <1>5 DEF WriterStep, WriterVerified, WriterRefuted, WriterRemove, WriterRename,
             WriterEnd, WriterMisses, DiskFails, WriterReport, At, Goto
    <2> QED BY <1>2, <2>1 DEF Intact
  <1>6. Intact(f)'
    BY <1>3, <1>4, <1>5
  <1> QED BY <1>1, <1>6

(* No writer finds its file wrong, so none asks for a file to be sent once *)
(* more.                                                                   *)
LEMMA OnceWriter ==
    ASSUME Once, Held, [Next]_vars,
           NEW f \in Files, NEW n \in 1..MaxAttempts, WriterStep(f, n) \/ DiskFails(f, n)
    PROVE  Once'
  <1> USE OneInodes DEF Held
  <1>0. /\ UNCHANGED <<files, active, current, inbox, str>> /\ faults' = faults
        /\ writer[<<f, n>>] \notin Idle
        /\ \E phase \in (Idle \cup Phases) \ {"none"} :
              writer' = [writer EXCEPT ![<<f, n>>] = phase]
        /\ writer \in [Writers -> Idle \cup Phases] /\ <<f, n>> \in Writers
    BY DEF WriterStep, WriterOpen, WriterData, WriterVerified, WriterRefuted, WriterRemove,
           WriterRename, WriterEnd, WriterMisses, DiskFails, WriterReport, At, Goto, Idle, Phases,
           writerFrame, controlVars, Stage, StageTypes, Writers, Next, vars
  <1>1. n = 1
    BY <1>0 DEF Once, Attempts, Idle
  <1>2. ~WriterRefuted(f, n)
    <2>1. CASE Verify
      <3>1. partial[f] # NoInode => contents[f][partial[f]].right
        <4>1. partial[f] # NoInode => partial[f] \in Inodes
          BY DEF OtherTypes
        <4>2. Intact(f)
          BY <2>1 DEF Once
        <4> QED BY <4>1, <4>2 DEF Intact
      <3> QED BY <3>1 DEF WriterRefuted
    <2>2. CASE ~Verify
      BY <1>1, <2>2 DEF WriterRefuted, At, Once
    <2> QED BY <2>1, <2>2
  <1>3. /\ writer'[<<f, 1>>] # "remove"
        /\ ~Verify => writer'[<<f, 1>>] # "verify"
    BY <1>0, <1>1, <1>2 DEF WriterStep, WriterOpen, WriterData, WriterVerified, WriterRemove,
       WriterRename, WriterEnd, WriterMisses, DiskFails, WriterReport, Goto, At, Once
  <1>4. \A g \in Files : Attempts(g)' = Attempts(g)
    <2>1. \A w \in Writers : writer'[w] = "none" <=> writer[w] = "none"
      BY <1>0 DEF Idle
    <2> QED BY <2>1 DEF Attempts, Writers
  <1>5. \A g \in Files : Pending(g)' <=> Pending(g)
    BY <1>0 DEF Pending, OnWire, Message
  <1>6. \A g \in Files : AskedAt(g)' = {}
    <2>1. rts' = rts \/ \E msg \in {End(f), Failure(f, 2)} : rts' = Append(rts, msg)
      BY <1>2 DEF WriterStep, WriterOpen, WriterData, WriterVerified, WriterRemove,
             WriterRename, WriterEnd, WriterMisses, DiskFails, WriterReport, Send
    <2>2. CASE rts' = rts
      BY <1>0, <2>2 DEF Once, AskedAt, Carried
    <2>3. ASSUME NEW msg \in {End(f), Failure(f, 2)}, rts' = Append(rts, msg)
          PROVE  \A g \in Files : AskedAt(g)' = {}
      <3>1. msg \in Reports /\ \A g \in Files : msg # Failure(g, 0)
        BY ReportFacts
      <3>2. /\ DOMAIN Carried' = 1..(Len(Carried) + 1)
            /\ \A i \in DOMAIN Carried : Carried'[i] = Carried[i]
            /\ Carried'[Len(Carried) + 1] = msg
        BY <1>0, <2>3, <3>1, CarriedMore
      <3>3. \A i \in DOMAIN Carried' : i \in DOMAIN Carried \/ i = Len(Carried) + 1
        BY <3>2, CarriedType
      <3> QED BY <3>1, <3>2, <3>3 DEF Once, AskedAt
    <2> QED BY <2>1, <2>2, <2>3
  <1>7. \A g \in Files : g # f => writer'[<<g, 1>>] = writer[<<g, 1>>]
    BY <1>0
  <1>8. Verify => \A g \in Files : Intact(g)'
    BY <1>1, IntactWriter
  <1>9. AwaitedFile' = AwaitedFile
    BY <1>0 DEF AwaitedFile
  <1>10. ASSUME NEW g \in Files
         PROVE  /\ writer'[<<g, 1>>] # "remove"
                /\ ~Verify => writer'[<<g, 1>>] # "verify"
                /\ writer'[<<g, 1>>] \notin Idle => g \in active' \cup AwaitedFile'
    <2>1. CASE g = f
      BY <1>0, <1>1, <1>3, <1>9, <2>1 DEF Once
    <2>2. CASE g # f
      BY <1>0, <1>7, <1>9, <2>2 DEF Once
    <2> QED BY <2>1, <2>2
  <1> QED BY <1>0, <1>4, <1>5, <1>6, <1>8, <1>10 DEF Once

(* Only the manifest and a retry put a file where it waits to be started.  *)
LEMMA PendingSteps ==
    ASSUME Wire, Stage, [Next]_vars
    PROVE  \/ \E ids \in SUBSET Files, dirs \in BOOLEAN : SendManifest(ids, dirs)
           \/ ControllerRecv /\ Retry(Head(inbox))
           \/ \A f \in Files : Pending(f)' => Pending(f)
  <1> USE MessageFacts DEF Ends
  <1>1. CASE ReadReply
    <2>1. files' \subseteq files
      BY <1>1 DEF ReadReply, ReadCompleted, ReadRefusal
    <2>2. \A f \in Files : ~OnWire("receiver", Start(f))'
      BY <1>1, ReplyRead DEF Left, Hushed
    <2> QED BY <2>1, <2>2 DEF Pending
  <1>2. CASE ReadStartIndex
    BY <1>2, IndexRead DEF ReadStartIndex, Hushed, Pending
  <1>3. CASE SendDone
    BY <1>3, DoneSent DEF SendDone, Left, Pending
  <1>4. CASE ReadHello
    <2>1. UNCHANGED files
      BY <1>4 DEF ReadHello, controlVars
    <2>2. \A f \in Files : ~OnWire("receiver", Start(f))'
      BY <1>4, HelloRead DEF Left, Hushed
    <2> QED BY <2>1, <2>2 DEF Pending
  <1>5. CASE ReceiverRecv
    <2>1. UNCHANGED files
      BY <1>5 DEF ReceiverRecv, controlVars
    <2>2. \A f \in Files : ~OnWire("receiver", Start(f))'
      BY <1>5, RequestRead DEF Left, Hushed
    <2> QED BY <2>1, <2>2 DEF Pending
  <1>6. CASE \E f \in Files : StartFile(f)
    <2>1. PICK f \in Files : StartFile(f)
      BY <1>6
    <2>2. f \in files /\ files' = files \ {f} /\ Left("receiver", Start(f))
      BY <2>1, FileStarted DEF StartFile
    <2>3. \A g \in Files : OnWire("receiver", Start(g))' <=> g = f
      BY <2>2 DEF Left
    <2> QED BY <2>2, <2>3 DEF Pending
  <1>7. CASE UNCHANGED <<files, str>>
    BY <1>7 DEF Pending, OnWire, Message
  <1>8. \/ \E ids \in SUBSET Files, dirs \in BOOLEAN : SendManifest(ids, dirs)
        \/ ReadReply \/ ReadStartIndex \/ SendDone \/ ReadHello \/ ReceiverRecv
        \/ \E f \in Files : StartFile(f)
        \/ ControllerRecv /\ Retry(Head(inbox))
        \/ UNCHANGED <<files, str>>
    BY Steps, WriterStepMoves
    DEF ControllerRecv, Settle, CrawlFails, ControllerFails, SplitRecv, SplitFails,
        ConfirmationsEnd, SendersFail, SenderExit, CancelSender, ListenFails, MessagesEnd,
        ConfirmationsSent, ReceiversFail, ReceiversStarve, HeldUp, QueueFills, writerFrame,
        ReceiverExit, CancelReceiver, Cut, WriterMoves, vars,
        hostVars, controlVars, senderFrame, receiverFrame, writerFrame
  <1> QED BY <1>1, <1>2, <1>3, <1>4, <1>5, <1>6, <1>7, <1>8

(* A request for a file is read: its writer begins where the sender will.  *)
LEMMA OnceStart ==
    ASSUME Once, Held, [Next]_vars, ReceiverRecv,
           NEW f \in wanted, NEW i \in Nat, NEW n \in 1..MaxAttempts,
           OnWire("receiver", Start(f)), Left("sender", StartIndex(i)),
           n = Cardinality(Attempts(f)) + 1,
           writer' = [writer EXCEPT ![<<f, n>>] = "open"],
           start_index' = [start_index EXCEPT ![f] = IF partial[f] = NoInode THEN 0 ELSE @]
    PROVE  Once'
  <1> USE OneInodes DEF Held
  <1>1. UNCHANGED <<files, active, current, inbox, rts, wanted, fd, partial, contents>>
        /\ faults' = faults
    BY DEF ReceiverRecv, controlVars, Next, vars
  <1>2. /\ f \in Files /\ f = current /\ f # NoFile
        /\ writer \in [Writers -> Idle \cup Phases] /\ start_index \in [Files -> Nat]
    BY SessionAssumption DEF Stage, StageTypes, OnTheWay
  <1>3. Attempts(f) = {} /\ n = 1
    <2>1. Attempts(f) = {}
      BY <1>2 DEF Once, Pending
    <2> QED BY <2>1, FS_EmptySet
  <1>4. writer[<<f, 1>>] = "none"
    BY <1>3 DEF Attempts
  <1>5. \A g \in Files : g # f => writer'[<<g, 1>>] = writer[<<g, 1>>]
    BY <1>2
  <1>6. writer'[<<f, 1>>] = "open"
    BY <1>2, <1>3
  <1>7. \A g \in Files : ~OnWire("receiver", Start(g))'
    BY DEF Left, Ends
  <1>8. ASSUME NEW g \in Files
        PROVE  AskedAt(g)' = {} /\ Attempts(g)' \subseteq {1} /\ (Pending(g)' => Attempts(g)' = {})
    <2>1. AskedAt(g)' = {}
      BY <1>1 DEF Once, AskedAt, Carried
    <2>2. CASE g = f
      <3>1. f \notin files
        BY <1>2 DEF Tokens
      <3>2. Attempts(g)' \subseteq {1}
        BY <1>2, <1>3, <2>2 DEF Attempts, Writers
      <3> QED BY <1>1, <1>7, <2>1, <2>2, <3>1, <3>2 DEF Pending
    <2>3. CASE g # f
      <3>1. \A m \in 1..MaxAttempts : writer'[<<g, m>>] = writer[<<g, m>>]
        BY <1>2, <2>3 DEF Writers
      <3>2. Attempts(g)' = Attempts(g)
        BY <3>1 DEF Attempts
      <3> QED BY <1>1, <1>7, <2>1, <3>2 DEF Once, Pending
    <2> QED BY <2>2, <2>3
  <1>9. ASSUME Verify, NEW g \in Files
        PROVE  Intact(g)'
    <2>1. Intact(g)
      BY <1>9 DEF Once
    <2>2. CASE g = f
      <3>1. /\ contents[f][1].len = 0
            /\ partial[f] = NoInode \/ contents[f][partial[f]].len = start_index[f]
        BY <1>4, <2>1, <2>2 DEF Intact
      <3>2. start_index'[f] = IF partial[f] = NoInode THEN 0 ELSE start_index[f]
        BY <1>2
      <3> QED BY <1>1, <1>6, <2>1, <2>2, <3>1, <3>2 DEF Intact
    <2>3. CASE g # f
      <3>1. start_index'[g] = start_index[g]
        BY <1>2, <2>3
      <3> QED BY <1>1, <1>5, <2>1, <2>3, <3>1 DEF Intact
    <2> QED BY <2>2, <2>3
  <1>10. AwaitedFile' = AwaitedFile /\ f \in AwaitedFile
    BY <1>1, <1>2 DEF AwaitedFile
  <1>11. ASSUME NEW g \in Files
         PROVE  /\ writer'[<<g, 1>>] # "remove"
                /\ ~Verify => writer'[<<g, 1>>] # "verify"
                /\ writer'[<<g, 1>>] \notin Idle => g \in active' \cup AwaitedFile'
    BY <1>1, <1>5, <1>6, <1>10 DEF Once
  <1> QED BY <1>1, <1>8, <1>9, <1>11 DEF Once

LEMMA OnceKept ==
    ASSUME Once, UNCHANGED writer, faults' = faults,
           Verify => \A f \in Files : Intact(f)',
           \A f \in Files : AskedAt(f)' = {},
           \A f \in Files : Pending(f)' => Pending(f) \/ Attempts(f) = {},
           \A f \in Files : writer[<<f, 1>>] \notin Idle => f \in active' \cup AwaitedFile'
    PROVE  Once'
  <1>1. \A f \in Files : Attempts(f)' = Attempts(f)
    BY DEF Attempts
  <1> QED BY <1>1 DEF Once

LEMMA OnceStep ==
    ASSUME Once, Truthful, Held, [Next]_vars
    PROVE  Once'
  <1> USE OneInodes DEF Held
  <1>1. CASE \E f \in Files, n \in 1..MaxAttempts : WriterStep(f, n) \/ DiskFails(f, n)
    BY <1>1, OnceWriter
  <1>2. CASE ReceiverRecv /\ ~UNCHANGED writer
    BY <1>2, RequestRead, OnceStart
  <1>3. CASE ReceiverRecv /\ UNCHANGED writer
    <2>1. /\ UNCHANGED <<active, current, inbox, rts, wanted, fd, partial, contents>>
          /\ faults' = faults
      BY <1>3 DEF ReceiverRecv, controlVars, Next, vars
    <2>2. UNCHANGED start_index
      <3>1. ASSUME NEW f \in wanted, NEW i \in Nat, NEW n \in 1..MaxAttempts,
                   OnWire("receiver", Start(f)), Left("sender", StartIndex(i)),
                   n = Cardinality(Attempts(f)) + 1,
                   writer' = [writer EXCEPT ![<<f, n>>] = "open"]
            PROVE  FALSE
        <4>1. writer[<<f, n>>] = "none"
          BY <1>3, <2>1, <3>1, CountedStart DEF ReceiverRecv, controlVars
        <4>2. writer'[<<f, n>>] = "open"
          BY <3>1 DEF Stage, StageTypes, Writers
        <4> QED BY <1>3, <4>1, <4>2
      <3> QED BY <1>3, <3>1, RequestRead
    <2>3. Verify => \A f \in Files : Intact(f)'
      BY <1>3, <2>1, <2>2 DEF Once, Intact
    <2>4. \A f \in Files : AskedAt(f)' = {}
      BY <2>1 DEF Once, AskedAt, Carried
    <2>5. \A f \in Files : Pending(f)' => Pending(f)
      <3>1. \A f \in Files : ~OnWire("receiver", Start(f))'
        BY <1>3, RequestRead DEF Left, Hushed, Ends
      <3> QED BY <1>3, <3>1 DEF Pending, ReceiverRecv, controlVars
    <2> QED BY <1>3, <2>1, <2>3, <2>4, <2>5, OnceKept DEF Once, AwaitedFile
  <1>4. CASE ReadHello
    <2>1. /\ receiver = "hello" /\ wanted = {}
          /\ UNCHANGED <<active, current, inbox, rts, fd, partial, contents, writer>>
          /\ faults' = faults
      BY <1>4 DEF ReadHello, controlVars, diskVars, Stage, Handshake, Next, vars
    <2>2. \A f \in Files : writer[<<f, 1>>] = "none"
      BY <2>1 DEF Counted, Attempts
    <2>3. ASSUME Verify, NEW f \in Files
          PROVE  Intact(f)'
      <3>1. \/ UNCHANGED wanted
            \/ f \in wanted' /\ partial[f] # NoInode => start_index'[f] = contents[f][partial[f]].len
        BY <1>4, HelloRead DEF AcceptManifest, Found
      <3> QED BY <2>1, <2>2, <2>3, <3>1 DEF Once, Intact
    <2>4. \A f \in Files : AskedAt(f)' = {}
      BY <2>1 DEF Once, AskedAt, Carried
    <2>5. \A f \in Files : Pending(f)' => Pending(f) \/ Attempts(f) = {}
      BY <2>1 DEF Counted
    <2> QED BY <2>1, <2>2, <2>3, <2>4, <2>5, OnceKept DEF Idle
  <1>5. ASSUME ~ReceiverRecv, ~ReadHello,
               ~\E f \in Files, n \in 1..MaxAttempts : WriterStep(f, n) \/ DiskFails(f, n)
        PROVE  Once'
    <2>1. UNCHANGED <<writer, fd, partial, contents, start_index, wanted>> /\ faults' = faults
      <3>1. faults' = faults
        BY DEF Next, vars
      <3>2. UNCHANGED <<writer, fd, partial, contents, start_index, wanted>>
        BY <1>5, Steps
        DEF SendManifest, ReadReply, ReadStartIndex, SendDone, StartFile,
            ControllerRecv, CrawlFails, ControllerFails, SplitRecv, SplitFails, ConfirmationsEnd,
            SendersFail, SenderExit, CancelSender, ListenFails, MessagesEnd, ConfirmationsSent,
            ReceiversFail, ReceiversStarve, HeldUp, QueueFills, writerFrame,
            ReceiverExit, CancelReceiver, Cut, vars, hostVars, diskVars,
            receiverVars, senderFrame, controllerFrame, receiverFrame
      <3> QED BY <3>1, <3>2
    <2>2. Verify => \A f \in Files : Intact(f)'
      BY <2>1 DEF Once, Intact
    <2>3. \A f \in Files : AskedAt(f)' = {}
      <3>1. CASE UNCHANGED Carried
        BY <3>1 DEF Once, AskedAt
      <3>2. CASE ControllerRecv
        <4>1. inbox # <<>> /\ inbox' = Tail(inbox) /\ UNCHANGED rts
          BY <3>2 DEF ControllerRecv, controllerFrame
        <4>2. \A i \in DOMAIN Carried' : i + 1 \in DOMAIN Carried /\ Carried'[i] = Carried[i + 1]
          BY <4>1, CarriedTaken
        <4> QED BY <4>2 DEF Once, AskedAt
      <3> QED BY <1>5, <3>1, <3>2, CarriedSteps
    <2>4. ~(ControllerRecv /\ Retry(Head(inbox)))
      <3> SUFFICES ASSUME ControllerRecv, Retry(Head(inbox))
                   PROVE  FALSE
        OBVIOUS
      <3>1. inbox # <<>> /\ inbox' = Tail(inbox) /\ UNCHANGED rts
        BY DEF ControllerRecv, controllerFrame
      <3>2. 1 \in DOMAIN Carried /\ Carried[1] = Head(inbox) /\ Head(inbox) \in Reports
        BY <3>1, CarriedTaken
      <3>3. \E f \in Files : Head(inbox) = Failure(f, 0)
        BY <3>2, ReportFacts DEF Retry, Refuted
      <3> QED BY <3>2, <3>3 DEF Once, AskedAt
    <2>5. \A f \in Files : Pending(f)' => Pending(f) \/ Attempts(f) = {}
      <3>1. CASE \E ids \in SUBSET Files, dirs \in BOOLEAN : SendManifest(ids, dirs)
        BY <3>1 DEF SendManifest, Stage, Handshake, Attempts, Writers
      <3> QED BY <2>4, <3>1, PendingSteps
    <2>6. \A f \in Files : writer[<<f, 1>>] \notin Idle => f \in active' \cup AwaitedFile'
      <3>1. CASE UNCHANGED <<active, current>>
        BY <3>1 DEF Once, AwaitedFile
      <3>2. CASE ReadStartIndex
        BY <3>2 DEF ReadStartIndex, Once, AwaitedFile
      <3>3. CASE \E f \in Files : StartFile(f)
        BY <3>3 DEF StartFile, Stage, Handshake, Once, AwaitedFile
      <3>4. CASE ControllerRecv /\ Settle(Head(inbox))
        <4> DEFINE msg == Head(inbox)
        <4>1. /\ inbox # <<>> /\ inbox' = Tail(inbox) /\ UNCHANGED rts
              /\ active' = active \ {msg.id} /\ UNCHANGED current
          BY <3>4 DEF ControllerRecv, Settle, controllerFrame
        <4>2. 1 \in DOMAIN Carried /\ Carried[1] = msg /\ msg \in Reports
          BY <4>1, CarriedTaken
        <4> HIDE DEF msg
        <4>3. msg.id \in Files /\ Reported(msg)
          <5>1. msg # Failure(msg.id, 0) /\ msg.id \in Files
            BY <4>2, ReportFacts DEF Once, AskedAt
          <5> QED BY <4>2, <5>1, ReportFacts DEF Reported
        <4>4. writer[<<msg.id, 1>>] \in Idle
          <5>1. Over(msg.id)
            BY <4>2, <4>3 DEF Truthful
          <5>2. PICK n \in 1..MaxAttempts : writer[<<msg.id, n>>] \in {"stored", "failed"}
            BY <5>1 DEF Over
          <5>3. n \in Attempts(msg.id)
            BY <5>2 DEF Attempts
          <5>4. n = 1
            BY <4>3, <5>3 DEF Once
          <5> QED BY <5>2, <5>4 DEF Idle
        <4> QED BY <4>1, <4>4 DEF Once, AwaitedFile
      <3>5. CASE (\E ids \in SUBSET Files, dirs \in BOOLEAN : SendManifest(ids, dirs)) \/ ReadReply
        BY <3>5 DEF SendManifest, ReadReply, Once, AwaitedFile
      <3> QED BY <2>4, <3>1, <3>2, <3>3, <3>4, <3>5, BookSteps
    <2> QED BY <2>1, <2>2, <2>3, <2>5, <2>6, OnceKept
  <1> QED BY <1>1, <1>2, <1>3, <1>4, <1>5

(* The controller's limit, in every transfer. *)
Bounded == Cardinality(active \cup AwaitedFile) <= Max

LEMMA BooksFinite ==
    ASSUME Stage, OtherTypes
    PROVE  /\ IsFiniteSet(active \cup AwaitedFile) /\ IsFiniteSet(active)
           /\ Cardinality(active) \in Nat
           /\ \A S : S \subseteq active \cup AwaitedFile =>
                 /\ IsFiniteSet(S) /\ Cardinality(S) \in Nat
                 /\ Cardinality(S) <= Cardinality(active \cup AwaitedFile)
  <1>1. IsFiniteSet(Files) /\ active \cup AwaitedFile \subseteq Files /\ active \subseteq Files
    BY SessionAssumption DEF Stage, StageTypes, OtherTypes, AwaitedFile
  <1>2. IsFiniteSet(active \cup AwaitedFile) /\ IsFiniteSet(active)
    BY <1>1, FS_Subset
  <1> QED BY <1>2, FS_Subset, FS_CardinalityType

LEMMA BoundedStep ==
    ASSUME Bounded, Held, [Next]_vars
    PROVE  Bounded'
  <1> USE DEF Held
  <1>0. IsFiniteSet(active) /\ Cardinality(active) \in Nat
    BY BooksFinite
  <1>1. ASSUME active' \cup AwaitedFile' \subseteq active \cup AwaitedFile
        PROVE  Bounded'
    <2> DEFINE n == Cardinality(active' \cup AwaitedFile')
               k == Cardinality(active \cup AwaitedFile)
    <2>1. n \in Nat /\ n <= k
      BY <1>1, BooksFinite
    <2>2. k \in Nat /\ k <= Max
      BY BooksFinite DEF Bounded
    <2>3. n <= Max
      <3> HIDE DEF n, k
      <3> QED BY <2>1, <2>2, SessionAssumption
    <2> QED BY <2>3 DEF Bounded
  <1>2. CASE \E f \in Files : StartFile(f)
    <2>1. PICK f \in Files : StartFile(f)
      BY <1>2
    <2>2. /\ active' = active /\ AwaitedFile' = {f} /\ Cardinality(active) < Max
      BY <2>1, SessionAssumption DEF StartFile, MayStart, AwaitedFile
    <2>3. /\ Cardinality(active \cup {f}) = Cardinality(active)
          \/ Cardinality(active \cup {f}) = Cardinality(active) + 1
      BY <1>0, FS_AddElement
    <2> QED BY <1>0, <2>2, <2>3, SessionAssumption DEF Bounded
  <1>3. CASE ReadStartIndex
    <2>1. active' \cup AwaitedFile' \subseteq active \cup AwaitedFile
      BY <1>3, SessionAssumption DEF ReadStartIndex, AwaitedFile, Stage, Handshake
    <2> QED BY <1>1, <2>1
  <1>4. CASE ControllerRecv
    <2>1. active' \cup AwaitedFile' \subseteq active \cup AwaitedFile
      BY <1>4 DEF ControllerRecv, Retry, Refuted, Settle, AwaitedFile
    <2> QED BY <1>1, <2>1
  <1>5. CASE UNCHANGED <<active, current>>
    BY <1>1, <1>5 DEF AwaitedFile
  <1>6. CASE (\E ids \in SUBSET Files, dirs \in BOOLEAN : SendManifest(ids, dirs)) \/ ReadReply
    BY <1>5, <1>6 DEF SendManifest, ReadReply
  <1> QED BY <1>2, <1>3, <1>4, <1>5, <1>6, BookSteps

LEMMA OnceAlways ==
    ASSUME NothingRefuted
    PROVE  Spec => [](Held /\ Once /\ Books /\ Bounded)
  <1>1. Init => Once /\ Books /\ Truthful /\ Bounded
    <2>1. Init => active \cup AwaitedFile = {}
      BY DEF Init, AwaitedFile
    <2>2. Init => Bounded
      <3>1. Cardinality({}) = 0 /\ 0 <= Max
        BY FS_EmptySet, SessionAssumption
      <3> QED BY <2>1, <3>1 DEF Bounded
    <2> QED BY <2>2, OnceInit, BooksInit
  <1>2. /\ Held /\ Once /\ Books /\ Truthful /\ Bounded /\ [Next]_vars
        => Once' /\ Books' /\ Truthful' /\ Bounded'
    BY OnceStep, BooksStep, TruthfulStep, BoundedStep
  <1> QED BY <1>1, <1>2, HeldAlways, PTL DEF Spec

LEMMA UnderwayBooked ==
    ASSUME Held, Once
    PROVE  \A w \in Underway : w[1] \in active \cup AwaitedFile
  <1> SUFFICES ASSUME NEW w \in Writers, writer[w] \notin Idle
               PROVE  w[1] \in active \cup AwaitedFile
    BY DEF Underway
  <1>1. PICK f \in Files, n \in 1..MaxAttempts : w = <<f, n>>
    BY DEF Writers
  <1>2. n = 1
    BY <1>1 DEF Once, Attempts, Idle
  <1> QED BY <1>1, <1>2 DEF Once

(* Where no verification fails, no more files are written at a time than   *)
(* --max allows: the receiver, which counts nothing, can rely on the       *)
(* sender's books.                                                         *)
THEOREM MaxIsKept ==
    ASSUME NothingRefuted
    PROVE  Spec => []AtMostMax
  <1>1. Held /\ Once /\ Books /\ Bounded => AtMostMax
    <2> SUFFICES ASSUME Held, Once, Bounded PROVE AtMostMax
      OBVIOUS
    <2>1. {w[1] : w \in Underway} \subseteq active \cup AwaitedFile
      BY UnderwayBooked
    <2>2. /\ Cardinality({w[1] : w \in Underway}) \in Nat
          /\ Cardinality({w[1] : w \in Underway}) <= Cardinality(active \cup AwaitedFile)
      BY <2>1, BooksFinite DEF Held
    <2>3. Cardinality(active \cup AwaitedFile) \in Nat
      BY BooksFinite DEF Held
    <2> QED BY <2>2, <2>3, SessionAssumption DEF AtMostMax, Bounded
  <1> QED BY <1>1, OnceAlways, PTL

(* ... and when the sender says that it is done, which makes the receiver  *)
(* leave, no writer is at work.  (Where a verification can fail this is    *)
(* not so: the retry of a file is given up while it is under way.)         *)
THEOREM DoneIsLast ==
    ASSUME NothingRefuted
    PROVE  Spec => []DoneLast
  <1>1. Held /\ Once /\ Books /\ Bounded => DoneLast
    BY UnderwayBooked DEF Books, Ended, DoneLast, AwaitedFile
  <1> QED BY <1>1, OnceAlways, PTL
=============================================================================
