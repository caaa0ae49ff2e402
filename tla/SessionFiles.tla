---------------------------- MODULE SessionFiles ----------------------------
(***************************************************************************)
(* What becomes of the files of a session: a file is in one hand at a time *)
(* (Counted, Tokens), so no two writers meet on its partial file, and from *)
(* that what its path in the destination may name (Stored), which is what  *)
(* Batch says of a transfer as a whole.                                    *)
(***************************************************************************)
EXTENDS SessionProofs

(* The receiver has made one writer for each reader the sender has         *)
(* started, and one more while it is telling the sender so.                *)

NoIndex == \A i \in Nat : ~OnWire("sender", StartIndex(i))

Owed(f) == f = current /\ ~NoIndex

Counted ==
    /\ started \in [Files -> Nat]
    /\ \A f \in Files :
          /\ Attempts(f) = 1..(IF Owed(f) THEN started[f] + 1 ELSE started[f])
          /\ Attempts(f) # {} => f \in wanted

-----------------------------------------------------------------------------
(* A file is in one hand: it waits to be started (again), or one writer    *)
(* works on it, or its refutation is on the way to the sender.             *)

Working == {"open", "data", "verify", "rename", "end", "stored"}

Works(f, n) == writer[<<f, n>>] \in Working

Pending(f) == f \in files \/ OnWire("receiver", Start(f))

Carried == inbox \o rts

AskedAt(f) == {i \in DOMAIN Carried : Carried[i] = Failure(f, 0)}

Tokens ==
    \A f \in Files :
       /\ f \in files => ~OnWire("receiver", Start(f))
       /\ Pending(f) => AskedAt(f) = {} /\ \A n \in 1..MaxAttempts : ~Works(f, n)
       /\ \A n \in 1..MaxAttempts : Works(f, n) =>
             AskedAt(f) = {} /\ \A m \in 1..MaxAttempts : Works(f, m) => m = n
       /\ \A i, j \in AskedAt(f) : i = j

-----------------------------------------------------------------------------
LEMMA OneMessageOnly ==
    ASSUME Wire
    PROVE  /\ \A d, e \in Ends : \A l, m : OnWire(d, l) /\ OnWire(e, m) => d = e /\ l = m
           /\ Quiet => \A e \in Ends : \A m : ~OnWire(e, m)
  BY OneOnWire, OtherEnd DEF OnWire, Quiet, Ends

LEMMA CountedKept ==
    ASSUME Counted, UNCHANGED <<started, writer>>, wanted' = wanted \/ wanted = {},
           \/ NoIndex /\ NoIndex'
           \/ (NoIndex' <=> NoIndex) /\ UNCHANGED current
    PROVE  Counted'
  <1>1. \A f \in Files : Owed(f)' <=> Owed(f)
    BY DEF Owed
  <1>2. \A f \in Files : Attempts(f)' = Attempts(f)
    BY DEF Attempts
  <1> QED BY <1>1, <1>2 DEF Counted

LEMMA CountedMoves ==
    ASSUME Counted, Stage, WriterMoves
    PROVE  Counted'
  <1>1. UNCHANGED <<started, wanted, current, str, position>>
    BY DEF WriterMoves, writerFrame, controlVars, receiverVars
  <1>2. NoIndex' <=> NoIndex
    BY <1>1, WireFrame DEF NoIndex, Ends
  <1>3. \A f \in Files : Attempts(f)' = Attempts(f)
    <2>1. PICK w \in Writers, phase \in (Idle \cup Phases) \ {"none"} :
             writer[w] # "none" /\ writer' = [writer EXCEPT ![w] = phase]
      BY DEF WriterMoves
    <2>2. \A v \in Writers : writer'[v] = "none" <=> writer[v] = "none"
      BY <2>1 DEF Stage, StageTypes
    <2>3. \A f \in Files, n \in 1..MaxAttempts : <<f, n>> \in Writers
      BY DEF Writers
    <2> QED BY <2>2, <2>3 DEF Attempts
  <1> QED BY <1>1, <1>2, <1>3 DEF Counted, Owed

LEMMA CountedIndexRead ==
    ASSUME Counted, Wire, Stage, ReadStartIndex
    PROVE  Counted'
  <1>1. /\ current \in Files /\ started' = [started EXCEPT ![current] = @ + 1]
        /\ UNCHANGED <<writer, wanted>>
    BY DEF ReadStartIndex, Stage, Handshake, controllerFrame, receiverVars, diskVars
  <1>2. ~NoIndex /\ NoIndex'
    BY IndexRead DEF NoIndex, Hushed, Ends
  <1>3. \A f \in Files : Attempts(f)' = Attempts(f)
    BY <1>1 DEF Attempts
  <1> QED BY <1>1, <1>2, <1>3 DEF Counted, Owed

LEMMA CountedStart ==
    ASSUME Counted, Wire, Stage,
           NEW f \in wanted, NEW i \in Nat, NEW n \in 1..MaxAttempts,
           OnWire("receiver", Start(f)), Left("sender", StartIndex(i)),
           n = Cardinality(Attempts(f)) + 1,
           writer' = [writer EXCEPT ![<<f, n>>] = "open"],
           UNCHANGED <<started, current, wanted>>
    PROVE  /\ Counted' /\ n = started[f] + 1 /\ writer[<<f, n>>] = "none"
           /\ Attempts(f) = 1..started[f] /\ started[f] \in Nat
  <1>1. f \in Files /\ current = f
    BY DEF Stage, StageTypes, OnTheWay
  <1>2. NoIndex /\ ~NoIndex'
    BY OneMessageOnly DEF NoIndex, Left, Ends
  <1>3. Attempts(f) = 1..started[f] /\ started[f] \in Nat
    BY <1>1, <1>2 DEF Counted, Owed
  <1>4. n = started[f] + 1
    <2>1. Cardinality(1..started[f]) = started[f]
      <3>1. 1 \in Int /\ started[f] \in Int
        BY <1>3
      <3>2. Cardinality(1..started[f]) = IF 1 > started[f] THEN 0 ELSE started[f] - 1 + 1
        BY <3>1, FS_Interval
      <3> QED BY <1>3, <3>2
    <2> QED BY <1>3, <2>1
  <1>5. writer[<<f, n>>] = "none"
    BY <1>3, <1>4 DEF Attempts
  <1>6. Attempts(f)' = 1..(started[f] + 1)
    <2>1. Attempts(f)' = Attempts(f) \cup {n}
      BY <1>1 DEF Attempts, Stage, StageTypes, Writers
    <2> QED BY <1>3, <1>4, <2>1
  <1>7. \A g \in Files : g # f => Attempts(g)' = Attempts(g)
    BY DEF Attempts, Stage, StageTypes, Writers
  <1> QED BY <1>1, <1>2, <1>4, <1>5, <1>6, <1>7 DEF Counted, Owed

LEMMA CountedStep ==
    ASSUME Counted, Wire, Stage, [Next]_vars
    PROVE  Counted'
  <1> USE MessageFacts, OneMessageOnly DEF Ends
  <1>1. CASE \E ids \in SUBSET Files, dirs \in BOOLEAN : SendManifest(ids, dirs)
    <2>1. PICK ids \in SUBSET Files, dirs \in BOOLEAN : SendManifest(ids, dirs)
      BY <1>1
    <2>2. Quiet /\ UNCHANGED <<started, writer, wanted>>
      BY <2>1 DEF SendManifest, receiverVars, diskVars, Stage, Turn
    <2>3. NoIndex /\ NoIndex'
      BY <2>1, <2>2, ManifestSent DEF NoIndex, Left
    <2> QED BY <2>2, <2>3, CountedKept
  <1>2. CASE ReadReply
    <2>1. UNCHANGED <<started, writer, wanted>>
      BY <1>2 DEF ReadReply, receiverVars, diskVars
    <2>2. NoIndex /\ NoIndex'
      BY <1>2, ReplyRead DEF NoIndex, Left, Hushed
    <2> QED BY <2>1, <2>2, CountedKept
  <1>3. CASE ReadStartIndex
    BY <1>3, CountedIndexRead
  <1>4. CASE SendDone
    <2>1. UNCHANGED <<started, writer, wanted>>
      BY <1>4 DEF SendDone, controllerFrame, receiverVars, diskVars
    <2>2. NoIndex /\ NoIndex'
      BY <1>4, DoneSent DEF NoIndex, Left
    <2> QED BY <2>1, <2>2, CountedKept
  <1>5. CASE ReadHello
    <2>1. UNCHANGED <<started, writer>> /\ wanted = {}
      BY <1>5 DEF ReadHello, controlVars, diskVars, Stage, Handshake
    <2>2. NoIndex
      BY <1>5 DEF ReadHello, Stage, Handshake, NoIndex, OnWire
    <2>3. NoIndex'
      <3>1. CASE \E c : Left("sender", Completed(c))
        BY <3>1 DEF NoIndex, Left
      <3>2. CASE Left("sender", Failure(0, 1)) \/ Hushed
        BY <3>2 DEF NoIndex, Left, Hushed
      <3> QED BY <1>5, <3>1, <3>2, HelloRead
    <2> QED BY <2>1, <2>2, <2>3, CountedKept
  <1>6. CASE ReceiverRecv
    <2>1. UNCHANGED <<started, current, wanted>>
      BY <1>6 DEF ReceiverRecv, controlVars
    <2>2. ASSUME NEW m, OnWire("receiver", m), Hushed, UNCHANGED writer
          PROVE  Counted'
      <3>1. NoIndex /\ NoIndex'
        BY <2>2 DEF NoIndex, Hushed
      <3> QED BY <2>1, <2>2, <3>1, CountedKept
    <2> QED BY <1>6, <2>1, <2>2, RequestRead, CountedStart
  <1>7. CASE \E f \in Files : StartFile(f)
    <2>1. UNCHANGED <<started, writer, wanted>>
      BY <1>7 DEF StartFile, controllerFrame, receiverVars, diskVars
    <2>2. NoIndex /\ NoIndex'
      BY <1>7, FileStarted DEF NoIndex, Left
    <2> QED BY <2>1, <2>2, CountedKept
  <1>8. CASE ControllerRecv /\ Retry(Head(inbox))
    <2>1. UNCHANGED <<started, writer, wanted>>
      BY <1>8 DEF ControllerRecv, controllerFrame, receiverVars, diskVars
    <2>2. NoIndex /\ NoIndex'
      BY <1>8, FileRetried DEF NoIndex, Left
    <2> QED BY <2>1, <2>2, CountedKept
  <1>9. CASE \/ ControllerRecv /\ Settle(Head(inbox))
             \/ CrawlFails \/ ControllerFails \/ SplitRecv \/ SplitFails \/ ConfirmationsEnd
             \/ SendersFail \/ SenderExit \/ CancelSender
             \/ ListenFails \/ MessagesEnd \/ ConfirmationsSent \/ ReceiversFail
             \/ ReceiversStarve \/ HeldUp \/ ReceiverExit \/ CancelReceiver
             \/ \E stream \in {"rts", "str"} : Cut(stream)
             \/ UNCHANGED vars
    <2>1. UNCHANGED <<started, writer, wanted, current, str, position>>
      BY <1>9 DEF ControllerRecv, Settle, CrawlFails, ControllerFails, SplitRecv, SplitFails,
                  ConfirmationsEnd, SendersFail, SenderExit, CancelSender, ListenFails,
                  MessagesEnd, ConfirmationsSent, ReceiversFail, ReceiversStarve, HeldUp, QueueFills,
                  writerFrame, ReceiverExit, CancelReceiver,
                  Cut, vars, hostVars, controlVars, receiverVars, diskVars, senderFrame,
                  controllerFrame, receiverFrame
    <2>2. NoIndex' <=> NoIndex
      BY <2>1, WireFrame DEF NoIndex
    <2> QED BY <2>1, <2>2, CountedKept
  <1>10. CASE \E f \in Files, n \in 1..MaxAttempts : WriterStep(f, n) \/ DiskFails(f, n)
    BY <1>10, WriterStepMoves, CountedMoves
  <1> QED BY <1>1, <1>2, <1>3, <1>4, <1>5, <1>6, <1>7, <1>8, <1>9, <1>10, Steps

LEMMA CountedInit == Init => Counted
  <1> SUFFICES ASSUME Init PROVE Counted
    OBVIOUS
  <1>1. \A f \in Files : Attempts(f) = {} /\ started[f] = 0
    BY DEF Init, Attempts, Writers
  <1>2. NoIndex
    BY DEF Init, NoIndex, OnWire, Ends
  <1>3. started \in [Files -> Nat]
    BY DEF Init
  <1>4. 1..0 = {} /\ \A f \in Files : ~Owed(f)
    BY <1>2 DEF Owed
  <1> QED BY <1>1, <1>3, <1>4 DEF Counted

-----------------------------------------------------------------------------
(* What is on its way to the sender's controller, as one sequence. *)

LEMMA CarriedType ==
    ASSUME Stage
    PROVE  /\ Carried \in Seq(Reports) /\ Len(Carried) = Len(inbox) + Len(rts)
           /\ Len(inbox) \in Nat /\ Len(rts) \in Nat
           /\ DOMAIN Carried = 1..Len(Carried)
           /\ \A i \in 1..Len(Carried) :
                 Carried[i] = IF i <= Len(inbox) THEN inbox[i] ELSE rts[i - Len(inbox)]
  <1>1. inbox \in Seq(Reports) /\ rts \in Seq(Reports)
    BY DEF Stage, StageTypes
  <1> QED BY <1>1, ConcatProperties, LenProperties DEF Carried

LEMMA CarriedMore ==
    ASSUME Stage, NEW msg \in Reports, rts' = Append(rts, msg), UNCHANGED inbox
    PROVE  /\ DOMAIN Carried' = 1..(Len(Carried) + 1)
           /\ \A i \in DOMAIN Carried : Carried'[i] = Carried[i]
           /\ Carried'[Len(Carried) + 1] = msg
  <1>1. inbox \in Seq(Reports) /\ rts \in Seq(Reports) /\ <<msg>> \in Seq(Reports)
    BY DEF Stage, StageTypes
  <1>2. rts' = rts \o <<msg>>
    BY <1>1, AppendIsConcat
  <1>3. Carried' = Carried \o <<msg>>
    BY <1>1, <1>2, ConcatAssociative DEF Carried
  <1>4. Carried \in Seq(Reports)
    BY CarriedType
  <1>5. Carried' = Append(Carried, msg)
    BY <1>3, <1>4, AppendIsConcat
  <1>6. /\ Carried' \in Seq(Reports) /\ Len(Carried') = Len(Carried) + 1
        /\ \A i \in 1..Len(Carried) : Carried'[i] = Carried[i]
        /\ Carried'[Len(Carried) + 1] = msg
    BY <1>4, <1>5, AppendProperties
  <1> QED BY <1>4, <1>6, LenProperties

LEMMA CarriedOver ==
    ASSUME Stage, rts # <<>>, inbox' = Append(inbox, Head(rts)), rts' = Tail(rts)
    PROVE  Carried' = Carried
  <1>1. inbox \in Seq(Reports) /\ rts \in Seq(Reports)
    BY DEF Stage, StageTypes
  <1>2. /\ Head(rts) \in Reports /\ Tail(rts) \in Seq(Reports)
        /\ <<Head(rts)>> \in Seq(Reports)
    BY <1>1, HeadTailProperties
  <1>3. rts = <<Head(rts)>> \o Tail(rts)
    <2>1. Len(rts) \in Nat \ {0} /\ Len(rts) \in 1..Len(rts) /\ 1 \in 1..Len(rts)
      BY <1>1, EmptySeq
    <2>2. SubSeq(rts, 1, Len(rts)) = <<rts[1]>> \o SubSeq(rts, 1 + 1, Len(rts))
      BY <1>1, <2>1, SubSeqRecursiveFirst
    <2>3. SubSeq(rts, 1, Len(rts)) = rts /\ SubSeq(rts, 2, Len(rts)) = Tail(rts)
      BY <1>1, SubSeqFull, TailIsSubSeq
    <2> QED BY <1>1, <2>2, <2>3
  <1>4. inbox' = inbox \o <<Head(rts)>>
    BY <1>1, <1>2, AppendIsConcat
  <1>5. (inbox \o <<Head(rts)>>) \o Tail(rts) = inbox \o (<<Head(rts)>> \o Tail(rts))
    BY <1>1, <1>2, ConcatAssociative
  <1> QED BY <1>3, <1>4, <1>5 DEF Carried

LEMMA CarriedTaken ==
    ASSUME Stage, inbox # <<>>, inbox' = Tail(inbox), UNCHANGED rts
    PROVE  /\ 1 \in DOMAIN Carried /\ Carried[1] = Head(inbox)
           /\ Head(inbox) \in Reports
           /\ \A i \in DOMAIN Carried' :
                 i \in Nat \ {0} /\ i + 1 \in DOMAIN Carried /\ Carried'[i] = Carried[i + 1]
  <1>1. inbox \in Seq(Reports) /\ rts \in Seq(Reports)
    BY DEF Stage, StageTypes
  <1>2. /\ Head(inbox) \in Reports /\ inbox' \in Seq(Reports)
        /\ Len(inbox') = Len(inbox) - 1
        /\ \A i \in 1..Len(inbox') : inbox'[i] = inbox[i + 1]
        /\ Head(inbox) = inbox[1]
        /\ Len(inbox) \in Nat \ {0}
    BY <1>1, HeadTailProperties, EmptySeq
  <1>3. /\ Carried' \in Seq(Reports) /\ Len(Carried') = Len(inbox') + Len(rts)
        /\ \A i \in 1..Len(Carried') :
              Carried'[i] = IF i <= Len(inbox') THEN inbox'[i] ELSE rts[i - Len(inbox')]
    BY <1>1, <1>2, ConcatProperties DEF Carried
  <1>4. DOMAIN Carried' = 1..Len(Carried')
    BY <1>3, LenProperties
  <1>5. \A i \in 1..Len(Carried') : i + 1 - Len(inbox) = i - Len(inbox')
    BY <1>2
  <1>6. ASSUME NEW i \in 1..Len(Carried')
        PROVE  i \in Nat \ {0} /\ i + 1 \in DOMAIN Carried /\ Carried'[i] = Carried[i + 1]
    <2>1. i \in Nat \ {0} /\ i + 1 \in 1..Len(Carried)
      BY <1>2, <1>3, CarriedType
    <2>2. CASE i <= Len(inbox')
      <3>1. i \in 1..Len(inbox') /\ i + 1 <= Len(inbox)
        BY <1>2, <2>1, <2>2
      <3> QED BY <1>2, <1>3, <2>1, <2>2, <3>1, CarriedType
    <2>3. CASE ~(i <= Len(inbox'))
      <3>1. ~(i + 1 <= Len(inbox))
        BY <1>2, <2>1, <2>3
      <3> QED BY <1>3, <1>5, <2>1, <2>3, <3>1, CarriedType
    <2> QED BY <2>2, <2>3
  <1>7. 1 \in DOMAIN Carried /\ Carried[1] = Head(inbox)
    BY <1>2, CarriedType
  <1> QED BY <1>2, <1>4, <1>6, <1>7

LEMMA AskedFacts ==
    ASSUME Stage
    PROVE  \A f \in Files : AskedAt(f) \subseteq Nat /\ \A i \in AskedAt(f) : i \in DOMAIN Carried
  BY CarriedType DEF AskedAt

-----------------------------------------------------------------------------
(* Steps that hand nothing on. *)

LEMMA TokensShrink ==
    ASSUME Tokens, Stage, NEW d \in Nat,
           \A f \in Files : f \in files' => ~OnWire("receiver", Start(f))',
           \A f \in Files : Pending(f)' => Pending(f),
           \A f \in Files : \A n \in 1..MaxAttempts : Works(f, n)' => Works(f, n),
           \A f \in Files : \A i \in AskedAt(f)' : i \in Nat /\ i + d \in AskedAt(f)
    PROVE  Tokens'
  <1> SUFFICES ASSUME NEW f \in Files
               PROVE  /\ (f \in files => ~OnWire("receiver", Start(f)))'
                      /\ Pending(f)' => AskedAt(f)' = {} /\ \A n \in 1..MaxAttempts : ~Works(f, n)'
                      /\ \A n \in 1..MaxAttempts : Works(f, n)' =>
                            AskedAt(f)' = {} /\ \A m \in 1..MaxAttempts : Works(f, m)' => m = n
                      /\ \A i, j \in AskedAt(f)' : i = j
    BY DEF Tokens
  <1>1. AskedAt(f) = {} => AskedAt(f)' = {}
    OBVIOUS
  <1>2. \A i, j \in AskedAt(f)' : i = j
    <2>1. TAKE i, j \in AskedAt(f)'
    <2>2. i + d \in AskedAt(f) /\ j + d \in AskedAt(f) /\ i \in Nat /\ j \in Nat
      OBVIOUS
    <2>3. i + d = j + d
      BY <2>2 DEF Tokens
    <2> QED BY <2>2, <2>3
  <1>3. Pending(f)' => AskedAt(f)' = {} /\ \A n \in 1..MaxAttempts : ~Works(f, n)'
    BY <1>1 DEF Tokens
  <1>4. \A n \in 1..MaxAttempts : Works(f, n)' =>
           AskedAt(f)' = {} /\ \A m \in 1..MaxAttempts : Works(f, m)' => m = n
    BY <1>1 DEF Tokens
  <1> QED BY <1>2, <1>3, <1>4

(* Nothing happens to what is carried. *)
LEMMA TokensStay ==
    ASSUME Tokens, Stage, UNCHANGED Carried,
           \A f \in Files : f \in files' => ~OnWire("receiver", Start(f))',
           \A f \in Files : Pending(f)' => Pending(f),
           \A f \in Files : \A n \in 1..MaxAttempts : Works(f, n)' => Works(f, n)
    PROVE  Tokens'
  <1>1. \A f \in Files : \A i \in AskedAt(f)' : i \in Nat /\ i + 0 \in AskedAt(f)
    BY AskedFacts DEF AskedAt
  <1> QED BY <1>1, TokensShrink

LEMMA TokensTaken ==
    ASSUME Tokens, Stage, inbox # <<>>, inbox' = Tail(inbox),
           UNCHANGED <<files, writer, rts, str>>
    PROVE  Tokens'
  <1>1. \A f \in Files : \A i \in AskedAt(f)' : i \in Nat /\ i + 1 \in AskedAt(f)
    BY CarriedTaken DEF AskedAt
  <1>2. \A f \in Files : /\ f \in files' => ~OnWire("receiver", Start(f))'
                         /\ Pending(f)' => Pending(f)
                         /\ \A n \in 1..MaxAttempts : Works(f, n)' => Works(f, n)
    BY DEF Tokens, Pending, Works, OnWire, Message
  <1> QED BY <1>1, <1>2, TokensShrink

-----------------------------------------------------------------------------
(* Steps that hand a file on. *)

LEMMA TokensManifest ==
    ASSUME Tokens, Wire, Stage, NEW ids \in SUBSET Files, NEW dirs \in BOOLEAN,
           SendManifest(ids, dirs)
    PROVE  Tokens'
  <1>1. /\ UNCHANGED <<inbox, rts, writer>> /\ inbox = <<>> /\ rts = <<>>
        /\ \A w \in Writers : writer[w] = "none"
    BY DEF SendManifest, diskVars, Stage, Handshake
  <1>2. \A f \in Files : AskedAt(f)' = {}
    BY <1>1, CarriedType DEF AskedAt, Carried
  <1>3. \A f \in Files : \A n \in 1..MaxAttempts : ~Works(f, n)'
    BY <1>1 DEF Works, Working, Writers
  <1>4. \A f \in Files : ~OnWire("receiver", Start(f))'
    <2>1. CASE Left("receiver", Done(0))
      BY <2>1, MessageFacts DEF Left, Ends
    <2>2. CASE Left("receiver", Manifest(ids))
      BY <2>2, MessageFacts DEF Left, Ends
    <2> QED BY <2>1, <2>2, ManifestSent
  <1> QED BY <1>2, <1>3, <1>4 DEF Tokens

LEMMA TokensRetry ==
    ASSUME Tokens, Wire, Stage, ControllerRecv, Retry(Head(inbox))
    PROVE  Tokens'
  <1>1. /\ inbox # <<>> /\ inbox' = Tail(inbox) /\ UNCHANGED <<files, writer, rts>>
    BY DEF ControllerRecv, controllerFrame, diskVars
  <1>2. PICK f \in Files : Head(inbox) = Failure(f, 0) /\ Head(inbox).id = f
    <2>1. Head(inbox) \in Reports /\ Head(inbox).type = "Failure" /\ Head(inbox).reason = 0
      BY <1>1, CarriedTaken DEF Retry, Refuted
    <2> QED BY <2>1, ReportFacts
  <1>3. Left("receiver", Start(f))
    BY <1>2, FileRetried
  <1>4. 1 \in AskedAt(f)
    BY <1>1, <1>2, CarriedTaken DEF AskedAt
  <1>5. ~Pending(f) /\ \A n \in 1..MaxAttempts : ~Works(f, n)
    BY <1>4 DEF Tokens
  <1>6. \A g \in Files : \A i \in AskedAt(g)' : i \in Nat \ {0} /\ i + 1 \in AskedAt(g)
    BY <1>1, CarriedTaken DEF AskedAt
  <1>7. AskedAt(f)' = {}
    <2>1. \A i \in AskedAt(f) : i = 1
      BY <1>4 DEF Tokens
    <2> QED BY <1>6, <2>1
  <1>8. \A g \in Files : OnWire("receiver", Start(g))' <=> g = f
    BY <1>3, MessageFacts DEF Left, Ends
  <1>9. \A g \in Files : \A n \in 1..MaxAttempts : Works(g, n)' <=> Works(g, n)
    BY <1>1 DEF Works
  <1>10. \A g \in Files : AskedAt(g) = {} => AskedAt(g)' = {}
    BY <1>6
  <1>11. \A g \in Files : \A i, j \in AskedAt(g)' : i = j
    <2>1. TAKE g \in Files
    <2>2. TAKE i, j \in AskedAt(g)'
    <2>3. i + 1 = j + 1 /\ i \in Nat /\ j \in Nat
      BY <1>6 DEF Tokens
    <2> QED BY <2>3
  <1>12. f \notin files /\ files' = files
    BY <1>1, <1>5 DEF Pending
  <1>13. \A g \in Files : g # f => (Pending(g)' => Pending(g))
    BY <1>1, <1>8 DEF Pending
  <1>14. ASSUME NEW g \in Files
         PROVE  Pending(g)' => AskedAt(g)' = {} /\ \A n \in 1..MaxAttempts : ~Works(g, n)'
    <2>1. CASE g = f
      BY <1>5, <1>7, <1>9, <2>1
    <2>2. CASE g # f
      BY <1>9, <1>10, <1>13, <2>2 DEF Tokens
    <2> QED BY <2>1, <2>2
  <1>15. ASSUME NEW g \in Files, NEW n \in 1..MaxAttempts, Works(g, n)'
         PROVE  AskedAt(g)' = {} /\ \A m \in 1..MaxAttempts : Works(g, m)' => m = n
    BY <1>9, <1>10, <1>15 DEF Tokens
  <1> QED BY <1>8, <1>11, <1>12, <1>14, <1>15 DEF Tokens

LEMMA TokensStart ==
    ASSUME Tokens, Wire, Stage,
           NEW f \in Files, NEW msg, NEW n \in 1..MaxAttempts,
           OnWire("receiver", Start(f)), Left("sender", msg),
           writer' = [writer EXCEPT ![<<f, n>>] = "open"],
           UNCHANGED <<files, inbox, rts>>
    PROVE  Tokens'
  <1>1. /\ AskedAt(f) = {} /\ f \notin files /\ \A m \in 1..MaxAttempts : ~Works(f, m)
    BY DEF Tokens, Pending
  <1>2. \A g \in Files : ~OnWire("receiver", Start(g))'
    BY DEF Left, Ends
  <1>3. \A g \in Files : AskedAt(g)' = AskedAt(g)
    BY DEF AskedAt, Carried
  <1>4. \A g \in Files : \A m \in 1..MaxAttempts :
           Works(g, m)' <=> Works(g, m) \/ (g = f /\ m = n)
    BY DEF Works, Working, Stage, StageTypes, Writers
  <1>5. \A g \in Files : Pending(g)' => Pending(g) /\ g # f
    BY <1>1, <1>2 DEF Pending
  <1>6. ASSUME NEW g \in Files, NEW k \in 1..MaxAttempts, Works(g, k)'
        PROVE  AskedAt(g)' = {} /\ \A m \in 1..MaxAttempts : Works(g, m)' => m = k
    BY <1>1, <1>3, <1>4, <1>6 DEF Tokens
  <1> QED BY <1>2, <1>3, <1>4, <1>5, <1>6 DEF Tokens

(* The sender hears of a wrong file: it is in its hands again. *)
LEMMA TokensRefuted ==
    ASSUME Tokens, Stage, NEW f \in Files, NEW n \in 1..MaxAttempts,
           writer[<<f, n>>] = "verify",
           \E phase \in {"report", "remove"} : writer' = [writer EXCEPT ![<<f, n>>] = phase],
           rts' = rts \/ rts' = Append(rts, Failure(f, 0)),
           UNCHANGED <<files, inbox, str>>
    PROVE  Tokens'
  <1>1. AskedAt(f) = {} /\ ~Pending(f) /\ \A m \in 1..MaxAttempts : Works(f, m) => m = n
    BY DEF Tokens, Works, Working
  <1>2. \A g \in Files : \A m \in 1..MaxAttempts :
           Works(g, m)' <=> Works(g, m) /\ ~(g = f /\ m = n)
    BY DEF Works, Working, Stage, StageTypes, Writers
  <1>3. \A g \in Files : /\ OnWire("receiver", Start(g))' <=> OnWire("receiver", Start(g))
                         /\ Pending(g)' <=> Pending(g)
    BY DEF Pending, OnWire, Message
  <1>4. \A m \in 1..MaxAttempts : ~Works(f, m)'
    BY <1>1, <1>2
  <1>5. /\ \A i, j \in AskedAt(f)' : i = j
        /\ \A g \in Files : g # f => AskedAt(g)' = AskedAt(g)
    <2>1. CASE rts' = rts
      BY <1>1, <2>1 DEF AskedAt, Carried
    <2>2. CASE rts' = Append(rts, Failure(f, 0))
      <3>1. /\ DOMAIN Carried' = 1..(Len(Carried) + 1)
            /\ \A i \in DOMAIN Carried : Carried'[i] = Carried[i]
            /\ Carried'[Len(Carried) + 1] = Failure(f, 0)
        BY <2>2, CarriedMore, ReportFacts
      <3>2. Len(Carried) \in Nat /\ DOMAIN Carried = 1..Len(Carried)
        BY CarriedType
      <3>3. \A i \in DOMAIN Carried' : i \in DOMAIN Carried \/ i = Len(Carried) + 1
        BY <3>1, <3>2
      <3>4. \A i \in DOMAIN Carried : i \in DOMAIN Carried'
        BY <3>1, <3>2
      <3>5. \A i \in AskedAt(f)' : i = Len(Carried) + 1
        BY <1>1, <3>1, <3>3 DEF AskedAt
      <3>6. \A g \in Files : g # f => AskedAt(g)' = AskedAt(g)
        <4>1. \A g \in Files : g # f => Failure(f, 0) # Failure(g, 0)
          BY ReportFacts
        <4> QED BY <3>1, <3>3, <3>4, <4>1 DEF AskedAt
      <3> QED BY <3>5, <3>6
    <2> QED BY <2>1, <2>2
  <1>6. ASSUME NEW g \in Files
        PROVE  /\ (g \in files => ~OnWire("receiver", Start(g)))'
               /\ Pending(g)' => AskedAt(g)' = {} /\ \A m \in 1..MaxAttempts : ~Works(g, m)'
               /\ \A k \in 1..MaxAttempts : Works(g, k)' =>
                     AskedAt(g)' = {} /\ \A m \in 1..MaxAttempts : Works(g, m)' => m = k
               /\ \A i, j \in AskedAt(g)' : i = j
    <2>1. CASE g = f
      BY <1>1, <1>3, <1>4, <1>5, <2>1 DEF Tokens
    <2>2. CASE g # f
      BY <1>2, <1>3, <1>5, <2>2 DEF Tokens
    <2> QED BY <2>1, <2>2
  <1> QED BY <1>6 DEF Tokens

(* A writer goes on that tells the sender nothing, or that it is through. *)
LEMMA TokensWriter ==
    ASSUME Tokens, Stage, NEW f \in Files, NEW n \in 1..MaxAttempts,
           WriterStep(f, n) \/ DiskFails(f, n)
    PROVE  Tokens'
  <1>0. UNCHANGED <<files, inbox, str>> /\ <<f, n>> \in Writers
    BY WriterStepMoves DEF WriterMoves, writerFrame, controlVars, Writers
  <1>1. CASE WriterRefuted(f, n)
    BY <1>0, <1>1, TokensRefuted DEF WriterRefuted, At, Goto, Send
  <1>2. CASE ~WriterRefuted(f, n)
    <2>1. \A g \in Files : \A m \in 1..MaxAttempts : Works(g, m)' => Works(g, m)
      BY <1>2 DEF WriterStep, WriterOpen, WriterData, WriterVerified, WriterRemove,
             WriterRename, WriterEnd, WriterMisses, DiskFails, WriterReport, At, Goto,
             Works, Working, Stage, StageTypes, Writers
    <2>2. \A g \in Files : /\ g \in files' => ~OnWire("receiver", Start(g))'
                           /\ Pending(g)' => Pending(g)
      BY <1>0 DEF Tokens, Pending, OnWire, Message
    <2>3. rts' = rts \/ \E msg \in {End(f), Failure(f, 2)} : rts' = Append(rts, msg)
      BY <1>2 DEF WriterStep, WriterOpen, WriterData, WriterVerified, WriterRemove,
             WriterRename, WriterEnd, WriterMisses, DiskFails, WriterReport, Send
    <2>4. ASSUME NEW g \in Files, NEW i \in AskedAt(g)'
          PROVE  i \in Nat /\ i + 0 \in AskedAt(g)
      <3>1. CASE rts' = rts
        BY <1>0, <3>1, AskedFacts DEF AskedAt, Carried
      <3>2. ASSUME NEW msg \in {End(f), Failure(f, 2)}, rts' = Append(rts, msg)
            PROVE  i \in Nat /\ i + 0 \in AskedAt(g)
        <4>1. msg \in Reports /\ msg # Failure(g, 0)
          BY ReportFacts
        <4>2. /\ DOMAIN Carried' = 1..(Len(Carried) + 1)
              /\ \A k \in DOMAIN Carried : Carried'[k] = Carried[k]
              /\ Carried'[Len(Carried) + 1] = msg
          BY <1>0, <3>2, <4>1, CarriedMore
        <4>3. Len(Carried) \in Nat /\ DOMAIN Carried = 1..Len(Carried)
          BY CarriedType
        <4>4. i \in DOMAIN Carried /\ i \in Nat
          BY <4>1, <4>2, <4>3 DEF AskedAt
        <4> QED BY <4>2, <4>4 DEF AskedAt
      <3> QED BY <2>3, <3>1, <3>2
    <2> QED BY <2>1, <2>2, <2>4, TokensShrink
  <1> QED BY <1>1, <1>2

LEMMA TokensInit == Init => Tokens
  <1> SUFFICES ASSUME Init PROVE Tokens
    OBVIOUS
  <1>1. inbox = <<>> /\ rts = <<>> /\ files = {} /\ str["receiver"] = <<>>
    BY DEF Init
  <1>2. \A f \in Files : ~Pending(f) /\ \A n \in 1..MaxAttempts : ~Works(f, n)
    BY <1>1 DEF Init, Pending, OnWire, Works, Working, Writers
  <1>3. \A f \in Files : AskedAt(f) = {}
    BY <1>1, StageInit, CarriedType DEF AskedAt
  <1> QED BY <1>1, <1>2, <1>3 DEF Tokens

LEMMA TokensStep ==
    ASSUME Tokens, Wire, Stage, [Next]_vars
    PROVE  Tokens'
  <1> USE MessageFacts DEF Ends
  <1>1. CASE \E ids \in SUBSET Files, dirs \in BOOLEAN : SendManifest(ids, dirs)
    BY <1>1, TokensManifest
  <1>2. CASE ControllerRecv /\ Retry(Head(inbox))
    BY <1>2, TokensRetry
  <1>3. CASE \E f \in Files, n \in 1..MaxAttempts : WriterStep(f, n) \/ DiskFails(f, n)
    BY <1>3, TokensWriter
  <1>4. CASE ControllerRecv /\ Settle(Head(inbox))
    <2>1. /\ inbox # <<>> /\ inbox' = Tail(inbox)
          /\ UNCHANGED <<files, writer, rts, str>>
      BY <1>4 DEF ControllerRecv, Settle, controllerFrame, diskVars
    <2> QED BY <2>1, TokensTaken
  <1>5. CASE ReceiverRecv
    <2>1. UNCHANGED <<files, inbox, rts>>
      BY <1>5 DEF ReceiverRecv, controlVars
    <2>2. ASSUME Hushed, UNCHANGED writer
          PROVE  Tokens'
      <3>1. \A f \in Files : ~OnWire("receiver", Start(f))' /\ (Pending(f)' => Pending(f))
        BY <2>1, <2>2 DEF Hushed, Pending
      <3>2. \A f \in Files : \A n \in 1..MaxAttempts : Works(f, n)' => Works(f, n)
        BY <2>2 DEF Works
      <3>3. UNCHANGED Carried
        BY <2>1 DEF Carried
      <3> QED BY <3>1, <3>2, <3>3, TokensStay
    <2>3. ASSUME NEW f \in wanted, NEW i \in Nat, NEW n \in 1..MaxAttempts,
                 OnWire("receiver", Start(f)), Left("sender", StartIndex(i)),
                 writer' = [writer EXCEPT ![<<f, n>>] = "open"]
          PROVE  Tokens'
      <3>1. f \in Files
        BY DEF Stage, StageTypes
      <3> QED BY <2>1, <2>3, <3>1, TokensStart
    <2> QED BY <1>5, <2>2, <2>3, RequestRead
  <1>6. CASE \E f \in Files : StartFile(f)
    <2>1. PICK f \in Files : StartFile(f)
      BY <1>6
    <2>2. /\ f \in files /\ files' = files \ {f} /\ UNCHANGED <<inbox, rts, writer>>
          /\ Left("receiver", Start(f))
      BY <2>1, FileStarted DEF StartFile, controllerFrame, diskVars
    <2>3. \A g \in Files : OnWire("receiver", Start(g))' <=> g = f
      BY <2>2 DEF Left
    <2>4. \A g \in Files : /\ g \in files' => ~OnWire("receiver", Start(g))'
                           /\ Pending(g)' => Pending(g)
      BY <2>2, <2>3 DEF Pending
    <2> QED BY <2>2, <2>4, TokensStay DEF Works, Carried
  <1>7. CASE \/ ReadReply \/ ReadStartIndex \/ SendDone \/ ReadHello
             \/ CrawlFails \/ ControllerFails \/ SplitRecv \/ SplitFails \/ ConfirmationsEnd
             \/ SendersFail \/ SenderExit \/ CancelSender
             \/ ListenFails \/ MessagesEnd \/ ConfirmationsSent \/ ReceiversFail
             \/ ReceiversStarve \/ HeldUp \/ ReceiverExit \/ CancelReceiver
             \/ \E stream \in {"rts", "str"} : Cut(stream)
             \/ UNCHANGED vars
    <2>1. UNCHANGED writer
      BY <1>7 DEF ReadReply, ReadStartIndex, SendDone, ReadHello, CrawlFails, ControllerFails,
                  SplitRecv, SplitFails,
                  ConfirmationsEnd, SendersFail, SenderExit, CancelSender, ListenFails,
                  MessagesEnd, ConfirmationsSent, ReceiversFail, ReceiversStarve, HeldUp, QueueFills,
                  writerFrame, ReceiverExit, CancelReceiver,
                  Cut, vars, hostVars, diskVars, senderFrame, controllerFrame, receiverFrame
    <2>2. UNCHANGED Carried
      <3>1. CASE SplitRecv
        BY <3>1, CarriedOver DEF SplitRecv
      <3>2. CASE ~SplitRecv
        <4>1. UNCHANGED <<inbox, rts>>
          BY <1>7, <3>2
          DEF ReadReply, ReadStartIndex, SendDone, ReadHello, CrawlFails, ControllerFails,
              SplitFails, ConfirmationsEnd, SendersFail, SenderExit, CancelSender, ListenFails,
              MessagesEnd, ConfirmationsSent, ReceiversFail, ReceiversStarve, HeldUp, QueueFills,
              writerFrame, ReceiverExit, CancelReceiver,
              Cut, vars, hostVars, controlVars, senderFrame, controllerFrame, receiverFrame
        <4> QED BY <4>1 DEF Carried
      <3> QED BY <3>1, <3>2
    <2>3. files' \subseteq files
      <3>1. CASE ReadReply
        BY <3>1 DEF ReadReply, ReadCompleted, ReadRefusal
      <3>2. CASE ~ReadReply
        BY <1>7, <3>2
        DEF ReadStartIndex, SendDone, ReadHello, CrawlFails, ControllerFails, SplitRecv,
            SplitFails, ConfirmationsEnd, SendersFail, SenderExit, CancelSender, ListenFails,
            MessagesEnd, ConfirmationsSent, ReceiversFail, ReceiversStarve, HeldUp, QueueFills,
            writerFrame, ReceiverExit, CancelReceiver,
            Cut, vars, hostVars, controlVars, senderFrame, controllerFrame, receiverFrame
      <3> QED BY <3>1, <3>2
    <2>4. \A f \in Files : OnWire("receiver", Start(f))' => OnWire("receiver", Start(f))
      <3>1. CASE ReadReply
        BY <3>1, ReplyRead DEF Left, Hushed
      <3>2. CASE ReadStartIndex
        BY <3>2, IndexRead DEF Hushed
      <3>3. CASE SendDone
        BY <3>3, DoneSent DEF Left
      <3>4. CASE ReadHello
        BY <3>4, HelloRead DEF Left, Hushed
      <3>5. CASE ~(ReadReply \/ ReadStartIndex \/ SendDone \/ ReadHello)
        <4>1. UNCHANGED str
          BY <1>7, <3>5
          DEF CrawlFails, ControllerFails, SplitRecv,
              SplitFails, ConfirmationsEnd, SendersFail, SenderExit, CancelSender, ListenFails,
              MessagesEnd, ConfirmationsSent, ReceiversFail, ReceiversStarve, HeldUp, QueueFills,
              writerFrame, ReceiverExit, CancelReceiver,
              Cut, vars, hostVars, senderFrame, receiverFrame
        <4> QED BY <4>1 DEF OnWire, Message
      <3> QED BY <3>1, <3>2, <3>3, <3>4, <3>5
    <2>5. \A f \in Files : /\ f \in files' => ~OnWire("receiver", Start(f))'
                           /\ Pending(f)' => Pending(f)
                           /\ \A n \in 1..MaxAttempts : Works(f, n)' => Works(f, n)
      BY <2>1, <2>3, <2>4 DEF Tokens, Pending, Works
    <2> QED BY <2>2, <2>5, TokensStay
  <1> QED BY <1>1, <1>2, <1>3, <1>4, <1>5, <1>6, <1>7, Steps

-----------------------------------------------------------------------------
(* The disk: so what a writer has verified is still so when it renames the *)
(* file, and a file is renamed once.                                       *)

OtherTypes ==
    /\ fd \in [Writers -> Inodes \cup {NoInode}]
    /\ partial \in [Files -> Inodes \cup {NoInode}]
    /\ contents \in [Files -> [Inodes -> [len : Nat, right : BOOLEAN]]]
    /\ final \in [Files -> {"none", "old", "right", "wrong"}]
    /\ current \in Files \cup {NoFile}
    /\ listening \in BOOLEAN /\ closed \in BOOLEAN
    /\ cut \subseteq {"rts", "str"}
    /\ faults \in FaultSets

Stored ==
    \A f \in Files :
       /\ final[f] \in {"right", "wrong"} =>
             \E n \in 1..MaxAttempts : writer[<<f, n>>] \in {"end", "stored"}
       /\ Verify => final[f] # "wrong"
       /\ \A n \in 1..MaxAttempts : Verify /\ writer[<<f, n>>] = "rename" =>
             partial[f] = NoInode \/ contents[f][partial[f]].right

LEMMA DiskInit == Init => OtherTypes /\ Stored
  <1> SUFFICES ASSUME Init PROVE OtherTypes /\ Stored
    OBVIOUS
  <1>1. /\ fd \in [Writers -> Inodes \cup {NoInode}]
        /\ partial \in [Files -> Inodes \cup {NoInode}]
        /\ final \in [Files -> {"none", "old", "right", "wrong"}]
        /\ current \in Files \cup {NoFile}
        /\ cut \subseteq {"rts", "str"} /\ faults \in FaultSets
    BY SessionAssumption DEF Init, Inodes
  <1>4. listening \in BOOLEAN /\ closed \in BOOLEAN
    BY DEF Init
  <1>2. contents \in [Files -> [Inodes -> [len : Nat, right : BOOLEAN]]]
    <2>1. PICK len \in [Files -> Lengths],
               right \in [Files -> IF "data" \in faults THEN BOOLEAN ELSE {TRUE}] :
             contents = [f \in Files |-> [i \in Inodes |->
                           IF i = 0 /\ partial[f] = 0
                           THEN [len |-> len[f], right |-> right[f]]
                           ELSE [len |-> 0, right |-> TRUE]]]
      BY DEF Init
    <2>2. \A f \in Files : len[f] \in Nat /\ right[f] \in BOOLEAN
      <3>1. \A f \in Files : len[f] \in Nat
        BY SessionAssumption DEF Lengths
      <3>2. (IF "data" \in faults THEN BOOLEAN ELSE {TRUE}) \subseteq BOOLEAN
        OBVIOUS
      <3> QED BY <3>1, <3>2
    <2> QED BY <2>1, <2>2
  <1>3. Stored
    BY DEF Init, Stored, Writers
  <1> QED BY <1>1, <1>2, <1>3, <1>4 DEF OtherTypes

LEMMA DiskTyped ==
    ASSUME OtherTypes, Stage, [Next]_vars
    PROVE  OtherTypes'
  <1>1. /\ cut' \subseteq {"rts", "str"} /\ faults' \in FaultSets
        /\ current' \in Files \cup {NoFile}
        /\ listening' \in BOOLEAN /\ closed' \in BOOLEAN
    <2>1. UNCHANGED faults
      BY DEF Next, vars
    <2>2. CASE \E stream \in {"rts", "str"} : Cut(stream)
      BY <2>1, <2>2 DEF Cut, controlVars, receiverVars, OtherTypes
    <2>3. CASE (\E f \in Files : StartFile(f)) \/ ReadStartIndex \/ ControllerRecv
      <3>1. current' \in Files \cup {NoFile}
        BY <2>3 DEF StartFile, ReadStartIndex, ControllerRecv, Retry, Refuted, Settle, OtherTypes,
                    Stage, StageTypes
      <3>2. UNCHANGED <<cut, listening, closed>>
        BY <2>3 DEF StartFile, ReadStartIndex, ControllerRecv, controllerFrame, receiverVars
      <3> QED BY <2>1, <3>1, <3>2 DEF OtherTypes
    <2>4. CASE ReceiverRecv \/ ListenFails
      BY <2>1, <2>4 DEF ReceiverRecv, OnStart, OnDone, ListenFails, controlVars, OtherTypes
    <2>5. CASE \E f \in Files, n \in 1..MaxAttempts : WriterStep(f, n) \/ DiskFails(f, n)
      BY <2>1, <2>5, WriterStepMoves DEF WriterMoves, writerFrame, controlVars, receiverVars, OtherTypes
    <2>6. CASE UNCHANGED <<cut, current, listening, closed>>
      BY <2>1, <2>6 DEF OtherTypes
    <2>7. \/ \E stream \in {"rts", "str"} : Cut(stream)
          \/ (\E f \in Files : StartFile(f)) \/ ReadStartIndex \/ ControllerRecv
          \/ ReceiverRecv \/ ListenFails
          \/ \E f \in Files, n \in 1..MaxAttempts : WriterStep(f, n) \/ DiskFails(f, n)
          \/ UNCHANGED <<cut, current, listening, closed>>
      BY Steps
      DEF SendManifest, ReadReply, SendDone, ReadHello, CrawlFails, ControllerFails,
          SplitRecv, SplitFails, ConfirmationsEnd, SendersFail, SenderExit, CancelSender,
          MessagesEnd, ConfirmationsSent, ReceiversFail, ReceiversStarve, HeldUp, QueueFills,
          writerFrame, ReceiverExit, CancelReceiver,
          vars, hostVars, controlVars, receiverVars, senderFrame, controllerFrame, receiverFrame
    <2> QED BY <2>2, <2>3, <2>4, <2>5, <2>6, <2>7
  <1>2. CASE \E f \in Files, n \in 1..MaxAttempts : WriterStep(f, n) \/ DiskFails(f, n)
    <2>1. PICK f \in Files, n \in 1..MaxAttempts : WriterStep(f, n) \/ DiskFails(f, n)
      BY <1>2
    <2>2. <<f, n>> \in Writers /\ n \in Inodes /\ NoInode \notin Inodes
      BY SessionAssumption DEF Writers, Inodes, NoInode
    <2>3. CASE WriterOpen(f, n)
      BY <1>1, <2>2, <2>3 DEF WriterOpen, OtherTypes
    <2>4. CASE WriterData(f, n)
      <3>1. PICK right \in BOOLEAN :
               contents' = [contents EXCEPT ![f][fd[<<f, n>>]] =
                  [len |-> contents[f][fd[<<f, n>>]].len + Size - start_index[f],
                   right |-> /\ contents[f][fd[<<f, n>>]].right
                             /\ contents[f][fd[<<f, n>>]].len = start_index[f] /\ right]]
        BY <2>4 DEF WriterData
      <3>2. start_index[f] \in Nat
        BY DEF Stage, StageTypes
      <3>3. \A k \in Nat : k + Size - start_index[f] \in Nat
        BY <2>4, <3>2, SessionAssumption DEF WriterData, Fed
      <3>4. contents' \in [Files -> [Inodes -> [len : Nat, right : BOOLEAN]]]
        <4> DEFINE i == fd[<<f, n>>]
                   Content == [len : Nat, right : BOOLEAN]
                   new == [len |-> contents[f][i].len + Size - start_index[f],
                           right |-> /\ contents[f][i].right
                                     /\ contents[f][i].len = start_index[f] /\ right]
        <4>1. i \in Inodes => new \in Content
          <5> SUFFICES ASSUME i \in Inodes PROVE new \in Content
            OBVIOUS
          <5>1. contents[f][i] \in Content
            BY DEF OtherTypes
          <5>2. contents[f][i].len \in Nat /\ contents[f][i].right \in BOOLEAN
            BY <5>1
          <5>3. contents[f][i].len + Size - start_index[f] \in Nat
            BY <3>3, <5>2
          <5>4. (/\ contents[f][i].right /\ contents[f][i].len = start_index[f] /\ right)
                   \in BOOLEAN
            OBVIOUS
          <5> HIDE DEF i
          <5> QED BY <5>3, <5>4
        <4>2. contents' = [contents EXCEPT ![f] = [contents[f] EXCEPT ![i] = new]]
          BY <3>1
        <4>3. contents \in [Files -> [Inodes -> Content]]
          BY DEF OtherTypes
        <4> HIDE DEF i, new, Content
        <4>4. [contents[f] EXCEPT ![i] = new] \in [Inodes -> Content]
          BY <4>1, <4>3
        <4>5. contents' \in [Files -> [Inodes -> Content]]
          BY <4>2, <4>3, <4>4
        <4> QED BY <4>5 DEF Content
      <3> QED BY <1>1, <2>4, <3>4 DEF WriterData, OtherTypes
    <2>5. CASE WriterRemove(f, n) \/ WriterRename(f, n)
      BY <1>1, <2>5 DEF WriterRemove, WriterRename, OtherTypes
    <2>6. CASE \/ WriterVerified(f, n) \/ WriterRefuted(f, n) \/ WriterEnd(f, n)
               \/ WriterMisses(f, n) \/ WriterReport(f, n) \/ DiskFails(f, n)
      BY <1>1, <2>6 DEF WriterVerified, WriterRefuted, WriterEnd, WriterMisses, WriterReport,
                        DiskFails, OtherTypes
    <2> QED BY <2>1, <2>3, <2>4, <2>5, <2>6 DEF WriterStep
  <1>3. CASE UNCHANGED <<fd, partial, contents, final>>
    BY <1>1, <1>3 DEF OtherTypes
  <1>4. \/ \E f \in Files, n \in 1..MaxAttempts : WriterStep(f, n) \/ DiskFails(f, n)
        \/ UNCHANGED <<fd, partial, contents, final>>
    BY Steps
    DEF SendManifest, ReadReply, ReadStartIndex, SendDone, ReadHello, ReceiverRecv, StartFile,
        ControllerRecv, CrawlFails, ControllerFails, SplitRecv, SplitFails, ConfirmationsEnd,
        SendersFail, SenderExit, CancelSender, ListenFails, MessagesEnd, ConfirmationsSent,
        ReceiversFail, ReceiversStarve, HeldUp, QueueFills, writerFrame,
        ReceiverExit, CancelReceiver, Cut, vars, hostVars, diskVars,
        senderFrame, controllerFrame, receiverFrame
  <1> QED BY <1>2, <1>3, <1>4

(* What a writer does to its file. *)
LEMMA StoredWriter ==
    ASSUME Stored, Tokens, Stage, OtherTypes, NEW f \in Files, NEW n \in 1..MaxAttempts,
           WriterStep(f, n) \/ DiskFails(f, n)
    PROVE  Stored'
  <1>0. /\ <<f, n>> \in Writers
        /\ \A g \in Files, m \in 1..MaxAttempts : <<g, m>> \in Writers
        /\ \E phase \in (Idle \cup Phases) \ {"none"} :
              writer' = [writer EXCEPT ![<<f, n>>] = phase]
    BY DEF Writers, WriterStep, WriterOpen, WriterData, WriterVerified, WriterRefuted, WriterRemove,
           WriterRename, WriterEnd, WriterMisses, DiskFails, WriterReport, Goto, Idle, Phases
  <1>1. /\ \A g \in Files, m \in 1..MaxAttempts : <<g, m>> # <<f, n>> =>
                 writer'[<<g, m>>] = writer[<<g, m>>]
        /\ \A g \in Files : g # f => /\ final'[g] = final[g] /\ partial'[g] = partial[g]
                                     /\ contents'[g] = contents[g]
    BY <1>0 DEF WriterStep, WriterOpen, WriterData, WriterVerified, WriterRefuted, WriterRemove,
           WriterRename, WriterEnd, WriterMisses, DiskFails, WriterReport, OtherTypes,
           Stage, StageTypes
  <1>2. writer[<<f, n>>] \in {"end", "stored"} => writer'[<<f, n>>] \in {"end", "stored"}
    BY <1>0 DEF WriterStep, WriterOpen, WriterData, WriterVerified, WriterRefuted, WriterRemove,
           WriterRename, WriterEnd, WriterMisses, DiskFails, WriterReport, At, Goto,
           Stage, StageTypes
  <1>3. (\E m \in 1..MaxAttempts : writer[<<f, m>>] \in {"end", "stored"}) =>
           \E m \in 1..MaxAttempts : writer'[<<f, m>>] \in {"end", "stored"}
    BY <1>1, <1>2
  <1>4. CASE WriterRename(f, n)
    <2>1. /\ writer[<<f, n>>] = "rename" /\ writer'[<<f, n>>] = "end"
          /\ partial[f] # NoInode /\ partial'[f] = NoInode
          /\ final'[f] = IF contents[f][partial[f]].right THEN "right" ELSE "wrong"
      BY <1>0, <1>4 DEF WriterRename, At, Goto, OtherTypes, Stage, StageTypes
    <2>2. Verify => final'[f] # "wrong"
      BY <2>1 DEF Stored
    <2> QED BY <1>1, <2>1, <2>2 DEF Stored
  <1>5. CASE ~WriterRename(f, n)
    <2>1. final'[f] = final[f]
      BY <1>5 DEF WriterStep, WriterOpen, WriterData, WriterVerified, WriterRefuted, WriterRemove,
             WriterEnd, WriterMisses, DiskFails, WriterReport
    <2>2. ASSUME NEW m \in 1..MaxAttempts, Verify, writer'[<<f, m>>] = "rename"
          PROVE  partial'[f] = NoInode \/ contents'[f][partial'[f]].right
      <3>1. CASE m = n
        BY <1>0, <1>5, <2>2, <3>1
        DEF WriterStep, WriterOpen, WriterData, WriterVerified, WriterRefuted, WriterRemove,
            WriterEnd, WriterMisses, DiskFails, WriterReport, At, Goto, Stage, StageTypes
      <3>2. CASE m # n
        <4>1. writer[<<f, m>>] = "rename" /\ ~Works(f, n)
          BY <1>1, <2>2, <3>2 DEF Tokens, Works, Working
        <4>2. partial[f] = NoInode \/ contents[f][partial[f]].right
          BY <2>2, <4>1 DEF Stored
        <4>3. /\ partial'[f] = partial[f] \/ partial'[f] = NoInode
              /\ contents' = contents
          BY <1>5, <4>1 DEF WriterStep, WriterOpen, WriterData, WriterVerified, WriterRefuted,
             WriterRemove, WriterEnd, WriterMisses, DiskFails, WriterReport, At, Works, Working,
             OtherTypes
        <4> QED BY <4>2, <4>3
      <3> QED BY <3>1, <3>2
    <2> QED BY <1>1, <1>3, <2>1, <2>2 DEF Stored
  <1> QED BY <1>4, <1>5

LEMMA StoredStep ==
    ASSUME Stored, Counted, Tokens, Wire, Stage, OtherTypes, [Next]_vars
    PROVE  Stored'
  <1>1. CASE \E f \in Files, n \in 1..MaxAttempts : WriterStep(f, n) \/ DiskFails(f, n)
    BY <1>1, StoredWriter
  <1>2. CASE ReceiverRecv
    <2>1. UNCHANGED <<started, current, wanted, partial, contents, final>>
      BY <1>2 DEF ReceiverRecv, controlVars
    <2>2. ASSUME NEW f \in wanted, NEW i \in Nat, NEW n \in 1..MaxAttempts,
                 OnWire("receiver", Start(f)), Left("sender", StartIndex(i)),
                 n = Cardinality(Attempts(f)) + 1,
                 writer' = [writer EXCEPT ![<<f, n>>] = "open"]
          PROVE  Stored'
      <3>1. writer[<<f, n>>] = "none"
        BY <2>1, <2>2, CountedStart
      <3>2. f \in Files /\ <<f, n>> \in Writers /\ writer \in [Writers -> Idle \cup Phases]
        BY DEF Stage, StageTypes, Writers
      <3>3. \A g \in Files, m \in 1..MaxAttempts :
               /\ <<g, m>> \in Writers
               /\ \/ writer'[<<g, m>>] = writer[<<g, m>>]
                  \/ writer[<<g, m>>] = "none" /\ writer'[<<g, m>>] = "open"
        <4>1. TAKE g \in Files, m \in 1..MaxAttempts
        <4>2. <<g, m>> \in Writers
          BY DEF Writers
        <4>3. CASE g = f /\ m = n
          BY <2>2, <3>1, <3>2, <4>3
        <4>4. CASE ~(g = f /\ m = n)
          <5>1. <<g, m>> # <<f, n>>
            BY <4>4
          <5>2. writer'[<<g, m>>] = writer[<<g, m>>]
            BY <2>2, <3>2, <4>2, <5>1
          <5> QED BY <4>2, <5>2
        <4> QED BY <4>2, <4>3, <4>4
      <3> QED BY <2>1, <3>3 DEF Stored
    <2> QED BY <1>2, <2>1, <2>2, RequestRead DEF Stored
  <1>3. CASE UNCHANGED <<writer, partial, contents, final>>
    BY <1>3 DEF Stored
  <1>4. \/ \E f \in Files, n \in 1..MaxAttempts : WriterStep(f, n) \/ DiskFails(f, n)
        \/ ReceiverRecv
        \/ UNCHANGED <<writer, partial, contents, final>>
    BY Steps
    DEF SendManifest, ReadReply, ReadStartIndex, SendDone, ReadHello, StartFile,
        ControllerRecv, CrawlFails, ControllerFails, SplitRecv, SplitFails, ConfirmationsEnd,
        SendersFail, SenderExit, CancelSender, ListenFails, MessagesEnd, ConfirmationsSent,
        ReceiversFail, ReceiversStarve, HeldUp, QueueFills, writerFrame,
        ReceiverExit, CancelReceiver, Cut, vars, hostVars, diskVars,
        senderFrame, controllerFrame, receiverFrame
  <1> QED BY <1>1, <1>2, <1>3, <1>4

-----------------------------------------------------------------------------
(* The queues that failed writers leave behind. *)

LeftoverType == leftover \in [Files -> {"none", "left", "full"}]

LEMMA LeftoverTyped ==
    ASSUME LeftoverType, [Next]_vars
    PROVE  LeftoverType'
  <1>1. CASE \E f \in Files, n \in 1..MaxAttempts : WriterStep(f, n) \/ DiskFails(f, n)
    <2>1. PICK f \in Files, n \in 1..MaxAttempts : WriterStep(f, n) \/ DiskFails(f, n)
      BY <1>1
    <2>2. CASE UNCHANGED leftover
      BY <2>2 DEF LeftoverType
    <2>3. CASE leftover' = [leftover EXCEPT ![f] = "left"]
      BY <2>3 DEF LeftoverType
    <2>4. \/ UNCHANGED leftover
          \/ leftover' = [leftover EXCEPT ![f] = "left"]
      BY <2>1 DEF WriterStep, WriterOpen, WriterData, WriterVerified, WriterRefuted,
         WriterRemove, WriterRename, WriterEnd, WriterMisses, DiskFails, WriterReport
    <2> QED BY <2>2, <2>3, <2>4
  <1>2. CASE HeldUp
    BY <1>2 DEF HeldUp, QueueFills, LeftoverType
  <1>3. CASE ReceiverRecv
    BY <1>3 DEF ReceiverRecv, OnStart, OnDone, LeftoverType
  <1>4. CASE UNCHANGED leftover
    BY <1>4 DEF LeftoverType
  <1>5. \/ \E f \in Files, n \in 1..MaxAttempts : WriterStep(f, n) \/ DiskFails(f, n)
        \/ HeldUp \/ ReceiverRecv \/ UNCHANGED leftover
    BY Steps
    DEF SendManifest, ReadReply, ReadStartIndex, SendDone, ReadHello, StartFile,
        ControllerRecv, CrawlFails, ControllerFails, SplitRecv, SplitFails, ConfirmationsEnd,
        SendersFail, SenderExit, CancelSender, ListenFails, MessagesEnd, ConfirmationsSent,
        ReceiversFail, ReceiversStarve, ReceiverExit, CancelReceiver, Cut, vars, hostVars,
        diskVars, senderFrame, controllerFrame, receiverFrame
  <1> QED BY <1>1, <1>2, <1>3, <1>4, <1>5

-----------------------------------------------------------------------------
(* The attempts at one file. *)

LEMMA RetriesStart ==
    ASSUME RetriedWasRefuted, Counted, Tokens, Wire, Stage,
           NEW f \in wanted, NEW i \in Nat, NEW n \in 1..MaxAttempts,
           OnWire("receiver", Start(f)), Left("sender", StartIndex(i)),
           n = Cardinality(Attempts(f)) + 1,
           writer' = [writer EXCEPT ![<<f, n>>] = "open"],
           UNCHANGED <<started, current, wanted>>
    PROVE  RetriedWasRefuted'
  <1>1. /\ n = started[f] + 1 /\ Attempts(f) = 1..started[f] /\ started[f] \in Nat
        /\ f \in Files
    BY CountedStart DEF Stage, StageTypes
  <1>2. \A m \in 1..MaxAttempts : ~Works(f, m)
    BY <1>1 DEF Tokens, Pending
  <1>3. \A g \in Files : \A m \in 1..MaxAttempts :
           writer'[<<g, m>>] = IF g = f /\ m = n THEN "open" ELSE writer[<<g, m>>]
    BY DEF Stage, StageTypes, Writers
  <1>4. ASSUME NEW m \in 1..(n - 1)
        PROVE  writer[<<f, m>>] \in {"remove", "report", "failed"}
    <2>1. m \in 1..MaxAttempts /\ m \in Attempts(f)
      BY <1>1, SessionAssumption
    <2>2. writer[<<f, m>>] \in Idle \cup Phases
      BY <1>1, <2>1 DEF Stage, StageTypes, Writers
    <2> QED BY <1>2, <2>1, <2>2 DEF Attempts, Works, Working, Idle, Phases
  <1>5. ASSUME NEW g \in Files, NEW k \in 1..MaxAttempts, NEW m \in 1..(k - 1),
               writer'[<<g, k>>] # "none"
        PROVE  writer'[<<g, m>>] \in {"remove", "report", "failed"}
    <2>1. m \in 1..MaxAttempts
      BY SessionAssumption
    <2>2. CASE g = f /\ k = n
      <3>1. m \in 1..(n - 1) /\ m # n
        BY <1>1, <2>2
      <3> QED BY <1>3, <1>4, <2>1, <2>2, <3>1
    <2>3. CASE ~(g = f /\ k = n)
      <3>1. writer[<<g, k>>] # "none"
        BY <1>3, <1>5, <2>3
      <3>2. ~(g = f /\ m = n)
        <4>1. SUFFICES ASSUME g = f, m = n PROVE FALSE
          OBVIOUS
        <4>2. k \in 1..started[f]
          BY <1>1, <3>1, <4>1 DEF Attempts
        <4> QED BY <1>1, <4>1, <4>2
      <3> QED BY <1>3, <2>1, <3>1, <3>2 DEF RetriedWasRefuted
    <2> QED BY <2>2, <2>3
  <1> QED BY <1>5 DEF RetriedWasRefuted

LEMMA RetriesStep ==
    ASSUME RetriedWasRefuted, Counted, Tokens, Wire, Stage, [Next]_vars
    PROVE  RetriedWasRefuted'
  <1>1. CASE \E f \in Files, n \in 1..MaxAttempts : WriterStep(f, n) \/ DiskFails(f, n)
    <2>1. PICK f \in Files, n \in 1..MaxAttempts : WriterStep(f, n) \/ DiskFails(f, n)
      BY <1>1
    <2>2. <<f, n>> \in Writers /\ \A g \in Files, m \in 1..MaxAttempts : <<g, m>> \in Writers
      BY DEF Writers
    <2>3. /\ writer[<<f, n>>] # "none"
          /\ \A w \in Writers : w # <<f, n>> => writer'[w] = writer[w]
      BY <2>1, <2>2 DEF WriterStep, WriterOpen, WriterData, WriterVerified, WriterRefuted,
         WriterRemove, WriterRename, WriterEnd, WriterMisses, DiskFails, WriterReport, At, Goto,
         Stage, StageTypes
    <2>4. writer[<<f, n>>] \in {"remove", "report", "failed"} =>
             writer'[<<f, n>>] \in {"remove", "report", "failed"}
      BY <2>1, <2>2 DEF WriterStep, WriterOpen, WriterData, WriterVerified, WriterRefuted,
         WriterRemove, WriterRename, WriterEnd, WriterMisses, DiskFails, WriterReport, At, Goto,
         Stage, StageTypes
    <2>5. ASSUME NEW g \in Files, NEW k \in 1..MaxAttempts, NEW m \in 1..(k - 1),
                 writer'[<<g, k>>] # "none"
          PROVE  writer'[<<g, m>>] \in {"remove", "report", "failed"}
      <3>1. m \in 1..MaxAttempts
        BY SessionAssumption
      <3>2. writer[<<g, k>>] # "none"
        BY <2>2, <2>3, <2>5
      <3>3. writer[<<g, m>>] \in {"remove", "report", "failed"}
        BY <3>2 DEF RetriedWasRefuted
      <3> QED BY <2>2, <2>3, <2>4, <3>1, <3>3
    <2> QED BY <2>5 DEF RetriedWasRefuted
  <1>2. CASE ReceiverRecv
    <2>1. UNCHANGED <<started, current, wanted>>
      BY <1>2 DEF ReceiverRecv, controlVars
    <2> QED BY <1>2, <2>1, RetriesStart, RequestRead DEF RetriedWasRefuted
  <1>3. CASE UNCHANGED writer
    BY <1>3 DEF RetriedWasRefuted
  <1>4. \/ \E f \in Files, n \in 1..MaxAttempts : WriterStep(f, n) \/ DiskFails(f, n)
        \/ ReceiverRecv \/ UNCHANGED writer
    BY Steps
    DEF SendManifest, ReadReply, ReadStartIndex, SendDone, ReadHello, StartFile,
        ControllerRecv, CrawlFails, ControllerFails, SplitRecv, SplitFails, ConfirmationsEnd,
        SendersFail, SenderExit, CancelSender, ListenFails, MessagesEnd, ConfirmationsSent,
        ReceiversFail, ReceiversStarve, HeldUp, QueueFills, ReceiverExit, CancelReceiver, Cut,
        vars, hostVars, diskVars, senderFrame, controllerFrame, receiverFrame
  <1> QED BY <1>1, <1>2, <1>3, <1>4

-----------------------------------------------------------------------------
(* Together. *)

Held ==
    /\ Wire /\ Stage /\ Counted /\ Tokens /\ OtherTypes /\ LeftoverType
    /\ Stored /\ RetriedWasRefuted

LEMMA HeldAlways == Spec => []Held
  <1>1. Init => LeftoverType /\ RetriedWasRefuted
    <2> SUFFICES ASSUME Init PROVE LeftoverType /\ RetriedWasRefuted
      OBVIOUS
    <2>1. LeftoverType
      BY DEF Init, LeftoverType
    <2>2. RetriedWasRefuted
      BY DEF Init, RetriedWasRefuted, Writers
    <2> QED BY <2>1, <2>2
  <1>2. Init => Held
    BY <1>1, StageInit, CountedInit, TokensInit, DiskInit DEF Held
  <1>3. Held /\ [Next]_vars => Held'
    BY StageStep, CountedStep, TokensStep, DiskTyped, LeftoverTyped, StoredStep,
       RetriesStep DEF Held
  <1> QED BY <1>2, <1>3, PTL DEF Spec

(* Every variable keeps to its type; in particular no file gets more       *)
(* readers than writers.                                                   *)
THEOREM TypesKept == Spec => []TypeOK
  <1>1. Held => TypeOK
    <2> SUFFICES ASSUME Held PROVE TypeOK
      OBVIOUS
    <2>1. started \in [Files -> 0..MaxAttempts]
      <3>1. ASSUME NEW f \in Files
            PROVE  started[f] \in 0..MaxAttempts
        <4>1. started[f] \in Nat /\ 1..started[f] \subseteq Attempts(f)
          BY DEF Held, Counted
        <4>2. 1..started[f] \subseteq 1..MaxAttempts
          BY <4>1 DEF Attempts
        <4>3. started[f] = 0 \/ started[f] \in 1..started[f]
          BY <4>1
        <4> QED BY <4>1, <4>2, <4>3, SessionAssumption
      <3> QED BY <3>1 DEF Held, Counted
    <2>2. start_index \in [Files -> Nat]
      BY SessionAssumption DEF Held, Stage, StageTypes
    <2> QED BY <2>1, <2>2 DEF Held, Stage, StageTypes, OtherTypes, LeftoverType, TypeOK, Phases
  <1> QED BY <1>1, HeldAlways, PTL

(* With --verify no file ever has its name with the wrong contents, however *)
(* its attempts fail, race for its partial file and are repeated.          *)
THEOREM VerifiedIsRight == Spec => []StoredIsRight
  <1>1. Held => StoredIsRight
    BY DEF Held, Stored, StoredIsRight
  <1> QED BY <1>1, HeldAlways, PTL

(* However many files a batch has and however often each is started: an    *)
(* attempt begins only after all earlier ones at its file have given up    *)
(* for good, so no two attempts ever write, verify or rename one file.     *)
THEOREM RetriesFollowRefutations == Spec => []RetriedWasRefuted
  <1>1. Held => RetriedWasRefuted
    BY DEF Held
  <1> QED BY <1>1, HeldAlways, PTL

LEMMA BatchStep ==
    ASSUME Held, [Next]_vars
    PROVE  [B!Next]_B!vars
  <1> USE DEF Held
  <1>1. CASE ReadHello
    <2>1. receiver = "hello" /\ wanted = {} /\ UNCHANGED final
      BY <1>1 DEF ReadHello, diskVars, Stage, Handshake
    <2>2. ~Exited(receiver)
      BY <2>1 DEF Exited
    <2>3. ASSUME NEW ids \in SUBSET Files, AcceptManifest(ids)
          PROVE  B!Next
      <3>1. /\ wanted' \in SUBSET Files
            /\ \A f \in wanted' : final[f] = "none" \/ Overwrite
        BY <2>3 DEF AcceptManifest, Existing
      <3>2. B!Agree(wanted')
        BY <2>1, <2>2, <3>1 DEF B!Agree, Exited
      <3> QED BY <3>1, <3>2 DEF B!Next
    <2>4. ASSUME receiver' \in {"err", "ok"}, UNCHANGED wanted
          PROVE  B!Next
      BY <2>1, <2>2, <2>4 DEF B!Next, B!Leave, Exited
    <2> QED BY <1>1, <2>3, <2>4, HelloRead
  <1>2. CASE ReceiverExit \/ CancelReceiver
    <2>1. /\ receiver \in {"hello", "run"} /\ receiver' \in {"ok", "err", "cancelled"}
          /\ UNCHANGED <<wanted, final>>
      BY <1>2 DEF ReceiverExit, CancelReceiver, receiverFrame, receiverVars, diskVars,
                  Stage, StageTypes
    <2> QED BY <2>1 DEF B!Next, B!Leave, Exited
  <1>3. ASSUME NEW f \in Files, NEW n \in 1..MaxAttempts, WriterRename(f, n)
        PROVE  B!Next
    <2>1. /\ receiver = "run" /\ writer[<<f, n>>] = "rename" /\ partial[f] # NoInode
          /\ final' = [final EXCEPT ![f] =
                          IF contents[f][partial[f]].right THEN "right" ELSE "wrong"]
          /\ UNCHANGED <<receiver, wanted>>
      BY <1>3 DEF WriterRename, At, writerFrame, receiverVars
    <2>2. f \in wanted
      BY <2>1 DEF Counted, Attempts
    <2>3. final[f] \in {"none", "old"}
      <3>1. \A m \in 1..MaxAttempts : writer[<<f, m>>] \notin {"end", "stored"}
        BY <2>1 DEF Tokens, Works, Working
      <3> QED BY <3>1 DEF Stored, OtherTypes
    <2>4. Verify => contents[f][partial[f]].right
      BY <2>1 DEF Stored
    <2>5. B!Store(f)
      BY <2>1, <2>2, <2>3, <2>4 DEF B!Store, Exited
    <2> QED BY <2>5 DEF B!Next
  <1>4. CASE UNCHANGED <<wanted, final, receiver>>
    BY <1>4 DEF B!vars, Exited
  <1>5. CASE \E f \in Files, n \in 1..MaxAttempts : WriterStep(f, n) \/ DiskFails(f, n)
    <2>1. PICK f \in Files, n \in 1..MaxAttempts : WriterStep(f, n) \/ DiskFails(f, n)
      BY <1>5
    <2>2. UNCHANGED <<wanted, receiver>>
      BY <2>1, WriterStepMoves DEF WriterMoves, writerFrame, receiverVars
    <2>3. WriterRename(f, n) \/ UNCHANGED final
      BY <2>1 DEF WriterStep, WriterOpen, WriterData, WriterVerified, WriterRefuted, WriterRemove,
                  WriterEnd, WriterMisses, DiskFails, WriterReport
    <2> QED BY <1>3, <1>4, <2>2, <2>3
  <1>6. \/ ReadHello \/ ReceiverExit \/ CancelReceiver
        \/ \E f \in Files, n \in 1..MaxAttempts : WriterStep(f, n) \/ DiskFails(f, n)
        \/ UNCHANGED <<wanted, final, receiver>>
    BY Steps
    DEF SendManifest, ReadReply, ReadStartIndex, SendDone, ReceiverRecv, StartFile,
        ControllerRecv, CrawlFails, ControllerFails, SplitRecv, SplitFails, ConfirmationsEnd,
        SendersFail, SenderExit, CancelSender, ListenFails, MessagesEnd, ConfirmationsSent,
        ReceiversFail, ReceiversStarve, HeldUp, QueueFills, writerFrame,
        Cut, vars, hostVars, receiverVars, diskVars,
        senderFrame, controllerFrame, receiverFrame
  <1> QED BY <1>1, <1>2, <1>4, <1>5, <1>6

(* The session is a batch: each file the receiver agreed to changes once   *)
(* at most and no other at all, never from a file that was there unless    *)
(* --overwrite, with --verify never to something wrong, and never after    *)
(* the receiver has left.                                                  *)
THEOREM SessionIsBatch == Spec => BatchSpec
  <1>1. Init => B!Init
    BY DEF Init, B!Init, Exited
  <1> QED BY <1>1, BatchStep, HeldAlways, PTL DEF Spec, BatchSpec, B!Spec
=============================================================================
