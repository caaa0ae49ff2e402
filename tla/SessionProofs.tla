--------------------------- MODULE SessionProofs ---------------------------
(***************************************************************************)
(* What two hosts keep to whatever fails: for every set of files, any      *)
(* limit of concurrent transfers, any sizes, any number of attempts and    *)
(* any sets of faults.                                                     *)
(*                                                                         *)
(* The proof goes from the stream of requests and replies outwards, and    *)
(* this module has its first half: the hosts take turns on that stream     *)
(* (Wire), and which message may be on it when (Stage).  SessionFiles goes *)
(* on with the files, SessionBooks with the results.                       *)
(***************************************************************************)
EXTENDS Session, FiniteSetTheorems, SequenceTheorems, TLAPS

Ends == {"sender", "receiver"}

Requests ==
    {Manifest(ids) : ids \in SUBSET Files} \cup {Start(f) : f \in Files}
    \cup {Done(r) : r \in 0..2}

Replies ==
    {Completed(ids) : ids \in SUBSET Files} \cup {StartIndex(i) : i \in Nat}
    \cup {Failure(0, 1)}

Phases == {"open", "data", "verify", "remove", "rename", "end", "report"}

Said(end) == IF end = "receiver" THEN Requests ELSE Replies

Quiet == str["sender"] = <<>> /\ str["receiver"] = <<>>

OnWire(end, msg) == str[end] # <<>> /\ Message(end) = msg

-----------------------------------------------------------------------------
(* The stream of requests and replies holds one message at most, and the   *)
(* two ciphers are one message apart while it does.                        *)

Wire ==
    /\ str = [end \in Ends |-> str[end]]
    /\ position \in [Ends -> Nat]
    /\ \A end \in Ends : str[end] # <<>> =>
          /\ \E msg \in Said(end) : str[end] = <<[msg |-> msg, at |-> position[end]]>>
          /\ str[Other(end)] = <<>>
          /\ position[Other(end)] = position[end] + 1
    /\ Quiet => position["sender"] = position["receiver"]

LEMMA OtherEnd ==
    /\ Other("sender") = "receiver" /\ Other("receiver") = "sender"
    /\ \A end \in Ends : Other(end) \in Ends /\ Other(end) # end /\ Other(Other(end)) = end
  BY DEF Other, Ends

LEMMA OneMessage ==
    ASSUME NEW x
    PROVE  Tail(<<x>>) = <<>> /\ Head(<<x>>) = x /\ Append(<<>>, x) = <<x>> /\ <<x>> # <<>>
  <1>1. <<x>> \in Seq({x}) /\ <<>> \in Seq({x})
    OBVIOUS
  <1>2. Len(Tail(<<x>>)) = 0 /\ Tail(<<x>>) \in Seq({x})
    BY <1>1
  <1>3. Tail(<<x>>) = <<>>
    BY <1>2, EmptySeq
  <1> QED BY <1>1, <1>3

LEMMA OneOnWire ==
    ASSUME Wire, NEW end \in Ends, str[end] # <<>>
    PROVE  /\ Message(end) \in Said(end)
           /\ str[end] = <<[msg |-> Message(end), at |-> position[end]]>>
           /\ Tail(str[end]) = <<>>
           /\ str[Other(end)] = <<>>
           /\ position[Other(end)] = position[end] + 1
  <1>1. PICK msg \in Said(end) : str[end] = <<[msg |-> msg, at |-> position[end]]>>
    BY DEF Wire
  <1>2. Message(end) = msg
    BY <1>1 DEF Message
  <1> QED BY <1>1, <1>2, OneMessage DEF Wire

(* What a step may do to the wire. *)
Left(to, msg) ==
    /\ Wire'
    /\ \A e \in Ends : \A m : OnWire(e, m)' <=> e = to /\ m = msg
    /\ \A e \in Ends : e # to => str'[e] = <<>>

Hushed ==
    /\ Wire' /\ Quiet'
    /\ \A e \in Ends : \A m : ~OnWire(e, m)'

(* A message is written while the stream is quiet. *)
LEMMA WriteWire ==
    ASSUME Wire, Quiet, NEW end \in Ends, NEW msg \in Said(Other(end)), Write(end, msg)
    PROVE  Left(Other(end), msg)
  <1>0. str[end] = <<>> /\ str[Other(end)] = <<>> /\ position[end] = position[Other(end)]
    BY OtherEnd DEF Wire, Quiet, Ends
  <1>1. /\ str' = [str EXCEPT ![Other(end)] = <<[msg |-> msg, at |-> position[end]]>>]
        /\ position' = [position EXCEPT ![end] = @ + 1]
    <2>1. Append(str[Other(end)], [msg |-> msg, at |-> position[end]])
             = <<[msg |-> msg, at |-> position[end]]>>
      BY <1>0, OneMessage
    <2> QED BY <2>1 DEF Write, After
  <1>2. /\ str'[Other(end)] = <<[msg |-> msg, at |-> position[end]]>>
        /\ str'[end] = <<>>
        /\ str' = [e \in Ends |-> str'[e]]
    BY <1>0, <1>1, OtherEnd DEF Wire
  <1>3. /\ position'[end] = position[end] + 1 /\ position'[Other(end)] = position[end]
        /\ position' \in [Ends -> Nat]
    BY <1>0, <1>1, OtherEnd DEF Wire
  <1>4. /\ str'[Other(end)] # <<>>
        /\ \A e \in Ends : e = end \/ e = Other(end)
    BY <1>2, OneMessage, OtherEnd DEF Ends
  <1>5. Wire'
    <2>1. ~Quiet'
      BY <1>4, OtherEnd DEF Quiet, Ends
    <2> QED BY <1>2, <1>3, <1>4, <2>1, OtherEnd DEF Wire
  <1>6. \A e \in Ends : \A m : OnWire(e, m)' <=> e = Other(end) /\ m = msg
    BY <1>2, <1>4, OneMessage, OtherEnd DEF OnWire, Message
  <1> QED BY <1>2, <1>4, <1>5, <1>6 DEF Left

(* A message is read. *)
LEMMA ReadWire ==
    ASSUME Wire, NEW end \in Ends, str[end] # <<>>, Read(end)
    PROVE  Hushed
  <1>1. /\ str' = [str EXCEPT ![end] = <<>>]
        /\ position' = [position EXCEPT ![end] = @ + 1]
    BY OneOnWire DEF Read, Popped, Advanced, Wire
  <1>2. /\ str'[end] = <<>> /\ str'[Other(end)] = <<>>
        /\ position'[end] = position'[Other(end)]
        /\ position' \in [Ends -> Nat]
        /\ str' = [e \in Ends |-> str'[e]]
    BY <1>1, OneOnWire, OtherEnd DEF Wire
  <1> QED BY <1>2, OtherEnd DEF Wire, Quiet, OnWire, Ends, Hushed

(* A message is read and answered at once. *)
LEMMA AnswerWire ==
    ASSUME Wire, NEW end \in Ends, str[end] # <<>>,
           NEW msg \in Said(Other(end)), ReadThenWrite(end, msg)
    PROVE  Left(Other(end), msg)
  <1>0. /\ str[Other(end)] = <<>> /\ Tail(str[end]) = <<>>
        /\ position[Other(end)] = position[end] + 1
    BY OneOnWire
  <1>1. /\ str' = [e \in Ends |-> IF e = end THEN <<>>
                                  ELSE <<[msg |-> msg, at |-> position[end] + 1]>>]
        /\ position' = [position EXCEPT ![end] = @ + 2]
    BY <1>0, OtherEnd DEF ReadThenWrite, After, Popped, Advanced, Wire, Ends
  <1>2. /\ str'[Other(end)] = <<[msg |-> msg, at |-> position[end] + 1]>>
        /\ str'[end] = <<>>
        /\ position'[end] = position[end] + 2
        /\ position'[Other(end)] = position[end] + 1
        /\ position' \in [Ends -> Nat]
        /\ str' = [e \in Ends |-> str'[e]]
    BY <1>0, <1>1, OtherEnd DEF Wire
  <1>3. Wire'
    BY <1>2, OtherEnd DEF Wire, Quiet, Ends
  <1>4. \A e \in Ends : \A m : OnWire(e, m)' <=> e = Other(end) /\ m = msg
    BY <1>2, OtherEnd DEF OnWire, Message, Ends
  <1> QED BY <1>2, <1>3, <1>4, OtherEnd DEF Left, Ends

-----------------------------------------------------------------------------
(* Which message may be on the wire when, and what each host has not begun *)
(* while the handshake lasts.                                              *)

Turn ==
    /\ sender = "hello" => Quiet
    /\ sender = "run" /\ controller \in {"fill", "done"} => Quiet

Reports == {End(f) : f \in Files} \cup {Failure(f, r) : f \in Files, r \in {0, 2}}

StageTypes ==
    /\ sender \in {"hello", "reply", "run", "ok", "err", "cancelled"}
    /\ receiver \in {"hello", "run", "ok", "err", "cancelled"}
    /\ controller \in {"fill", "index", "done", "exited"}
    /\ files \subseteq Files /\ active \subseteq Files /\ wanted \subseteq Files
    /\ inbox \in Seq(Reports) /\ rts \in Seq(Reports)
    /\ start_index \in [Files -> Nat]
    /\ writer \in [Writers -> Idle \cup Phases]
    /\ results \subseteq [task : {"controller", "receiver", "confirmation", "senders"},
                          result : {"ok", "err"}]
    /\ rresults \subseteq [task : {"controller", "messages", "confirmation", "receivers"},
                           result : {"ok", "err"}]

Handshake ==
    /\ sender \in {"hello", "reply"} =>
          /\ active = {} /\ controller = "fill" /\ inbox = <<>> /\ results = {}
          /\ rts = <<>> /\ \A w \in Writers : writer[w] = "none"
    /\ sender = "hello" => files = {} /\ wanted = {} /\ receiver \in {"hello", "err"}
    /\ receiver = "hello" =>
          /\ sender \notin {"run", "cancelled"}
          /\ wanted = {} /\ rresults = {} /\ listening /\ ~closed
          /\ str["sender"] = <<>>
          /\ \A f \in Files : partial[f] = NoInode \/ contents[f][partial[f]].len \in Nat
    /\ controller \in {"fill", "done"} => current = NoFile
    /\ controller = "index" => current \in Files

OnTheWay ==
    /\ \A ids \in SUBSET Files : OnWire("receiver", Manifest(ids)) =>
          sender \in {"reply", "err"} /\ ids = files /\ receiver \in {"hello", "err"}
    /\ \A f \in Files : OnWire("receiver", Start(f)) =>
          /\ controller \in {"index", "exited"} /\ current = f
          /\ sender \notin {"hello", "reply"} /\ receiver # "hello"
    /\ OnWire("receiver", Done(0)) => sender = "ok" /\ receiver \in {"hello", "err"}
    /\ OnWire("receiver", Done(1)) => sender = "ok" /\ wanted = {} /\ receiver # "hello"
    /\ OnWire("receiver", Done(2)) =>
          controller = "exited" /\ sender \notin {"hello", "reply"} /\ receiver # "hello"
    /\ \A ids \in SUBSET Files : OnWire("sender", Completed(ids)) =>
          sender \in {"reply", "err"} /\ wanted = files \ ids /\ receiver # "hello"
    /\ \A i \in Nat : OnWire("sender", StartIndex(i)) =>
          /\ controller \in {"index", "exited"} /\ current \in Files
          /\ sender \notin {"hello", "reply"} /\ receiver # "hello"
    /\ OnWire("sender", Failure(0, 1)) => receiver # "hello" /\ receiver # "run"

Stage == StageTypes /\ Handshake /\ OnTheWay /\ Turn

LEMMA MessageFacts ==
    /\ \A a, b : /\ Manifest(a) # Start(b) /\ Manifest(a) # Done(b) /\ Start(a) # Done(b)
                 /\ Completed(a) # StartIndex(b)
                 /\ Completed(a) # Failure(0, 1) /\ StartIndex(a) # Failure(0, 1)
                 /\ Manifest(a) = Manifest(b) => a = b
                 /\ Start(a) = Start(b) => a = b
                 /\ Done(a) = Done(b) => a = b
                 /\ Completed(a) = Completed(b) => a = b
    /\ \A a : /\ Manifest(a).type = "Manifest" /\ Manifest(a).ids = a
              /\ Start(a).type = "Start" /\ Start(a).id = a
              /\ Done(a).type = "Done" /\ Done(a).reason = a
              /\ Completed(a).type = "Completed" /\ Completed(a).ids = a
              /\ StartIndex(a).type = "StartIndex"
              /\ \A b : Failure(a, b).type = "Failure"
    /\ \A ids \in SUBSET Files : Manifest(ids) \in Said("receiver")
    /\ \A f \in Files : Start(f) \in Said("receiver")
    /\ \A r \in 0..2 : Done(r) \in Said("receiver")
    /\ \A ids \in SUBSET Files : Completed(ids) \in Said("sender")
    /\ \A i \in Nat : StartIndex(i) \in Said("sender")
    /\ Failure(0, 1) \in Said("sender")
  BY DEF Manifest, Start, Done, Completed, StartIndex, Failure, Said, Requests, Replies

LEMMA WireFrame ==
    ASSUME UNCHANGED <<str, position>>
    PROVE  /\ Wire => Wire'
           /\ Quiet' <=> Quiet
           /\ \A e \in Ends : \A m : OnWire(e, m)' <=> OnWire(e, m)
  BY DEF Wire, Quiet, OnWire, Message

(* What is read was written. *)
LEMMA OnWireFacts ==
    ASSUME Wire, NEW end \in Ends, str[end] # <<>>
    PROVE  /\ OnWire(end, Message(end))
           /\ \A e \in Ends : \A m : OnWire(e, m) => e = end /\ m = Message(end)
  BY OneOnWire, OtherEnd DEF OnWire, Ends

-----------------------------------------------------------------------------
(* What each action reads and writes. *)

LEMMA ManifestSent ==
    ASSUME Wire, Stage, NEW ids \in SUBSET Files, NEW dirs \in BOOLEAN, SendManifest(ids, dirs)
    PROVE  \/ Left("receiver", Done(0)) /\ sender' = "ok" /\ ids = {}
           \/ Left("receiver", Manifest(ids)) /\ sender' = "reply"
  <1>1. Quiet
    BY DEF SendManifest, Stage, Turn
  <1>2. "sender" \in Ends /\ Other("sender") = "receiver"
    BY OtherEnd DEF Ends
  <1>3. CASE ids = {} /\ ~dirs
    <2>1. Write("sender", Done(0)) /\ sender' = "ok"
      BY <1>3 DEF SendManifest
    <2>2. Left("receiver", Done(0))
      BY <1>1, <1>2, <2>1, MessageFacts, WriteWire
    <2> QED BY <1>3, <2>1, <2>2
  <1>4. CASE ~(ids = {} /\ ~dirs)
    <2>1. Write("sender", Manifest(ids)) /\ sender' = "reply"
      BY <1>4 DEF SendManifest
    <2> QED BY <1>1, <1>2, <2>1, MessageFacts, WriteWire
  <1> QED BY <1>3, <1>4

LEMMA ReplyRead ==
    ASSUME Wire, Stage, ReadReply
    PROVE  \/ \E c \in SUBSET Files :
                 /\ OnWire("sender", Completed(c)) /\ files' = files \ c /\ wanted = files'
                 /\ \/ Left("receiver", Done(1)) /\ sender' = "ok" /\ files' = {}
                    \/ Hushed /\ sender' \in {"run", "err"}
           \/ /\ OnWire("sender", Failure(0, 1)) /\ Hushed
              /\ sender' = "err" /\ UNCHANGED files
  <1>1. /\ "sender" \in Ends /\ Other("sender") = "receiver" /\ str["sender"] # <<>>
        /\ Message("sender") \in Replies
    BY OneOnWire, OtherEnd DEF ReadReply, CanRead, Ends, Said
  <1>2. OnWire("sender", Message("sender"))
    BY <1>1, OnWireFacts
  <1>3. CASE ReadCompleted
    <2>1. PICK c \in SUBSET Files : Message("sender") = Completed(c)
      BY <1>1, <1>3, MessageFacts DEF ReadCompleted, Replies
    <2>2. files' = files \ c
      BY <1>3, <2>1, MessageFacts DEF ReadCompleted
    <2>3. wanted = files'
      BY <1>2, <2>1, <2>2 DEF Stage, OnTheWay
    <2>4. CASE files' = {}
      <3>1. ReadThenWrite("sender", Done(1)) /\ sender' = "ok"
        BY <1>3, <2>4 DEF ReadCompleted
      <3>2. Left("receiver", Done(1))
        BY <1>1, <3>1, MessageFacts, AnswerWire
      <3> QED BY <1>2, <2>1, <2>2, <2>3, <2>4, <3>1, <3>2
    <2>5. CASE files' # {}
      <3>1. Read("sender") /\ sender' \in {"run", "err"}
        BY <1>3, <2>5 DEF ReadCompleted
      <3>2. Hushed
        BY <1>1, <3>1, ReadWire
      <3> QED BY <1>2, <2>1, <2>2, <2>3, <3>1, <3>2
    <2> QED BY <2>4, <2>5
  <1>4. CASE ReadRefusal
    <2>1. Message("sender") = Failure(0, 1)
      BY <1>1, <1>4, MessageFacts DEF ReadRefusal, Replies
    <2>2. Read("sender") /\ sender' = "err" /\ UNCHANGED files
      BY <1>4 DEF ReadRefusal
    <2>3. Hushed
      BY <1>1, <2>2, ReadWire
    <2> QED BY <1>2, <2>1, <2>2, <2>3
  <1> QED BY <1>3, <1>4 DEF ReadReply

LEMMA FileStarted ==
    ASSUME Wire, Stage, NEW f \in Files, StartFile(f)
    PROVE  Quiet /\ Left("receiver", Start(f))
  <1>1. Quiet
    BY DEF StartFile, Stage, Turn
  <1>2. "sender" \in Ends /\ Other("sender") = "receiver" /\ Write("sender", Start(f))
    BY OtherEnd DEF Ends, StartFile
  <1> QED BY <1>1, <1>2, MessageFacts, WriteWire

LEMMA IndexRead ==
    ASSUME Wire, Stage, ReadStartIndex
    PROVE  Hushed /\ \E i \in Nat : OnWire("sender", StartIndex(i))
  <1>1. /\ "sender" \in Ends /\ str["sender"] # <<>> /\ Read("sender")
        /\ Message("sender") \in Replies /\ Message("sender").type = "StartIndex"
    BY OneOnWire DEF ReadStartIndex, CanRead, Ends, Said
  <1>2. \E i \in Nat : Message("sender") = StartIndex(i)
    BY <1>1, MessageFacts DEF Replies
  <1> QED BY <1>1, <1>2, OnWireFacts, ReadWire

LEMMA FileRetried ==
    ASSUME Wire, Stage, ControllerRecv, Retry(Head(inbox))
    PROVE  /\ Quiet /\ Left("receiver", Start(Head(inbox).id))
           /\ Head(inbox).id \in active
  <1>1. Quiet
    BY DEF ControllerRecv, Stage, Turn
  <1>2. /\ "sender" \in Ends /\ Other("sender") = "receiver"
        /\ Write("sender", Start(Head(inbox).id))
        /\ Head(inbox).id \in active /\ active \subseteq Files
    BY OtherEnd DEF Ends, Retry, Refuted, Stage, StageTypes
  <1> QED BY <1>1, <1>2, MessageFacts, WriteWire

LEMMA DoneSent ==
    ASSUME Wire, Stage, SendDone
    PROVE  Quiet /\ Left("receiver", Done(2))
  <1>1. Quiet
    BY DEF SendDone, Stage, Turn
  <1>2. "sender" \in Ends /\ Other("sender") = "receiver" /\ Write("sender", Done(2))
    BY OtherEnd DEF Ends, SendDone
  <1> QED BY <1>1, <1>2, MessageFacts, WriteWire

LEMMA HelloRead ==
    ASSUME Wire, Stage, ReadHello
    PROVE  \/ \E ids \in SUBSET Files :
                 /\ OnWire("receiver", Manifest(ids)) /\ AcceptManifest(ids)
                 /\ wanted' \subseteq ids /\ Left("sender", Completed(ids \ wanted'))
           \/ /\ Left("sender", Failure(0, 1)) \/ Hushed
              /\ receiver' = "err" /\ UNCHANGED <<wanted, start_index>>
           \/ /\ OnWire("receiver", Done(0)) /\ Hushed
              /\ receiver' = "ok" /\ UNCHANGED <<wanted, start_index>>
  <1>1. /\ "receiver" \in Ends /\ Other("receiver") = "sender" /\ str["receiver"] # <<>>
        /\ Message("receiver") \in Requests
    BY OneOnWire, OtherEnd DEF ReadHello, CanRead, Ends, Said
  <1>2. OnWire("receiver", Message("receiver"))
    BY <1>1, OnWireFacts
  <1>3. CASE ReadManifest
    <2>1. PICK ids \in SUBSET Files : Message("receiver") = Manifest(ids)
      BY <1>1, <1>3, MessageFacts DEF ReadManifest, Requests
    <2>2. CASE AcceptManifest(ids)
      <3>1. PICK c \in SUBSET ids : wanted' = ids \ c /\ ReadThenWrite("receiver", Completed(c))
        BY <2>2 DEF AcceptManifest, Existing
      <3>2. c = ids \ wanted' /\ c \in SUBSET Files
        BY <3>1
      <3>3. Left("sender", Completed(c))
        BY <1>1, <3>1, <3>2, MessageFacts, AnswerWire
      <3> QED BY <1>2, <2>1, <2>2, <3>1, <3>2, <3>3
    <2>3. CASE RefuseManifest(ids)
      <3>1. ReadThenWrite("receiver", Failure(0, 1))
        BY <2>3 DEF RefuseManifest
      <3>2. Left("sender", Failure(0, 1))
        BY <1>1, <3>1, MessageFacts, AnswerWire
      <3> QED BY <2>3, <3>2 DEF RefuseManifest
    <2>4. CASE MeasureFails
      <3>1. Hushed
        BY <1>1, <2>4, ReadWire DEF MeasureFails
      <3> QED BY <2>4, <3>1 DEF MeasureFails
    <2>5. Message("receiver").ids = ids
      BY <2>1, MessageFacts
    <2> QED BY <1>3, <2>2, <2>3, <2>4, <2>5 DEF ReadManifest
  <1>4. CASE ReadNothingToSend
    <2>1. Hushed
      BY <1>1, <1>4, ReadWire DEF ReadNothingToSend
    <2> QED BY <1>2, <1>4, <2>1 DEF ReadNothingToSend
  <1> QED BY <1>3, <1>4 DEF ReadHello

LEMMA AttemptsFinite ==
    ASSUME NEW f
    PROVE  Cardinality(Attempts(f)) \in Nat
  <1>1. IsFiniteSet(1..MaxAttempts)
    BY SessionAssumption, FS_Interval
  <1>2. IsFiniteSet(Attempts(f))
    BY <1>1, FS_Subset DEF Attempts
  <1> QED BY <1>2, FS_CardinalityType

LEMMA RequestRead ==
    ASSUME Wire, Stage, ReceiverRecv
    PROVE  \/ \E f \in Files :
                 /\ OnWire("receiver", Start(f)) /\ f \notin wanted /\ Hushed
                 /\ UNCHANGED <<start_index, writer, listening, closed, rresults>>
           \/ \E f \in wanted, i \in Nat : \E n \in 1..MaxAttempts :
                 /\ OnWire("receiver", Start(f)) /\ Left("sender", StartIndex(i))
                 /\ n = Cardinality(Attempts(f)) + 1
                 /\ writer' = [writer EXCEPT ![<<f, n>>] = "open"]
                 /\ start_index' = [start_index EXCEPT ![f] =
                                       IF partial[f] = NoInode THEN 0 ELSE @]
                 /\ UNCHANGED <<listening, closed, rresults>>
           \/ \E r \in 0..2 :
                 /\ OnWire("receiver", Done(r)) /\ Hushed
                 /\ closed' = TRUE /\ listening' = FALSE /\ RTaskEnds("controller", "ok")
                 /\ UNCHANGED <<start_index, writer>>
  <1>1. /\ "receiver" \in Ends /\ Other("receiver") = "sender" /\ str["receiver"] # <<>>
        /\ Message("receiver") \in Requests
    BY OneOnWire, OtherEnd DEF ReceiverRecv, CanRead, Ends, Said
  <1>2. OnWire("receiver", Message("receiver"))
    BY <1>1, OnWireFacts
  <1>3. CASE Message("receiver").type = "Start" /\ OnStart(Message("receiver").id)
    <2>1. PICK f \in Files : Message("receiver") = Start(f)
      BY <1>1, <1>3, MessageFacts DEF Requests
    <2>2. OnStart(f)
      BY <1>3, <2>1, MessageFacts
    <2>3. CASE f \notin wanted
      <3>1. Hushed
        BY <1>1, <2>2, <2>3, ReadWire DEF OnStart
      <3> QED BY <1>2, <2>1, <2>2, <2>3, <3>1 DEF OnStart
    <2>4. CASE f \in wanted
      <3> DEFINE n == Cardinality(Attempts(f)) + 1
                 i == start_index'[f]
      <3>1. /\ n <= MaxAttempts
            /\ start_index' = [start_index EXCEPT ![f] = IF partial[f] = NoInode THEN 0 ELSE @]
            /\ ReadThenWrite("receiver", StartIndex(i))
            /\ writer' = [writer EXCEPT ![<<f, n>>] = "open"]
            /\ UNCHANGED <<listening, closed, rresults>>
        BY <2>2, <2>4 DEF OnStart
      <3>2. n \in 1..MaxAttempts
        <4>1. Cardinality(Attempts(f)) \in Nat
          BY AttemptsFinite
        <4> QED BY <4>1, <3>1, SessionAssumption
      <3>3. i \in Nat
        BY <3>1, SessionAssumption DEF Stage, StageTypes
      <3>4. Left("sender", StartIndex(i))
        <4> HIDE DEF i
        <4> QED BY <1>1, <3>1, <3>3, MessageFacts, AnswerWire
      <3> QED BY <1>2, <2>1, <2>4, <3>1, <3>2, <3>3, <3>4
    <2> QED BY <2>3, <2>4
  <1>4. CASE Message("receiver").type = "Done" /\ OnDone
    <2>1. PICK r \in 0..2 : Message("receiver") = Done(r)
      BY <1>1, <1>4, MessageFacts DEF Requests
    <2>2. Hushed
      BY <1>1, <1>4, ReadWire DEF OnDone
    <2> QED BY <1>2, <1>4, <2>1, <2>2 DEF OnDone
  <1> QED BY <1>3, <1>4 DEF ReceiverRecv

LEMMA ReportFacts ==
    /\ \A f \in Files : End(f) \in Reports /\ Failure(f, 0) \in Reports /\ Failure(f, 2) \in Reports
    /\ \A f, r : /\ End(f).type = "End" /\ End(f).id = f
                 /\ Failure(f, r).type = "Failure" /\ Failure(f, r).id = f
                 /\ Failure(f, r).reason = r
    /\ \A f, g, r, t : /\ End(f) # Failure(g, r)
                       /\ Failure(f, r) = Failure(g, t) => f = g /\ r = t
    /\ \A m \in Reports : /\ m.id \in Files
                          /\ m = End(m.id) \/ m = Failure(m.id, 0) \/ m = Failure(m.id, 2)
  <1>1. \A f, r : /\ End(f).type = "End" /\ End(f).id = f
                  /\ Failure(f, r).type = "Failure" /\ Failure(f, r).id = f
                  /\ Failure(f, r).reason = r
    BY DEF End, Failure
  <1>2. \A f, g, r, t : /\ End(f) # Failure(g, r)
                        /\ Failure(f, r) = Failure(g, t) => f = g /\ r = t
    BY <1>1, "End" # "Failure"
  <1>3. \A f \in Files : /\ End(f) \in Reports
                         /\ Failure(f, 0) \in Reports /\ Failure(f, 2) \in Reports
    BY DEF Reports
  <1>4. \A m \in Reports :
           \E f \in Files : m = End(f) \/ m = Failure(f, 0) \/ m = Failure(f, 2)
    BY DEF Reports
  <1> QED BY <1>1, <1>2, <1>3, <1>4

(* A writer goes on, and may report. *)
WriterMoves ==
    /\ receiver = "run"
    /\ \E w \in Writers, phase \in (Idle \cup Phases) \ {"none"} :
          writer[w] # "none" /\ writer' = [writer EXCEPT ![w] = phase]
    /\ rts' = rts \/ \E msg \in Reports : rts' = Append(rts, msg)
    /\ UNCHANGED writerFrame

LEMMA WriterStepMoves ==
    ASSUME NEW f \in Files, NEW n \in 1..MaxAttempts, WriterStep(f, n) \/ DiskFails(f, n)
    PROVE  WriterMoves
  <1>1. <<f, n>> \in Writers
    BY DEF Writers
  <1>2. receiver = "run" /\ UNCHANGED writerFrame
    BY DEF WriterStep, WriterOpen, WriterData, WriterVerified, WriterRefuted, WriterRemove,
           WriterRename, WriterEnd, WriterMisses, DiskFails, WriterReport, At
  <1>3. rts' = rts \/ \E msg \in Reports : rts' = Append(rts, msg)
    BY ReportFacts DEF WriterStep, WriterOpen, WriterData, WriterVerified, WriterRefuted,
           WriterRemove, WriterRename, WriterEnd, WriterMisses, DiskFails, WriterReport, Send
  <1>4. \E phase \in (Idle \cup Phases) \ {"none"} :
           writer[<<f, n>>] # "none" /\ writer' = [writer EXCEPT ![<<f, n>>] = phase]
    BY DEF WriterStep, WriterOpen, WriterData, WriterVerified, WriterRefuted, WriterRemove,
           WriterRename, WriterEnd, WriterMisses, DiskFails, WriterReport, At, Goto,
           Idle, Phases
  <1> QED BY <1>1, <1>2, <1>3, <1>4 DEF WriterMoves

(* The full queue of a failed writer holds up the receiver tasks. *)
HeldUp == \E f \in Files : QueueFills(f)

-----------------------------------------------------------------------------
(* Steps that leave the wire alone. *)

WireKept == UNCHANGED <<str, position>>

(* The tasks of the sender, and its end. *)
LEMMA StageSender ==
    ASSUME Wire, Stage,
           \/ CrawlFails \/ ControllerFails \/ SplitRecv \/ SplitFails \/ ConfirmationsEnd
           \/ SendersFail \/ SenderExit \/ CancelSender
           \/ ControllerRecv /\ Settle(Head(inbox))
    PROVE  Stage' /\ WireKept
  <1>1. WireKept /\ UNCHANGED <<receiver, wanted, start_index, listening, closed, rresults,
                               writer, partial, contents, files>>
    BY DEF WireKept, CrawlFails, ControllerFails, SplitRecv, SplitFails, ConfirmationsEnd,
           SendersFail, SenderExit, CancelSender, ControllerRecv, Settle, controlVars,
           receiverVars, diskVars, senderFrame, controllerFrame
  <1>2. /\ Quiet' <=> Quiet
        /\ \A e \in Ends : \A m : OnWire(e, m)' <=> OnWire(e, m)
    BY <1>1, WireFrame DEF WireKept
  <1>3. "sender" \in Ends /\ "receiver" \in Ends
    BY DEF Ends
  <1>4. CASE SplitFails \/ ConfirmationsEnd \/ SendersFail
    <2>1. /\ sender = "run"
          /\ UNCHANGED <<sender, files, active, controller, current, inbox, rts>>
          /\ results' \subseteq [task : {"controller", "receiver", "confirmation", "senders"},
                                 result : {"ok", "err"}]
      BY <1>4 DEF SplitFails, ConfirmationsEnd, SendersFail, controlVars, TaskEnds,
                  Stage, StageTypes
    <2>2. StageTypes'
      BY <1>1, <2>1 DEF Stage, StageTypes
    <2>3. Handshake'
      BY <1>1, <2>1 DEF Stage, Handshake
    <2>4. OnTheWay' /\ Turn'
      BY <1>1, <1>2, <1>3, <2>1 DEF Stage, OnTheWay, Turn
    <2> QED BY <1>1, <2>2, <2>3, <2>4 DEF Stage
  <1>5. CASE SenderExit \/ CancelSender \/ CrawlFails
    <2>1. /\ sender' \in {"ok", "err", "cancelled"}
          /\ sender = "run" \/ sender' = "err"
          /\ UNCHANGED <<files, active, controller, current, inbox, rts, results>>
      BY <1>5 DEF SenderExit, CancelSender, CrawlFails, Stage, StageTypes, controlVars
    <2>2. StageTypes'
      BY <1>1, <2>1 DEF Stage, StageTypes
    <2>3. Handshake'
      BY <1>1, <2>1 DEF Stage, Handshake, WireKept
    <2>4. OnTheWay' /\ Turn'
      BY <1>1, <1>2, <1>3, <1>5, <2>1
      DEF Stage, OnTheWay, Turn, SenderExit, CancelSender, CrawlFails
    <2> QED BY <1>1, <2>2, <2>3, <2>4 DEF Stage
  <1>6. CASE ControllerFails
    <2>1. /\ sender = "run" /\ controller' = "exited"
          /\ UNCHANGED <<sender, files, active, current, inbox, rts>>
          /\ results' \subseteq [task : {"controller", "receiver", "confirmation", "senders"},
                                 result : {"ok", "err"}]
      BY <1>6 DEF ControllerFails, TaskEnds, Stage, StageTypes, controllerFrame
    <2>2. StageTypes'
      BY <1>1, <2>1 DEF Stage, StageTypes
    <2>3. Handshake'
      BY <1>1, <2>1 DEF Stage, Handshake
    <2>4. OnTheWay' /\ Turn'
      BY <1>1, <1>2, <1>3, <2>1 DEF Stage, OnTheWay, Turn
    <2> QED BY <1>1, <2>2, <2>3, <2>4 DEF Stage
  <1>7. CASE SplitRecv
    <2>1. /\ sender = "run" /\ UNCHANGED <<sender, files, active, controller, current, results>>
          /\ inbox' \in Seq(Reports) /\ rts' \in Seq(Reports) /\ rts # <<>>
      BY <1>7 DEF SplitRecv, Stage, StageTypes
    <2>2. StageTypes'
      BY <1>1, <2>1 DEF Stage, StageTypes
    <2>3. Handshake'
      BY <1>1, <2>1 DEF Stage, Handshake
    <2>4. OnTheWay' /\ Turn'
      BY <1>1, <1>2, <1>3, <2>1 DEF Stage, OnTheWay, Turn
    <2> QED BY <1>1, <2>2, <2>3, <2>4 DEF Stage
  <1>8. CASE ControllerRecv /\ Settle(Head(inbox))
    <2>1. /\ sender = "run" /\ controller = "fill" /\ controller' \in {"fill", "done"}
          /\ active' \subseteq active /\ inbox' \in Seq(Reports)
          /\ UNCHANGED <<sender, files, current, results, rts>>
      BY <1>8 DEF ControllerRecv, Settle, controllerFrame, Stage, StageTypes
    <2>2. StageTypes'
      BY <1>1, <2>1 DEF Stage, StageTypes
    <2>3. Handshake'
      BY <1>1, <2>1 DEF Stage, Handshake
    <2>4. OnTheWay' /\ Turn'
      BY <1>1, <1>2, <1>3, <2>1 DEF Stage, OnTheWay, Turn
    <2> QED BY <1>1, <2>2, <2>3, <2>4 DEF Stage
  <1> QED BY <1>4, <1>5, <1>6, <1>7, <1>8

(* The tasks of the receiver, its writers, and its end. *)
LEMMA StageReceiver ==
    ASSUME Wire, Stage,
           \/ ListenFails \/ MessagesEnd \/ ConfirmationsSent \/ ReceiversFail \/ ReceiversStarve \/ HeldUp
           \/ ReceiverExit \/ CancelReceiver \/ WriterMoves
           \/ \E stream \in {"rts", "str"} : Cut(stream)
    PROVE  Stage' /\ WireKept
  <1>1. WireKept /\ UNCHANGED <<sender, files, active, controller, current, inbox, wanted,
                               start_index, results>>
    BY DEF WireKept, ListenFails, MessagesEnd, ConfirmationsSent, ReceiversFail, ReceiversStarve, HeldUp, QueueFills, ReceiverExit,
           CancelReceiver, WriterMoves, Cut, controlVars, receiverVars, receiverFrame, writerFrame
  <1>2. /\ Quiet' <=> Quiet
        /\ \A e \in Ends : \A m : OnWire(e, m)' <=> OnWire(e, m)
    BY <1>1, WireFrame DEF WireKept
  <1>3. "sender" \in Ends /\ "receiver" \in Ends
    BY DEF Ends
  <1>4. CASE \/ ListenFails \/ MessagesEnd \/ ConfirmationsSent \/ ReceiversFail \/ ReceiversStarve \/ HeldUp
    <2>1. /\ receiver = "run" /\ UNCHANGED <<receiver, rts, writer>>
          /\ rresults' \subseteq [task : {"controller", "messages", "confirmation", "receivers"},
                                  result : {"ok", "err"}]
      BY <1>4 DEF ListenFails, MessagesEnd, ConfirmationsSent, ReceiversFail, ReceiversStarve, HeldUp, QueueFills, RTaskEnds,
                  Stage, StageTypes, receiverFrame, writerFrame, diskVars
    <2>2. StageTypes'
      BY <1>1, <2>1 DEF Stage, StageTypes
    <2>3. Handshake'
      BY <1>1, <2>1 DEF Stage, Handshake
    <2>4. OnTheWay' /\ Turn'
      BY <1>1, <1>2, <1>3, <2>1 DEF Stage, OnTheWay, Turn
    <2> QED BY <1>1, <2>2, <2>3, <2>4 DEF Stage
  <1>5. CASE ReceiverExit \/ CancelReceiver
    <2>1. /\ receiver' \in {"ok", "err", "cancelled"}
          /\ receiver = "run" \/ receiver' = "err"
          /\ UNCHANGED <<rts, writer, rresults>>
      BY <1>5 DEF ReceiverExit, CancelReceiver, Stage, StageTypes, receiverFrame, writerFrame, diskVars
    <2>2. StageTypes'
      BY <1>1, <2>1 DEF Stage, StageTypes
    <2>3. Handshake'
      BY <1>1, <2>1 DEF Stage, Handshake
    <2>4. OnTheWay' /\ Turn'
      BY <1>1, <1>2, <1>3, <1>5, <2>1
      DEF Stage, OnTheWay, Turn, ReceiverExit, CancelReceiver
    <2> QED BY <1>1, <2>2, <2>3, <2>4 DEF Stage
  <1>6. CASE WriterMoves
    <2>0. rts \in Seq(Reports) /\ writer \in [Writers -> Idle \cup Phases]
      BY DEF Stage, StageTypes
    <2>1. /\ receiver = "run" /\ UNCHANGED <<receiver, rresults>>
          /\ rts' \in Seq(Reports)
      BY <1>6, <2>0 DEF WriterMoves, writerFrame
    <2>2. /\ writer' \in [Writers -> Idle \cup Phases]
          /\ \E w \in Writers : writer[w] # "none"
      BY <1>6, <2>0 DEF WriterMoves
    <2>3. StageTypes'
      BY <1>1, <2>1, <2>2 DEF Stage, StageTypes
    <2>4. Handshake'
      BY <1>1, <2>1, <2>2 DEF Stage, Handshake
    <2>5. OnTheWay' /\ Turn'
      BY <1>1, <1>2, <1>3, <2>1 DEF Stage, OnTheWay, Turn
    <2> QED BY <1>1, <2>3, <2>4, <2>5 DEF Stage
  <1>7. CASE \E stream \in {"rts", "str"} : Cut(stream)
    <2>1. UNCHANGED <<receiver, rresults, rts, writer, listening, closed, partial, contents>>
      BY <1>7 DEF Cut, receiverVars, diskVars
    <2>2. StageTypes'
      BY <1>1, <2>1 DEF Stage, StageTypes
    <2>3. Handshake'
      BY <1>1, <2>1 DEF Stage, Handshake, WireKept
    <2>4. OnTheWay' /\ Turn'
      BY <1>1, <1>2, <1>3, <2>1 DEF Stage, OnTheWay, Turn
    <2> QED BY <1>1, <2>2, <2>3, <2>4 DEF Stage
  <1> QED BY <1>4, <1>5, <1>6, <1>7

-----------------------------------------------------------------------------
(* Steps that read and write. *)

LEMMA StageManifestSent ==
    ASSUME Wire, Stage, NEW ids \in SUBSET Files, NEW dirs \in BOOLEAN, SendManifest(ids, dirs)
    PROVE  Stage'
  <1>1. /\ sender = "hello" /\ files' = ids
        /\ UNCHANGED <<active, controller, current, inbox, results, receiver, wanted,
                       start_index, listening, closed, rresults, writer, partial,
                       contents, rts>>
    BY DEF SendManifest, receiverVars, diskVars
  <1>2. "sender" \in Ends /\ "receiver" \in Ends
    BY DEF Ends
  <1>3. CASE Left("receiver", Done(0)) /\ sender' = "ok"
    <2>1. StageTypes' /\ Handshake' /\ Turn'
      BY <1>1, <1>2, <1>3 DEF Stage, StageTypes, Handshake, Turn, Left
    <2>2. OnTheWay'
      BY <1>1, <1>2, <1>3, MessageFacts DEF Stage, OnTheWay, Handshake, Left
    <2> QED BY <2>1, <2>2 DEF Stage
  <1>4. CASE Left("receiver", Manifest(ids)) /\ sender' = "reply"
    <2>1. StageTypes' /\ Handshake' /\ Turn'
      BY <1>1, <1>2, <1>4 DEF Stage, StageTypes, Handshake, Turn, Left
    <2>2. OnTheWay'
      BY <1>1, <1>2, <1>4, MessageFacts DEF Stage, OnTheWay, Handshake, Left
    <2> QED BY <2>1, <2>2 DEF Stage
  <1> QED BY <1>3, <1>4, ManifestSent

LEMMA StageReplyRead ==
    ASSUME Wire, Stage, ReadReply
    PROVE  Stage'
  <1>1. /\ sender = "reply"
        /\ UNCHANGED <<active, controller, current, inbox, results, receiver, wanted,
                       start_index, listening, closed, rresults, writer, partial,
                       contents, rts>>
    BY DEF ReadReply, receiverVars, diskVars
  <1>2. "sender" \in Ends /\ "receiver" \in Ends
    BY DEF Ends
  <1>3. ASSUME NEW c \in SUBSET Files,
               OnWire("sender", Completed(c)), files' = files \ c, wanted = files',
               \/ Left("receiver", Done(1)) /\ sender' = "ok" /\ files' = {}
               \/ Hushed /\ sender' \in {"run", "err"}
        PROVE  Stage'
    <2>1. StageTypes' /\ Handshake' /\ Turn'
      BY <1>1, <1>2, <1>3 DEF Stage, StageTypes, Handshake, OnTheWay, Turn, Left, Hushed
    <2>2. OnTheWay'
      BY <1>1, <1>2, <1>3, MessageFacts DEF Stage, OnTheWay, Left, Hushed
    <2> QED BY <2>1, <2>2 DEF Stage
  <1>4. CASE OnWire("sender", Failure(0, 1)) /\ Hushed /\ sender' = "err" /\ UNCHANGED files
    <2>1. StageTypes' /\ Handshake' /\ Turn'
      BY <1>1, <1>2, <1>4 DEF Stage, StageTypes, Handshake, OnTheWay, Turn, Hushed
    <2>2. OnTheWay'
      BY <1>2, <1>4 DEF OnTheWay, Hushed
    <2> QED BY <2>1, <2>2 DEF Stage
  <1> QED BY <1>3, <1>4, ReplyRead

LEMMA StageFileStarted ==
    ASSUME Wire, Stage, NEW f \in Files, StartFile(f)
    PROVE  Stage'
  <1>1. /\ sender = "run" /\ controller' = "index" /\ current' = f /\ files' = files \ {f}
        /\ UNCHANGED <<sender, active, inbox, results, receiver, wanted, start_index,
                       listening, closed, rresults, writer, partial, contents, rts>>
    BY DEF StartFile, controllerFrame, receiverVars, diskVars
  <1>2. "sender" \in Ends /\ "receiver" \in Ends /\ Left("receiver", Start(f))
    BY FileStarted DEF Ends
  <1>3. StageTypes' /\ Handshake' /\ Turn'
    BY <1>1, <1>2 DEF Stage, StageTypes, Handshake, Turn
  <1>4. OnTheWay'
    BY <1>1, <1>2, MessageFacts DEF Stage, Handshake, OnTheWay, Left
  <1> QED BY <1>3, <1>4 DEF Stage

LEMMA StageIndexRead ==
    ASSUME Wire, Stage, ReadStartIndex
    PROVE  Stage'
  <1>1. /\ sender = "run" /\ controller' = "fill" /\ current' = NoFile
        /\ controller = "index" /\ active' = active \cup {current}
        /\ UNCHANGED <<sender, files, inbox, results, receiver, wanted, start_index,
                       listening, closed, rresults, writer, partial, contents, rts>>
    BY DEF ReadStartIndex, controllerFrame, receiverVars, diskVars
  <1>2. "sender" \in Ends /\ "receiver" \in Ends /\ Hushed
    BY IndexRead DEF Ends
  <1>3. StageTypes' /\ Handshake' /\ Turn'
    BY <1>1, <1>2 DEF Stage, StageTypes, Handshake, Turn, Hushed
  <1>4. OnTheWay'
    BY <1>2 DEF OnTheWay, Hushed
  <1> QED BY <1>3, <1>4 DEF Stage

LEMMA StageFileRetried ==
    ASSUME Wire, Stage, ControllerRecv, Retry(Head(inbox))
    PROVE  Stage'
  <1>1. /\ sender = "run" /\ controller' = "index" /\ current' = Head(inbox).id
        /\ inbox' \in Seq(Reports)
        /\ UNCHANGED <<sender, files, active, results, receiver, wanted, start_index,
                       listening, closed, rresults, writer, partial, contents, rts>>
    BY DEF ControllerRecv, Retry, controllerFrame, receiverVars, diskVars, Stage, StageTypes
  <1>2. /\ "sender" \in Ends /\ "receiver" \in Ends
        /\ Left("receiver", Start(current')) /\ current' \in Files
    BY <1>1, FileRetried DEF Ends, Stage, StageTypes
  <1>3. StageTypes' /\ Handshake' /\ Turn'
    BY <1>1, <1>2 DEF Stage, StageTypes, Handshake, Turn
  <1>4. OnTheWay'
    BY <1>1, <1>2, MessageFacts DEF Stage, Handshake, OnTheWay, Left
  <1> QED BY <1>3, <1>4 DEF Stage

LEMMA StageDoneSent ==
    ASSUME Wire, Stage, SendDone
    PROVE  Stage'
  <1>1. /\ sender = "run" /\ controller' = "exited"
        /\ results' \subseteq [task : {"controller", "receiver", "confirmation", "senders"},
                               result : {"ok", "err"}]
        /\ UNCHANGED <<sender, files, active, current, inbox, receiver, wanted, start_index,
                       listening, closed, rresults, writer, partial, contents, rts>>
    BY DEF SendDone, TaskEnds, controllerFrame, receiverVars, diskVars, Stage, StageTypes
  <1>2. "sender" \in Ends /\ "receiver" \in Ends /\ Left("receiver", Done(2))
    BY DoneSent DEF Ends
  <1>3. StageTypes' /\ Handshake' /\ Turn'
    BY <1>1, <1>2 DEF Stage, StageTypes, Handshake, Turn
  <1>4. OnTheWay'
    BY <1>1, <1>2, MessageFacts DEF Stage, Handshake, OnTheWay, Left
  <1> QED BY <1>3, <1>4 DEF Stage

LEMMA StageHelloRead ==
    ASSUME Wire, Stage, ReadHello
    PROVE  Stage'
  <1>1. /\ receiver = "hello"
        /\ UNCHANGED <<sender, files, active, controller, current, inbox, results, listening,
                       closed, rresults, writer, partial, contents, rts>>
    BY DEF ReadHello, controlVars, diskVars
  <1>2. "sender" \in Ends /\ "receiver" \in Ends
    BY DEF Ends
  <1>3. ASSUME NEW ids \in SUBSET Files,
               OnWire("receiver", Manifest(ids)), AcceptManifest(ids), wanted' \subseteq ids,
               Left("sender", Completed(ids \ wanted'))
        PROVE  Stage'
    <2>1. receiver' \in {"run", "err"} /\ start_index' \in [Files -> Nat]
      BY <1>1, <1>3, SessionAssumption DEF AcceptManifest, Found, Stage, Handshake
    <2>2. ids = files /\ sender \in {"reply", "err"}
      BY <1>3 DEF Stage, OnTheWay
    <2>3. StageTypes' /\ Handshake'
      BY <1>1, <1>2, <1>3, <2>1, <2>2 DEF Stage, StageTypes, Handshake
    <2>4. OnTheWay'
      BY <1>1, <1>2, <1>3, <2>1, <2>2, MessageFacts DEF OnTheWay, Left
    <2>5. Turn'
      BY <1>1, <2>2 DEF Turn
    <2> QED BY <2>3, <2>4, <2>5 DEF Stage
  <1>4. ASSUME \/ /\ Left("sender", Failure(0, 1)) \/ Hushed
                  /\ receiver' = "err"
               \/ /\ OnWire("receiver", Done(0)) /\ Hushed
                  /\ receiver' = "ok",
               UNCHANGED <<wanted, start_index>>
        PROVE  Stage'
    <2>1. StageTypes'
      BY <1>1, <1>4 DEF Stage, StageTypes
    <2>2. sender = "hello" => Quiet
      BY DEF Stage, Turn
    <2>3. sender # "hello"
      BY <2>2 DEF ReadHello, CanRead, Quiet
    <2>4. Handshake' /\ Turn'
      BY <1>1, <1>4, <2>3 DEF Stage, Handshake, Turn
    <2>5. OnTheWay'
      BY <1>1, <1>2, <1>4, MessageFacts DEF OnTheWay, Left, Hushed
    <2> QED BY <2>1, <2>4, <2>5 DEF Stage
  <1> QED BY <1>3, <1>4, HelloRead

LEMMA StageRequestRead ==
    ASSUME Wire, Stage, ReceiverRecv
    PROVE  Stage'
  <1>1. /\ receiver = "run"
        /\ UNCHANGED <<sender, files, active, controller, current, inbox, results, receiver,
                       wanted, partial, contents, rts>>
    BY DEF ReceiverRecv, controlVars
  <1>2. "sender" \in Ends /\ "receiver" \in Ends
    BY DEF Ends
  <1>3. ASSUME NEW f \in Files, OnWire("receiver", Start(f)), Hushed,
               UNCHANGED <<start_index, writer, rresults>>
        PROVE  Stage'
    <2>1. StageTypes' /\ Handshake' /\ Turn'
      BY <1>1, <1>3 DEF Stage, StageTypes, Handshake, Turn, Hushed
    <2>2. OnTheWay'
      BY <1>2, <1>3 DEF OnTheWay, Hushed
    <2> QED BY <2>1, <2>2 DEF Stage
  <1>4. ASSUME NEW f \in wanted, NEW i \in Nat, NEW n \in 1..MaxAttempts,
               OnWire("receiver", Start(f)), Left("sender", StartIndex(i)),
               writer' = [writer EXCEPT ![<<f, n>>] = "open"],
               start_index' = [start_index EXCEPT ![f] = IF partial[f] = NoInode THEN 0 ELSE @],
               UNCHANGED rresults
        PROVE  Stage'
    <2>0. /\ writer \in [Writers -> Idle \cup Phases] /\ start_index \in [Files -> Nat]
          /\ f \in Files /\ 0 \in Nat
      BY SessionAssumption DEF Stage, StageTypes
    <2>1. start_index' \in [Files -> Nat] /\ writer' \in [Writers -> Idle \cup Phases]
      BY <1>4, <2>0 DEF Phases
    <2>2. /\ current = f /\ controller \in {"index", "exited"} /\ sender \notin {"hello", "reply"}
      BY <1>4, <2>0 DEF Stage, OnTheWay
    <2>3. str # [e \in Ends |-> <<>>] /\ ~Quiet
      BY <1>2, <1>4 DEF OnWire, Quiet
    <2>4. StageTypes' /\ Handshake'
      BY <1>1, <1>4, <2>1, <2>2 DEF Stage, StageTypes, Handshake
    <2>5. Turn'
      BY <1>1, <2>2, <2>3 DEF Stage, Turn
    <2>6. OnTheWay'
      BY <1>1, <1>2, <1>4, <2>0, <2>2, MessageFacts DEF OnTheWay, Left
    <2> QED BY <2>4, <2>5, <2>6 DEF Stage
  <1>5. ASSUME NEW r \in 0..2, OnWire("receiver", Done(r)), Hushed, RTaskEnds("controller", "ok"),
               UNCHANGED <<start_index, writer>>
        PROVE  Stage'
    <2>1. StageTypes' /\ Handshake' /\ Turn'
      BY <1>1, <1>5 DEF Stage, StageTypes, Handshake, Turn, Hushed, RTaskEnds
    <2>2. OnTheWay'
      BY <1>2, <1>5 DEF OnTheWay, Hushed
    <2> QED BY <2>1, <2>2 DEF Stage
  <1> QED BY <1>3, <1>4, <1>5, RequestRead

-----------------------------------------------------------------------------
(* Together. *)

LEMMA StageInit == Init => Wire /\ Stage
  <1> SUFFICES ASSUME Init PROVE Wire /\ Stage
    OBVIOUS
  <1>1. Wire
    BY DEF Init, Wire, Quiet, Ends
  <1>2. \A e \in Ends : \A m : ~OnWire(e, m)
    BY DEF Init, OnWire, Ends
  <1>3. StageTypes
    BY SessionAssumption DEF Init, StageTypes, Idle
  <1>4. \A f \in Files : partial[f] = NoInode \/ contents[f][partial[f]].len \in Nat
    BY SessionAssumption DEF Init, NoInode, Inodes, Lengths
  <1>5. Handshake /\ Turn
    BY <1>4 DEF Init, Handshake, Turn, Quiet
  <1>6. OnTheWay
    BY <1>2 DEF OnTheWay, Ends
  <1> QED BY <1>1, <1>3, <1>5, <1>6 DEF Stage

(* Every step is one of those above. *)
LEMMA Steps ==
    ASSUME [Next]_vars
    PROVE  \/ \E ids \in SUBSET Files, dirs \in BOOLEAN : SendManifest(ids, dirs)
           \/ ReadReply \/ ReadStartIndex \/ SendDone \/ ReadHello \/ ReceiverRecv
           \/ \E f \in Files : StartFile(f)
           \/ ControllerRecv /\ Retry(Head(inbox))
           \/ ControllerRecv /\ Settle(Head(inbox))
           \/ CrawlFails \/ ControllerFails \/ SplitRecv \/ SplitFails \/ ConfirmationsEnd
           \/ SendersFail \/ SenderExit \/ CancelSender
           \/ ListenFails \/ MessagesEnd \/ ConfirmationsSent \/ ReceiversFail \/ ReceiversStarve \/ HeldUp
           \/ ReceiverExit \/ CancelReceiver
           \/ \E f \in Files, n \in 1..MaxAttempts : WriterStep(f, n) \/ DiskFails(f, n)
           \/ \E stream \in {"rts", "str"} : Cut(stream)
           \/ UNCHANGED vars
  BY DEF Next, SenderStep, ReceiverStep, Fault, BuildManifest, ControllerRecv, HeldUp

LEMMA StageStep ==
    ASSUME Wire, Stage, [Next]_vars
    PROVE  Wire' /\ Stage'
  <1>1. CASE \E ids \in SUBSET Files, dirs \in BOOLEAN : SendManifest(ids, dirs)
    BY <1>1, ManifestSent, StageManifestSent DEF Left
  <1>2. CASE ReadReply
    BY <1>2, ReplyRead, StageReplyRead DEF Left, Hushed
  <1>3. CASE ReadStartIndex
    BY <1>3, IndexRead, StageIndexRead DEF Hushed
  <1>4. CASE SendDone
    BY <1>4, DoneSent, StageDoneSent DEF Left
  <1>5. CASE ReadHello
    BY <1>5, HelloRead, StageHelloRead DEF Left, Hushed
  <1>6. CASE ReceiverRecv
    BY <1>6, RequestRead, StageRequestRead DEF Left, Hushed
  <1>7. CASE \E f \in Files : StartFile(f)
    BY <1>7, FileStarted, StageFileStarted DEF Left
  <1>8. CASE ControllerRecv /\ Retry(Head(inbox))
    BY <1>8, FileRetried, StageFileRetried DEF Left
  <1>9. CASE \/ ControllerRecv /\ Settle(Head(inbox))
             \/ CrawlFails \/ ControllerFails \/ SplitRecv \/ SplitFails \/ ConfirmationsEnd
             \/ SendersFail \/ SenderExit \/ CancelSender
    BY <1>9, StageSender, WireFrame DEF WireKept
  <1>10. CASE \/ ListenFails \/ MessagesEnd \/ ConfirmationsSent \/ ReceiversFail \/ ReceiversStarve \/ HeldUp
              \/ ReceiverExit \/ CancelReceiver
              \/ \E f \in Files, n \in 1..MaxAttempts : WriterStep(f, n) \/ DiskFails(f, n)
              \/ \E stream \in {"rts", "str"} : Cut(stream)
    BY <1>10, WriterStepMoves, StageReceiver, WireFrame DEF WireKept
  <1>11. CASE UNCHANGED vars
    <2>1. UNCHANGED <<sender, receiver, files, active, wanted, controller, current, inbox, rts,
                      start_index, writer, results, rresults, listening, closed, str, position,
                      partial, contents>>
      BY <1>11 DEF vars, hostVars, controlVars, receiverVars, diskVars
    <2>2. /\ Wire'
          /\ Quiet' <=> Quiet
          /\ \A e \in Ends : \A m : OnWire(e, m)' <=> OnWire(e, m)
      BY <2>1, WireFrame
    <2>3. StageTypes' /\ Handshake'
      BY <2>1 DEF Stage, StageTypes, Handshake
    <2>4. OnTheWay' /\ Turn'
      BY <2>1, <2>2 DEF Stage, OnTheWay, Turn, Ends
    <2> QED BY <2>2, <2>3, <2>4 DEF Stage
  <1> QED BY <1>1, <1>2, <1>3, <1>4, <1>5, <1>6, <1>7, <1>8, <1>9, <1>10, <1>11, Steps

(* The two ends of the stream of requests and replies are never out of     *)
(* step: what an end reads was encrypted at the position its own cipher    *)
(* has reached.                                                            *)
THEOREM CiphersInStep == Spec => []CipherLockstep
  <1>1. Wire => CipherLockstep
    <2> SUFFICES ASSUME Wire, NEW end \in Ends, str[end] # <<>>
                 PROVE  Len(str[end]) = 1 /\ Head(str[end]).at = position[end]
      BY DEF CipherLockstep, Ends
    <2>1. PICK msg \in Said(end) : str[end] = <<[msg |-> msg, at |-> position[end]]>>
      BY DEF Wire
    <2> QED BY <2>1
  <1> QED BY <1>1, StageInit, StageStep, PTL DEF Spec
=============================================================================
