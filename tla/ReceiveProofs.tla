---------------------------- MODULE ReceiveProofs ----------------------------
(***************************************************************************)
(* The two maps of SplitQueue and the writers they belong to, for every    *)
(* set of files, any number of receiver tasks and attempts, and queues of  *)
(* any capacity.                                                           *)
(***************************************************************************)
EXTENDS Receive, TLAPS

LEMMA ChannelFacts ==
    /\ None \notin Channels
    /\ \A c \in Channels : /\ c = <<c[1], c[2]>>
                           /\ c[1] \in Files
                           /\ c[2] \in 1..MaxAttempts /\ c[2] # 0
  BY ReceiveAssumption DEF Channels, None

-----------------------------------------------------------------------------
(* Types.  That retries stay within MaxRetries needs more than the types:  *)
(* a task that receives has retries left.                                  *)

RetriesLeft ==
    \A r \in Receivers : /\ task[r] = "recv" => retries[r] < MaxRetries
                         /\ task[r] = "send" => retries[r] = 0

TypeInv == TypeOK /\ RetriesLeft

LEMMA TaskTypes ==
    ASSUME TypeInv, NEW r \in Receivers, TaskStep(r)
    PROVE  TypeInv'
  <1> USE ReceiveAssumption DEF LoopHead
  <1>0. /\ task \in [Receivers -> {"recv", "send", "exited"}]
        /\ target \in [Receivers -> Channels \cup {None}]
        /\ retries \in [Receivers -> 0..MaxRetries]
        /\ jobs \in [Channels -> 0..Capacity]
        /\ senders \in [Files -> 0..MaxAttempts]
    BY DEF TypeInv, TypeOK
  <1>1. UNCHANGED <<senders, receivers, writer, controller, made, again>>
    BY DEF TaskStep, SendJob, RecvError, Recv, taskFrame
  <1>2. SUFFICES /\ task' \in [Receivers -> {"recv", "send", "exited"}]
                 /\ target' \in [Receivers -> Channels \cup {None}]
                 /\ retries' \in [Receivers -> 0..MaxRetries]
                 /\ jobs' \in [Channels -> 0..Capacity]
                 /\ RetriesLeft'
    BY <1>1 DEF TypeInv, TypeOK
  <1>3. CASE RecvError(r)
    <2>1. retries[r] \in 0..MaxRetries /\ retries[r] < MaxRetries
      BY <1>0, <1>3 DEF RecvError, TypeInv, RetriesLeft
    <2> QED BY <1>0, <1>3, <2>1 DEF RecvError, TypeInv, RetriesLeft
  <1>4. CASE SendJob(r)
    <2>1. jobs' \in [Channels -> 0..Capacity]
      <3>1. CASE jobs' = jobs
        BY <1>0, <3>1
      <3>2. CASE /\ jobs[target[r]] < Capacity
                 /\ jobs' = [jobs EXCEPT ![target[r]] = @ + 1]
        <4>1. CASE target[r] \in Channels
          BY <1>0, <3>2, <4>1
        <4>2. CASE target[r] \notin Channels
          <5>1. jobs' = jobs
            BY <1>0, <3>2, <4>2
          <5> QED BY <1>0, <5>1
        <4> QED BY <4>1, <4>2
      <3> QED BY <1>4, <3>1, <3>2 DEF SendJob
    <2> QED BY <1>0, <1>4, <2>1 DEF SendJob, TypeInv, RetriesLeft
  <1>5. ASSUME NEW f \in Files, Recv(r, f)
        PROVE  /\ task' \in [Receivers -> {"recv", "send", "exited"}]
               /\ target' \in [Receivers -> Channels \cup {None}]
               /\ retries' \in [Receivers -> 0..MaxRetries]
               /\ jobs' \in [Channels -> 0..Capacity]
               /\ RetriesLeft'
    <2>1. senders[f] # 0 => <<f, senders[f]>> \in Channels
      BY <1>0 DEF Channels
    <2> QED BY <1>0, <1>5, <2>1 DEF Recv, TypeInv, RetriesLeft
  <1> QED BY <1>3, <1>4, <1>5 DEF TaskStep

LEMMA MapTypes ==
    ASSUME TypeInv,
           \/ \E f \in Files : PushReceiver(f)
           \/ PushSender
           \/ \E c \in Channels : WriterStep(c) \/ WriterFail(c)
    PROVE  TypeInv'
  <1> USE ReceiveAssumption, ChannelFacts
  <1>0. /\ senders \in [Files -> 0..MaxAttempts]
        /\ receivers \in [Files -> 0..MaxAttempts]
        /\ jobs \in [Channels -> 0..Capacity]
        /\ writer \in [Channels -> {"none", "open", "loop", "pop", "popped", "over", "failed"}]
        /\ controller \in Channels \cup {None}
        /\ made \in [Files -> 0..MaxAttempts]
        /\ again \subseteq Files
    BY DEF TypeInv, TypeOK
  <1>1. UNCHANGED <<task, target, retries>>
    BY DEF PushReceiver, PushSender, WriterStep, WriterFail, GetReceiver, Take,
           PopReceiver, PopSender, WriterReturn, writerFrame
  <1>2. SUFFICES
          /\ senders' \in [Files -> 0..MaxAttempts]
          /\ receivers' \in [Files -> 0..MaxAttempts]
          /\ jobs' \in [Channels -> 0..Capacity]
          /\ writer' \in [Channels -> {"none", "open", "loop", "pop", "popped", "over", "failed"}]
          /\ controller' \in Channels \cup {None}
          /\ made' \in [Files -> 0..MaxAttempts]
          /\ again' \subseteq Files
    BY <1>1 DEF TypeInv, TypeOK, RetriesLeft
  <1>3. ASSUME NEW f \in Files, PushReceiver(f)
        PROVE  /\ receivers' \in [Files -> 0..MaxAttempts]
               /\ controller' \in Channels
               /\ made' \in [Files -> 0..MaxAttempts]
               /\ again' \subseteq Files
               /\ UNCHANGED <<senders, jobs, writer>>
    <2>1. /\ made[f] \in 0..MaxAttempts /\ made[f] < MaxAttempts
          /\ made' = [made EXCEPT ![f] = @ + 1] /\ made'[f] = made[f] + 1
          /\ made'[f] \in 1..MaxAttempts
      BY <1>0, <1>3 DEF PushReceiver
    <2> QED BY <1>0, <1>3, <2>1 DEF PushReceiver, Channels
  <1>4. CASE PushSender
    <2>1. controller \in Channels
      BY <1>0, <1>4 DEF PushSender
    <2> QED BY <1>0, <1>4, <2>1 DEF PushSender
  <1>5. ASSUME NEW c \in Channels, GetReceiver(c) \/ WriterFail(c) \/ PopReceiver(c)
        PROVE  /\ receivers' \in [Files -> 0..MaxAttempts]
               /\ writer' \in [Channels -> {"none", "open", "loop", "pop", "popped", "over", "failed"}]
               /\ UNCHANGED <<senders, jobs, controller, made, again>>
    BY <1>0, <1>5 DEF GetReceiver, WriterFail, PopReceiver, Goto, writerFrame
  <1>6. ASSUME NEW c \in Channels, PopSender(c)
        PROVE  /\ senders' \in [Files -> 0..MaxAttempts]
               /\ writer' \in [Channels -> {"none", "open", "loop", "pop", "popped", "over", "failed"}]
               /\ again' \subseteq Files
               /\ UNCHANGED <<receivers, jobs, controller, made>>
    BY <1>0, <1>6 DEF PopSender, Goto, writerFrame
  <1>7. ASSUME NEW c \in Channels, Take(c) \/ WriterReturn(c)
        PROVE  /\ jobs' \in [Channels -> 0..Capacity]
               /\ writer' \in [Channels -> {"none", "open", "loop", "pop", "popped", "over", "failed"}]
               /\ UNCHANGED <<senders, receivers, controller, made, again>>
    <2>1. CASE Take(c)
      <3>1. jobs[c] \in 0..Capacity /\ jobs[c] > 0 /\ jobs' = [jobs EXCEPT ![c] = @ - 1]
        BY <1>0, <2>1 DEF Take
      <3>2. jobs' \in [Channels -> 0..Capacity]
        BY <1>0, <3>1
      <3> QED BY <1>0, <2>1, <3>2 DEF Take, writerFrame
    <2>2. CASE WriterReturn(c)
      BY <1>0, <2>2 DEF WriterReturn, Goto, writerFrame
    <2> QED BY <1>7, <2>1, <2>2
  <1> QED BY <1>0, <1>3, <1>4, <1>5, <1>6, <1>7 DEF WriterStep

LEMMA TypeInit == Init => TypeInv
  BY ReceiveAssumption, ChannelFacts DEF Init, TypeInv, TypeOK, RetriesLeft, LoopHead

LEMMA TypeStep == TypeInv /\ [Next]_vars => TypeInv'
  <1> SUFFICES ASSUME TypeInv, [Next]_vars PROVE TypeInv'
    OBVIOUS
  <1>1. CASE UNCHANGED vars
    BY <1>1 DEF vars, TypeInv, TypeOK, RetriesLeft
  <1>2. CASE Next
    BY <1>2, TaskTypes, MapTypes DEF Next
  <1> QED BY <1>1, <1>2

(* Every variable keeps its type; queues stay within their capacity and    *)
(* retries within max_retries.                                             *)
THEOREM TypeCorrect == Spec => []TypeOK
  <1>1. TypeInv => TypeOK
    BY DEF TypeInv
  <1> QED BY <1>1, TypeInit, TypeStep, PTL DEF Spec

-----------------------------------------------------------------------------
(* The maps.  What a map holds of a file, its writer and the controller    *)
(* say of one another; two writers of a file that are not done with their  *)
(* queue would need two entries in one map.                                *)

QueueInv ==
    /\ \A c \in Channels :
          /\ writer[c] \in {"open", "loop", "failed"} =>
                receivers[c[1]] = c[2] /\ senders[c[1]] = c[2]
          /\ writer[c] = "pop" => receivers[c[1]] = 0 /\ senders[c[1]] = c[2]
          /\ controller = c => receivers[c[1]] = c[2] /\ senders[c[1]] = 0
    /\ \A f \in Files :
          /\ senders[f] # 0 =>
                writer[<<f, senders[f]>>] \in {"open", "loop", "failed", "pop"}
          /\ f \in again => receivers[f] = 0 /\ senders[f] = 0

LEMMA QueueInit == Init => QueueInv
  BY ChannelFacts DEF Init, QueueInv

LEMMA QueueStep == TypeInv /\ QueueInv /\ [Next]_vars => QueueInv'
  <1> SUFFICES ASSUME TypeInv, QueueInv, [Next]_vars PROVE QueueInv'
    OBVIOUS
  <1> USE ChannelFacts
  <1>0. /\ senders \in [Files -> 0..MaxAttempts]
        /\ receivers \in [Files -> 0..MaxAttempts]
        /\ writer \in [Channels -> {"none", "open", "loop", "pop", "popped", "over", "failed"}]
        /\ controller \in Channels \cup {None}
        /\ made \in [Files -> 0..MaxAttempts]
        /\ again \subseteq Files
        /\ \A f \in Files : senders[f] # 0 => <<f, senders[f]>> \in Channels
    BY DEF TypeInv, TypeOK, Channels
  <1>1. CASE UNCHANGED <<senders, receivers, writer, controller, made, again>>
    BY <1>1 DEF QueueInv
  <1>2. ASSUME NEW f \in Files, PushReceiver(f) PROVE QueueInv'
    <2>1. made'[f] \in 1..MaxAttempts
      BY <1>0, <1>2, ReceiveAssumption DEF PushReceiver
    <2>2. /\ controller' = <<f, made'[f]>>
          /\ receivers' = [receivers EXCEPT ![f] = made'[f]]
          /\ again' = again \ {f}
          /\ UNCHANGED <<senders, writer>>
          /\ receivers[f] = 0 /\ senders[f] = 0
      BY <1>2 DEF PushReceiver, QueueInv
    <2>3. \A c \in Channels : c[1] = f => writer[c] \notin {"open", "loop", "failed", "pop"}
      BY <2>2 DEF QueueInv
    <2> QED BY <1>0, <2>1, <2>2, <2>3 DEF QueueInv
  <1>3. CASE PushSender
    <2>1. /\ controller \in Channels /\ controller' = None
          /\ senders' = [senders EXCEPT ![controller[1]] = controller[2]]
          /\ writer' = [writer EXCEPT ![controller] = "open"]
          /\ UNCHANGED <<receivers, again>>
          /\ receivers[controller[1]] = controller[2] /\ senders[controller[1]] = 0
      BY <1>0, <1>3 DEF PushSender, QueueInv
    <2>2. \A c \in Channels :
             c[1] = controller[1] => writer[c] \notin {"open", "loop", "failed", "pop"}
      BY <2>1 DEF QueueInv
    <2>3. PICK c \in Channels : c = controller
      BY <2>1
    <2>4. ASSUME NEW d \in Channels
          PROVE  /\ writer'[d] \in {"open", "loop", "failed"} =>
                       receivers'[d[1]] = d[2] /\ senders'[d[1]] = d[2]
                 /\ writer'[d] = "pop" => receivers'[d[1]] = 0 /\ senders'[d[1]] = d[2]
                 /\ controller' = d => receivers'[d[1]] = d[2] /\ senders'[d[1]] = 0
      <3>1. controller' # d
        BY <2>1
      <3>2. CASE d = c
        BY <1>0, <2>1, <2>3, <3>1, <3>2
      <3>3. CASE d # c /\ d[1] = c[1]
        <4>1. writer'[d] \notin {"open", "loop", "failed", "pop"}
          BY <1>0, <2>1, <2>2, <2>3, <3>3
        <4> QED BY <3>1, <4>1
      <3>4. CASE d[1] # c[1]
        <4>1. writer'[d] = writer[d] /\ senders'[d[1]] = senders[d[1]]
          BY <1>0, <2>1, <2>3, <3>4
        <4> QED BY <2>1, <3>1, <4>1 DEF QueueInv
      <3> QED BY <3>2, <3>3, <3>4
    <2>5. ASSUME NEW f \in Files
          PROVE  /\ senders'[f] # 0 =>
                       writer'[<<f, senders'[f]>>] \in {"open", "loop", "failed", "pop"}
                 /\ f \in again' => receivers'[f] = 0 /\ senders'[f] = 0
      <3>1. CASE f = c[1]
        <4>1. senders'[f] = c[2] /\ <<f, c[2]>> = c /\ writer'[c] = "open"
          BY <1>0, <2>1, <2>3, <3>1
        <4>2. f \notin again'
          BY <2>1, <2>3, <3>1 DEF QueueInv
        <4> QED BY <4>1, <4>2
      <3>2. CASE f # c[1]
        <4>1. senders'[f] = senders[f] /\ <<f, senders[f]>> # c
          BY <1>0, <2>1, <2>3, <3>2
        <4>2. senders[f] # 0 => writer'[<<f, senders[f]>>] = writer[<<f, senders[f]>>]
          BY <1>0, <2>1, <2>3, <4>1
        <4> QED BY <2>1, <4>1, <4>2 DEF QueueInv
      <3> QED BY <3>1, <3>2
    <2> QED BY <2>4, <2>5 DEF QueueInv
  <1>4. ASSUME NEW c \in Channels, GetReceiver(c) \/ WriterFail(c) PROVE QueueInv'
    <2>1. /\ writer[c] \in {"open", "loop"}
          /\ \E phase \in {"loop", "failed"} : writer' = [writer EXCEPT ![c] = phase]
          /\ UNCHANGED <<senders, receivers, again, controller>>
      BY <1>4 DEF GetReceiver, WriterFail, At, Goto, writerFrame
    <2> QED BY <1>0, <2>1 DEF QueueInv
  <1>5. ASSUME NEW c \in Channels, PopReceiver(c) PROVE QueueInv'
    <2>1. /\ writer[c] = "loop" /\ writer' = [writer EXCEPT ![c] = "pop"]
          /\ receivers' = [receivers EXCEPT ![c[1]] = 0]
          /\ UNCHANGED <<senders, again, controller>>
          /\ senders[c[1]] = c[2]
      BY <1>5 DEF PopReceiver, At, Goto, writerFrame, QueueInv
    <2>2. \A d \in Channels : d[1] = c[1] /\ d # c =>
             writer[d] \notin {"open", "loop", "failed", "pop"} /\ controller # d
      BY <2>1 DEF QueueInv
    <2>3. controller # c
      BY <2>1 DEF QueueInv
    <2> QED BY <1>0, <2>1, <2>2, <2>3 DEF QueueInv
  <1>6. ASSUME NEW c \in Channels, PopSender(c) PROVE QueueInv'
    <2>1. /\ writer[c] = "pop" /\ writer' = [writer EXCEPT ![c] = "popped"]
          /\ senders' = [senders EXCEPT ![c[1]] = 0]
          /\ again' \in {again, again \cup {c[1]}}
          /\ UNCHANGED <<receivers, controller>>
          /\ senders[c[1]] = c[2] /\ receivers[c[1]] = 0
      BY <1>6 DEF PopSender, At, Goto, writerFrame, QueueInv
    <2>2. \A d \in Channels : d[1] = c[1] /\ d # c =>
             writer[d] \notin {"open", "loop", "failed", "pop"}
      BY <2>1 DEF QueueInv
    <2>3. ASSUME NEW d \in Channels
          PROVE  /\ writer'[d] \in {"open", "loop", "failed"} =>
                       receivers'[d[1]] = d[2] /\ senders'[d[1]] = d[2]
                 /\ writer'[d] = "pop" => receivers'[d[1]] = 0 /\ senders'[d[1]] = d[2]
                 /\ controller' = d => receivers'[d[1]] = d[2] /\ senders'[d[1]] = 0
      <3>1. CASE d[1] = c[1]
        BY <1>0, <2>1, <2>2, <3>1 DEF QueueInv
      <3>2. CASE d[1] # c[1]
        BY <1>0, <2>1, <3>2 DEF QueueInv
      <3> QED BY <3>1, <3>2
    <2>4. ASSUME NEW f \in Files
          PROVE  /\ senders'[f] # 0 =>
                       writer'[<<f, senders'[f]>>] \in {"open", "loop", "failed", "pop"}
                 /\ f \in again' => receivers'[f] = 0 /\ senders'[f] = 0
      <3>1. CASE f = c[1]
        BY <1>0, <2>1, <3>1 DEF QueueInv
      <3>2. CASE f # c[1]
        <4>1. senders'[f] = senders[f] /\ (f \in again' => f \in again)
          BY <1>0, <2>1, <3>2
        <4>2. <<f, senders[f]>> # c
          BY <3>2
        <4>3. senders[f] # 0 => writer'[<<f, senders[f]>>] = writer[<<f, senders[f]>>]
          BY <1>0, <2>1, <4>2
        <4> QED BY <2>1, <4>1, <4>3 DEF QueueInv
      <3> QED BY <3>1, <3>2
    <2> QED BY <2>3, <2>4 DEF QueueInv
  <1>7. ASSUME NEW c \in Channels, WriterReturn(c) PROVE QueueInv'
    <2>1. /\ writer[c] = "popped" /\ writer' = [writer EXCEPT ![c] = "over"]
          /\ UNCHANGED <<senders, receivers, again, controller>>
      BY <1>7 DEF WriterReturn, At, Goto, writerFrame
    <2> QED BY <1>0, <2>1 DEF QueueInv
  <1>8. CASE \/ \E r \in Receivers : TaskStep(r)
             \/ \E c \in Channels : Take(c)
             \/ UNCHANGED vars
    <2>1. UNCHANGED <<senders, receivers, writer, controller, made, again>>
      BY <1>8 DEF TaskStep, SendJob, RecvError, Recv, taskFrame, Take, writerFrame, vars
    <2> QED BY <1>1, <2>1
  <1> QED BY <1>2, <1>3, <1>4, <1>5, <1>6, <1>7, <1>8 DEF Next, WriterStep

(* Channels are numbered as they are made, so that the number of one whose *)
(* writer is done never comes back into the map of receiving ends; and     *)
(* only the end of a channel that has a writer was ever cloned.            *)
DoneInv ==
    \A c \in Channels :
        /\ made[c[1]] < c[2] => writer[c] = "none" /\ controller # c
        /\ writer[c] \in {"popped", "over"} => receivers[c[1]] # c[2]
        /\ \A r \in Receivers : target[r] = c => writer[c] # "none"

LEMMA DoneInit == Init => DoneInv
  BY ChannelFacts DEF Init, DoneInv

LEMMA DoneStep == TypeInv /\ QueueInv /\ DoneInv /\ [Next]_vars => DoneInv'
  <1> SUFFICES ASSUME TypeInv, QueueInv, DoneInv, [Next]_vars PROVE DoneInv'
    OBVIOUS
  <1> USE ChannelFacts
  <1>0. /\ senders \in [Files -> 0..MaxAttempts]
        /\ receivers \in [Files -> 0..MaxAttempts]
        /\ made \in [Files -> 0..MaxAttempts]
        /\ target \in [Receivers -> Channels \cup {None}]
        /\ writer \in [Channels -> {"none", "open", "loop", "pop", "popped", "over", "failed"}]
        /\ controller \in Channels \cup {None}
    BY DEF TypeInv, TypeOK
  <1>1. ASSUME NEW r \in Receivers, TaskStep(r) PROVE DoneInv'
    <2>1. UNCHANGED <<writer, controller, made, receivers>>
      BY <1>1 DEF TaskStep, SendJob, RecvError, Recv, taskFrame
    <2>2. \A q \in Receivers : \/ target'[q] \in {target[q], None}
                              \/ \E f \in Files : /\ senders[f] # 0
                                                 /\ target'[q] = <<f, senders[f]>>
      BY <1>0, <1>1 DEF TaskStep, SendJob, RecvError, Recv
    <2>3. \A f \in Files : senders[f] # 0 => writer[<<f, senders[f]>>] # "none"
      BY DEF QueueInv
    <2> QED BY <2>1, <2>2, <2>3 DEF DoneInv
  <1>2. ASSUME NEW f \in Files, PushReceiver(f) PROVE DoneInv'
    <2>1. /\ controller' = <<f, made[f] + 1>>
          /\ made' = [made EXCEPT ![f] = @ + 1]
          /\ receivers' = [receivers EXCEPT ![f] = made[f] + 1]
          /\ UNCHANGED <<writer, target>>
      BY <1>0, <1>2 DEF PushReceiver
    <2>2. made[f] \in Nat /\ \A c \in Channels : c[2] \in Nat /\ made[c[1]] \in Nat
      BY <1>0, ReceiveAssumption
    <2> QED BY <1>0, <2>1, <2>2 DEF DoneInv
  <1>3. CASE PushSender
    <2>1. /\ controller \in Channels /\ controller' = None
          /\ writer' = [writer EXCEPT ![controller] = "open"]
          /\ UNCHANGED <<receivers, made, target>>
      BY <1>0, <1>3 DEF PushSender
    <2> QED BY <1>0, <2>1 DEF DoneInv
  <1>4. ASSUME NEW c \in Channels, WriterStep(c) \/ WriterFail(c) PROVE DoneInv'
    <2>1. UNCHANGED <<target, controller, made>>
      BY <1>4 DEF WriterStep, WriterFail, GetReceiver, Take, PopReceiver, PopSender,
                  WriterReturn, writerFrame
    <2>2. writer[c] # "none"
      BY <1>4 DEF WriterStep, WriterFail, GetReceiver, Take, PopReceiver, PopSender,
                  WriterReturn, At
    <2>3. \/ \E phase \in {"loop", "failed"} :
                writer' = [writer EXCEPT ![c] = phase] /\ receivers' = receivers
          \/ writer' = writer /\ receivers' = receivers
          \/ /\ writer' = [writer EXCEPT ![c] = "pop"]
             /\ receivers' = [receivers EXCEPT ![c[1]] = 0]
          \/ /\ writer[c] = "pop"
             /\ writer' = [writer EXCEPT ![c] = "popped"] /\ receivers' = receivers
          \/ /\ writer[c] = "popped"
             /\ writer' = [writer EXCEPT ![c] = "over"] /\ receivers' = receivers
      BY <1>4 DEF WriterStep, WriterFail, GetReceiver, Take, PopReceiver, PopSender,
                  WriterReturn, At, Goto
    <2>4. writer[c] = "pop" => receivers[c[1]] = 0
      BY DEF QueueInv
    <2> QED BY <1>0, <2>1, <2>2, <2>3, <2>4 DEF DoneInv
  <1>5. CASE UNCHANGED vars
    BY <1>5 DEF vars, DoneInv
  <1> QED BY <1>1, <1>2, <1>3, <1>4, <1>5 DEF Next

THEOREM QueueInvariant == Spec => [](TypeInv /\ QueueInv /\ DoneInv)
  <1>1. Init => TypeInv /\ QueueInv /\ DoneInv
    BY TypeInit, QueueInit, DoneInit
  <1>2. TypeInv /\ QueueInv /\ DoneInv /\ [Next]_vars => (TypeInv /\ QueueInv /\ DoneInv)'
    BY TypeStep, QueueStep, DoneStep
  <1> QED BY <1>1, <1>2, PTL DEF Spec

(* A channel that a receiver task can still send to is closed, or has a    *)
(* writer that is yet to return, or one that failed, at every step of      *)
(* push_queue, get_receiver, send and pop_queue (receiver/writer.rs        *)
(* 25-50).                                                                 *)
THEOREM OpenChannelsHaveWriters == Spec => []OpenHasWriter
  <1>1. TypeInv /\ QueueInv /\ DoneInv => OpenHasWriter
    <2> SUFFICES ASSUME TypeInv, QueueInv, DoneInv, NEW c \in Channels,
                        Reachable(c), ~Closed(c)
                 PROVE  writer[c] \in {"open", "loop", "pop", "popped", "failed"}
      BY DEF OpenHasWriter
    <2>1. c = <<c[1], c[2]>> /\ c[1] \in Files /\ c[2] # 0
      BY ChannelFacts
    <2>2. writer[c] # "none"
      BY <2>1 DEF Reachable, QueueInv, DoneInv
    <2>3. writer[c] # "over"
      BY DEF Closed, Holds, DoneInv
    <2> QED BY <2>2, <2>3 DEF TypeInv, TypeOK
  <1> QED BY <1>1, QueueInvariant, PTL

(* A writer finds the queue made for it, whatever an earlier writer of the *)
(* same file still does (receiver/mod.rs 318-328).                         *)
THEOREM WritersOwnQueues == Spec => []OwnQueue
  <1>1. QueueInv => OwnQueue
    BY DEF QueueInv, OwnQueue
  <1> QED BY <1>1, QueueInvariant, PTL
=============================================================================
