--------------------------- MODULE JobFlowProofs ---------------------------
(***************************************************************************)
(* Proofs that the invariants of JobFlow hold for every set of files, any  *)
(* number of sender tasks and every value of the limits; and, for any      *)
(* number of attempts as well, that of JobFlowRetry, whose variables the   *)
(* first part never mentions.                                              *)
(***************************************************************************)
EXTENDS JobFlowRetry, FiniteSetTheorems, TLAPS

(* A key is a file and a chunk of it. *)
LEMMA KeyFacts ==
    ASSUME NEW k
    PROVE  k \in Key <=> /\ k = <<k[1], k[2]>>
                         /\ k[1] \in Files
                         /\ k[2] \in Nat
                         /\ First[k[1]] <= k[2]
                         /\ k[2] < Size[k[1]]
  BY FilesAssumption DEF Key

LEMMA KeyIntro ==
    ASSUME NEW f \in Files, NEW i \in Nat, First[f] <= i, i < Size[f]
    PROVE  <<f, i>> \in Key
  BY FilesAssumption DEF Key

-----------------------------------------------------------------------------
(* Type correctness: every step of every task keeps the types. *)
LEMMA TypeStep == TypeOK /\ [Next]_vars => TypeOK'
  <1> SUFFICES ASSUME TypeOK, [Next]_vars PROVE TypeOK'
    OBVIOUS
  <1> USE FilesAssumption, LimitsAssumption, NoJobAssumption
          DEF TypeOK, readVars, taskVars, requeueVars, writerVars
  <1>1. ASSUME NEW f \in Files, ReaderStep(f) \/ WriterDrain(f) PROVE TypeOK'
    <2>1. CASE ReaderAcquire(f)
      BY <2>1 DEF ReaderAcquire
    <2>2. CASE ReaderPush(f)
      BY <2>2, KeyIntro DEF ReaderPush
    <2>3. CASE ReaderEof(f)
      BY <2>3 DEF ReaderEof
    <2>4. CASE ReaderFail(f)
      BY <2>4 DEF ReaderFail
    <2>5. CASE WriterDrain(f)
      BY <2>5 DEF WriterDrain
    <2> QED BY <1>1, <2>1, <2>2, <2>3, <2>4, <2>5 DEF ReaderStep
  <1>2. CASE AddPermit
    BY <1>2 DEF AddPermit
  <1>3. ASSUME NEW s \in Senders, SenderStep(s) PROVE TypeOK'
    <2>1. CASE SenderAcquire(s)
      BY <2>1 DEF SenderAcquire
    <2>2. CASE SenderRecv(s)
      BY <2>2 DEF SenderRecv
    <2>3. CASE SendOk(s)
      BY <2>3 DEF SendOk
    <2>4. CASE CacheJob(s)
      BY <2>4 DEF CacheJob, LoopHead
    <2>5. CASE SendError(s)
      <3>1. hand[s] \in Key
        BY <2>5 DEF SendError
      <3>2. queue' \in Seq(Key)
        BY <2>5, <3>1 DEF SendError
      <3>3. /\ hand' \in [Senders -> Key \cup {NoJob}]
            /\ task' \in [Senders -> {"permit", "recv", "send", "cache", "exited"}]
            /\ \A t \in Senders : hand'[t] # NoJob <=> task'[t] \in {"send", "cache"}
        BY <2>5 DEF SendError, LoopHead
      <3> QED BY <2>5, <3>2, <3>3 DEF SendError
    <2> QED BY <1>3, <2>1, <2>2, <2>3, <2>4, <2>5 DEF SenderStep
  <1>4. ASSUME NEW K \in SUBSET cache, RequeueScan(K) PROVE TypeOK'
    BY <1>4 DEF RequeueScan
  <1>5. CASE RequeueLock
    BY <1>5 DEF RequeueLock
  <1>6. ASSUME NEW k \in Key, RequeueKey(k) PROVE TypeOK'
    <2>1. CASE RequeueGone(k)
      BY <1>6, <2>1 DEF RequeueKey, RequeueGone
    <2>2. CASE RequeueConfirmed(k)
      BY <1>6, <2>2 DEF RequeueKey, RequeueConfirmed
    <2>3. CASE RequeueJob(k)
      <3>1. queue' \in Seq(Key) /\ cache' \in SUBSET Key
        BY <2>3 DEF RequeueJob
      <3> QED BY <1>6, <2>3, <3>1 DEF RequeueKey, RequeueJob
    <2> QED BY <1>6, <2>1, <2>2, <2>3 DEF RequeueKey
  <1>7. ASSUME NEW k \in Key, Confirm(k) PROVE TypeOK'
    <2>1. read' \in Nat /\ cache' \in SUBSET Key
                        /\ lost_confirmations' \in SUBSET Key
      BY <1>7 DEF Confirm
    <2>2. confirmations' \in [Key -> Nat]
      BY <1>7 DEF Confirm
    <2> QED BY <1>7, <2>1, <2>2 DEF Confirm
  <1>8. ASSUME NEW k \in Key, Lose(k) PROVE TypeOK'
    BY <1>8 DEF Lose
  <1>9. ASSUME NEW k \in Key, WriterRecv(k) PROVE TypeOK'
    <2>1. k[1] \in Files /\ k[2] \in Nat
      BY KeyFacts
    <2>2. net' \in SUBSET Key
      BY <1>9 DEF WriterRecv
    <2>3. CASE WriterSkip(k)
      BY <1>9, <2>2, <2>3 DEF WriterRecv, WriterSkip
    <2>4. CASE WriterKeep(k)
      BY <1>9, <2>1, <2>2, <2>4 DEF WriterRecv, WriterKeep
    <2>5. CASE WriterWrite(k)
      BY <1>9, <2>1, <2>2, <2>5 DEF WriterRecv, WriterWrite
    <2> QED BY <1>9, <2>3, <2>4, <2>5 DEF WriterRecv
  <1>10. CASE UNCHANGED vars
    BY <1>10 DEF vars
  <1> QED
    BY <1>1, <1>2, <1>3, <1>4, <1>5, <1>6, <1>7, <1>8, <1>9, <1>10 DEF Next

LEMMA TypeInit == Init => TypeOK
  BY FilesAssumption, LimitsAssumption, NoJobAssumption
     DEF Init, InitAt, TypeOK, LoopHead

(* Every variable keeps its type (the type invariant of JobFlow). *)
THEOREM TypeCorrect == Spec => []TypeOK
  BY TypeInit, TypeStep, PTL DEF Spec

-----------------------------------------------------------------------------
(* How the operations on the queue and on the hands change what they hold. *)

LEMMA AppendHolds ==
    ASSUME NEW S, NEW q \in Seq(S), NEW x \in S,
           \A i, j \in DOMAIN q : q[i] = q[j] => i = j,
           x \notin {q[i] : i \in DOMAIN q}
    PROVE  LET r == Append(q, x)
           IN  /\ {r[i] : i \in DOMAIN r} = {q[i] : i \in DOMAIN q} \cup {x}
               /\ \A i, j \in DOMAIN r : r[i] = r[j] => i = j
  <1> DEFINE r == Append(q, x)
  <1>1. /\ Len(q) \in Nat
        /\ DOMAIN q = 1..Len(q)
        /\ DOMAIN r = 1..(Len(q) + 1)
        /\ r[Len(q) + 1] = x
        /\ \A i \in 1..Len(q) : r[i] = q[i]
    OBVIOUS
  <1> HIDE DEF r
  <1>2. \A i \in DOMAIN r : i \in DOMAIN q \/ i = Len(q) + 1
    BY <1>1
  <1>3. {r[i] : i \in DOMAIN r} = {q[i] : i \in DOMAIN q} \cup {x}
    BY <1>1, <1>2
  <1>4. \A i, j \in DOMAIN r : r[i] = r[j] => i = j
    BY <1>1, <1>2
  <1> QED BY <1>3, <1>4 DEF r

LEMMA TailHolds ==
    ASSUME NEW S, NEW q \in Seq(S), q # <<>>,
           \A i, j \in DOMAIN q : q[i] = q[j] => i = j
    PROVE  LET r == Tail(q)
           IN  /\ {r[i] : i \in DOMAIN r} = {q[i] : i \in DOMAIN q} \ {Head(q)}
               /\ \A i, j \in DOMAIN r : r[i] = r[j] => i = j
               /\ Head(q) \in {q[i] : i \in DOMAIN q}
  <1> DEFINE r == Tail(q)
  <1>1. /\ Len(q) \in Nat \ {0}
        /\ DOMAIN q = 1..Len(q)
        /\ DOMAIN r = 1..(Len(q) - 1)
        /\ Head(q) = q[1]
        /\ \A i \in 1..(Len(q) - 1) : r[i] = q[i + 1]
    OBVIOUS
  <1> HIDE DEF r
  <1>2. \A i, j \in DOMAIN r : r[i] = r[j] => i = j
    BY <1>1
  <1>3. ASSUME NEW i \in DOMAIN r PROVE r[i] \in {q[j] : j \in DOMAIN q} \ {q[1]}
    BY <1>1
  <1>4. ASSUME NEW j \in DOMAIN q, q[j] # q[1] PROVE q[j] \in {r[i] : i \in DOMAIN r}
    <2>1. j - 1 \in DOMAIN r /\ r[j - 1] = q[j]
      BY <1>1, <1>4
    <2> QED BY <2>1
  <1>5. {r[i] : i \in DOMAIN r} = {q[i] : i \in DOMAIN q} \ {Head(q)}
    BY <1>1, <1>3, <1>4
  <1>6. Head(q) \in {q[i] : i \in DOMAIN q}
    BY <1>1
  <1> QED BY <1>2, <1>5, <1>6 DEF r

LEMMA HandTakes ==
    ASSUME NEW h \in [Senders -> Key \cup {NoJob}], NEW s \in Senders, NEW k \in Key,
           h[s] = NoJob,
           k \notin {h[t] : t \in Senders},
           \A t, u \in Senders : h[t] = h[u] /\ h[t] # NoJob => t = u
    PROVE  LET g == [h EXCEPT ![s] = k]
           IN  /\ {g[t] : t \in Senders} \ {NoJob}
                    = ({h[t] : t \in Senders} \ {NoJob}) \cup {k}
               /\ \A t, u \in Senders : g[t] = g[u] /\ g[t] # NoJob => t = u
  BY NoJobAssumption

LEMMA HandGives ==
    ASSUME NEW h \in [Senders -> Key \cup {NoJob}], NEW s \in Senders,
           h[s] # NoJob,
           \A t, u \in Senders : h[t] = h[u] /\ h[t] # NoJob => t = u
    PROVE  LET g == [h EXCEPT ![s] = NoJob]
           IN  /\ {g[t] : t \in Senders} \ {NoJob}
                    = ({h[t] : t \in Senders} \ {NoJob}) \ {h[s]}
               /\ \A t, u \in Senders : g[t] = g[u] /\ g[t] # NoJob => t = u
  OBVIOUS
-----------------------------------------------------------------------------
(* How each action moves jobs: the jobs stay in one place each, and the    *)
(* set of outstanding jobs gains the job pushed, loses the job confirmed,  *)
(* or stays as it is.                                                      *)

LEMMA JobsUnchanged ==
    ASSUME OnePlace, UNCHANGED <<queue, hand, cache>>
    PROVE  OnePlace' /\ Outstanding' = Outstanding
  BY DEF OnePlace, Outstanding, InQueue, InHand

LEMMA JobPushed ==
    ASSUME TypeOK, Causality, OnePlace, NEW f \in Files, ReaderPush(f)
    PROVE  /\ <<f, index[f]>> \in Key \ Outstanding
           /\ Outstanding' = Outstanding \cup {<<f, index[f]>>}
           /\ OnePlace'
  <1> DEFINE k == <<f, index[f]>>
  <1>1. k \in Key
    BY KeyIntro DEF TypeOK, ReaderPush
  <1>2. k \notin Outstanding
    <2>1. ~WasRead(k)
      BY DEF WasRead, TypeOK
    <2> QED BY <2>1 DEF Causality
  <1>3. /\ InQueue' = InQueue \cup {k}
        /\ \A i, j \in DOMAIN queue' : queue'[i] = queue'[j] => i = j
    <2>1. k \notin InQueue
      BY <1>2 DEF Outstanding
    <2> HIDE DEF k
    <2>2. queue' = Append(queue, k) /\ queue \in Seq(Key)
      BY DEF ReaderPush, TypeOK, k
    <2> QED BY <1>1, <2>1, <2>2, AppendHolds DEF InQueue, OnePlace
  <1>4. InHand' = InHand /\ cache' = cache /\ hand' = hand
    BY DEF ReaderPush, InHand, taskVars
  <1> HIDE DEF k
  <1>5. OnePlace' /\ Outstanding' = Outstanding \cup {k}
    BY <1>2, <1>3, <1>4 DEF OnePlace, Outstanding
  <1> QED BY <1>1, <1>2, <1>5 DEF k

LEMMA JobTaken ==
    ASSUME TypeOK, OnePlace, NEW s \in Senders, SenderRecv(s)
    PROVE  OnePlace' /\ Outstanding' = Outstanding
  <1> DEFINE k == Head(queue)
  <1>1. /\ InQueue' = InQueue \ {k}
        /\ \A i, j \in DOMAIN queue' : queue'[i] = queue'[j] => i = j
        /\ k \in InQueue
    <2>1. queue' = Tail(queue) /\ queue \in Seq(Key) /\ queue # <<>>
      BY DEF SenderRecv, TypeOK
    <2> QED BY <2>1, TailHolds DEF InQueue, OnePlace
  <1>2. k \in Key
    BY <1>1 DEF TypeOK, InQueue
  <1>3. k \notin InHand /\ k \notin cache
    BY <1>1 DEF OnePlace
  <1>4. /\ InHand' = InHand \cup {k}
        /\ \A t, u \in Senders : hand'[t] = hand'[u] /\ hand'[t] # NoJob => t = u
    <2>1. hand \in [Senders -> Key \cup {NoJob}] /\ hand[s] = NoJob
      BY DEF SenderRecv, TypeOK
    <2>2. k \notin {hand[t] : t \in Senders}
      BY <1>2, <1>3, NoJobAssumption DEF InHand
    <2>3. hand' = [hand EXCEPT ![s] = k]
      BY DEF SenderRecv
    <2>4. \A t, u \in Senders : hand[t] = hand[u] /\ hand[t] # NoJob => t = u
      BY DEF OnePlace
    <2> HIDE DEF k
    <2> QED BY <1>2, <2>1, <2>2, <2>3, <2>4, HandTakes DEF InHand
  <1>5. cache' = cache
    BY DEF SenderRecv
  <1> HIDE DEF k
  <1> QED BY <1>1, <1>3, <1>4, <1>5 DEF OnePlace, Outstanding

LEMMA JobCached ==
    ASSUME TypeOK, OnePlace, NEW s \in Senders, CacheJob(s)
    PROVE  OnePlace' /\ Outstanding' = Outstanding
  <1>1. /\ hand \in [Senders -> Key \cup {NoJob}]
        /\ hand[s] # NoJob
        /\ hand' = [hand EXCEPT ![s] = NoJob]
        /\ cache' = cache \cup {hand[s]}
        /\ queue' = queue
    BY DEF CacheJob, TypeOK
  <1>2. /\ InHand' = InHand \ {hand[s]}
        /\ \A t, u \in Senders : hand'[t] = hand'[u] /\ hand'[t] # NoJob => t = u
    BY <1>1, HandGives DEF InHand, OnePlace
  <1>3. hand[s] \in InHand /\ InQueue' = InQueue
    BY <1>1 DEF InHand, InQueue
  <1> QED BY <1>1, <1>2, <1>3 DEF OnePlace, Outstanding

LEMMA JobReturned ==
    ASSUME TypeOK, OnePlace, NEW s \in Senders, SendError(s)
    PROVE  OnePlace' /\ Outstanding' = Outstanding
  <1>1. /\ hand \in [Senders -> Key \cup {NoJob}]
        /\ hand[s] # NoJob
        /\ hand' = [hand EXCEPT ![s] = NoJob]
        /\ queue' = Append(queue, hand[s])
        /\ queue \in Seq(Key)
        /\ cache' = cache
    BY DEF SendError, TypeOK
  <1>2. hand[s] \in InHand \cap Key
    BY <1>1 DEF InHand
  <1>3. /\ InHand' = InHand \ {hand[s]}
        /\ \A t, u \in Senders : hand'[t] = hand'[u] /\ hand'[t] # NoJob => t = u
    BY <1>1, HandGives DEF InHand, OnePlace
  <1>4. /\ InQueue' = InQueue \cup {hand[s]}
        /\ \A i, j \in DOMAIN queue' : queue'[i] = queue'[j] => i = j
    <2>1. hand[s] \notin InQueue
      BY <1>2 DEF OnePlace
    <2> QED BY <1>1, <1>2, <2>1, AppendHolds DEF InQueue, OnePlace
  <1> QED BY <1>1, <1>2, <1>3, <1>4 DEF OnePlace, Outstanding

LEMMA JobRequeued ==
    ASSUME TypeOK, OnePlace, NEW k \in Key, RequeueJob(k), hand' = hand
    PROVE  OnePlace' /\ Outstanding' = Outstanding
  <1>1. InHand' = InHand
    BY DEF InHand
  <1>2. k \in cache /\ k \notin InQueue
    BY DEF RequeueJob, OnePlace
  <1>3. /\ InQueue' = InQueue \cup {k}
        /\ \A i, j \in DOMAIN queue' : queue'[i] = queue'[j] => i = j
    <2>1. queue' = Append(queue, k) /\ queue \in Seq(Key)
      BY DEF RequeueJob, TypeOK
    <2> QED BY <1>2, <2>1, AppendHolds DEF InQueue, OnePlace
  <1> QED BY <1>1, <1>2, <1>3 DEF RequeueJob, OnePlace, Outstanding

LEMMA JobReleased ==
    ASSUME OnePlace, NEW k \in cache, cache' = cache \ {k}, UNCHANGED <<queue, hand>>
    PROVE  OnePlace' /\ Outstanding' = Outstanding \ {k} /\ k \in Outstanding
  BY DEF OnePlace, Outstanding, InQueue, InHand
-----------------------------------------------------------------------------
(* The inductive invariant: no chunk is lost and no confirmation is, since *)
(* a job is in one place and nothing is confirmed before it is accepted.   *)

Safe == Causality /\ NoChunkLost /\ ConfirmationKept

IInv == TypeOK /\ OnePlace /\ Safe

LEMMA InvInit == Init => IInv
  <1> SUFFICES ASSUME Init PROVE IInv
    OBVIOUS
  <1>1. InQueue = {} /\ InHand = {} /\ Outstanding = {}
    BY DEF Init, InitAt, InQueue, InHand, Outstanding
  <1>2. OnePlace
    BY <1>1 DEF Init, InitAt, OnePlace
  <1>3. Causality
    BY <1>1, FilesAssumption DEF Init, InitAt, Causality
  <1>4. NoChunkLost
    BY KeyFacts, FilesAssumption DEF Init, InitAt, NoChunkLost, WasRead
  <1>5. ConfirmationKept
    BY <1>1 DEF ConfirmationKept
  <1> QED BY TypeInit, <1>2, <1>3, <1>4, <1>5 DEF IInv, Safe

(* Steps that move no job in or out and teach no one anything. *)
LEMMA SafeFrame ==
    ASSUME Safe, Outstanding' = Outstanding, net' \subseteq net,
           UNCHANGED <<index, position, ahead, confirmations, lost_confirmations>>
    PROVE  Safe'
  <1>1. \A k : (WasRead(k)' <=> WasRead(k)) /\ (Accepted(k)' <=> Accepted(k))
    BY DEF WasRead, Accepted
  <1>2. Causality'
    BY <1>1 DEF Safe, Causality
  <1>3. NoChunkLost' /\ ConfirmationKept'
    BY <1>1 DEF Safe, NoChunkLost, ConfirmationKept
  <1> QED BY <1>2, <1>3 DEF Safe

LEMMA SafePush ==
    ASSUME TypeOK, OnePlace, Safe, NEW f \in Files, ReaderPush(f)
    PROVE  OnePlace' /\ Safe'
  <1> DEFINE new == <<f, index[f]>>
  <1>1. /\ new \in Key \ Outstanding
        /\ Outstanding' = Outstanding \cup {new}
        /\ OnePlace'
    BY JobPushed DEF Safe
  <1>2. /\ index[f] \in Nat /\ index[f] < Size[f] /\ Size[f] \in Nat
        /\ index' = [index EXCEPT ![f] = @ + 1]
        /\ UNCHANGED <<net, position, ahead, confirmations, lost_confirmations>>
    BY FilesAssumption DEF ReaderPush, TypeOK, writerVars
  <1>3. \A k : Accepted(k)' <=> Accepted(k)
    BY <1>2 DEF Accepted
  <1>4. \A k \in Key : WasRead(k)' <=> WasRead(k) \/ k = new
    BY <1>2, KeyFacts DEF WasRead, TypeOK
  <1>5. ~Accepted(new)
    BY <1>2 DEF Safe, Causality, Accepted, TypeOK
  <1>6. Outstanding \cup net \subseteq Key
    BY DEF TypeOK, Outstanding, InQueue, InHand
  <1>7. Causality'
    <2>1. ASSUME NEW g \in Files
          PROVE  /\ First[g] <= position'[g]
                 /\ position'[g] <= index'[g]
                 /\ index'[g] <= Size[g]
                 /\ \A i \in ahead'[g] : position'[g] <= i /\ i < index'[g]
      BY <1>2, FilesAssumption DEF Safe, Causality, TypeOK
    <2>2. \A k \in Outstanding' \cup net' : WasRead(k)'
      BY <1>1, <1>2, <1>4, <1>6 DEF Safe, Causality
    <2>3. \A k \in Key :
            confirmations'[k] > 0 \/ k \in lost_confirmations' => Accepted(k)'
      BY <1>2, <1>3 DEF Safe, Causality
    <2> QED BY <2>1, <2>2, <2>3 DEF Causality
  <1>8. NoChunkLost'
    BY <1>1, <1>3, <1>4 DEF Safe, NoChunkLost
  <1>9. ConfirmationKept'
    BY <1>1, <1>2, <1>3, <1>5 DEF Safe, ConfirmationKept
  <1> QED BY <1>1, <1>7, <1>8, <1>9 DEF Safe

LEMMA SafeSend ==
    ASSUME TypeOK, Safe, NEW s \in Senders, SendOk(s), Outstanding' = Outstanding
    PROVE  Safe'
  <1>1. /\ net' = net \cup {hand[s]}
        /\ UNCHANGED <<index, position, ahead, confirmations, lost_confirmations>>
    BY DEF SendOk, readVars, writerVars
  <1>2. hand[s] \in Outstanding
    BY DEF SendOk, TypeOK, Outstanding, InHand
  <1>3. \A k : (WasRead(k)' <=> WasRead(k)) /\ (Accepted(k)' <=> Accepted(k))
    BY <1>1 DEF WasRead, Accepted
  <1>4. Causality'
    BY <1>1, <1>2, <1>3 DEF Safe, Causality
  <1>5. NoChunkLost' /\ ConfirmationKept'
    BY <1>1, <1>3 DEF Safe, NoChunkLost, ConfirmationKept
  <1> QED BY <1>4, <1>5 DEF Safe

(* A job that is accepted may be released, and a lost confirmation used up *)
(* with it.                                                                *)
LEMMA SafeRelease ==
    ASSUME TypeOK, Safe, NEW k \in Key, Accepted(k),
           Outstanding' = Outstanding \ {k},
           UNCHANGED <<index, position, ahead, net>>,
           \A j \in Key : confirmations'[j] > 0 => confirmations[j] > 0,
           \A j \in Key \ {k} : confirmations'[j] = confirmations[j],
           lost_confirmations' \in {lost_confirmations, lost_confirmations \ {k}}
    PROVE  Safe'
  <1>1. \A j : (WasRead(j)' <=> WasRead(j)) /\ (Accepted(j)' <=> Accepted(j))
    BY DEF WasRead, Accepted
  <1>2. Causality'
    BY <1>1 DEF Safe, Causality
  <1>3. NoChunkLost'
    BY <1>1 DEF Safe, NoChunkLost
  <1>4. Outstanding \subseteq Key
    BY DEF TypeOK, Outstanding, InQueue, InHand
  <1>5. ConfirmationKept'
    BY <1>1, <1>4 DEF Safe, ConfirmationKept
  <1> QED BY <1>2, <1>3, <1>5 DEF Safe

LEMMA SafeConfirm ==
    ASSUME TypeOK, OnePlace, Safe, NEW k \in Key, Confirm(k)
    PROVE  OnePlace' /\ Safe'
  <1>1. Accepted(k)
    BY DEF Confirm, Safe, Causality
  <1>2. /\ UNCHANGED <<index, position, ahead, net, queue, hand>>
        /\ confirmations' = [confirmations EXCEPT ![k] = @ - 1]
        /\ confirmations \in [Key -> Nat] /\ confirmations[k] > 0
    BY DEF Confirm, readVars, taskVars, writerVars, TypeOK
  <1>3. /\ \A j \in Key : confirmations'[j] > 0 => confirmations[j] > 0
        /\ \A j \in Key \ {k} : confirmations'[j] = confirmations[j]
    BY <1>2
  <1>4. CASE k \in cache
    <2>1. cache' = cache \ {k} /\ lost_confirmations' = lost_confirmations
      BY <1>4 DEF Confirm
    <2>2. OnePlace' /\ Outstanding' = Outstanding \ {k}
      BY <1>2, <1>4, <2>1, JobReleased
    <2> QED BY <1>1, <1>2, <1>3, <2>1, <2>2, SafeRelease
  <1>5. CASE k \notin cache
    <2>1. cache' = cache /\ lost_confirmations' = lost_confirmations \cup {k}
      BY <1>5 DEF Confirm
    <2>2. OnePlace' /\ Outstanding' = Outstanding
      BY <1>2, <2>1, JobsUnchanged
    <2>3. \A j : (WasRead(j)' <=> WasRead(j)) /\ (Accepted(j)' <=> Accepted(j))
      BY <1>2 DEF WasRead, Accepted
    <2>4. Causality'
      BY <1>1, <1>2, <1>3, <2>1, <2>2, <2>3 DEF Safe, Causality
    <2>5. NoChunkLost'
      BY <2>2, <2>3 DEF Safe, NoChunkLost
    <2>6. Outstanding \subseteq Key
      BY DEF TypeOK, Outstanding, InQueue, InHand
    <2>7. ConfirmationKept'
      BY <1>3, <2>1, <2>2, <2>3, <2>6 DEF Safe, ConfirmationKept
    <2> QED BY <2>2, <2>4, <2>5, <2>7 DEF Safe
  <1> QED BY <1>4, <1>5

LEMMA SafeRequeue ==
    ASSUME TypeOK, OnePlace, Safe, NEW k \in Key, RequeueKey(k)
    PROVE  OnePlace' /\ Safe'
  <1>1. UNCHANGED <<index, position, ahead, net, hand, confirmations>>
    BY DEF RequeueKey, readVars, taskVars, writerVars
  <1>2. CASE RequeueGone(k)
    <2>1. OnePlace' /\ Outstanding' = Outstanding
      BY <1>1, <1>2, JobsUnchanged DEF RequeueGone
    <2> QED BY <1>1, <1>2, <2>1, SafeFrame DEF RequeueGone
  <1>3. CASE RequeueConfirmed(k)
    <2>1. OnePlace' /\ Outstanding' = Outstanding \ {k}
      BY <1>1, <1>3, JobReleased DEF RequeueConfirmed
    <2>2. Accepted(k)
      BY <1>3 DEF RequeueConfirmed, Safe, Causality
    <2>3. lost_confirmations' = lost_confirmations \ {k}
      BY <1>3 DEF RequeueConfirmed
    <2> QED BY <1>1, <2>1, <2>2, <2>3, SafeRelease
  <1>4. CASE RequeueJob(k)
    <2>1. OnePlace' /\ Outstanding' = Outstanding
      BY <1>1, <1>4, JobRequeued
    <2> QED BY <1>1, <1>4, <2>1, SafeFrame DEF RequeueJob
  <1> QED BY <1>2, <1>3, <1>4 DEF RequeueKey

(* A writer step accepts what it confirms, and only what was read.         *)
LEMMA SafeWrite ==
    ASSUME TypeOK, OnePlace, Safe, NEW k \in Key, WriterRecv(k)
    PROVE  OnePlace' /\ Safe'
  <1>1. /\ UNCHANGED <<index, lost_confirmations, queue, hand, cache>>
        /\ k \in net /\ net' \subseteq net
        /\ position[k[1]] # Size[k[1]]
    BY DEF WriterRecv, readVars, taskVars
  <1>2. OnePlace' /\ Outstanding' = Outstanding
    BY <1>1, JobsUnchanged
  <1>3. k[1] \in Files /\ k[2] \in Nat /\ k = <<k[1], k[2]>>
    BY KeyFacts
  <1>4. WasRead(k)
    BY <1>1 DEF Safe, Causality
  <1>5. \A j : WasRead(j)' <=> WasRead(j)
    BY <1>1 DEF WasRead
  <1>6. Outstanding \cup net \subseteq Key
    BY DEF TypeOK, Outstanding, InQueue, InHand
  <1>7. \A j \in Outstanding' \cup net' : WasRead(j)'
    BY <1>1, <1>2, <1>5 DEF Safe, Causality
  <1>8. CASE WriterSkip(k)
    BY <1>1, <1>2, <1>8, SafeFrame DEF WriterSkip
  <1>9. CASE WriterKeep(k)
    <2>1. /\ confirmations' = [confirmations EXCEPT ![k] = @ + 1]
          /\ ahead' = [ahead EXCEPT ![k[1]] = @ \cup {k[2]}]
          /\ position' = position
      BY <1>9 DEF WriterKeep
    <2>2. \A j \in Key : Accepted(j)' <=> Accepted(j) \/ j = k
      BY <1>3, <2>1, KeyFacts DEF Accepted, TypeOK
    <2>3. ASSUME NEW g \in Files
          PROVE  /\ First[g] <= position'[g]
                 /\ position'[g] <= index'[g]
                 /\ index'[g] <= Size[g]
                 /\ \A i \in ahead'[g] : position'[g] <= i /\ i < index'[g]
      BY <1>1, <1>3, <1>4, <1>9, <2>1 DEF WriterKeep, WasRead, Safe, Causality, TypeOK
    <2>4. \A j \in Key : confirmations'[j] > 0 => confirmations[j] > 0 \/ j = k
      BY <2>1 DEF TypeOK
    <2>5. \A j \in Key : confirmations[j] > 0 \/ j = k => confirmations'[j] > 0
      BY <2>1 DEF TypeOK
    <2>6. Causality'
      BY <1>1, <1>7, <2>2, <2>3, <2>4 DEF Safe, Causality
    <2>7. NoChunkLost'
      BY <1>2, <1>5, <2>2 DEF Safe, NoChunkLost
    <2>8. ConfirmationKept'
      BY <1>1, <1>2, <1>6, <2>2, <2>5 DEF Safe, ConfirmationKept
    <2> QED BY <1>2, <2>6, <2>7, <2>8 DEF Safe
  <1>10. CASE WriterWrite(k)
    <2>1. /\ confirmations' = [confirmations EXCEPT ![k] = @ + 1]
          /\ position' = [position EXCEPT ![k[1]] = @ + 1]
          /\ ahead' = ahead
          /\ position[k[1]] = k[2]
          /\ k[2] \notin ahead[k[1]]
      BY <1>10 DEF WriterWrite, WriterRecv
    <2>2. \A j \in Key : Accepted(j)' <=> Accepted(j) \/ j = k
      <3>1. position \in [Files -> Nat]
        BY DEF TypeOK
      <3> SUFFICES ASSUME NEW j \in Key
                   PROVE  Accepted(j)' <=> Accepted(j) \/ j = k
        OBVIOUS
      <3>2. j[1] \in Files /\ j[2] \in Nat /\ j = <<j[1], j[2]>>
        BY KeyFacts
      <3>3. CASE j[1] = k[1]
        <4>1. position'[j[1]] = k[2] + 1 /\ (j = k <=> j[2] = k[2])
          BY <1>3, <2>1, <3>1, <3>2, <3>3
        <4> QED BY <1>3, <2>1, <3>2, <3>3, <4>1 DEF Accepted
      <3>4. CASE j[1] # k[1]
        BY <1>3, <2>1, <3>1, <3>2, <3>4 DEF Accepted
      <3> QED BY <3>3, <3>4
    <2>3. ASSUME NEW g \in Files
          PROVE  /\ First[g] <= position'[g]
                 /\ position'[g] <= index'[g]
                 /\ index'[g] <= Size[g]
                 /\ \A i \in ahead'[g] : position'[g] <= i /\ i < index'[g]
      <3>1. /\ index[g] \in Nat /\ position[g] \in Nat /\ ahead[g] \in SUBSET Nat
            /\ First[g] \in Nat /\ Size[g] \in Nat
            /\ position \in [Files -> Nat]
        BY FilesAssumption DEF TypeOK
      <3>2. /\ First[g] <= position[g] /\ position[g] <= index[g]
            /\ index[g] <= Size[g]
            /\ \A i \in ahead[g] : position[g] <= i /\ i < index[g]
        BY DEF Safe, Causality
      <3>3. CASE g = k[1]
        <4>1. position'[g] = position[g] + 1 /\ position[g] < index[g]
          BY <1>4, <2>1, <3>1, <3>3 DEF WasRead
        <4> QED BY <1>1, <2>1, <3>1, <3>2, <3>3, <4>1
      <3>4. CASE g # k[1]
        <4>1. position'[g] = position[g]
          BY <2>1, <3>1, <3>4
        <4> QED BY <1>1, <2>1, <3>2, <4>1
      <3> QED BY <3>3, <3>4
    <2>4. \A j \in Key : confirmations'[j] > 0 => confirmations[j] > 0 \/ j = k
      BY <2>1 DEF TypeOK
    <2>5. \A j \in Key : confirmations[j] > 0 \/ j = k => confirmations'[j] > 0
      BY <2>1 DEF TypeOK
    <2>6. Causality'
      BY <1>1, <1>7, <2>2, <2>3, <2>4 DEF Safe, Causality
    <2>7. NoChunkLost'
      BY <1>2, <1>5, <2>2 DEF Safe, NoChunkLost
    <2>8. ConfirmationKept'
      BY <1>1, <1>2, <1>6, <2>2, <2>5 DEF Safe, ConfirmationKept
    <2> QED BY <1>2, <2>6, <2>7, <2>8 DEF Safe
  <1> QED BY <1>8, <1>9, <1>10 DEF WriterRecv

LEMMA SafeDrain ==
    ASSUME TypeOK, OnePlace, Safe, NEW f \in Files, WriterDrain(f)
    PROVE  OnePlace' /\ Safe'
  <1>1. /\ UNCHANGED <<index, lost_confirmations, confirmations, net, queue, hand, cache>>
        /\ position[f] \in ahead[f]
        /\ position' = [position EXCEPT ![f] = @ + 1]
        /\ ahead' = [ahead EXCEPT ![f] = @ \ {position[f]}]
    BY DEF WriterDrain, readVars, taskVars
  <1>2. OnePlace' /\ Outstanding' = Outstanding
    BY <1>1, JobsUnchanged
  <1>3. \A j \in Key : Accepted(j)' <=> Accepted(j)
    BY <1>1, KeyFacts DEF Accepted, TypeOK
  <1>4. \A j : WasRead(j)' <=> WasRead(j)
    BY <1>1 DEF WasRead
  <1>5. Outstanding \subseteq Key
    BY DEF TypeOK, Outstanding, InQueue, InHand
  <1>6. ASSUME NEW g \in Files
        PROVE  /\ First[g] <= position'[g]
               /\ position'[g] <= index'[g]
               /\ index'[g] <= Size[g]
               /\ \A i \in ahead'[g] : position'[g] <= i /\ i < index'[g]
    <2>1. /\ index[g] \in Nat /\ position[g] \in Nat /\ ahead[g] \in SUBSET Nat
          /\ First[g] \in Nat /\ Size[g] \in Nat
          /\ position \in [Files -> Nat] /\ ahead \in [Files -> SUBSET Nat]
      BY FilesAssumption DEF TypeOK
    <2>2. /\ First[g] <= position[g] /\ position[g] <= index[g]
          /\ index[g] <= Size[g]
          /\ \A i \in ahead[g] : position[g] <= i /\ i < index[g]
      BY DEF Safe, Causality
    <2>3. CASE g = f
      <3>1. /\ position'[g] = position[g] + 1 /\ position[g] < index[g]
            /\ ahead'[g] = ahead[g] \ {position[g]}
        BY <1>1, <2>1, <2>2, <2>3
      <3> QED BY <1>1, <2>1, <2>2, <3>1
    <2>4. CASE g # f
      <3>1. position'[g] = position[g] /\ ahead'[g] = ahead[g]
        BY <1>1, <2>1, <2>4
      <3> QED BY <1>1, <2>2, <3>1
    <2> QED BY <2>3, <2>4
  <1>7. Causality'
    BY <1>1, <1>2, <1>3, <1>4, <1>6 DEF Safe, Causality
  <1>8. NoChunkLost' /\ ConfirmationKept'
    BY <1>1, <1>2, <1>3, <1>4, <1>5 DEF Safe, NoChunkLost, ConfirmationKept
  <1> QED BY <1>2, <1>7, <1>8 DEF Safe

LEMMA InvStep == IInv /\ [Next]_vars => IInv'
  <1> SUFFICES ASSUME IInv, [Next]_vars PROVE OnePlace' /\ Safe'
    BY TypeStep DEF IInv
  <1>0. TypeOK /\ OnePlace /\ Safe
    BY DEF IInv
  <1> USE DEF readVars, taskVars, requeueVars, writerVars
  <1>1. ASSUME UNCHANGED <<queue, hand, cache, index, writerVars, confirmations,
                           lost_confirmations>>,
               net' \subseteq net
        PROVE  OnePlace' /\ Safe'
    <2>1. OnePlace' /\ Outstanding' = Outstanding
      BY <1>0, <1>1, JobsUnchanged
    <2> QED BY <1>0, <1>1, <2>1, SafeFrame
  <1>2. ASSUME NEW f \in Files, ReaderStep(f) PROVE OnePlace' /\ Safe'
    <2>1. CASE ReaderPush(f)
      BY <1>0, <2>1, SafePush
    <2>2. CASE ReaderAcquire(f) \/ ReaderEof(f) \/ ReaderFail(f)
      BY <1>1, <2>2 DEF ReaderAcquire, ReaderEof, ReaderFail
    <2> QED BY <1>2, <2>1, <2>2 DEF ReaderStep
  <1>3. ASSUME NEW f \in Files, WriterDrain(f) PROVE OnePlace' /\ Safe'
    BY <1>0, <1>3, SafeDrain
  <1>4. CASE AddPermit
    BY <1>1, <1>4 DEF AddPermit
  <1>5. ASSUME NEW s \in Senders, SenderStep(s) PROVE OnePlace' /\ Safe'
    <2>1. CASE SenderAcquire(s)
      BY <1>1, <2>1 DEF SenderAcquire
    <2>2. CASE SenderRecv(s)
      BY <1>0, <2>2, JobTaken, SafeFrame DEF SenderRecv
    <2>3. CASE SendOk(s)
      <3>1. OnePlace' /\ Outstanding' = Outstanding
        BY <1>0, <2>3, JobsUnchanged DEF SendOk
      <3> QED BY <1>0, <2>3, <3>1, SafeSend
    <2>4. CASE CacheJob(s)
      BY <1>0, <2>4, JobCached, SafeFrame DEF CacheJob
    <2>5. CASE SendError(s)
      BY <1>0, <2>5, JobReturned, SafeFrame DEF SendError
    <2> QED BY <1>5, <2>1, <2>2, <2>3, <2>4, <2>5 DEF SenderStep
  <1>6. ASSUME NEW K, RequeueScan(K) PROVE OnePlace' /\ Safe'
    BY <1>1, <1>6 DEF RequeueScan
  <1>7. CASE RequeueLock
    BY <1>1, <1>7 DEF RequeueLock
  <1>8. ASSUME NEW k \in Key, RequeueKey(k) PROVE OnePlace' /\ Safe'
    BY <1>0, <1>8, SafeRequeue
  <1>9. ASSUME NEW k \in Key, Confirm(k) PROVE OnePlace' /\ Safe'
    BY <1>0, <1>9, SafeConfirm
  <1>10. ASSUME NEW k \in Key, Lose(k) PROVE OnePlace' /\ Safe'
    BY <1>1, <1>10 DEF Lose
  <1>11. ASSUME NEW k \in Key, WriterRecv(k) PROVE OnePlace' /\ Safe'
    BY <1>0, <1>11, SafeWrite
  <1>12. CASE UNCHANGED vars
    BY <1>1, <1>12 DEF vars
  <1> QED
    BY <1>2, <1>3, <1>4, <1>5, <1>6, <1>7, <1>8, <1>9, <1>10, <1>11, <1>12 DEF Next

(* The inductive invariant holds in every reachable state. *)
THEOREM Invariant == Spec => []IInv
  BY InvInit, InvStep, PTL DEF Spec

(* No chunk is lost between the reader and the writer. *)
THEOREM ChunksNeverLost == Spec => []NoChunkLost
  <1>1. IInv => NoChunkLost
    BY DEF IInv, Safe
  <1> QED BY <1>1, Invariant, PTL

(* No confirmation is lost on its way to the job it confirms. *)
THEOREM ConfirmationsNeverLost == Spec => []ConfirmationKept
  <1>1. IInv => ConfirmationKept
    BY DEF IInv, Safe
  <1> QED BY <1>1, Invariant, PTL

(* Nothing is confirmed before it is accepted, nor sent before it is read. *)
THEOREM CausalityHolds == Spec => []Causality
  <1>1. IInv => Causality
    BY DEF IInv, Safe
  <1> QED BY <1>1, Invariant, PTL

(* A job is in the queue, in one hand or in the cache, never in two.       *)
THEOREM JobsInOnePlace == Spec => []OnePlace
  <1>1. IInv => OnePlace
    BY DEF IInv
  <1> QED BY <1>1, Invariant, PTL

-----------------------------------------------------------------------------
(* The read permits.  Each step moves a permit between the semaphore, the  *)
(* readers that hold one and the outstanding jobs.                         *)

PermitInv ==
    /\ IsFiniteSet(Reading)
    /\ IsFiniteSet(Outstanding)
    /\ PermitsConserved

LEMMA PermitInit == Init => PermitInv
  <1> SUFFICES ASSUME Init PROVE PermitInv
    OBVIOUS
  <1>1. Outstanding = {} /\ Reading = {}
    BY DEF Init, InitAt, Outstanding, InQueue, InHand, Reading
  <1>2. read = JobLimit /\ JobLimit \in Nat
    BY LimitsAssumption DEF Init, InitAt
  <1> QED BY <1>1, <1>2, FS_EmptySet DEF PermitInv, PermitsConserved

LEMMA PermitFrame ==
    ASSUME PermitInv, read' = read, Reading' = Reading, Outstanding' = Outstanding
    PROVE  PermitInv'
  BY DEF PermitInv, PermitsConserved

LEMMA ReadingGains ==
    ASSUME PermitInv, read \in Nat, NEW f, f \notin Reading,
           Reading' = Reading \cup {f}, Outstanding' = Outstanding,
           read' = read - 1
    PROVE  PermitInv'
  <1>1. /\ IsFiniteSet(Reading')
        /\ Cardinality(Reading') = Cardinality(Reading) + 1
        /\ Cardinality(Reading) \in Nat
        /\ Cardinality(Outstanding) \in Nat
    BY FS_AddElement, FS_CardinalityType DEF PermitInv
  <1> QED BY <1>1, LimitsAssumption DEF PermitInv, PermitsConserved

LEMMA ReadingLoses ==
    ASSUME PermitInv, read \in Nat, NEW f, f \in Reading,
           Reading' = Reading \ {f},
           \/ Outstanding' = Outstanding /\ read' = read + 1
           \/ \E k : /\ k \notin Outstanding
                    /\ Outstanding' = Outstanding \cup {k}
                    /\ read' = read
    PROVE  PermitInv'
  <1>1. /\ IsFiniteSet(Reading')
        /\ Cardinality(Reading') = Cardinality(Reading) - 1
        /\ Cardinality(Reading) \in Nat
        /\ Cardinality(Outstanding) \in Nat
    BY FS_RemoveElement, FS_CardinalityType DEF PermitInv
  <1>2. CASE Outstanding' = Outstanding /\ read' = read + 1
    BY <1>1, <1>2, LimitsAssumption DEF PermitInv, PermitsConserved
  <1>3. ASSUME NEW k, k \notin Outstanding,
               Outstanding' = Outstanding \cup {k}, read' = read
        PROVE  PermitInv'
    <2>1. /\ IsFiniteSet(Outstanding')
          /\ Cardinality(Outstanding') = Cardinality(Outstanding) + 1
      BY <1>3, FS_AddElement DEF PermitInv
    <2> QED BY <1>1, <1>3, <2>1, LimitsAssumption DEF PermitInv, PermitsConserved
  <1> QED BY <1>2, <1>3

LEMMA JobReturnsPermit ==
    ASSUME PermitInv, read \in Nat, NEW k, k \in Outstanding,
           Outstanding' = Outstanding \ {k}, Reading' = Reading,
           read' = read + 1
    PROVE  PermitInv'
  <1>1. /\ IsFiniteSet(Outstanding')
        /\ Cardinality(Outstanding') = Cardinality(Outstanding) - 1
        /\ Cardinality(Reading) \in Nat
        /\ Cardinality(Outstanding) \in Nat
    BY FS_RemoveElement, FS_CardinalityType DEF PermitInv
  <1> QED BY <1>1, LimitsAssumption DEF PermitInv, PermitsConserved

LEMMA PermitReader ==
    ASSUME IInv, PermitInv, NEW f \in Files, ReaderStep(f)
    PROVE  PermitInv'
  <1>0. /\ read \in Nat
        /\ reader \in [Files -> {"permit", "reading", "eof", "failed"}]
        /\ OnePlace
    BY DEF IInv, TypeOK
  <1>1. CASE ReaderPush(f)
    <2>1. /\ <<f, index[f]>> \notin Outstanding
          /\ Outstanding' = Outstanding \cup {<<f, index[f]>>}
      BY <1>1, JobPushed DEF IInv, Safe
    <2>2. f \in Reading /\ Reading' = Reading \ {f} /\ read' = read
      BY <1>0, <1>1 DEF ReaderPush, Reading
    <2> QED BY <1>0, <2>1, <2>2, ReadingLoses
  <1>2. CASE ~ReaderPush(f)
    <2>1. Outstanding' = Outstanding
      BY <1>0, <1>2, JobsUnchanged
         DEF ReaderStep, ReaderAcquire, ReaderEof, ReaderFail, taskVars
    <2>2. CASE ReaderAcquire(f)
      <3>1. /\ f \notin Reading
            /\ Reading' = Reading \cup {f}
            /\ read' = read - 1
        BY <1>0, <2>2 DEF ReaderAcquire, Reading
      <3> QED BY <1>0, <2>1, <3>1, ReadingGains
    <2>3. CASE ReaderEof(f)
      <3>1. f \in Reading /\ Reading' = Reading \ {f} /\ read' = read + 1
        BY <1>0, <2>3 DEF ReaderEof, Reading
      <3> QED BY <1>0, <2>1, <3>1, ReadingLoses
    <2>4. CASE ReaderFail(f)
      <3>1. CASE reader[f] = "permit"
        <4>1. Reading' = Reading /\ read' = read
          BY <1>0, <2>4, <3>1 DEF ReaderFail, Reading
        <4> QED BY <2>1, <4>1, PermitFrame
      <3>2. CASE reader[f] # "permit"
        <4>1. f \in Reading /\ Reading' = Reading \ {f} /\ read' = read + 1
          BY <1>0, <2>4, <3>2 DEF ReaderFail, Reading
        <4> QED BY <1>0, <2>1, <4>1, ReadingLoses
      <3> QED BY <3>1, <3>2
    <2> QED BY <1>2, <2>2, <2>3, <2>4 DEF ReaderStep
  <1> QED BY <1>1, <1>2

LEMMA PermitStep == IInv /\ PermitInv /\ [Next]_vars => PermitInv'
  <1> SUFFICES ASSUME IInv, PermitInv, [Next]_vars PROVE PermitInv'
    OBVIOUS
  <1>0. TypeOK /\ OnePlace /\ read \in Nat
    BY DEF IInv, TypeOK
  <1> USE DEF readVars, taskVars, requeueVars, writerVars
  <1>1. ASSUME UNCHANGED <<read, reader>>, Outstanding' = Outstanding
        PROVE  PermitInv'
    BY <1>1, PermitFrame DEF Reading
  <1>2. ASSUME UNCHANGED <<read, reader, queue, hand, cache>> PROVE PermitInv'
    BY <1>0, <1>1, <1>2, JobsUnchanged
  <1>3. ASSUME NEW f \in Files, ReaderStep(f) PROVE PermitInv'
    BY <1>3, PermitReader
  <1>4. ASSUME NEW f \in Files, WriterDrain(f) PROVE PermitInv'
    BY <1>2, <1>4 DEF WriterDrain
  <1>5. CASE AddPermit
    BY <1>2, <1>5 DEF AddPermit
  <1>6. ASSUME NEW s \in Senders, SenderStep(s) PROVE PermitInv'
    <2>1. CASE SenderAcquire(s)
      BY <1>2, <2>1 DEF SenderAcquire
    <2>2. CASE SenderRecv(s)
      BY <1>0, <1>1, <2>2, JobTaken DEF SenderRecv
    <2>3. CASE SendOk(s)
      BY <1>2, <2>3 DEF SendOk
    <2>4. CASE CacheJob(s)
      BY <1>0, <1>1, <2>4, JobCached DEF CacheJob
    <2>5. CASE SendError(s)
      BY <1>0, <1>1, <2>5, JobReturned DEF SendError
    <2> QED BY <1>6, <2>1, <2>2, <2>3, <2>4, <2>5 DEF SenderStep
  <1>7. ASSUME NEW K, RequeueScan(K) PROVE PermitInv'
    BY <1>2, <1>7 DEF RequeueScan
  <1>8. CASE RequeueLock
    BY <1>2, <1>8 DEF RequeueLock
  <1>9. ASSUME NEW k \in Key, RequeueKey(k) PROVE PermitInv'
    <2>1. CASE RequeueGone(k)
      BY <1>2, <1>9, <2>1 DEF RequeueKey, RequeueGone
    <2>2. CASE RequeueConfirmed(k)
      <3>1. /\ k \in Outstanding /\ Outstanding' = Outstanding \ {k}
            /\ Reading' = Reading /\ read' = read + 1
        BY <1>0, <1>9, <2>2, JobReleased DEF RequeueKey, RequeueConfirmed, Reading
      <3> QED BY <1>0, <3>1, JobReturnsPermit
    <2>3. CASE RequeueJob(k)
      BY <1>0, <1>1, <1>9, <2>3, JobRequeued DEF RequeueKey, RequeueJob
    <2> QED BY <1>9, <2>1, <2>2, <2>3 DEF RequeueKey
  <1>10. ASSUME NEW k \in Key, Confirm(k) PROVE PermitInv'
    <2>1. CASE k \in cache
      <3>1. /\ k \in Outstanding /\ Outstanding' = Outstanding \ {k}
            /\ Reading' = Reading /\ read' = read + 1
        BY <1>0, <1>10, <2>1, JobReleased DEF Confirm, Reading
      <3> QED BY <1>0, <3>1, JobReturnsPermit
    <2>2. CASE k \notin cache
      BY <1>2, <1>10, <2>2 DEF Confirm
    <2> QED BY <2>1, <2>2
  <1>11. ASSUME NEW k \in Key, Lose(k) \/ WriterRecv(k) PROVE PermitInv'
    BY <1>2, <1>11 DEF Lose, WriterRecv
  <1>12. CASE UNCHANGED vars
    BY <1>2, <1>12 DEF vars
  <1> QED
    BY <1>3, <1>4, <1>5, <1>6, <1>7, <1>8, <1>9, <1>10, <1>11, <1>12 DEF Next

(* Read permits are conserved: none leaks and none is paid back twice, so  *)
(* at most JobLimit jobs are held in memory.                               *)
THEOREM PermitsNeverLeak == Spec => []PermitsConserved
  <1>1. Spec => []PermitInv
    BY PermitInit, PermitStep, Invariant, PTL DEF Spec
  <1>2. PermitInv => PermitsConserved
    BY DEF PermitInv
  <1> QED BY <1>1, <1>2, PTL

-----------------------------------------------------------------------------
(* The data path implements Delivery: pushing a job is the abstract Read,  *)
(* writing a chunk, from a datagram or from the chunks kept, is Write.     *)

LEMMA DeliveryStep == IInv /\ [Next]_vars => [D!Next]_D!vars
  <1> SUFFICES ASSUME IInv, [Next]_vars PROVE [D!Next]_D!vars
    OBVIOUS
  <1> USE DEF readVars, taskVars, requeueVars, writerVars
  <1>0. /\ TypeOK /\ Causality
        /\ index \in [Files -> Nat] /\ position \in [Files -> Nat]
    BY DEF IInv, Safe, TypeOK
  <1>1. ASSUME UNCHANGED <<index, position>> PROVE [D!Next]_D!vars
    BY <1>1 DEF D!vars
  <1>2. ASSUME NEW f \in Files, ReaderStep(f) PROVE [D!Next]_D!vars
    <2>1. CASE ReaderPush(f)
      <3>1. D!Read(f)
        BY <2>1 DEF ReaderPush, D!Read
      <3> QED BY <3>1 DEF D!Next
    <2>2. CASE ReaderAcquire(f) \/ ReaderEof(f) \/ ReaderFail(f)
      BY <1>1, <2>2 DEF ReaderAcquire, ReaderEof, ReaderFail
    <2> QED BY <1>2, <2>1, <2>2 DEF ReaderStep
  <1>3. ASSUME NEW f \in Files, WriterDrain(f) PROVE [D!Next]_D!vars
    <2>1. position[f] < index[f]
      BY <1>0, <1>3 DEF WriterDrain, Causality
    <2>2. D!Write(f)
      BY <1>3, <2>1 DEF WriterDrain, D!Write
    <2> QED BY <2>2 DEF D!Next
  <1>4. ASSUME NEW k \in Key, WriterRecv(k) PROVE [D!Next]_D!vars
    <2>1. CASE WriterSkip(k) \/ WriterKeep(k)
      BY <1>1, <1>4, <2>1 DEF WriterRecv, WriterSkip, WriterKeep
    <2>2. CASE WriterWrite(k)
      <3>1. k[1] \in Files
        BY KeyFacts
      <3>2. position[k[1]] < index[k[1]]
        BY <1>0, <1>4, <2>2 DEF WriterRecv, WriterWrite, Causality, WasRead
      <3>3. D!Write(k[1])
        BY <1>4, <2>2, <3>2 DEF WriterRecv, WriterWrite, D!Write
      <3> QED BY <3>1, <3>3 DEF D!Next
    <2> QED BY <1>4, <2>1, <2>2 DEF WriterRecv
  <1>5. ASSUME NEW s \in Senders, SenderStep(s) PROVE [D!Next]_D!vars
    BY <1>1, <1>5
       DEF SenderStep, SenderAcquire, SenderRecv, SendOk, CacheJob, SendError
  <1>6. ASSUME NEW K, RequeueScan(K) PROVE [D!Next]_D!vars
    BY <1>1, <1>6 DEF RequeueScan
  <1>7. ASSUME NEW k \in Key, RequeueKey(k) \/ Confirm(k) \/ Lose(k)
        PROVE  [D!Next]_D!vars
    BY <1>1, <1>7 DEF RequeueKey, Confirm, Lose
  <1>8. CASE AddPermit \/ RequeueLock \/ UNCHANGED vars
    BY <1>1, <1>8 DEF AddPermit, RequeueLock, vars
  <1> QED BY <1>2, <1>3, <1>4, <1>5, <1>6, <1>7, <1>8 DEF Next

(* Every file is written chunk after chunk, exactly as it was read. *)
THEOREM ImplementsDelivery == Spec => DeliverySpec
  <1>1. Init => D!Init
    BY DEF Init, InitAt, D!Init
  <1> QED BY <1>1, DeliveryStep, Invariant, PTL DEF Spec, DeliverySpec, D!Spec

-----------------------------------------------------------------------------
(* JobFlowRetry: the memory for unconfirmed jobs stays bounded when files  *)
(* are transferred again.  OnePlace and Causality do not survive a retry,  *)
(* so nothing from above but the lemma about types is of use: here jobs    *)
(* are counted where they are, and a job that overwrites another in the    *)
(* cache is simply one less.                                               *)

Busy == {s \in Senders : hand[s] # NoJob}

ReaderStates == {"permit", "reading", "eof", "failed"}

(* An old reader has a slot of its own: none is taken yet for the current  *)
(* attempt or one to come.                                                 *)
TypeRetry ==
    /\ TypeOK
    /\ attempt \in [Files -> 1..MaxAttempts]
    /\ start \in [Files -> Nat]
    /\ \A f \in Files : First[f] <= start[f]
    /\ old \in [OldReaders -> [reader : ReaderStates \cup {"none"},
                               index : Nat, start : Nat]]
    /\ \A r \in OldReaders :
          /\ old[r].reader # "none" => First[r[1]] <= old[r].index
          /\ attempt[r[1]] <= r[2] => old[r].reader = "none"

BoundInv ==
    /\ IsFiniteSet(Reading)
    /\ IsFiniteSet(OldReading)
    /\ IsFiniteSet(Busy)
    /\ IsFiniteSet(cache)
    /\ PermitsBounded

-----------------------------------------------------------------------------
(* Types. *)

LEMMA TypeRetryInit == InitRetry => TypeRetry
  <1> SUFFICES ASSUME InitRetry PROVE TypeRetry
    OBVIOUS
  <1>1. start \in [Files -> Nat] /\ \A f \in Files : First[f] <= start[f]
    BY FilesAssumption DEF InitRetry, StartIndices
  <1>2. TypeOK
    BY <1>1, FilesAssumption, LimitsAssumption, NoJobAssumption
       DEF InitRetry, InitAt, TypeOK, LoopHead
  <1>3. attempt \in [Files -> 1..MaxAttempts]
    BY AttemptsAssumption DEF InitRetry
  <1>4. /\ old \in [OldReaders -> [reader : ReaderStates \cup {"none"},
                                  index : Nat, start : Nat]]
        /\ \A r \in OldReaders : old[r].reader = "none"
    BY DEF InitRetry, NoReader
  <1> QED BY <1>1, <1>2, <1>3, <1>4 DEF TypeRetry

LEMMA RestartKeepsTypes ==
    ASSUME TypeRetry, NEW f \in Files, Restart(f)
    PROVE  TypeRetry'
  <1>0. /\ TypeOK
        /\ attempt \in [Files -> 1..MaxAttempts] /\ attempt[f] < MaxAttempts
        /\ MaxAttempts \in Nat
        /\ start \in [Files -> Nat]
        /\ \A g \in Files : First[g] \in Nat /\ First[g] <= start[g]
    BY FilesAssumption, AttemptsAssumption DEF TypeRetry, Restart
  <1>1. UNCHANGED <<read, queue, send, task, hand, retries, cache, lost_confirmations,
                    requeuer, keys_to_remove, net, confirmations>>
    BY DEF Restart, taskVars, requeueVars
  <1>2. reader' \in [Files -> {"permit", "reading", "eof", "failed"}]
    BY DEF Restart, TypeRetry, TypeOK
  <1>3. PICK s \in {start[f], First[f]} :
            /\ start' = [start EXCEPT ![f] = s]
            /\ index' = [index EXCEPT ![f] = s]
            /\ position' = [position EXCEPT ![f] = s]
    BY DEF Restart
  <1>4. s \in Nat /\ First[f] <= s
    BY <1>0
  <1>5. index' \in [Files -> Nat] /\ \A g \in Files : First[g] <= index'[g]
    <2>1. index \in [Files -> Nat] /\ \A g \in Files : First[g] <= index[g]
      BY <1>0 DEF TypeOK
    <2> QED BY <2>1, <1>3, <1>4
  <1>6. position' \in [Files -> Nat] /\ ahead' \in [Files -> SUBSET Nat]
    BY <1>0, <1>3, <1>4 DEF Restart, TypeOK
  <1>7. TypeOK'
    BY <1>0, <1>1, <1>2, <1>5, <1>6 DEF TypeOK
  <1>8. start' \in [Files -> Nat] /\ \A g \in Files : First[g] <= start'[g]
    BY <1>0, <1>3, <1>4
  <1>9. /\ attempt' \in [Files -> 1..MaxAttempts]
        /\ attempt' = [attempt EXCEPT ![f] = @ + 1]
    BY <1>0 DEF Restart
  <1>10. old' \in [OldReaders -> [reader : ReaderStates \cup {"none"},
                                 index : Nat, start : Nat]]
    <2>1. [reader |-> reader[f], index |-> index[f], start |-> start[f]]
            \in [reader : ReaderStates \cup {"none"}, index : Nat, start : Nat]
      BY <1>0 DEF TypeOK, ReaderStates
    <2> QED BY <2>1 DEF Restart, TypeRetry
  <1>11. ASSUME NEW r \in OldReaders
         PROVE  /\ old'[r].reader # "none" => First[r[1]] <= old'[r].index
                /\ attempt'[r[1]] <= r[2] => old'[r].reader = "none"
    <2>1. /\ r = <<r[1], r[2]>> /\ r[1] \in Files /\ r[2] \in Nat
      BY <1>0 DEF OldReaders
    <2>2. /\ old[r].reader # "none" => First[r[1]] <= old[r].index
          /\ attempt[r[1]] <= r[2] => old[r].reader = "none"
      BY DEF TypeRetry
    <2>3. attempt[r[1]] \in Nat /\ attempt[f] \in Nat
      BY <1>0, <2>1
    <2>4. CASE r = <<f, attempt[f]>>
      <3>1. old'[r] = [reader |-> reader[f], index |-> index[f], start |-> start[f]]
        BY <2>4 DEF Restart, TypeRetry
      <3>2. First[f] <= index[f]
        BY <1>0 DEF TypeOK
      <3>3. r[1] = f /\ r[2] = attempt[f] /\ attempt'[f] = attempt[f] + 1
        BY <1>0, <1>9, <2>4
      <3>4. ~(attempt'[r[1]] <= r[2])
        BY <2>3, <3>3
      <3> QED BY <3>1, <3>2, <3>3, <3>4
    <2>5. CASE r # <<f, attempt[f]>>
      <3>1. old'[r] = old[r]
        BY <2>5 DEF Restart, TypeRetry
      <3>2. attempt'[r[1]] <= r[2] => attempt[r[1]] <= r[2]
        BY <1>0, <1>9, <2>1, <2>3
      <3> QED BY <2>2, <3>1, <3>2
    <2> QED BY <2>4, <2>5
  <1> QED BY <1>7, <1>8, <1>9, <1>10, <1>11 DEF TypeRetry

LEMMA OldKeepsTypes ==
    ASSUME TypeRetry, NEW r \in OldReaders, OldStep(r)
    PROVE  TypeRetry'
  <1> DEFINE Rec == [reader : ReaderStates \cup {"none"}, index : Nat, start : Nat]
  <1>0. /\ TypeOK /\ old \in [OldReaders -> Rec]
        /\ r[1] \in Files /\ old[r].reader # "none"
        /\ First[r[1]] <= old[r].index /\ old[r].index \in Nat
        /\ First[r[1]] \in Nat /\ Size[r[1]] \in Nat
    <2>1. r[1] \in Files /\ old[r].reader # "none"
      BY DEF OldReaders, OldStep, OldAcquire, OldPush, OldEof, OldFail
    <2> QED BY <2>1, FilesAssumption DEF TypeRetry
  <1>1. UNCHANGED <<reader, index, send, task, hand, retries, cache,
                    lost_confirmations, requeuer, keys_to_remove, net, position,
                    ahead, confirmations, attempt, start>>
    BY DEF OldStep, OldAcquire, OldPush, OldEof, OldFail, OldFrame, readVars,
           taskVars, requeueVars, writerVars
  <1>2. read' \in Nat
    BY <1>0 DEF OldStep, OldAcquire, OldPush, OldEof, OldFail, TypeOK
  <1>3. queue' \in Seq(Key)
    <2>1. CASE OldPush(r)
      <3>1. <<r[1], old[r].index>> \in Key
        BY <1>0, <2>1, KeyIntro DEF OldPush
      <3> QED BY <1>0, <2>1, <3>1 DEF OldPush, TypeOK
    <2>2. CASE ~OldPush(r)
      BY <1>0, <2>2 DEF OldStep, OldAcquire, OldEof, OldFail, TypeOK
    <2> QED BY <2>1, <2>2
  <1>4. TypeOK'
    BY <1>0, <1>1, <1>2, <1>3 DEF TypeOK
  <1>5. PICK x \in Rec : /\ old' = [old EXCEPT ![r] = x]
                         /\ x.reader # "none" /\ First[r[1]] <= x.index
    <2>1. CASE OldPush(r)
      <3> DEFINE x == [reader |-> "permit", index |-> old[r].index + 1,
                       start |-> old[r].start]
      <3>1. old[r] \in Rec /\ x \in Rec
        BY <1>0 DEF ReaderStates
      <3>2. old' = [old EXCEPT ![r].reader = "permit", ![r].index = @ + 1]
        BY <2>1 DEF OldPush
      <3>3. old' = [old EXCEPT ![r] = x]
        BY <1>0, <3>1, <3>2
      <3>4. x.reader # "none" /\ First[r[1]] <= x.index
        BY <1>0
      <3> QED BY <3>1, <3>3, <3>4
    <2>2. CASE ~OldPush(r)
      <3>1. PICK to \in {"reading", "eof", "failed"} : old' = [old EXCEPT ![r].reader = to]
        BY <2>2 DEF OldStep, OldAcquire, OldEof, OldFail, OldGoto
      <3> DEFINE x == [old[r] EXCEPT !.reader = to]
      <3>2. x \in Rec /\ x.reader = to /\ x.index = old[r].index
        BY <1>0 DEF ReaderStates
      <3> QED BY <1>0, <3>1, <3>2
    <2> QED BY <2>1, <2>2
  <1>6. old' \in [OldReaders -> Rec]
    BY <1>0, <1>5
  <1>7. attempt[r[1]] <= r[2] => FALSE
    BY <1>0 DEF TypeRetry
  <1>8. ASSUME NEW q \in OldReaders
        PROVE  /\ old'[q].reader # "none" => First[q[1]] <= old'[q].index
               /\ attempt'[q[1]] <= q[2] => old'[q].reader = "none"
    <2>1. CASE q = r
      BY <1>0, <1>1, <1>5, <1>7, <2>1
    <2>2. CASE q # r
      BY <1>0, <1>1, <1>5, <2>2 DEF TypeRetry
    <2> QED BY <2>1, <2>2
  <1> QED BY <1>1, <1>4, <1>6, <1>8 DEF TypeRetry

LEMMA TypeRetryStep == TypeRetry /\ [NextRetry]_retryVars => TypeRetry'
  <1> SUFFICES ASSUME TypeRetry, [NextRetry]_retryVars PROVE TypeRetry'
    OBVIOUS
  <1>1. CASE Next /\ UNCHANGED attemptVars
    BY <1>1, TypeStep DEF TypeRetry, attemptVars
  <1>2. ASSUME NEW f \in Files, Restart(f) PROVE TypeRetry'
    BY <1>2, RestartKeepsTypes
  <1>3. ASSUME NEW f \in Files, OpenFail(f), UNCHANGED attemptVars PROVE TypeRetry'
    <2>1. TypeOK'
      BY <1>3 DEF OpenFail, TypeRetry, TypeOK, taskVars, requeueVars, writerVars
    <2> QED BY <1>3, <2>1 DEF TypeRetry, attemptVars
  <1>4. ASSUME NEW r \in OldReaders, OldStep(r) PROVE TypeRetry'
    BY <1>4, OldKeepsTypes
  <1>5. CASE UNCHANGED retryVars
    <2>1. UNCHANGED vars /\ UNCHANGED attemptVars
      BY <1>5 DEF retryVars
    <2> QED BY <2>1, TypeStep DEF TypeRetry, attemptVars
  <1> QED BY <1>1, <1>2, <1>3, <1>4, <1>5 DEF NextRetry

-----------------------------------------------------------------------------
(* Counting. *)

LEMMA CountsAreNat ==
    ASSUME TypeOK, BoundInv
    PROVE  /\ read \in Nat /\ JobLimit \in Nat /\ Len(queue) \in Nat
           /\ Cardinality(Reading) \in Nat
           /\ Cardinality(OldReading) \in Nat
           /\ Cardinality(Busy) \in Nat
           /\ Cardinality(cache) \in Nat
           /\ read + Cardinality(Reading) + Cardinality(OldReading) + Len(queue)
                + Cardinality(Busy) + Cardinality(cache) <= JobLimit
  <1>1. read \in Nat /\ JobLimit \in Nat /\ Len(queue) \in Nat
    BY LimitsAssumption DEF TypeOK
  <1>2. /\ Cardinality(Reading) \in Nat
        /\ Cardinality(OldReading) \in Nat
        /\ Cardinality(Busy) \in Nat
        /\ Cardinality(cache) \in Nat
    BY FS_CardinalityType DEF BoundInv
  <1> QED BY <1>1, <1>2 DEF BoundInv, PermitsBounded, Jobs, Busy

(* Enough for the invariant after a step. *)
LEMMA Counted ==
    ASSUME IsFiniteSet(Reading'), IsFiniteSet(OldReading'), IsFiniteSet(Busy'),
           IsFiniteSet(cache'),
           read' \in Nat, Len(queue') \in Nat, JobLimit \in Nat,
           read' + Cardinality(Reading') + Cardinality(OldReading') + Len(queue')
                + Cardinality(Busy') + Cardinality(cache') <= JobLimit
    PROVE  BoundInv'
  <1>1. /\ Cardinality(Reading') \in Nat
        /\ Cardinality(OldReading') \in Nat
        /\ Cardinality(Busy') \in Nat
        /\ Cardinality(cache') \in Nat
    BY FS_CardinalityType
  <1> QED BY <1>1 DEF BoundInv, PermitsBounded, Jobs, Busy

LEMMA BoundFrame ==
    ASSUME BoundInv, UNCHANGED <<read, queue, hand, cache>>,
           Reading' = Reading, OldReading' = OldReading
    PROVE  BoundInv'
  BY DEF BoundInv, PermitsBounded, Jobs, Busy

LEMMA BoundInit == InitRetry => BoundInv
  <1> SUFFICES ASSUME InitRetry PROVE BoundInv
    OBVIOUS
  <1>1. /\ Reading = {} /\ OldReading = {} /\ Busy = {} /\ cache = {}
        /\ queue = <<>> /\ read = JobLimit
    BY DEF InitRetry, InitAt, Reading, OldReading, NoReader, Busy
  <1>2. JobLimit \in Nat
    BY LimitsAssumption
  <1> QED BY <1>1, <1>2, FS_EmptySet DEF BoundInv, PermitsBounded, Jobs, Busy

-----------------------------------------------------------------------------
(* Readers: a permit is held, becomes a job, or goes back. *)

LEMMA BoundReader ==
    ASSUME TypeOK, BoundInv, NEW f \in Files, ReaderStep(f),
           OldReading' = OldReading
    PROVE  BoundInv'
  <1>0. /\ reader \in [Files -> {"permit", "reading", "eof", "failed"}]
        /\ queue \in Seq(Key) /\ index \in [Files -> Nat]
        /\ IsFiniteSet(Reading) /\ IsFiniteSet(OldReading)
        /\ IsFiniteSet(Busy) /\ IsFiniteSet(cache)
    BY DEF TypeOK, BoundInv
  <1>1. hand' = hand /\ cache' = cache /\ Busy' = Busy
    BY DEF ReaderStep, ReaderAcquire, ReaderPush, ReaderEof, ReaderFail, taskVars, Busy
  <1>2. CASE ReaderAcquire(f)
    <2>1. f \notin Reading /\ Reading' = Reading \cup {f}
      BY <1>0, <1>2 DEF ReaderAcquire, Reading
    <2>2. read > 0 /\ read' = read - 1 /\ queue' = queue
      BY <1>2 DEF ReaderAcquire
    <2>3. /\ IsFiniteSet(Reading')
          /\ Cardinality(Reading') = Cardinality(Reading) + 1
      BY <1>0, <2>1, FS_AddElement
    <2> QED BY <1>0, <1>1, <2>2, <2>3, CountsAreNat, Counted, SMTT(60)
  <1>3. CASE ReaderPush(f)
    <2>1. f \in Reading /\ Reading' = Reading \ {f}
      BY <1>0, <1>3 DEF ReaderPush, Reading
    <2>2. read' = read /\ Len(queue') = Len(queue) + 1
      BY <1>0, <1>3 DEF ReaderPush
    <2>3. /\ IsFiniteSet(Reading')
          /\ Cardinality(Reading') = Cardinality(Reading) - 1
      BY <1>0, <2>1, FS_RemoveElement
    <2> QED BY <1>0, <1>1, <2>2, <2>3, CountsAreNat, Counted, SMTT(60)
  <1>4. CASE \/ ReaderEof(f)
             \/ ReaderFail(f) /\ reader[f] = "reading"
    <2>1. f \in Reading /\ Reading' = Reading \ {f}
      BY <1>0, <1>4 DEF ReaderEof, ReaderFail, Reading
    <2>2. read' = read + 1 /\ queue' = queue
      BY <1>4 DEF ReaderEof, ReaderFail
    <2>3. /\ IsFiniteSet(Reading')
          /\ Cardinality(Reading') = Cardinality(Reading) - 1
      BY <1>0, <2>1, FS_RemoveElement
    <2> QED BY <1>0, <1>1, <2>2, <2>3, CountsAreNat, Counted, SMTT(60)
  <1>5. CASE ReaderFail(f) /\ reader[f] # "reading"
    <2>1. Reading' = Reading
      BY <1>0, <1>5 DEF ReaderFail, Reading
    <2> QED BY <1>1, <1>5, <2>1, BoundFrame DEF ReaderFail
  <1> QED BY <1>2, <1>3, <1>4, <1>5 DEF ReaderStep

(* A reader of an earlier attempt counts the same way. *)
LEMMA BoundOld ==
    ASSUME TypeRetry, BoundInv, NEW r \in OldReaders, OldStep(r)
    PROVE  BoundInv'
  <1>a. old \in [OldReaders -> [reader : ReaderStates \cup {"none"},
                               index : Nat, start : Nat]]
    BY DEF TypeRetry
  <1>b. TypeOK
    BY DEF TypeRetry
  <1>0. /\ queue \in Seq(Key)
        /\ IsFiniteSet(Reading) /\ IsFiniteSet(OldReading)
        /\ IsFiniteSet(Busy) /\ IsFiniteSet(cache)
    BY <1>b DEF TypeOK, BoundInv
  <1>1. /\ hand' = hand /\ cache' = cache /\ Busy' = Busy /\ Reading' = Reading
    BY DEF OldStep, OldAcquire, OldPush, OldEof, OldFail, OldFrame, readVars,
           taskVars, Busy, Reading
  <1>2. CASE OldAcquire(r)
    <2>1. r \notin OldReading /\ OldReading' = OldReading \cup {r}
      BY <1>a, <1>2 DEF OldAcquire, OldGoto, OldReading
    <2>2. read > 0 /\ read' = read - 1 /\ queue' = queue
      BY <1>2 DEF OldAcquire
    <2>3. /\ IsFiniteSet(OldReading')
          /\ Cardinality(OldReading') = Cardinality(OldReading) + 1
      BY <1>0, <2>1, FS_AddElement
    <2> QED BY <1>0, <1>1, <2>2, <2>3, <1>b, CountsAreNat, Counted, SMTT(60)
  <1>3. CASE OldPush(r)
    <2>1. r \in OldReading /\ OldReading' = OldReading \ {r}
      <3>1. /\ old[r].reader = "reading"
            /\ old' = [old EXCEPT ![r].reader = "permit", ![r].index = @ + 1]
        BY <1>3 DEF OldPush
      <3>2. old'[r].reader = "permit" /\ \A q \in OldReaders \ {r} : old'[q] = old[q]
        BY <1>a, <3>1
      <3> QED BY <3>1, <3>2 DEF OldReading
    <2>2. read' = read /\ Len(queue') = Len(queue) + 1
      BY <1>0, <1>3 DEF OldPush
    <2>3. /\ IsFiniteSet(OldReading')
          /\ Cardinality(OldReading') = Cardinality(OldReading) - 1
      BY <1>0, <2>1, FS_RemoveElement
    <2> QED BY <1>0, <1>1, <2>2, <2>3, <1>b, CountsAreNat, Counted, SMTT(60)
  <1>4. CASE \/ OldEof(r)
             \/ OldFail(r) /\ old[r].reader = "reading"
    <2>1. r \in OldReading /\ OldReading' = OldReading \ {r}
      BY <1>a, <1>4 DEF OldEof, OldFail, OldGoto, OldReading
    <2>2. read' = read + 1 /\ queue' = queue
      BY <1>4 DEF OldEof, OldFail
    <2>3. /\ IsFiniteSet(OldReading')
          /\ Cardinality(OldReading') = Cardinality(OldReading) - 1
      BY <1>0, <2>1, FS_RemoveElement
    <2> QED BY <1>0, <1>1, <2>2, <2>3, <1>b, CountsAreNat, Counted, SMTT(60)
  <1>5. CASE OldFail(r) /\ old[r].reader # "reading"
    <2>1. OldReading' = OldReading
      BY <1>a, <1>5 DEF OldFail, OldGoto, OldReading
    <2> QED BY <1>1, <1>5, <2>1, BoundFrame DEF OldFail
  <1> QED BY <1>2, <1>3, <1>4, <1>5 DEF OldStep

(* A restart hands the permit the reader holds over with the reader. *)
LEMMA BoundRestart ==
    ASSUME TypeRetry, BoundInv, NEW f \in Files, Restart(f)
    PROVE  BoundInv'
  <1> DEFINE r == <<f, attempt[f]>>
  <1>b. TypeOK
    BY DEF TypeRetry
  <1>0. /\ reader \in [Files -> ReaderStates]
        /\ r \in OldReaders /\ old[r].reader = "none"
        /\ DOMAIN old = OldReaders
        /\ IsFiniteSet(Reading) /\ IsFiniteSet(OldReading)
        /\ IsFiniteSet(Busy) /\ IsFiniteSet(cache)
    <2>1. attempt[f] \in 1..MaxAttempts /\ MaxAttempts \in Nat
      BY AttemptsAssumption DEF TypeRetry
    <2>2. r \in OldReaders /\ r[1] = f /\ r[2] = attempt[f] /\ attempt[f] <= attempt[f]
      BY <2>1 DEF OldReaders
    <2> QED BY <2>2 DEF TypeRetry, TypeOK, BoundInv, ReaderStates
  <1>1. UNCHANGED <<read, queue, hand, cache>> /\ Busy' = Busy
    BY DEF Restart, taskVars, Busy
  <1>2. Reading' = Reading \ {f}
    BY <1>0 DEF Restart, Reading
  <1>3. /\ old'[r].reader = reader[f]
        /\ \A q \in OldReaders \ {r} : old'[q] = old[q]
    BY <1>0 DEF Restart
  <1>4. CASE reader[f] = "reading"
    <2>1. /\ f \in Reading /\ r \notin OldReading
          /\ OldReading' = OldReading \cup {r}
      BY <1>0, <1>3, <1>4 DEF Reading, OldReading
    <2>2. /\ IsFiniteSet(Reading') /\ IsFiniteSet(OldReading')
          /\ Cardinality(Reading') = Cardinality(Reading) - 1
          /\ Cardinality(OldReading') = Cardinality(OldReading) + 1
      BY <1>0, <1>2, <2>1, FS_AddElement, FS_RemoveElement
    <2> QED BY <1>0, <1>1, <1>b, <2>2, CountsAreNat, Counted, SMTT(60)
  <1>5. CASE reader[f] # "reading"
    <2>1. Reading' = Reading
      BY <1>2, <1>5 DEF Reading
    <2>2. OldReading' = OldReading
      BY <1>0, <1>3, <1>5 DEF OldReading
    <2> QED BY <1>1, <2>1, <2>2, BoundFrame
  <1> QED BY <1>4, <1>5

-----------------------------------------------------------------------------
(* Sender tasks: a job goes from the queue to a hand, and from there to    *)
(* the cache or back.                                                      *)

LEMMA HandEmptied ==
    ASSUME TypeOK, BoundInv, NEW s \in Senders, hand[s] # NoJob,
           hand' = [hand EXCEPT ![s] = NoJob]
    PROVE  IsFiniteSet(Busy') /\ Cardinality(Busy') = Cardinality(Busy) - 1
  <1>1. s \in Busy /\ Busy' = Busy \ {s}
    BY DEF Busy, TypeOK
  <1> QED BY <1>1, FS_RemoveElement DEF BoundInv

LEMMA BoundSender ==
    ASSUME TypeOK, BoundInv, NEW s \in Senders, SenderStep(s),
           OldReading' = OldReading
    PROVE  BoundInv'
  <1>0. /\ queue \in Seq(Key) /\ hand \in [Senders -> Key \cup {NoJob}]
        /\ hand[s] # NoJob <=> task[s] \in {"send", "cache"}
        /\ IsFiniteSet(Reading) /\ IsFiniteSet(OldReading)
        /\ IsFiniteSet(Busy) /\ IsFiniteSet(cache)
    BY DEF TypeOK, BoundInv
  <1>1. read' = read /\ Reading' = Reading
    BY DEF SenderStep, SenderAcquire, SenderRecv, SendOk, CacheJob, SendError,
           readVars, Reading
  <1>2. CASE SenderAcquire(s) \/ SendOk(s)
    BY <1>1, <1>2, BoundFrame DEF SenderAcquire, SendOk
  <1>3. CASE SenderRecv(s)
    <2>1. /\ queue # <<>> /\ Len(queue') = Len(queue) - 1 /\ cache' = cache
          /\ Len(queue') \in Nat
      BY <1>0, <1>3 DEF SenderRecv
    <2>2. Head(queue) \in Key
      BY <1>0, <2>1
    <2>3. s \notin Busy /\ Busy' = Busy \cup {s}
      BY <1>0, <1>3, <2>2, NoJobAssumption DEF SenderRecv, Busy
    <2>4. IsFiniteSet(Busy') /\ Cardinality(Busy') = Cardinality(Busy) + 1
      BY <1>0, <2>3, FS_AddElement
    <2> QED BY <1>0, <1>1, <2>1, <2>4, CountsAreNat, Counted, SMTT(60)
  <1>4. CASE CacheJob(s)
    <2>1. IsFiniteSet(Busy') /\ Cardinality(Busy') = Cardinality(Busy) - 1
      BY <1>0, <1>4, HandEmptied DEF CacheJob
    <2>2. queue' = queue /\ cache' = cache \cup {hand[s]}
      BY <1>4 DEF CacheJob
    <2>3. /\ IsFiniteSet(cache')
          /\ Cardinality(cache') \in {Cardinality(cache), Cardinality(cache) + 1}
      BY <1>0, <2>2, FS_AddElement
    <2> QED BY <1>0, <1>1, <2>1, <2>2, <2>3, CountsAreNat, Counted, SMTT(60)
  <1>5. CASE SendError(s)
    <2>1. IsFiniteSet(Busy') /\ Cardinality(Busy') = Cardinality(Busy) - 1
      BY <1>0, <1>5, HandEmptied DEF SendError
    <2>2. hand[s] \in Key
      BY <1>0, <1>5 DEF SendError
    <2>3. Len(queue') = Len(queue) + 1 /\ cache' = cache
      BY <1>0, <1>5, <2>2 DEF SendError
    <2> QED BY <1>0, <1>1, <2>1, <2>3, CountsAreNat, Counted, SMTT(60)
  <1> QED BY <1>2, <1>3, <1>4, <1>5 DEF SenderStep

-----------------------------------------------------------------------------
(* The cache: a job leaves it for the queue, or for a permit. *)

LEMMA BoundLeaves ==
    ASSUME TypeOK, BoundInv, NEW k \in cache, cache' = cache \ {k}, hand' = hand,
           Reading' = Reading, OldReading' = OldReading,
           \/ read' = read + 1 /\ queue' = queue
           \/ read' = read /\ queue' = Append(queue, k)
    PROVE  BoundInv'
  <1>1. /\ queue \in Seq(Key) /\ k \in Key
        /\ IsFiniteSet(Reading) /\ IsFiniteSet(OldReading)
        /\ IsFiniteSet(Busy) /\ IsFiniteSet(cache)
    BY DEF TypeOK, BoundInv
  <1>2. IsFiniteSet(cache') /\ Cardinality(cache') = Cardinality(cache) - 1
    BY <1>1, FS_RemoveElement
  <1>3. Busy' = Busy
    BY DEF Busy
  <1>4. \/ read' = read + 1 /\ Len(queue') = Len(queue)
        \/ read' = read /\ Len(queue') = Len(queue) + 1
    BY <1>1
  <1> QED BY <1>1, <1>2, <1>3, <1>4, CountsAreNat, Counted, SMTT(60)

LEMMA BoundCache ==
    ASSUME TypeOK, BoundInv, NEW k \in Key, RequeueKey(k) \/ Confirm(k),
           OldReading' = OldReading
    PROVE  BoundInv'
  <1>1. hand' = hand /\ Reading' = Reading
    BY DEF RequeueKey, Confirm, readVars, taskVars, Reading
  <1>2. CASE UNCHANGED <<read, queue, cache>>
    BY <1>1, <1>2, BoundFrame
  <1>3. CASE RequeueKey(k) /\ (RequeueConfirmed(k) \/ RequeueJob(k))
    BY <1>1, <1>3, BoundLeaves DEF RequeueConfirmed, RequeueJob
  <1>4. CASE Confirm(k) /\ k \in cache
    BY <1>1, <1>4, BoundLeaves DEF Confirm
  <1>5. CASE RequeueKey(k) /\ RequeueGone(k)
    BY <1>2, <1>5 DEF RequeueGone
  <1>6. CASE Confirm(k) /\ k \notin cache
    BY <1>2, <1>6 DEF Confirm
  <1> QED BY <1>3, <1>4, <1>5, <1>6 DEF RequeueKey

-----------------------------------------------------------------------------
LEMMA BoundStep == TypeRetry /\ BoundInv /\ [NextRetry]_retryVars => BoundInv'
  <1> SUFFICES ASSUME TypeRetry, BoundInv, [NextRetry]_retryVars PROVE BoundInv'
    OBVIOUS
  <1>0. TypeOK
    BY DEF TypeRetry
  <1>1. ASSUME OldReading' = OldReading, NEW f \in Files, ReaderStep(f) PROVE BoundInv'
    BY <1>0, <1>1, BoundReader
  <1>2. ASSUME OldReading' = OldReading, NEW s \in Senders, SenderStep(s) PROVE BoundInv'
    BY <1>0, <1>2, BoundSender
  <1>3. ASSUME OldReading' = OldReading, NEW k \in Key, RequeueKey(k) \/ Confirm(k)
        PROVE  BoundInv'
    BY <1>0, <1>3, BoundCache
  <1>4. ASSUME NEW f \in Files, OpenFail(f), UNCHANGED attemptVars PROVE BoundInv'
    <2>1. Reading' = Reading
      BY <1>0, <1>4 DEF OpenFail, Reading, TypeOK
    <2>2. OldReading' = OldReading
      BY <1>4 DEF attemptVars, OldReading
    <2> QED BY <1>4, <2>1, <2>2, BoundFrame DEF OpenFail, taskVars
  <1>5. ASSUME OldReading' = OldReading,
               \/ \E f \in Files : WriterDrain(f)
               \/ AddPermit \/ RequeueLock
               \/ \E K \in SUBSET cache : RequeueScan(K)
               \/ \E k \in Key : Lose(k) \/ WriterRecv(k)
        PROVE  BoundInv'
    <2>1. UNCHANGED <<read, reader, queue, hand, cache>>
      BY <1>5 DEF WriterDrain, AddPermit, RequeueLock, RequeueScan, Lose, WriterRecv,
                  readVars, taskVars
    <2> QED BY <1>5, <2>1, BoundFrame DEF Reading
  <1>6. CASE UNCHANGED retryVars
    <2>1. UNCHANGED <<read, reader, queue, hand, cache, old>>
      BY <1>6 DEF retryVars, vars, readVars, taskVars, attemptVars
    <2> QED BY <2>1, BoundFrame DEF Reading, OldReading
  <1>7. CASE Next /\ UNCHANGED attemptVars
    <2>1. OldReading' = OldReading
      BY <1>7 DEF attemptVars, OldReading
    <2> QED BY <1>1, <1>2, <1>3, <1>5, <1>7, <2>1 DEF Next
  <1> QED BY <1>4, <1>6, <1>7, BoundRestart, BoundOld DEF NextRetry

(* Free permits, readers that hold one and jobs together never exceed      *)
(* job_limit, however often files are transferred again and whatever the   *)
(* readers of earlier attempts still do: receive_confirmations pays for no *)
(* confirmation twice (sender/mod.rs 395, 421).                            *)
THEOREM PermitsAlwaysBounded == SpecRetry => []PermitsBounded
  <1>1. InitRetry => TypeRetry /\ BoundInv
    BY TypeRetryInit, BoundInit
  <1>2. TypeRetry /\ BoundInv /\ [NextRetry]_retryVars => (TypeRetry /\ BoundInv)'
    BY TypeRetryStep, BoundStep
  <1>3. BoundInv => PermitsBounded
    BY DEF BoundInv
  <1> QED BY <1>1, <1>2, <1>3, PTL DEF SpecRetry

=============================================================================
