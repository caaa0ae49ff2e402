---------------------------- MODULE ResumeProofs ----------------------------
(***************************************************************************)
(* Proofs that a file without a short last chunk, and one with a           *)
(* signature, get their final name with the contents of the source, for    *)
(* every size, every size of the buffers and any number of stopped runs.   *)
(***************************************************************************)
EXTENDS Resume, SequenceTheorems, TLAPS

(* Multiples of the transfer buffer. *)
Multiple(n) == \E m \in Nat : n = m * Transfer

(* The remainder says whether a number is a multiple. *)
LEMMA MultipleMod ==
    ASSUME NEW n \in Nat
    PROVE  n % Transfer = 0 <=> Multiple(n)
  <1> USE ResumeAssumption DEF Multiple
  <1>1. ASSUME n % Transfer = 0 PROVE Multiple(n)
    <2>1. n = (n \div Transfer) * Transfer
      BY <1>1
    <2>2. n \div Transfer \in Nat
      OBVIOUS
    <2> QED BY <2>1, <2>2
  <1>2. ASSUME NEW m \in Nat, n = m * Transfer PROVE n % Transfer = 0
    BY <1>2
  <1> QED BY <1>1, <1>2

(* Whole transfer buffers add up to whole transfer buffers. *)
LEMMA MultipleSum ==
    ASSUME NEW n \in Nat, NEW k \in Nat, Multiple(n), Multiple(k)
    PROVE  Multiple(n + k)
  <1>1. PICK a \in Nat : n = a * Transfer
    BY DEF Multiple
  <1>2. PICK b \in Nat : k = b * Transfer
    BY DEF Multiple
  <1>3. n + k = (a + b) * Transfer
    BY <1>1, <1>2, ResumeAssumption
  <1> QED BY <1>3 DEF Multiple

(* Rounding down (start_index) leaves whole transfer buffers as they are. *)
LEMMA MultipleFloor ==
    ASSUME NEW n \in Nat, Multiple(n)
    PROVE  (n \div Transfer) * Transfer = n
  BY MultipleMod, ResumeAssumption

(* A stretch of the source is a sequence of offsets, one per byte. *)
LEMMA BytesFacts ==
    ASSUME NEW i \in Nat, NEW j \in Nat, i <= j
    PROVE  /\ Bytes(i, j) \in Seq(Nat)
           /\ Len(Bytes(i, j)) = j - i
           /\ DOMAIN Bytes(i, j) = 1..(j - i)
           /\ \A n \in 1..(j - i) : Bytes(i, j)[n] = i + n - 1
  <1>1. \A n \in 1..(j - i) : i + n - 1 \in Nat
    OBVIOUS
  <1> QED BY <1>1 DEF Bytes

(* Adjacent stretches of the source join to one (an append in place). *)
LEMMA BytesConcat ==
    ASSUME NEW i \in Nat, NEW j \in Nat, NEW k \in Nat, i <= j, j <= k
    PROVE  Bytes(i, j) \o Bytes(j, k) = Bytes(i, k)
  <1> DEFINE s == Bytes(i, j)
             t == Bytes(j, k)
             u == Bytes(i, k)
  <1>1. /\ s \in Seq(Nat) /\ Len(s) = j - i
        /\ \A n \in 1..(j - i) : s[n] = i + n - 1
    BY BytesFacts
  <1>2. /\ t \in Seq(Nat) /\ Len(t) = k - j
        /\ \A n \in 1..(k - j) : t[n] = j + n - 1
    BY BytesFacts
  <1>3. /\ u \in Seq(Nat) /\ Len(u) = k - i
        /\ \A n \in 1..(k - i) : u[n] = i + n - 1
    BY BytesFacts
  <1> HIDE DEF s, t, u
  <1>4. /\ s \o t \in Seq(Nat)
        /\ Len(s \o t) = Len(s) + Len(t)
        /\ \A n \in 1..(Len(s) + Len(t)) :
              (s \o t)[n] = IF n <= Len(s) THEN s[n] ELSE t[n - Len(s)]
    BY <1>1, <1>2, ConcatProperties
  <1>5. Len(s \o t) = Len(u)
    BY <1>1, <1>2, <1>3, <1>4
  <1>6. ASSUME NEW n \in 1..Len(s \o t) PROVE (s \o t)[n] = u[n]
    <2>1. CASE n <= Len(s)
      BY <2>1, <1>1, <1>2, <1>3, <1>4
    <2>2. CASE n > Len(s)
      <3>1. n - Len(s) \in 1..(k - j)
        BY <2>2, <1>1, <1>2, <1>4
      <3>2. t[n - Len(s)] = j + (n - Len(s)) - 1
        BY <3>1, <1>2
      <3> QED BY <2>2, <3>2, <1>1, <1>2, <1>3, <1>4
    <2> QED BY <2>1, <2>2, <1>1
  <1>7. s \o t = u
    BY <1>3, <1>4, <1>5, <1>6, SeqEqual
  <1> QED BY <1>7 DEF s, t, u

(* What the kernel takes of a buffered stretch is the stretch's beginning. *)
LEMMA BytesPrefix ==
    ASSUME NEW i \in Nat, NEW j \in Nat, i <= j, NEW n \in 0..(j - i)
    PROVE  SubSeq(Bytes(i, j), 1, n) = Bytes(i, i + n)
  <1> DEFINE s == Bytes(i, j)
             u == Bytes(i, i + n)
             r == SubSeq(s, 1, n)
  <1>1. s \in Seq(Nat) /\ \A m \in 1..(j - i) : s[m] = i + m - 1
    BY BytesFacts
  <1>2. /\ u \in Seq(Nat) /\ Len(u) = n
        /\ \A m \in 1..n : u[m] = i + m - 1
    BY BytesFacts
  <1>3. \A m \in 1..n : s[m] \in Nat
    BY <1>1
  <1> HIDE DEF s, u
  <1>4. /\ r \in Seq(Nat)
        /\ Len(r) = IF 1 <= n THEN n - 1 + 1 ELSE 0
        /\ \A m \in 1..(n - 1 + 1) : r[m] = s[1 + m - 1]
    BY <1>3, SubSeqProperties
  <1> HIDE DEF r
  <1>5. Len(r) = Len(u) /\ \A m \in 1..Len(r) : r[m] = u[m]
    BY <1>1, <1>2, <1>4
  <1>6. r = u
    BY <1>2, <1>4, <1>5, SeqEqual
  <1> QED BY <1>6 DEF r, s, u

(* A stretch without bytes is the empty sequence. *)
LEMMA BytesEmpty ==
    ASSUME NEW i \in Nat
    PROVE  Bytes(i, i) = <<>>
  BY BytesFacts, EmptySeq

-----------------------------------------------------------------------------
(* The types, and in which phases there is a partial file or a buffer.     *)
RType ==
    /\ TypeOK
    /\ phase # "writing" => buffered = <<>>
    /\ phase \in {"writing", "verify", "rename"} => partial # NoFile

(* As long as no short chunk is written, what is on disk is a prefix of    *)
(* the source, and the buffer holds the bytes from there to the position.  *)
Sequential ==
    LET n == Len(OnDisk)
    IN  /\ n <= size /\ n % Transfer = 0
        /\ OnDisk = Bytes(0, n)
        /\ position <= size
        /\ phase = "ready" => position = n
        /\ phase = "writing" => /\ n <= position
                                /\ position % Transfer = 0
                                /\ buffered = Bytes(n, position)
        /\ phase \in {"verify", "rename"} => n = size /\ position = size
        /\ phase # "restart" /\ ~doomed

(* The inductive invariant. *)
RInv ==
    /\ RType
    /\ Whole => Sequential
    /\ signed /\ phase = "rename" => partial = Source
    /\ FinalRight

(* What is on disk is a sequence of bytes, be it empty. *)
LEMMA OnDiskType ==
    ASSUME TypeOK
    PROVE  OnDisk \in Seq(Nat) /\ OnDisk # NoFile /\ Len(OnDisk) \in Nat
  <1>1. NoFile \notin Seq(Nat)
    BY ResumeAssumption
  <1>2. <<>> \in Seq(Nat)
    BY EmptySeq
  <1>3. OnDisk \in Seq(Nat)
    BY <1>2 DEF TypeOK, OnDisk
  <1>4. Len(OnDisk) \in Nat
    BY <1>3, LenProperties
  <1> QED BY <1>1, <1>3, <1>4

(* A run starts at a position in the file. *)
LEMMA StartIndexType ==
    ASSUME TypeOK
    PROVE  StartIndex \in Nat
  <1>1. Len(OnDisk) \div Transfer \in Nat
    BY OnDiskType, ResumeAssumption
  <1> QED BY <1>1, ResumeAssumption DEF StartIndex

(* The next chunk reaches past the position, and not past the size. *)
LEMMA ChunkType ==
    ASSUME TypeOK, position < size,
           NEW end, end = IF size - position < Transfer THEN size ELSE position + Transfer
    PROVE  end \in Nat /\ position < end /\ end <= size /\ Bytes(position, end) \in Seq(Nat)
  <1>1. size \in Nat /\ position \in Nat /\ Transfer \in Nat /\ Transfer > 0
    BY ResumeAssumption DEF TypeOK
  <1>2. end \in Nat /\ position < end /\ end <= size
    BY <1>1
  <1> QED BY <1>1, <1>2, BytesFacts

(* Types hold at first. *)
LEMMA RTypeInit == Init => RType
  <1> SUFFICES ASSUME Init PROVE RType
    OBVIOUS
  <1>1. buffered \in Seq(Nat) /\ partial = NoFile /\ final = NoFile
    BY EmptySeq DEF Init
  <1>2. /\ size \in Sizes /\ signed \in BOOLEAN /\ phase = "down" /\ buffered = <<>>
        /\ start \in Nat /\ doomed \in BOOLEAN /\ position \in Nat
    BY DEF Init
  <1>3. runs \in 0..MaxRuns
    BY ResumeAssumption DEF Init
  <1> QED BY <1>1, <1>2, <1>3 DEF RType, TypeOK

(* Every step keeps the types. *)
LEMMA RTypeStep ==
    ASSUME RType, [Next]_vars
    PROVE  RType'
  <1> USE DEF RType, TypeOK, details, retry
  <1>1. CASE Run
    BY <1>1, StartIndexType, ResumeAssumption DEF Run
  <1>2. CASE Open
    BY <1>2, OnDiskType DEF Open
  <1>3. CASE WriteData
    <2> DEFINE end == IF size - position < Transfer THEN size ELSE position + Transfer
               chunk == Bytes(position, end)
    <2>1. position < size
      BY <1>3 DEF WriteData
    <2>2. end \in Nat /\ chunk \in Seq(Nat)
      BY <2>1, ChunkType
    <2>3. /\ phase = "writing" /\ phase' = phase
          /\ position' = end
          /\ \/ partial' = partial \o buffered /\ buffered' = chunk
             \/ buffered' = buffered \o chunk /\ partial' = partial
          /\ UNCHANGED <<size, signed, final, start, doomed, runs>>
      BY <1>3 DEF WriteData
    <2> HIDE DEF end, chunk
    <2>4. partial \in Seq(Nat) /\ buffered \in Seq(Nat)
      BY <2>3
    <2>5. partial \o buffered \in Seq(Nat) /\ buffered \o chunk \in Seq(Nat)
      BY <2>2, <2>4, ConcatProperties
    <2> QED BY <2>2, <2>3, <2>4, <2>5, ResumeAssumption
  <1>4. CASE Flush
    <2>1. partial \in Seq(Nat) /\ partial \o buffered \in Seq(Nat)
      BY <1>4, ConcatProperties DEF Flush
    <2> QED BY <1>4, <2>1, EmptySeq, ResumeAssumption DEF Flush
  <1>5. CASE Verified
    BY <1>5 DEF Verified
  <1>6. CASE Refuted
    BY <1>6 DEF Refuted
  <1>7. CASE Rename
    BY <1>7 DEF Rename
  <1>8. ASSUME NEW taken \in 0..Buffer, Stop(taken) PROVE RType'
    <2>1. taken = 0 \/ phase = "writing"
      BY <1>8, EmptySeq, ResumeAssumption DEF Stop
    <2>2. CASE taken = 0
      BY <1>8, <2>2, EmptySeq DEF Stop
    <2>3. CASE taken # 0
      <3>1. partial \in Seq(Nat) /\ buffered \in Seq(Nat)
        BY <2>1, <2>3
      <3>2. \A m \in 1..taken : buffered[m] \in Nat
        BY <1>8, <3>1, ResumeAssumption DEF Stop
      <3>3. SubSeq(buffered, 1, taken) \in Seq(Nat)
        BY <3>2, SubSeqProperties, ResumeAssumption
      <3>4. partial \o SubSeq(buffered, 1, taken) \in Seq(Nat)
        BY <3>1, <3>3, ConcatProperties
      <3> QED BY <1>8, <2>3, <3>4, EmptySeq DEF Stop
    <2> QED BY <2>2, <2>3
  <1>9. CASE Restart
    BY <1>9 DEF Restart
  <1>10. CASE RemoveRefuted
    BY <1>10, EmptySeq DEF RemoveRefuted
  <1>11. CASE UNCHANGED vars
    BY <1>11 DEF vars
  <1> QED BY <1>1, <1>2, <1>3, <1>4, <1>5, <1>6, <1>7, <1>8, <1>9, <1>10, <1>11
          DEF Next, Progress

(* Every reachable state is well typed: TypeOK of Resume. *)
THEOREM TypeCorrect == Spec => []TypeOK
  <1>1. Init => RType
    BY RTypeInit
  <1>2. RType /\ [Next]_vars => RType'
    BY RTypeStep
  <1>3. RType => TypeOK
    BY DEF RType
  <1> QED BY <1>1, <1>2, <1>3, PTL DEF Spec

-----------------------------------------------------------------------------
(* Sequential in the words the prover handles best. *)
InOrder(n) ==
    /\ n \in Nat /\ n <= size /\ Multiple(n)
    /\ OnDisk = Bytes(0, n)
    /\ position <= size
    /\ phase = "ready" => position = n
    /\ phase = "writing" => /\ n <= position
                            /\ Multiple(position)
                            /\ buffered = Bytes(n, position)
    /\ phase \in {"verify", "rename"} => n = size /\ position = size
    /\ phase # "restart" /\ ~doomed

Ordered == \E n \in Nat : InOrder(n)

(* The two say the same. *)
LEMMA SequentialInOrder == TypeOK => (Sequential <=> Ordered)
  <1> SUFFICES ASSUME TypeOK PROVE Sequential <=> Ordered
    OBVIOUS
  <1>0. position \in Nat /\ size \in Nat
    BY ResumeAssumption DEF TypeOK
  <1>1. ASSUME Sequential PROVE InOrder(Len(OnDisk))
    <2>1. Len(OnDisk) \in Nat
      BY OnDiskType
    <2> QED BY <1>0, <1>1, <2>1, MultipleMod DEF Sequential, InOrder
  <1>2. ASSUME NEW n \in Nat, InOrder(n) PROVE Sequential
    <2>1. Len(OnDisk) = n
      BY <1>2, BytesFacts DEF InOrder
    <2> QED BY <1>0, <1>2, <2>1, MultipleMod DEF Sequential, InOrder
  <1>3. Len(OnDisk) \in Nat
    BY OnDiskType
  <1> QED BY <1>1, <1>2, <1>3 DEF Ordered

(* Zero bytes are whole transfer buffers. *)
LEMMA MultipleZero == Multiple(0)
  BY ResumeAssumption DEF Multiple

(* A run starts where the bytes on disk end, and appends from there. *)
LEMMA InOrderStart ==
    ASSUME RType, NEW n \in Nat, InOrder(n), Run \/ Open
    PROVE  InOrder(n)'
  <1>0. Len(OnDisk) = n
    BY BytesFacts DEF InOrder
  <1>1. CASE Run
    <2>1. StartIndex = n
      BY <1>0, MultipleFloor DEF InOrder, StartIndex
    <2>2. OnDisk' = OnDisk
      BY <1>1 DEF Run, OnDisk
    <2> QED BY <1>1, <2>1, <2>2 DEF InOrder, Run, details, retry
  <1>2. CASE Open
    <2>1. OnDisk' = OnDisk
      BY <1>2 DEF Open, OnDisk
    <2>2. buffered = Bytes(n, n)
      BY <1>2, BytesEmpty DEF RType, Open
    <2> QED BY <1>2, <2>1, <2>2 DEF InOrder, Open, details, retry
  <1> QED BY <1>1, <1>2

(* The next chunk goes to the end of the buffer, or after it is written.   *)
LEMMA InOrderWriteData ==
    ASSUME RType, Whole, NEW n \in Nat, InOrder(n), WriteData
    PROVE  \E k \in Nat : InOrder(k)'
  <1> DEFINE end == IF size - position < Transfer THEN size ELSE position + Transfer
             chunk == Bytes(position, end)
  <1>1. /\ size \in Nat /\ position \in Nat /\ position < size
        /\ phase = "writing" /\ OnDisk = partial
    BY ResumeAssumption DEF RType, TypeOK, WriteData, OnDisk
  <1>2. end \in Nat /\ position < end /\ end <= size
    BY <1>1, ChunkType DEF RType
  <1>3. /\ position' = end
        /\ \/ partial' = partial \o buffered /\ buffered' = chunk
           \/ buffered' = buffered \o chunk /\ partial' = partial
        /\ phase' = "writing" /\ size' = size /\ doomed' = doomed
    BY <1>1 DEF WriteData, details, retry
  <1>4. Multiple(end)
    <2>1. Multiple(size) /\ Multiple(position)
      BY <1>1, MultipleMod DEF Whole, InOrder
    <2>2. Multiple(Transfer) /\ Transfer \in Nat
      BY ResumeAssumption DEF Multiple
    <2>3. Multiple(position + Transfer)
      BY <1>1, <2>1, <2>2, MultipleSum
    <2> QED BY <2>1, <2>3
  <1> HIDE DEF end
  <1>5. CASE partial' = partial \o buffered /\ buffered' = chunk
    <2>1. partial' = Bytes(0, position)
      <3>1. partial = Bytes(0, n) /\ buffered = Bytes(n, position) /\ n <= position
        BY <1>1 DEF InOrder
      <3>2. 0 \in Nat /\ 0 <= n
        OBVIOUS
      <3>3. Bytes(0, n) \o Bytes(n, position) = Bytes(0, position)
        BY <1>1, <3>1, <3>2, BytesConcat
      <3> QED BY <1>5, <3>1, <3>3
    <2>2. OnDisk' = Bytes(0, position)
      <3>1. Bytes(0, position) \in Seq(Nat)
        BY <1>1, BytesFacts
      <3> QED BY <2>1, <3>1, ResumeAssumption DEF OnDisk
    <2>3. PICK k \in Nat : k = position
      BY <1>1
    <2>4. k <= size /\ Multiple(k) /\ k <= end /\ buffered' = Bytes(k, end)
      BY <1>1, <1>2, <1>5, <2>3 DEF InOrder
    <2>5. InOrder(k)'
      BY <1>2, <1>3, <1>4, <2>2, <2>3, <2>4 DEF InOrder
    <2> QED BY <2>5
  <1>6. CASE buffered' = buffered \o chunk /\ partial' = partial
    <2>1. buffered' = Bytes(n, end)
      <3>1. buffered = Bytes(n, position) /\ n <= position
        BY <1>1 DEF InOrder
      <3>2. n \in Nat /\ position \in Nat /\ end \in Nat /\ position <= end
        BY <1>1, <1>2
      <3> HIDE DEF chunk
      <3>3. Bytes(n, position) \o Bytes(position, end) = Bytes(n, end)
        BY <3>1, <3>2, BytesConcat
      <3> QED BY <1>6, <3>1, <3>3 DEF chunk
    <2>2. OnDisk' = OnDisk
      BY <1>6 DEF OnDisk
    <2>3. n <= end
      BY <1>1, <1>2 DEF InOrder
    <2> QED BY <1>2, <1>3, <1>4, <2>1, <2>2, <2>3 DEF InOrder
  <1> QED BY <1>3, <1>5, <1>6

(* A flush writes the rest of the source.                                  *)
LEMMA InOrderFlush ==
    ASSUME RType, NEW n \in Nat, InOrder(n), Flush
    PROVE  \E k \in Nat : InOrder(k)'
  <1>1. /\ size \in Nat /\ position = size /\ OnDisk = partial
        /\ partial = Bytes(0, n) /\ buffered = Bytes(n, position) /\ n <= position
        /\ Multiple(position)
    BY ResumeAssumption DEF RType, TypeOK, Flush, OnDisk, InOrder
  <1>2. /\ 0 \in Nat /\ 0 <= n /\ 0 <= size
    BY <1>1
  <1>3. Bytes(0, n) \o Bytes(n, size) = Bytes(0, size)
    BY <1>1, <1>2, BytesConcat
  <1>4. partial' = Bytes(0, size)
    BY <1>1, <1>3 DEF Flush
  <1>5. Bytes(0, size) \in Seq(Nat)
    BY <1>1, <1>2, BytesFacts
  <1>6. OnDisk' = Bytes(0, size)
    BY <1>4, <1>5, ResumeAssumption DEF OnDisk
  <1>7. PICK k \in Nat : k = size
    BY <1>1
  <1>8. InOrder(k)'
    BY <1>1, <1>6, <1>7 DEF InOrder, Flush, details, retry
  <1> QED BY <1>8

(* After the rename nothing is on disk. *)
LEMMA InOrderRenamed ==
    ASSUME RType, NEW n \in Nat, InOrder(n), Rename
    PROVE  InOrder(0)'
  <1>1. OnDisk' = <<>>
    BY DEF OnDisk, Rename
  <1>2. <<>> = Bytes(0, 0)
    BY BytesEmpty
  <1>3. size \in Nat /\ size' = size /\ position' = position /\ position <= size
    BY ResumeAssumption DEF RType, TypeOK, Rename, details, InOrder
  <1>4. phase' = "done" /\ doomed' = doomed
    BY DEF Rename, retry
  <1>5. 0 <= size /\ position' <= size
    BY <1>3
  <1> QED BY <1>1, <1>2, <1>3, <1>4, <1>5, MultipleZero DEF InOrder

(* Verification never fails: nothing is started again, or removed. *)
LEMMA NeverRefuted ==
    ASSUME RType, NEW n \in Nat, InOrder(n)
    PROVE  ~Refuted /\ ~Restart /\ ~RemoveRefuted
  <1>1. ASSUME Refuted PROVE FALSE
    <2>1. phase = "verify" /\ partial # Source /\ OnDisk = partial
      BY <1>1 DEF Refuted, RType, OnDisk
    <2>2. n = size /\ OnDisk = Bytes(0, n)
      BY <2>1 DEF InOrder
    <2> QED BY <2>1, <2>2 DEF Source
  <1> QED BY <1>1 DEF InOrder, Restart, RemoveRefuted

(* A run that is stopped leaves whole chunks of its buffer, in place. *)
LEMMA InOrderStop ==
    ASSUME RType, NEW n \in Nat, InOrder(n), NEW taken \in 0..Buffer, Stop(taken)
    PROVE  \E k \in Nat : InOrder(k)'
  <1>1. /\ size \in Nat /\ position \in Nat /\ taken \in Nat /\ Multiple(taken)
        /\ taken <= Len(buffered) /\ phase' = "down" /\ doomed' = FALSE
        /\ size' = size /\ position' = position
    <2>1. taken \in Nat /\ taken % Transfer = 0
      BY ResumeAssumption DEF Stop
    <2>2. Multiple(taken)
      BY <2>1, MultipleMod
    <2> QED BY <2>1, <2>2, ResumeAssumption DEF RType, TypeOK, Stop, details
  <1>2. CASE taken = 0
    <2>1. OnDisk' = OnDisk
      BY <1>2 DEF Stop, OnDisk
    <2>2. InOrder(n)'
      BY <1>1, <2>1 DEF InOrder
    <2> QED BY <2>2
  <1>3. CASE taken # 0
    <2>1. phase = "writing"
      BY <1>1, <1>3, EmptySeq DEF RType, Stop
    <2>2. /\ partial = Bytes(0, n) /\ buffered = Bytes(n, position) /\ n <= position
          /\ position <= size
      BY <2>1 DEF RType, OnDisk, InOrder
    <2>3. Len(buffered) = position - n
      BY <1>1, <2>2, BytesFacts
    <2>4. taken \in 0..(position - n)
      BY <1>1, <2>2, <2>3
    <2>5. SubSeq(Bytes(n, position), 1, taken) = Bytes(n, n + taken)
      BY <1>1, <2>2, <2>4, BytesPrefix
    <2>6. PICK k \in Nat : k = n + taken
      BY <1>1
    <2>7. 0 \in Nat /\ 0 <= n /\ 0 <= k /\ n <= k /\ k <= size
      BY <1>1, <2>2, <2>4, <2>6
    <2>8. Bytes(0, n) \o Bytes(n, k) = Bytes(0, k) /\ Bytes(0, k) \in Seq(Nat)
      BY <2>7, BytesConcat, BytesFacts
    <2>9. partial' = Bytes(0, k)
      BY <1>3, <2>2, <2>5, <2>6, <2>8 DEF Stop
    <2>10. OnDisk' = Bytes(0, k)
      BY <2>8, <2>9, ResumeAssumption DEF OnDisk
    <2>11. Multiple(k)
      BY <1>1, <2>6, MultipleSum DEF InOrder
    <2>12. InOrder(k)'
      BY <1>1, <2>2, <2>7, <2>10, <2>11 DEF InOrder
    <2> QED BY <2>12
  <1> QED BY <1>2, <1>3

(* Verifying moves on from writing, and changes nothing on disk. *)
LEMMA InOrderVerified ==
    ASSUME NEW n \in Nat, InOrder(n), Verified
    PROVE  InOrder(n)'
  <1>1. OnDisk' = OnDisk
    BY DEF Verified, OnDisk
  <1> QED BY <1>1 DEF InOrder, Verified, details, retry

(* A file of whole transfer buffers is written sequentially. *)
LEMMA SequentialStep ==
    ASSUME RType, Whole, Sequential, [Next]_vars
    PROVE  Sequential'
  <1>1. PICK n \in Nat : InOrder(n)
    BY SequentialInOrder DEF RType, Ordered
  <1>2. TypeOK'
    BY RTypeStep DEF RType
  <1>3. \E k \in Nat : InOrder(k)'
    <2>1. CASE Run \/ Open
      BY <1>1, <2>1, InOrderStart
    <2>2. CASE WriteData
      BY <1>1, <2>2, InOrderWriteData
    <2>3. CASE Flush
      BY <1>1, <2>3, InOrderFlush
    <2>4. CASE Verified
      BY <1>1, <2>4, InOrderVerified
    <2>5. CASE Rename
      BY <1>1, <2>5, InOrderRenamed
    <2>6. ASSUME NEW taken \in 0..Buffer, Stop(taken) PROVE \E k \in Nat : InOrder(k)'
      BY <1>1, <2>6, InOrderStop
    <2>7. CASE UNCHANGED vars
      <3>1. OnDisk' = OnDisk
        BY <2>7 DEF vars, OnDisk
      <3>2. InOrder(n)'
        BY <1>1, <2>7, <3>1 DEF InOrder, vars, details, retry
      <3> QED BY <3>2
    <2>8. ~Refuted /\ ~Restart /\ ~RemoveRefuted
      BY <1>1, NeverRefuted
    <2> QED BY <2>8, <2>1, <2>2, <2>3, <2>4, <2>5, <2>6, <2>7 DEF Next, Progress
  <1>4. Ordered' => Sequential'
    BY <1>2, SequentialInOrder, PTL
  <1>5. Ordered'
    BY <1>3 DEF Ordered
  <1> QED BY <1>4, <1>5

-----------------------------------------------------------------------------
(* The inductive invariant holds at first. *)
LEMMA RInvInit == Init => RInv
  <1> SUFFICES ASSUME Init PROVE RInv
    OBVIOUS
  <1>1. RType
    BY RTypeInit
  <1>2. size \in Nat
    BY ResumeAssumption DEF Init
  <1>3. OnDisk = Bytes(0, 0)
    BY BytesEmpty DEF Init, OnDisk
  <1>4. InOrder(0)
    BY <1>2, <1>3, MultipleZero DEF Init, InOrder
  <1>5. Sequential
    BY <1>1, <1>4, SequentialInOrder DEF RType, Ordered
  <1> QED BY <1>1, <1>5 DEF Init, RInv, FinalRight, FinalIsSource

(* The source stays as it is. *)
LEMMA SourceStays ==
    ASSUME [Next]_vars
    PROVE  size' = size /\ signed' = signed /\ Source' = Source /\ (Whole' <=> Whole)
  <1>1. size' = size /\ signed' = signed
    BY DEF Next, Progress, Run, Open, WriteData, Flush, Verified, Refuted, Restart,
           RemoveRefuted, Rename, Stop, vars, details
  <1> QED BY <1>1 DEF Source, Whole, Bytes

(* A file with a signature is only renamed when it was verified. *)
LEMMA VerifiedStep ==
    ASSUME RInv, [Next]_vars, signed', phase' = "rename"
    PROVE  partial' = Source'
  <1>1. Verified \/ UNCHANGED vars
    BY SourceStays DEF Next, Progress, Run, Open, WriteData, Flush, Refuted, Restart,
                         RemoveRefuted, Rename, Stop
  <1>2. partial' = partial /\ (partial = Source \/ phase = "rename")
    BY <1>1 DEF Verified, vars
  <1> QED BY <1>2, <1>1, SourceStays DEF RInv, vars, Verified

(* What a rename gives the final name is the source. *)
LEMMA RenameStep ==
    ASSUME RInv, Rename, signed \/ Whole
    PROVE  partial = Source
  <1>1. CASE signed
    BY <1>1 DEF RInv, Rename
  <1>2. CASE Whole
    <2>1. Sequential /\ OnDisk = partial
      BY <1>2 DEF RInv, RType, Rename, OnDisk
    <2> QED BY <2>1 DEF Sequential, Rename, Source
  <1> QED BY <1>1, <1>2

(* Every step keeps the inductive invariant. *)
LEMMA RInvStep == RInv /\ [Next]_vars => RInv'
  <1> SUFFICES ASSUME RInv, [Next]_vars PROVE RInv'
    OBVIOUS
  <1>1. RType'
    BY RTypeStep DEF RInv
  <1>2. Whole' => Sequential'
    BY SequentialStep, SourceStays DEF RInv
  <1>3. signed' /\ phase' = "rename" => partial' = Source'
    BY VerifiedStep
  <1>4. FinalRight'
    <2>1. CASE Rename
      BY <2>1, RenameStep, SourceStays DEF Rename, FinalRight, FinalIsSource
    <2>2. CASE ~Rename
      <3>1. final' = final
        BY <2>2 DEF Next, Progress, Run, Open, WriteData, Flush, Verified, Refuted,
                       Restart, RemoveRefuted, Stop, vars
      <3> QED BY <3>1, SourceStays DEF RInv, FinalRight, FinalIsSource
    <2> QED BY <2>1, <2>2
  <1> QED BY <1>1, <1>2, <1>3, <1>4 DEF RInv

(* The inductive invariant holds always. *)
THEOREM ResumeInvariant == Spec => []RInv
  BY RInvInit, RInvStep, PTL DEF Spec

(* A file gets its final name with the contents of the source: always when *)
(* it has a signature, and without one when its size is a whole number of  *)
(* transfer buffers, wherever the runs before were stopped.                *)
THEOREM FinalAlwaysRight == Spec => []FinalRight
  <1>1. RInv => FinalRight
    BY DEF RInv
  <1> QED BY <1>1, ResumeInvariant, PTL

(* Every byte is appended where it belongs. *)
THEOREM WritesInPlace == Spec => []InPlace
  <1>1. RInv => InPlace
    <2> SUFFICES ASSUME RInv, Whole, phase \in {"writing", "verify", "rename"}
                 PROVE  Len(partial) + Len(buffered) = position
      BY DEF InPlace
    <2>1. RType /\ OnDisk = partial /\ position \in Nat
      BY DEF RInv, RType, TypeOK, OnDisk
    <2>2. PICK n \in Nat : InOrder(n)
      BY <2>1, SequentialInOrder DEF RInv, RType, Ordered
    <2>3. Len(partial) = n
      BY <2>1, <2>2, BytesFacts DEF InOrder
    <2>4. CASE phase = "writing"
      <3>1. buffered = Bytes(n, position) /\ n <= position
        BY <2>2, <2>4 DEF InOrder
      <3>2. Len(buffered) = position - n
        BY <2>1, <3>1, BytesFacts
      <3> QED BY <2>1, <2>3, <3>2
    <2>5. CASE phase # "writing"
      <3>1. Len(buffered) = 0 /\ n = position
        BY <2>1, <2>2, <2>5, EmptySeq DEF RType, InOrder
      <3> QED BY <2>1, <2>3, <3>1
    <2> QED BY <2>4, <2>5
  <1> QED BY <1>1, ResumeInvariant, PTL

(* The writer never starts, or gets, behind the end of the file. *)
THEOREM StaysInside == Spec => []StartsInside
  <1>1. RInv => StartsInside
    BY DEF RInv, Sequential, StartsInside
  <1> QED BY <1>1, ResumeInvariant, PTL
=============================================================================
