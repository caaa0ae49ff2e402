-------------------------- MODULE ResumeTreeProofs --------------------------
(***************************************************************************)
(* Proofs about the paths and directories of a transfer, for every set of  *)
(* directories a source may hold, however deep, every set of file names    *)
(* and any number of stopped runs.                                         *)
(*                                                                         *)
(* Three steps: sequences of names (Front of a path below the              *)
(* destination), what a manifest lists (every directory, each after the    *)
(* one it is in: ManifestOrder, Creation), and from that the invariant of  *)
(* the runs, TreeInv.                                                      *)
(***************************************************************************)
EXTENDS ResumeTree, ResumeProofs, FiniteSetTheorems

(* A name; the two that the code writes itself are spelled out, since the  *)
(* provers do not know what a string is.                                   *)
Word == STRING \cup {"dest", "partial"}

Folder == Seq(Word)
Subfolder == Folder \ {<<>>}

Local == LocalPath(file, ToDirectory, dirs)

(* What the run has been given, and what the destination always has. *)
TreeTypes ==
    /\ source \in Sources /\ recursive \in BOOLEAN /\ directory \in BOOLEAN
    /\ file \in Sent
    /\ runs \in Nat
    /\ dirs \subseteq Folder /\ <<>> \in dirs
    /\ todo \in Seq(Subfolder)

(* Each directory that is still to be created comes after the one it is in. *)
Parents ==
    /\ todo # <<>> => ToDirectory
    /\ \A i \in 1..Len(todo) :
          Front(todo[i]) \in dirs \/ \E j \in 1..(i - 1) : todo[j] = Front(todo[i])

(* The path is what it would be now, and its directory is there or to come. *)
Placed ==
    /\ phase # "down" => runs > 0
    /\ runs > 0 => path = Local
    /\ phase # "down" /\ ToDirectory =>
          path.dir \in dirs \/ \E i \in 1..Len(todo) : todo[i] = path.dir

TreeInv == TreeTypes /\ Parents /\ Placed

-----------------------------------------------------------------------------
(* Sequences of names. *)

LEMMA FrontType ==
    ASSUME NEW d \in Folder, d # <<>>
    PROVE  /\ Front(d) \in Folder /\ Len(Front(d)) = Len(d) - 1
           /\ \A i \in 1..(Len(d) - 1) : Front(d)[i] = d[i]
           /\ IsPrefix(Front(d), d)
  <1> DEFINE m == Len(d) - 1
  <1>1. Len(d) \in Nat \ {0} /\ \A i \in 1..Len(d) : d[i] \in Word
    BY EmptySeq, ElementOfSeq DEF Folder
  <1>2. m \in Nat /\ Len(d) = m + 1 /\ 1 \in Int /\ m \in Int
    BY <1>1
  <1>3. Front(d) = SubSeq(d, 1, m)
    BY DEF Front
  <1> HIDE DEF m
  <1>4. \A i \in 1..m : d[i] \in Word
    BY <1>1, <1>2
  <1>5. /\ SubSeq(d, 1, m) \in Seq(Word)
        /\ Len(SubSeq(d, 1, m)) = IF 1 <= m THEN m - 1 + 1 ELSE 0
        /\ \A i \in 1..(m - 1 + 1) : SubSeq(d, 1, m)[i] = d[1 + i - 1]
    BY <1>2, <1>4, SubSeqProperties
  <1>6. Front(d) \in Folder
    BY <1>3, <1>5 DEF Folder
  <1>7. Len(Front(d)) = m
    BY <1>2, <1>3, <1>5
  <1>8. \A i \in 1..m : Front(d)[i] = d[i]
    <2> SUFFICES ASSUME NEW i \in 1..m PROVE Front(d)[i] = d[i]
      OBVIOUS
    <2>1. i \in 1..(m - 1 + 1) /\ 1 + i - 1 = i
      BY <1>2
    <2> QED BY <1>3, <1>5, <2>1
  <1>9. SubSeq(Front(d), 1, Len(Front(d))) = Front(d)
    BY <1>6, SubSeqFull DEF Folder
  <1>10. Len(Front(d)) <= Len(d)
    BY <1>2, <1>7
  <1>11. IsPrefix(Front(d), d)
    BY <1>3, <1>7, <1>9, <1>10 DEF IsPrefix
  <1> QED BY <1>6, <1>7, <1>8, <1>11 DEF m

LEMMA FrontBelow ==
    ASSUME NEW a \in Folder, NEW d \in Folder, d # <<>>
    PROVE  /\ a \o d \in Folder /\ a \o d # <<>>
           /\ Front(a \o d) = a \o Front(d)
  <1> DEFINE ad == a \o d
             af == a \o Front(d)
             k == Len(a)
             n == Len(d)
  <1>1. k \in Nat /\ n \in Nat \ {0}
    BY EmptySeq, LenProperties DEF Folder
  <1>2. /\ ad \in Folder /\ Len(ad) = k + n
        /\ \A i \in 1..(k + n) : ad[i] = IF i <= k THEN a[i] ELSE d[i - k]
    BY ConcatProperties DEF Folder
  <1>3. /\ Front(d) \in Folder /\ Len(Front(d)) = n - 1
        /\ \A i \in 1..(n - 1) : Front(d)[i] = d[i]
    BY FrontType
  <1>4. /\ af \in Folder /\ Len(af) = k + Len(Front(d))
        /\ \A i \in 1..(k + Len(Front(d))) :
              af[i] = IF i <= k THEN a[i] ELSE Front(d)[i - k]
    BY <1>3, ConcatProperties DEF Folder
  <1> HIDE DEF ad, af, k, n
  <1>5. ad # <<>>
    BY <1>1, <1>2, EmptySeq
  <1>6. /\ Front(ad) \in Folder /\ Len(Front(ad)) = Len(ad) - 1
        /\ \A i \in 1..(Len(ad) - 1) : Front(ad)[i] = ad[i]
    BY <1>2, <1>5, FrontType
  <1>7. Len(Front(ad)) = k + n - 1 /\ Len(af) = k + n - 1
    BY <1>1, <1>2, <1>3, <1>4, <1>6
  <1>8. \A i \in 1..(k + n - 1) : Front(ad)[i] = af[i]
    <2> SUFFICES ASSUME NEW i \in 1..(k + n - 1) PROVE Front(ad)[i] = af[i]
      OBVIOUS
    <2>1. i \in 1..(k + n) /\ i \in 1..(Len(ad) - 1) /\ i \in 1..(k + Len(Front(d)))
      BY <1>1, <1>2, <1>3
    <2>2. CASE i <= k
      BY <1>2, <1>4, <1>6, <2>1, <2>2
    <2>3. CASE ~(i <= k)
      <3>1. i - k \in 1..(n - 1)
        BY <1>1, <2>3
      <3> QED BY <1>2, <1>3, <1>4, <1>6, <2>1, <2>3, <3>1
    <2> QED BY <2>2, <2>3
  <1>9. Front(ad) = af
    BY <1>4, <1>6, <1>7, <1>8, SeqEqual DEF Folder
  <1> QED BY <1>2, <1>5, <1>9 DEF ad, af

LEMMA OneElement ==
    ASSUME NEW S, NEW e \in S
    PROVE  <<e>> \in Seq(S) /\ Len(<<e>>) = 1 /\ <<e>>[1] = e
  OBVIOUS

LEMMA Prepended ==
    ASSUME NEW S, NEW e \in S, NEW q \in Seq(S)
    PROVE  /\ <<e>> \o q \in Seq(S)
           /\ Len(<<e>> \o q) = Len(q) + 1
           /\ (<<e>> \o q)[1] = e
           /\ \A i \in 1..Len(q) : (<<e>> \o q)[i + 1] = q[i]
  <1> DEFINE p == <<e>>
             r == p \o q
             n == Len(q)
  <1>1. p \in Seq(S) /\ Len(p) = 1 /\ p[1] = e
    BY OneElement
  <1>2. n \in Nat
    BY LenProperties
  <1> HIDE DEF p
  <1>3. /\ r \in Seq(S) /\ Len(r) = Len(p) + n
        /\ \A i \in 1..(Len(p) + n) : r[i] = IF i <= Len(p) THEN p[i] ELSE q[i - Len(p)]
    BY <1>1, ConcatProperties
  <1> HIDE DEF r, n
  <1>4. Len(r) = n + 1 /\ \A i \in 1..(n + 1) : r[i] = IF i <= 1 THEN p[i] ELSE q[i - 1]
    BY <1>1, <1>2, <1>3
  <1>5. r[1] = e
    <2>1. 1 \in 1..(n + 1) /\ 1 <= 1
      BY <1>2
    <2> QED BY <1>1, <1>4, <2>1
  <1>6. \A i \in 1..n : r[i + 1] = q[i]
    <2> SUFFICES ASSUME NEW i \in 1..n PROVE r[i + 1] = q[i]
      OBVIOUS
    <2>1. i + 1 \in 1..(n + 1) /\ ~(i + 1 <= 1) /\ (i + 1) - 1 = i
      BY <1>2
    <2> QED BY <1>4, <2>1
  <1> QED BY <1>3, <1>4, <1>5, <1>6 DEF p, r, n

LEMMA DestinationFolder ==
    /\ Destination \in Folder /\ Destination # <<>> /\ Front(Destination) = <<>>
    /\ Destination \o <<>> = Destination
  <1>1. Destination \in Folder /\ Len(Destination) = 1
    <2>1. "dest" \in Word
      BY DEF Word
    <2> QED BY <2>1, OneElement DEF Destination, Folder
  <1> HIDE DEF Destination
  <1>2. Destination # <<>>
    BY <1>1, EmptySeq
  <1>3. Front(Destination) \in Folder /\ Len(Front(Destination)) = 0
    <2>1. Front(Destination) \in Folder /\ Len(Front(Destination)) = Len(Destination) - 1
      BY <1>1, <1>2, FrontType
    <2> QED BY <1>1, <2>1
  <1>4. Front(Destination) = <<>>
    BY <1>3, EmptySeq DEF Folder
  <1>5. Destination \o <<>> = Destination
    BY <1>1, ConcatEmptySeq DEF Folder
  <1> QED BY <1>1, <1>2, <1>4, <1>5

-----------------------------------------------------------------------------
(* What a manifest lists. *)

(* A source has directories with the directories they are in, and files in *)
(* these directories.                                                      *)
LEMMA SourceShape ==
    ASSUME NEW s \in Sources
    PROVE  /\ s.dirs \in Closed
           /\ IsFiniteSet(s.files)
           /\ \A f \in s.files :
                 /\ f = [dir |-> f.dir, name |-> f.name]
                 /\ f.name \in Names
                 /\ f.dir \in s.dirs \cup {<<>>}
  <1> DEFINE Places(D) == [dir : D \cup {<<>>}, name : Names]
  <1>1. {} \in Closed
    BY DEF Closed
  <1>2. \A f, g : IsFiniteSet({f, g}) /\ IsFiniteSet({f})
    <2>1. \A f : IsFiniteSet({f})
      BY FS_Singleton
    <2>2. ASSUME NEW f, NEW g PROVE IsFiniteSet({f, g})
      <3>1. {f, g} = {f} \cup {g}
        OBVIOUS
      <3>2. IsFiniteSet({f})
        BY <2>1
      <3>3. IsFiniteSet({f} \cup {g})
        BY <3>2, FS_AddElement
      <3> QED BY <3>1, <3>3
    <2> QED BY <2>1, <2>2
  <1>3. CASE \E n \in Names : s = [dirs |-> {}, files |-> {[dir |-> <<>>, name |-> n]}]
    <2>1. PICK n \in Names : s = [dirs |-> {}, files |-> {[dir |-> <<>>, name |-> n]}]
      BY <1>3
    <2> DEFINE e == [dir |-> <<>>, name |-> n]
    <2>2. s.dirs = {} /\ s.files = {e} /\ IsFiniteSet({e})
      BY <1>2, <2>1
    <2>3. e = [dir |-> e.dir, name |-> e.name] /\ e.name \in Names /\ e.dir \in {<<>>}
      OBVIOUS
    <2> HIDE DEF e
    <2> QED BY <1>1, <2>2, <2>3
  <1>4. CASE \E D \in Closed : \E f \in Places(D), g \in Places(D) :
                s = [dirs |-> D, files |-> {f, g}]
    <2>0. PICK D \in Closed : \E f \in Places(D), g \in Places(D) :
             s = [dirs |-> D, files |-> {f, g}]
      BY <1>4
    <2>1. PICK f \in Places(D), g \in Places(D) : s = [dirs |-> D, files |-> {f, g}]
      BY <2>0
    <2>2. s.dirs = D /\ s.files = {f, g}
      BY <2>1
    <2>3. \A e \in {f, g} : /\ e = [dir |-> e.dir, name |-> e.name]
                            /\ e.name \in Names /\ e.dir \in D \cup {<<>>}
      OBVIOUS
    <2>4. IsFiniteSet(s.files)
      BY <1>2, <2>2
    <2> HIDE DEF Places
    <2> QED BY <2>2, <2>3, <2>4
  <1>5. \/ \E n \in Names : s = [dirs |-> {}, files |-> {[dir |-> <<>>, name |-> n]}]
        \/ \E D \in Closed : \E f \in Places(D), g \in Places(D) :
              s = [dirs |-> D, files |-> {f, g}]
    BY DEF Sources
  <1> QED BY <1>3, <1>4, <1>5

LEMMA SubfolderIs ==
    ASSUME NEW d \in Subfolder
    PROVE  d \in Folder /\ d # <<>> /\ Len(d) \in Nat \ {0}
  BY EmptySeq DEF Subfolder, Folder

LEMMA ClosedFolders ==
    ASSUME NEW D \in Closed
    PROVE  /\ IsFiniteSet(D) /\ D \subseteq Subfolder
           /\ \A d \in D : Len(d) > 1 => Front(d) \in D
  <1>1. D \subseteq Dirs
    BY DEF Closed
  <1>2. IsFiniteSet(D)
    BY <1>1, FS_Subset, LayoutAssumption DEF LayoutAssumption
  <1>3. Dirs \subseteq Subfolder
    BY SeqMonotonic, LayoutAssumption DEF LayoutAssumption, Subfolder, Folder, Word
  <1> QED BY <1>1, <1>2, <1>3 DEF Closed

(* Each directory is in the manifest, once, and after the one it is in.    *)
LEMMA ManifestOrder ==
    ASSUME NEW s \in Sources, NEW deep \in BOOLEAN, NEW order \in ManifestDirs(s, deep)
    PROVE  /\ order \in Seq(Subfolder)
           /\ \A d \in (IF deep THEN s.dirs ELSE {}) : \E i \in 1..Len(order) : order[i] = d
           /\ \A i \in 1..Len(order) :
                 Len(order[i]) > 1 => \E j \in 1..(i - 1) : order[j] = Front(order[i])
  <1> DEFINE found == IF deep THEN s.dirs ELSE {}
             n == Cardinality(found)
  <1>1. found \in Closed
    BY SourceShape DEF Closed
  <1>2. /\ IsFiniteSet(found) /\ found \subseteq Subfolder
        /\ \A d \in found : Len(d) > 1 => Front(d) \in found
    BY <1>1, ClosedFolders
  <1>3. /\ order \in [1..n -> found]
        /\ \A i, j \in 1..n : i # j => order[i] # order[j]
        /\ \A i, j \in DOMAIN order : i < j => ~IsPrefix(order[j], order[i])
    BY DEF ManifestDirs, SetToSeqs
  <1> HIDE DEF found
  <1>4. n \in Nat
    BY <1>2, FS_CardinalityType
  <1>5. order \in Seq(found) /\ Len(order) = n
    BY <1>3, <1>4
  <1>6. order \in Seq(Subfolder)
    BY <1>2, <1>5, SeqMonotonic
  <1>7. order \in Surjection(1..n, found)
    <2>1. order \in Injection(1..n, found)
      BY <1>3 DEF Injection, IsInjective
    <2>2. Cardinality(1..n) = n
      BY <1>4, FS_Interval
    <2> QED BY <1>2, <2>1, <2>2, FS_Injection
  <1>8. \A d \in found : \E i \in 1..n : order[i] = d
    BY <1>7 DEF Surjection
  <1>9. ASSUME NEW i \in 1..n, Len(order[i]) > 1
        PROVE  \E j \in 1..(i - 1) : order[j] = Front(order[i])
    <2>1. order[i] \in found /\ order[i] \in Folder /\ order[i] # <<>>
      BY <1>2, <1>3, SubfolderIs
    <2>2. Front(order[i]) \in found
      BY <1>2, <1>9, <2>1
    <2>3. PICK j \in 1..n : order[j] = Front(order[i])
      BY <1>8, <2>2
    <2>4. IsPrefix(order[j], order[i])
      BY <2>1, <2>3, FrontType
    <2>5. j # i
      <3>1. Len(Front(order[i])) = Len(order[i]) - 1 /\ Len(order[i]) \in Nat
        BY <2>1, FrontType, LenProperties DEF Folder
      <3> QED BY <2>3, <3>1
    <2>6. ~(i < j)
      BY <1>3, <2>4
    <2> QED BY <1>4, <2>3, <2>5, <2>6
  <1> QED BY <1>5, <1>6, <1>8, <1>9 DEF found

(* The directories of a manifest below the destination, as they are to be  *)
(* created.                                                                *)
LEMMA CreationList ==
    ASSUME NEW order \in Seq(Subfolder)
    PROVE  /\ DirsToCreate(TRUE, order) \in Seq(Subfolder)
           /\ Len(DirsToCreate(TRUE, order)) = Len(order) + 1
           /\ DirsToCreate(TRUE, order)[1] = Destination
           /\ \A i \in 1..Len(order) :
                 DirsToCreate(TRUE, order)[i + 1] = Destination \o order[i]
  <1> DEFINE n == Len(order)
             below == [i \in 1..n |-> Destination \o order[i]]
  <1>1. n \in Nat /\ DOMAIN order = 1..n
    BY LenProperties
  <1>2. \A i \in 1..n : order[i] \in Folder /\ order[i] # <<>>
    BY ElementOfSeq, SubfolderIs
  <1>3. Destination \in Folder /\ Destination \in Subfolder
    BY DestinationFolder DEF Subfolder
  <1>4. DirsToCreate(TRUE, order) = <<Destination>> \o below
    BY <1>1 DEF DirsToCreate
  <1> HIDE DEF n
  <1>5. \A i \in 1..n : Destination \o order[i] \in Subfolder
    BY <1>2, <1>3, FrontBelow DEF Subfolder
  <1>6. below \in [1..n -> Subfolder] /\ \A i \in 1..n : below[i] = Destination \o order[i]
    BY <1>5
  <1> HIDE DEF below
  <1>7. below \in Seq(Subfolder) /\ Len(below) = n
    BY <1>1, <1>6
  <1>8. /\ <<Destination>> \o below \in Seq(Subfolder)
        /\ Len(<<Destination>> \o below) = n + 1
        /\ (<<Destination>> \o below)[1] = Destination
        /\ \A i \in 1..n : (<<Destination>> \o below)[i + 1] = below[i]
    <2>1. /\ <<Destination>> \o below \in Seq(Subfolder)
          /\ Len(<<Destination>> \o below) = Len(below) + 1
          /\ (<<Destination>> \o below)[1] = Destination
          /\ \A i \in 1..Len(below) : (<<Destination>> \o below)[i + 1] = below[i]
      <3> HIDE DEF Destination
      <3> QED BY <1>3, <1>7, Prepended
    <2> QED BY <1>7, <2>1
  <1> QED BY <1>4, <1>6, <1>8 DEF n

(* The receiver can create the directories in this order, and they are     *)
(* those the files of the manifest are in.                                 *)
LEMMA Creation ==
    ASSUME NEW s \in Sources, NEW deep \in BOOLEAN, NEW order \in ManifestDirs(s, deep)
    PROVE  LET todos == DirsToCreate(TRUE, order)
           IN  /\ todos \in Seq(Subfolder)
               /\ \A i \in 1..Len(todos) :
                     \/ Front(todos[i]) = <<>>
                     \/ \E j \in 1..(i - 1) : todos[j] = Front(todos[i])
               /\ \A f \in ManifestFiles(s, deep) :
                     \E i \in 1..Len(todos) : todos[i] = Destination \o f.dir
  <1> DEFINE todos == DirsToCreate(TRUE, order)
             n == Len(order)
             found == IF deep THEN s.dirs ELSE {}
  <1>1. /\ order \in Seq(Subfolder) /\ n \in Nat
        /\ \A d \in found : \E i \in 1..n : order[i] = d
        /\ \A i \in 1..n :
              Len(order[i]) > 1 => \E j \in 1..(i - 1) : order[j] = Front(order[i])
    BY ManifestOrder, LenProperties
  <1>2. /\ todos \in Seq(Subfolder) /\ Len(todos) = n + 1
        /\ todos[1] = Destination
        /\ \A i \in 1..n : todos[i + 1] = Destination \o order[i]
    BY <1>1, CreationList
  <1>3. \A i \in 1..n : order[i] \in Folder /\ order[i] # <<>> /\ Len(order[i]) \in Nat \ {0}
    BY <1>1, ElementOfSeq, SubfolderIs
  <1> HIDE DEF todos, n, found
  <1>4. \A i \in 1..n : Front(todos[i + 1]) = Destination \o Front(order[i])
    <2> SUFFICES ASSUME NEW i \in 1..n
                 PROVE  Front(todos[i + 1]) = Destination \o Front(order[i])
      OBVIOUS
    <2>1. order[i] \in Folder /\ order[i] # <<>>
      BY <1>3
    <2>2. Front(Destination \o order[i]) = Destination \o Front(order[i])
      BY <2>1, FrontBelow, DestinationFolder
    <2> QED BY <1>2, <2>2
  <1>5. ASSUME NEW i \in 1..(n + 1)
        PROVE  \/ Front(todos[i]) = <<>>
               \/ \E j \in 1..(i - 1) : todos[j] = Front(todos[i])
    <2>1. CASE i = 1
      BY <1>2, <2>1, DestinationFolder
    <2>2. CASE i # 1
      <3> DEFINE k == i - 1
      <3>1. k \in 1..n /\ i = k + 1
        BY <1>1, <2>2
      <3> HIDE DEF k
      <3>2. CASE Len(order[k]) > 1
        <4>1. PICK j \in 1..(k - 1) : order[j] = Front(order[k])
          BY <1>1, <3>1, <3>2
        <4>2. j + 1 \in 1..(i - 1) /\ j \in 1..n
          BY <1>1, <3>1
        <4>3. todos[j + 1] = Front(todos[i])
          BY <1>2, <1>4, <3>1, <4>1, <4>2
        <4> QED BY <4>2, <4>3
      <3>3. CASE ~(Len(order[k]) > 1)
        <4>1. Len(Front(order[k])) = Len(order[k]) - 1 /\ Front(order[k]) \in Folder
          BY <1>3, <3>1, FrontType
        <4>2. Len(order[k]) = 1
          <5> DEFINE l == Len(order[k])
          <5>1. l \in Nat \ {0} /\ ~(l > 1)
            BY <1>3, <3>1, <3>3
          <5> HIDE DEF l
          <5>2. l = 1
            BY <5>1
          <5> QED BY <5>2 DEF l
        <4>3. Len(Front(order[k])) = 0
          BY <4>1, <4>2
        <4>4. Front(order[k]) = <<>>
          BY <4>1, <4>3, EmptySeq DEF Folder
        <4>5. Front(todos[i]) = todos[1]
          BY <1>2, <1>4, <3>1, <4>4, DestinationFolder
        <4>6. 1 \in 1..(i - 1)
          BY <1>1, <3>1
        <4> QED BY <4>5, <4>6
      <3> QED BY <3>2, <3>3
    <2> QED BY <2>1, <2>2
  <1>6. ASSUME NEW f \in ManifestFiles(s, deep)
        PROVE  \E i \in 1..(n + 1) : todos[i] = Destination \o f.dir
    <2>1. f.dir = <<>> \/ f.dir \in found
      BY SourceShape DEF ManifestFiles, found
    <2>2. CASE f.dir = <<>>
      <3>1. todos[1] = Destination \o f.dir
        BY <1>2, <2>2, DestinationFolder
      <3>2. 1 \in 1..(n + 1)
        BY <1>1
      <3> QED BY <3>1, <3>2
    <2>3. CASE f.dir \in found
      <3>1. PICK i \in 1..n : order[i] = f.dir
        BY <1>1, <2>3
      <3>2. todos[i + 1] = Destination \o f.dir
        BY <1>2, <3>1
      <3>3. i + 1 \in 1..(n + 1)
        BY <1>1
      <3> QED BY <3>2, <3>3
    <2> QED BY <2>1, <2>2, <2>3
  <1> QED BY <1>2, <1>5, <1>6 DEF todos

-----------------------------------------------------------------------------
(* The runs. *)

LEMMA SentFolders ==
    ASSUME NEW s \in Sources, NEW deep \in BOOLEAN
    PROVE  /\ IsFiniteSet(ManifestFiles(s, deep))
           /\ \A f \in ManifestFiles(s, deep) :
                 /\ f = [dir |-> f.dir, name |-> f.name]
                 /\ f.dir \in Folder /\ f.name \in Names
  <1>1. ManifestFiles(s, deep) \subseteq s.files
    BY DEF ManifestFiles
  <1>2. IsFiniteSet(ManifestFiles(s, deep))
    BY <1>1, SourceShape, FS_Subset
  <1>3. s.dirs \subseteq Folder /\ <<>> \in Folder
    BY SourceShape, ClosedFolders, EmptySeq DEF Subfolder, Folder
  <1> QED BY <1>1, <1>2, <1>3, SourceShape

(* LocalPath, case by case. *)
LEMMA LocalPathIs ==
    ASSUME NEW f, f = [dir |-> f.dir, name |-> f.name], NEW is_dir \in BOOLEAN, NEW before
    PROVE  LocalPath(f, is_dir, before) =
              IF is_dir \/ Destination \in before
              THEN [dir |-> Destination \o f.dir, name |-> f.name]
              ELSE [dir |-> <<>>, name |-> [stem |-> "dest", exts |-> <<>>]]
  <1> DEFINE to == Destination \o f.dir
  <1>1. [f EXCEPT !.dir = Destination \o f.dir] = [dir |-> to, name |-> f.name]
    <2> HIDE DEF to
    <2>1. [f EXCEPT !.dir = to] = [dir |-> to, name |-> f.name]
      OBVIOUS
    <2> QED BY <2>1 DEF to
  <1> HIDE DEF to
  <1>2. LocalPath(f, is_dir, before) =
           IF is_dir \/ Destination \in before
           THEN [dir |-> to, name |-> f.name]
           ELSE [dir |-> <<>>, name |-> [stem |-> "dest", exts |-> <<>>]]
    BY <1>1 DEF LocalPath
  <1> QED BY <1>2 DEF to

(* The partial path has one extension more than the path, and the same     *)
(* otherwise.                                                              *)
LEMMA PartialPathIs ==
    ASSUME NEW name \in Names, NEW dir
    PROVE  PartialPath([dir |-> dir, name |-> name]) =
              [dir |-> dir, name |-> [stem |-> name.stem,
                                      exts |-> Append(name.exts, "partial")]]
  <1> DEFINE e == name.exts
             p == [dir |-> dir, name |-> name]
             more == IF e = <<>> THEN <<"partial">> ELSE Front(e) \o <<Last(e), "partial">>
  <1>1. name = [stem |-> name.stem, exts |-> e] /\ e \in Folder
    BY LayoutAssumption, SeqMonotonic DEF LayoutAssumption, Folder, Word
  <1>2. "partial" \in Word
    BY DEF Word
  <1>3. more = Append(e, "partial")
    <2> HIDE DEF e
    <2>1. CASE e = <<>>
      BY <2>1
    <2>2. CASE e # <<>>
      <3>1. Len(e) \in Nat \ {0} /\ e[Len(e)] \in Word
        BY <1>1, <2>2, EmptySeq, ElementOfSeq DEF Folder
      <3>2. /\ Front(e) \in Folder /\ Len(Front(e)) = Len(e) - 1
            /\ \A i \in 1..(Len(e) - 1) : Front(e)[i] = e[i]
        BY <1>1, <2>2, FrontType
      <3>3. <<Last(e), "partial">> \in Folder
        BY <1>2, <3>1 DEF Last, Folder
      <3>4. Front(e) \o <<Last(e), "partial">> = Append(e, "partial")
        BY <1>1, <1>2, <3>1, <3>2, <3>3 DEF Folder, Last
      <3> QED BY <2>2, <3>4
    <2> QED BY <2>1, <2>2
  <1>4. PartialPath(p) = [p EXCEPT !.name = [p.name EXCEPT !.exts = more]]
    BY DEF PartialPath
  <1>5. [name EXCEPT !.exts = more] = [stem |-> name.stem, exts |-> more]
    <2> HIDE DEF more
    <2> QED BY <1>1
  <1> QED BY <1>3, <1>4, <1>5

LEMMA PartialPathKeeps ==
    ASSUME NEW n \in Names, NEW m \in Names, NEW a, NEW b,
           PartialPath([dir |-> a, name |-> n]) = PartialPath([dir |-> b, name |-> m])
    PROVE  a = b /\ n = m
  <1>1. /\ n = [stem |-> n.stem, exts |-> n.exts] /\ n.exts \in Folder
        /\ m = [stem |-> m.stem, exts |-> m.exts] /\ m.exts \in Folder
    BY LayoutAssumption, SeqMonotonic DEF LayoutAssumption, Folder, Word
  <1> DEFINE x == Append(n.exts, "partial")
             y == Append(m.exts, "partial")
  <1>2. [dir |-> a, name |-> [stem |-> n.stem, exts |-> x]]
           = [dir |-> b, name |-> [stem |-> m.stem, exts |-> y]]
    BY PartialPathIs
  <1> HIDE DEF x, y
  <1>3. a = b /\ n.stem = m.stem /\ x = y
    BY <1>2
  <1>4. n.exts = m.exts
    <2>1. "partial" \in Word
      BY DEF Word
    <2> QED BY <1>1, <1>3, <2>1, AppendInjective DEF x, y, Folder
  <1> QED BY <1>1, <1>3, <1>4

LEMMA TreeInit ==
    ASSUME InitTree
    PROVE  TreeInv
  <1>1. dirs \subseteq Folder /\ <<>> \in dirs
    <2>1. <<>> \in Folder
      BY EmptySeq DEF Folder
    <2>2. ASSUME NEW D \in Closed, NEW d \in D PROVE Destination \o d \in Folder
      BY <2>2, ClosedFolders, FrontBelow, DestinationFolder DEF Subfolder
    <2>3. dirs \in {{<<>>}} \cup {{<<>>, Destination} \cup {Destination \o d : d \in D} : D \in Closed}
      BY DEF InitTree, Befores
    <2>4. CASE dirs = {<<>>}
      BY <2>1, <2>4
    <2>5. CASE \E D \in Closed : dirs = {<<>>, Destination} \cup {Destination \o d : d \in D}
      <3>1. PICK D \in Closed : dirs = {<<>>, Destination} \cup {Destination \o d : d \in D}
        BY <2>5
      <3> HIDE DEF Destination
      <3> QED BY <2>1, <2>2, <3>1, DestinationFolder
    <2> QED BY <2>3, <2>4, <2>5
  <1>2. todo = <<>> /\ todo \in Seq(Subfolder) /\ Len(todo) = 0
    BY EmptySeq DEF InitTree
  <1>3. TreeTypes
    BY <1>1, <1>2 DEF InitTree, Init, TreeTypes
  <1>4. Parents /\ Placed
    BY <1>2 DEF InitTree, Init, Parents, Placed
  <1> QED BY <1>3, <1>4 DEF TreeInv

(* A step that creates nothing and lists nothing. *)
LEMMA TreeStays ==
    ASSUME TreeInv, UNCHANGED treeVars, runs' = runs,
           phase' # "down" => phase # "down"
    PROVE  TreeInv'
  <1>1. TreeTypes'
    BY DEF TreeInv, TreeTypes, treeVars, Sent
  <1>2. UNCHANGED <<Sent, ToDirectory, Local>>
    BY DEF treeVars, Sent, ToDirectory, Local
  <1>3. Parents'
    BY <1>2 DEF TreeInv, Parents, treeVars
  <1>4. Placed'
    BY <1>2 DEF TreeInv, Placed, treeVars
  <1> QED BY <1>1, <1>3, <1>4 DEF TreeInv

LEMMA TreeRun ==
    ASSUME TreeInv, RunTree
    PROVE  TreeInv' /\ (runs > 0 => path' = path)
  <1>1. /\ TreeTypes /\ Parents /\ Placed
        /\ path' = Local /\ runs' = runs + 1
        /\ UNCHANGED <<source, recursive, directory, file, dirs>>
    BY DEF TreeInv, RunTree, Run, Local
  <1>2. PICK order \in ManifestDirs(source, recursive) :
           todo' = DirsToCreate(ToDirectory, order)
    BY DEF RunTree
  <1>3. UNCHANGED <<Sent, ToDirectory, Local>>
    BY <1>1 DEF Sent, ToDirectory, Local
  <1>4. ToDirectory \in BOOLEAN
    BY <1>1 DEF TreeTypes, ToDirectory, IsDir
  <1>5. source \in Sources /\ recursive \in BOOLEAN /\ file \in Sent
    BY <1>1 DEF TreeTypes
  <1>6. CASE ToDirectory
    <2>1. /\ todo' \in Seq(Subfolder)
          /\ \A i \in 1..Len(todo') :
                \/ Front(todo'[i]) = <<>>
                \/ \E j \in 1..(i - 1) : todo'[j] = Front(todo'[i])
          /\ \E i \in 1..Len(todo') : todo'[i] = Destination \o file.dir
      <3>1. todo' = DirsToCreate(TRUE, order)
        BY <1>2, <1>4, <1>6
      <3>2. file \in ManifestFiles(source, recursive)
        BY <1>5 DEF Sent
      <3> DEFINE todos == todo'
      <3>3. todos = DirsToCreate(TRUE, order)
        BY <3>1
      <3> HIDE DEF todos
      <3>4. /\ todos \in Seq(Subfolder)
            /\ \A i \in 1..Len(todos) :
                  \/ Front(todos[i]) = <<>>
                  \/ \E j \in 1..(i - 1) : todos[j] = Front(todos[i])
            /\ \A f \in ManifestFiles(source, recursive) :
                  \E i \in 1..Len(todos) : todos[i] = Destination \o f.dir
        BY <1>5, <3>3, Creation
      <3> QED BY <3>2, <3>4 DEF todos
    <2>2. path'.dir = Destination \o file.dir
      <3>1. Local = [dir |-> Destination \o file.dir, name |-> file.name]
        BY <1>4, <1>5, <1>6, LocalPathIs, SentFolders DEF Local, Sent
      <3> QED BY <1>1, <3>1
    <2>3. TreeTypes' /\ Parents'
      BY <1>1, <1>3, <1>6, <2>1 DEF TreeTypes, Parents
    <2>4. Placed'
      BY <1>1, <1>3, <1>6, <2>1, <2>2 DEF Placed, TreeTypes
    <2> QED BY <1>1, <2>3, <2>4 DEF TreeInv, Placed
  <1>7. CASE ~ToDirectory
    <2>1. todo' = <<>> /\ todo' \in Seq(Subfolder) /\ Len(todo') = 0
      BY <1>2, <1>7, EmptySeq DEF DirsToCreate
    <2>2. TreeTypes' /\ Parents' /\ Placed'
      BY <1>1, <1>3, <1>7, <2>1 DEF TreeTypes, Parents, Placed
    <2> QED BY <1>1, <2>2 DEF TreeInv, Placed
  <1> QED BY <1>6, <1>7

LEMMA TreeCreateDir ==
    ASSUME TreeInv, CreateDir
    PROVE  TreeInv'
  <1> DEFINE h == Head(todo)
             t == Tail(todo)
             n == Len(t)
  <1>1. /\ TreeTypes /\ Parents /\ Placed /\ todo # <<>> /\ phase = "ready"
        /\ dirs' = dirs \cup {h} /\ todo' = t
        /\ UNCHANGED <<vars, source, recursive, directory, file, path>>
    BY DEF TreeInv, CreateDir
  <1>2. /\ h \in Subfolder /\ h = todo[1] /\ t \in Seq(Subfolder) /\ Len(todo) = n + 1
        /\ n \in Nat /\ \A i \in 1..n : t[i] = todo[i + 1]
    <2>1. todo \in Seq(Subfolder)
      BY <1>1 DEF TreeTypes
    <2>2. /\ Head(todo) \in Subfolder /\ Tail(todo) \in Seq(Subfolder)
          /\ Len(Tail(todo)) = Len(todo) - 1
          /\ \A i \in 1..Len(Tail(todo)) : Tail(todo)[i] = todo[i + 1]
      BY <1>1, <2>1, HeadTailProperties
    <2>3. Len(todo) \in Nat /\ Len(Tail(todo)) \in Nat
      BY <2>1, <2>2, LenProperties
    <2>4. Head(todo) = todo[1]
      BY <1>1, <2>1
    <2> QED BY <2>2, <2>3, <2>4
  <1> HIDE DEF h, t, n
  <1>3. UNCHANGED <<phase, runs>>
    BY <1>1 DEF vars
  <1>4. UNCHANGED <<Sent, ToDirectory>> /\ ToDirectory
    BY <1>1 DEF Sent, ToDirectory, Parents
  <1>5. Local' = Local
    <2>1. file \in Sent /\ source \in Sources /\ recursive \in BOOLEAN
      BY <1>1 DEF TreeTypes
    <2>2. LocalPath(file, ToDirectory, dirs \cup {h}) = LocalPath(file, ToDirectory, dirs)
      BY <1>4 DEF LocalPath
    <2> QED BY <1>1, <1>4, <2>2 DEF Local
  <1>6. TreeTypes'
    BY <1>1, <1>2, <1>3, <1>4 DEF TreeTypes, Subfolder
  <1>7. Parents'
    <2>1. ASSUME NEW i \in 1..n
          PROVE  \/ Front(t[i]) \in dirs \cup {h}
                 \/ \E j \in 1..(i - 1) : t[j] = Front(t[i])
      <3>1. i + 1 \in 1..Len(todo) /\ t[i] = todo[i + 1]
        BY <1>2
      <3>2. \/ Front(t[i]) \in dirs
            \/ \E j \in 1..((i + 1) - 1) : todo[j] = Front(t[i])
        BY <1>1, <3>1 DEF Parents
      <3>3. ASSUME NEW j \in 1..((i + 1) - 1), todo[j] = Front(t[i])
            PROVE  Front(t[i]) = h \/ \E k \in 1..(i - 1) : t[k] = Front(t[i])
        <4>1. CASE j = 1
          BY <1>2, <3>3, <4>1
        <4>2. CASE j # 1
          <5>1. j - 1 \in 1..(i - 1) /\ j - 1 \in 1..n /\ (j - 1) + 1 = j
            BY <1>2, <4>2
          <5>2. t[j - 1] = todo[j]
            BY <1>2, <5>1
          <5> QED BY <3>3, <5>1, <5>2
        <4> QED BY <4>1, <4>2
      <3> QED BY <3>2, <3>3
    <2>2. Len(todo') = n
      BY <1>1 DEF n
    <2> QED BY <1>1, <1>4, <2>1, <2>2 DEF Parents
  <1>8. Placed'
    <2>1. path.dir \in dirs \cup {h} \/ \E i \in 1..n : t[i] = path.dir
      <3>1. path.dir \in dirs \/ \E i \in 1..Len(todo) : todo[i] = path.dir
        BY <1>1, <1>4 DEF Placed
      <3>2. ASSUME NEW i \in 1..Len(todo), todo[i] = path.dir
            PROVE  path.dir = h \/ \E k \in 1..n : t[k] = path.dir
        <4>1. CASE i = 1
          BY <1>2, <3>2, <4>1
        <4>2. CASE i # 1
          <5>1. i - 1 \in 1..n /\ (i - 1) + 1 = i
            BY <1>2, <4>2
          <5>2. t[i - 1] = todo[i]
            BY <1>2, <5>1
          <5> QED BY <3>2, <5>1, <5>2
        <4> QED BY <4>1, <4>2
      <3> QED BY <3>1, <3>2
    <2>2. Len(todo') = n
      BY <1>1 DEF n
    <2> QED BY <1>1, <1>3, <1>4, <1>5, <2>1, <2>2 DEF Placed
  <1> QED BY <1>6, <1>7, <1>8 DEF TreeInv

LEMMA TreeStop ==
    ASSUME TreeInv, NEW taken, StopTree(taken)
    PROVE  TreeInv'
  <1>1. /\ TreeTypes /\ Parents /\ Placed /\ todo' = <<>>
        /\ phase' = "down" /\ runs' = runs
        /\ UNCHANGED <<source, recursive, directory, file, path, dirs>>
    BY DEF TreeInv, StopTree, Stop
  <1>2. UNCHANGED <<Sent, ToDirectory, Local>>
    BY <1>1 DEF Sent, ToDirectory, Local
  <1>3. todo' \in Seq(Subfolder) /\ Len(todo') = 0
    BY <1>1, EmptySeq
  <1> QED BY <1>1, <1>2, <1>3 DEF TreeInv, TreeTypes, Parents, Placed

LEMMA TreeNext ==
    ASSUME TreeInv, [NextTree]_allVars
    PROVE  TreeInv' /\ (runs > 0 => path' = path)
  <1>1. CASE RunTree
    BY <1>1, TreeRun
  <1>2. CASE CreateDir
    BY <1>2, TreeCreateDir DEF CreateDir
  <1>3. CASE OpenTree \/ WriterTree
    <2>1. UNCHANGED treeVars /\ runs' = runs /\ (phase' # "down" => phase # "down")
      BY <1>3 DEF OpenTree, WriterTree, Open, WriteData, Flush, Verified, Refuted, Restart,
               RemoveRefuted, Rename
    <2> QED BY <2>1, TreeStays DEF treeVars
  <1>4. ASSUME NEW taken, StopTree(taken)
        PROVE  TreeInv' /\ (runs > 0 => path' = path)
    BY <1>4, TreeStop DEF StopTree
  <1>5. CASE UNCHANGED allVars
    <2>1. UNCHANGED treeVars /\ runs' = runs /\ phase' = phase
      BY <1>5 DEF allVars, vars
    <2> QED BY <2>1, TreeStays DEF treeVars
  <1> QED BY <1>1, <1>2, <1>3, <1>4, <1>5 DEF NextTree, ProgressTree

LEMMA TreeInvAlways == FairSpecTree => []TreeInv
  <1>1. InitTree => TreeInv
    BY TreeInit
  <1>2. TreeInv /\ [NextTree]_allVars => TreeInv'
    BY TreeNext
  <1> QED BY <1>1, <1>2, PTL DEF FairSpecTree

-----------------------------------------------------------------------------
(* A run never fails for want of a directory, however the directories of   *)
(* the source lie in each other, in whatever order read_dir lists them,    *)
(* whatever the destination held and wherever earlier runs were killed,    *)
(* but for a single nested file sent into a directory (receiver/mod.rs     *)
(* 169).                                                                   *)
THEOREM DirectoriesReady == FairSpecTree => []DirsReady
  <1>1. TreeInv => DirsReady
    <2> SUFFICES ASSUME TreeInv, Blocked PROVE Nested
      BY DEF DirsReady
    <2>1. TreeTypes /\ Parents /\ Placed /\ phase = "ready"
      BY DEF TreeInv, Blocked
    <2>2. todo = <<>>
      <3> SUFFICES ASSUME todo # <<>> PROVE FALSE
        OBVIOUS
      <3>1. todo \in Seq(Subfolder)
        BY <2>1 DEF TreeTypes
      <3>2. Head(todo) = todo[1] /\ 1 \in 1..Len(todo)
        BY <3>1, EmptySeq
      <3>3. Front(todo[1]) \in dirs \/ \E j \in 1..(1 - 1) : todo[j] = Front(todo[1])
        BY <2>1, <3>2 DEF Parents
      <3>4. Creatable(Head(todo))
        BY <3>2, <3>3 DEF Creatable
      <3> QED BY <3>4 DEF Blocked
    <2>3. path.dir \notin dirs
      BY <2>2 DEF Blocked
    <2>4. ~ToDirectory
      <3>1. Len(todo) = 0
        BY <2>2, EmptySeq
      <3> QED BY <2>1, <2>3, <3>1 DEF Placed
    <2>5. /\ ToDirectory \in BOOLEAN /\ path = LocalPath(file, ToDirectory, dirs)
          /\ file = [dir |-> file.dir, name |-> file.name]
      BY <2>1, SentFolders DEF TreeTypes, Placed, Local, Sent, ToDirectory, IsDir
    <2>6. Destination \in dirs
      <3> SUFFICES ASSUME Destination \notin dirs PROVE FALSE
        OBVIOUS
      <3>1. path = [dir |-> <<>>, name |-> [stem |-> "dest", exts |-> <<>>]]
        BY <2>4, <2>5, LocalPathIs
      <3>2. path.dir = <<>>
        BY <3>1
      <3> QED BY <2>1, <2>3, <3>2 DEF TreeTypes
    <2>7. file.dir # <<>>
      <3> SUFFICES ASSUME file.dir = <<>> PROVE FALSE
        OBVIOUS
      <3>1. path = [dir |-> Destination \o file.dir, name |-> file.name]
        BY <2>5, <2>6, LocalPathIs
      <3>2. path.dir = Destination
        BY <3>1, DestinationFolder
      <3> QED BY <2>3, <2>6, <3>2
    <2> QED BY <2>4, <2>6, <2>7 DEF Nested
  <1> QED BY <1>1, TreeInvAlways, PTL

(* Each run computes the same path for the file, so that it finds the      *)
(* partial file of the run before, though the path is computed from what   *)
(* the destination holds by then.                                          *)
THEOREM PathsStable == FairSpecTree => PathStable
  <1>1. TreeInv /\ [NextTree]_allVars => [runs > 0 => path' = path]_allVars
    BY TreeNext
  <1> QED BY <1>1, TreeInvAlways, PTL DEF FairSpecTree, PathStable

(* No two files of a transfer have the same path, and none the same        *)
(* partial path.                                                           *)
THEOREM PathsSeparate == FairSpecTree => []SeparatePaths
  <1>1. TreeInv => SeparatePaths
    <2> SUFFICES ASSUME TreeInv, NEW f \in Sent, NEW g \in Sent, f # g
                 PROVE  /\ LocalPath(f, ToDirectory, dirs) # LocalPath(g, ToDirectory, dirs)
                        /\ PartialPath(LocalPath(f, ToDirectory, dirs))
                              # PartialPath(LocalPath(g, ToDirectory, dirs))
      BY DEF SeparatePaths
    <2>1. /\ IsFiniteSet(Sent) /\ directory \in BOOLEAN
          /\ \A e \in Sent : /\ e = [dir |-> e.dir, name |-> e.name]
                             /\ e.dir \in Folder /\ e.name \in Names
      BY SentFolders DEF TreeInv, TreeTypes, Sent
    <2>2. ToDirectory
      <3>1. Cardinality({f}) = 1 /\ IsFiniteSet({f})
        BY FS_Singleton
      <3>2. Cardinality({f} \cup {g}) = 1 + 1
        BY <3>1, FS_AddElement
      <3>3. {f} \cup {g} \in SUBSET Sent
        OBVIOUS
      <3>4. Cardinality({f} \cup {g}) <= Cardinality(Sent) /\ Cardinality(Sent) \in Nat
        BY <2>1, <3>3, FS_Subset, FS_CardinalityType
      <3>5. Cardinality(Sent) > 1
        BY <3>2, <3>4
      <3> QED BY <3>5 DEF ToDirectory, IsDir
    <2> DEFINE a == Destination \o f.dir
               b == Destination \o g.dir
    <2>3. /\ LocalPath(f, ToDirectory, dirs) = [dir |-> a, name |-> f.name]
          /\ LocalPath(g, ToDirectory, dirs) = [dir |-> b, name |-> g.name]
      <3>1. ToDirectory \in BOOLEAN
        BY <2>1 DEF ToDirectory, IsDir
      <3> QED BY <2>1, <2>2, <3>1, LocalPathIs
    <2>4. a # b \/ f.name # g.name
      <3>1. a = b => f.dir = g.dir
        BY <2>1, DestinationFolder, ConcatSimplifications DEF Folder
      <3> QED BY <2>1, <3>1
    <2> HIDE DEF a, b
    <2>5. LocalPath(f, ToDirectory, dirs) # LocalPath(g, ToDirectory, dirs)
      BY <2>3, <2>4
    <2>6. ASSUME PartialPath(LocalPath(f, ToDirectory, dirs))
                    = PartialPath(LocalPath(g, ToDirectory, dirs))
          PROVE  FALSE
      <3>1. a = b /\ f.name = g.name
        BY <2>1, <2>3, <2>6, PartialPathKeeps
      <3> QED BY <2>4, <3>1
    <2> QED BY <2>5, <2>6
  <1> QED BY <1>1, TreeInvAlways, PTL

(* With or without the others: what the runs do to the one file is what    *)
(* Resume says.  The directories never make them do anything else.         *)
THEOREM TreeIsResume == FairSpecTree => Spec
  <1>1. InitTree => Init
    BY DEF InitTree
  <1>2. [NextTree]_allVars => [Next]_vars
    <2>1. CASE RunTree
      BY <2>1 DEF RunTree, Next, Progress
    <2>2. CASE CreateDir
      BY <2>2 DEF CreateDir
    <2>3. CASE OpenTree \/ WriterTree
      <3>1. Progress
        BY <2>3 DEF OpenTree, WriterTree, Progress
      <3> QED BY <3>1 DEF Next
    <2>4. ASSUME NEW taken \in 0..Buffer, StopTree(taken) PROVE Next
      BY <2>4 DEF StopTree, Next
    <2>5. 0 \in 0..Buffer
      BY ResumeAssumption
    <2>6. CASE UNCHANGED allVars
      BY <2>6 DEF allVars
    <2> QED BY <2>1, <2>2, <2>3, <2>4, <2>5, <2>6 DEF NextTree, ProgressTree
  <1> QED BY <1>1, <1>2, PTL DEF FairSpecTree, Spec

=============================================================================
