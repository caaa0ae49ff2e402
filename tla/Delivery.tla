------------------------------ MODULE Delivery ------------------------------
(***************************************************************************)
(* What the data path of cccp promises for each file, with no queue,       *)
(* cache, permit or datagram in sight: a reader takes the chunks of the    *)
(* file in order, and a writer writes the very chunks that were read, in   *)
(* the same order, none skipped and none twice, up to the last one.        *)
(***************************************************************************)
EXTENDS Naturals

CONSTANTS Files, First, Size

VARIABLES index,     \* how far each file has been read
          position   \* how far each file has been written

vars == <<index, position>>

Init == index = First /\ position = First

Read(f) ==
    /\ index[f] < Size[f]
    /\ index' = [index EXCEPT ![f] = @ + 1]
    /\ UNCHANGED position

Write(f) ==
    /\ position[f] < index[f]
    /\ position' = [position EXCEPT ![f] = @ + 1]
    /\ UNCHANGED index

Next == \E f \in Files : Read(f) \/ Write(f)

Spec == Init /\ [][Next]_vars

(* Every chunk of every file has been written. *)
Complete == position = Size
=============================================================================
