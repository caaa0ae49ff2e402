----------------------------- MODULE MCJobFlow -----------------------------
(* Instances of JobFlow for TLC. *)
EXTENDS JobFlow, TLC

OneFile == [f \in Files |-> 2]
FromStart == [f \in Files |-> 0]

Symmetry == Permutations(Senders)
=============================================================================
