--------------------------- MODULE MCJobFlowRetry ---------------------------
(* Instances of JobFlowRetry for TLC. *)
EXTENDS JobFlowRetry

OneFile == [f \in Files |-> 1]
FromStart == [f \in Files |-> 0]
=============================================================================
