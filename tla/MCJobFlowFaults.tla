-------------------------- MODULE MCJobFlowFaults --------------------------
(* Instances of JobFlowFaults for TLC. *)
EXTENDS JobFlowFaults

OneChunk == [f \in Files |-> 1]
FromStart == [f \in Files |-> 0]
=============================================================================
