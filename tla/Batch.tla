------------------------------- MODULE Batch -------------------------------
(***************************************************************************)
(* What a whole transfer promises to whoever looks at the destination,     *)
(* with no message, controller or partial file in sight: the receiver      *)
(* agrees once to a set of files, none of them there already unless they   *)
(* may be overwritten; a file that was agreed to takes its new contents    *)
(* once, in one step; and the destination rests when the receiver has      *)
(* left.                                                                   *)
(***************************************************************************)
CONSTANTS Files, Verify, Overwrite

VARIABLES asked,   \* the files agreed to
          path,    \* what the path of each file names
          open     \* the receiver has not left

vars == <<asked, path, open>>

Init ==
    /\ asked = {}
    /\ path \in [Files -> {"none", "old"}]
    /\ open = TRUE

(* Agreeing to the files and leaving may be one step: the receiver has     *)
(* answered the manifest and finds that it cannot open its sockets.        *)
Agree(S) ==
    /\ open /\ asked = {}
    /\ \A f \in S : path[f] = "none" \/ Overwrite
    /\ asked' = S
    /\ open' \in BOOLEAN
    /\ UNCHANGED path

Store(f) ==
    /\ open /\ f \in asked
    /\ path[f] \in {"none", "old"}
    /\ \E new \in {"right"} \cup IF Verify THEN {} ELSE {"wrong"} :
          path' = [path EXCEPT ![f] = new]
    /\ UNCHANGED <<asked, open>>

Leave == open /\ open' = FALSE /\ UNCHANGED <<asked, path>>

Next ==
    \/ \E S \in SUBSET Files : Agree(S)
    \/ \E f \in Files : Store(f)
    \/ Leave

Spec == Init /\ [][Next]_vars
=============================================================================
