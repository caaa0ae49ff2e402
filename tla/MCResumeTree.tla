---------------------------- MODULE MCResumeTree ----------------------------
(* Sources for ResumeTree: two directories, one in the other, and names    *)
(* that differ in their extension only.                                    *)
EXTENDS ResumeTree

SomeDirs == {<<"d">>, <<"d", "e">>}

SomeNames == {[stem |-> "a", exts |-> <<>>], [stem |-> "a", exts |-> <<"txt">>]}
=============================================================================
