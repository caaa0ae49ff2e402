------------------------------- MODULE Layout -------------------------------
(***************************************************************************)
(* Where the files of a source end up: the crawl that builds the manifest  *)
(* (sender/mod.rs), and the receiver's local paths, partial paths and      *)
(* directories (receiver/mod.rs).  All of it is computed at once; ResumeTree *)
(* has the runs in which it happens.                                       *)
(*                                                                         *)
(* A directory is a sequence of names.  A file is the directory it is in,  *)
(* the stem of its name and the extensions after it, last one last.        *)
(***************************************************************************)
EXTENDS Naturals, FiniteSets, SequencesExt

CONSTANTS
    Dirs,    \* directories a source may hold, relative to it
    Names    \* names of files: [stem, exts]

ASSUME LayoutAssumption ==
    /\ IsFiniteSet(Dirs)
    /\ Dirs \subseteq Seq(STRING) \ {<<>>}
    /\ Names \subseteq [stem : STRING, exts : Seq(STRING)]

Closed == {D \in SUBSET Dirs : \A d \in D : Len(d) > 1 => Front(d) \in D}

(* A source is a file, or a directory of directories and at most two files. *)
Sources ==
    LET Places(D) == [dir : D \cup {<<>>}, name : Names]
    IN  {[dirs |-> {}, files |-> {[dir |-> <<>>, name |-> n]}] : n \in Names}
        \cup UNION {{[dirs |-> D, files |-> {f, g}] : f, g \in Places(D)} : D \in Closed}

-----------------------------------------------------------------------------
(* files_and_dirs and build_manifest. *)

(* Paths are relative to the source; of a source that is a file its name   *)
(* is left.                                                                *)
ManifestFiles(source, recursive) ==
    {f \in source.files : recursive \/ f.dir = <<>>}

(* Mutant: a directory is listed after what is in it. *)
ManifestDirsInsideOut(source, recursive) ==
    LET found == IF recursive THEN source.dirs ELSE {}
    IN  {order \in SetToSeqs(found) :
            \A i, j \in DOMAIN order : i < j => ~IsPrefix(order[i], order[j])}

(* A directory is pushed before the crawl goes into it; read_dir lists     *)
(* siblings in any order.                                                  *)
ManifestDirs(source, recursive) ==
    LET found == IF recursive THEN source.dirs ELSE {}
    IN  {order \in SetToSeqs(found) :
            \A i, j \in DOMAIN order : i < j => ~IsPrefix(order[j], order[i])}

-----------------------------------------------------------------------------
(* receiver::main.  Its destination is <<"dest">>, in the directory <<>>.  *)

Destination == <<"dest">>

(* More than one file, or --directory: the destination is a directory.     *)
IsDir(files, directory) == directory \/ Cardinality(files) > 1

LocalPath(f, is_dir, before) ==
    IF is_dir \/ Destination \in before
    THEN [f EXCEPT !.dir = Destination \o @]
    ELSE [dir |-> <<>>, name |-> [stem |-> "dest", exts |-> <<>>]]

(* Mutant: the extension is replaced, as with_extension does by itself. *)
PartialReplacing(path) ==
    [path EXCEPT !.name.exts = (IF @ = <<>> THEN @ ELSE Front(@)) \o <<"partial">>]

(* with_extension replaces the last extension by itself and "partial". *)
PartialPath(path) ==
    [path EXCEPT !.name.exts =
        IF @ = <<>> THEN <<"partial">> ELSE Front(@) \o <<Last(@), "partial">>]

(* Mutant: the directories of a single file are created, too. *)
DirsToCreateAlways(is_dir, order) ==
    <<Destination>> \o [i \in DOMAIN order |-> Destination \o order[i]]

(* The destination, then the directories of the manifest: if it is one.    *)
DirsToCreate(is_dir, order) ==
    IF is_dir THEN <<Destination>> \o [i \in DOMAIN order |-> Destination \o order[i]]
              ELSE <<>>

(* What may be there before: no destination, or it with some directories.  *)
Befores ==
    {{<<>>}} \cup {{<<>>, Destination} \cup {Destination \o d : d \in D} : D \in Closed}
=============================================================================
