----------------------------- MODULE ResumeTree -----------------------------
(***************************************************************************)
(* Resume for one file out of a source with others: each run of cccp       *)
(* crawls the source, computes the local path of the file, and creates the *)
(* directories one after the other before the writer opens its file.  It   *)
(* may be killed between two of them, and the next run finds what is there.*)
(***************************************************************************)
EXTENDS Resume, Layout

VARIABLES
    source,     \* what is transferred: [dirs, files]
    recursive,  \* options.recursive
    directory,  \* options.directory
    file,       \* the file that partial and final are of
    path,       \* its local path, as the last run computed it
    dirs,       \* the directories on the receiving host
    todo        \* those the run still has to create, in order

treeVars == <<source, recursive, directory, file, path, dirs, todo>>
allVars == <<vars, treeVars>>

Sent == ManifestFiles(source, recursive)
ToDirectory == IsDir(Sent, directory)

InitTree ==
    /\ Init
    /\ source \in Sources
    /\ recursive \in BOOLEAN
    /\ directory \in BOOLEAN
    /\ file \in Sent
    /\ path = [dir |-> <<>>, name |-> file.name]
    /\ dirs \in Befores
    /\ todo = <<>>

-----------------------------------------------------------------------------
(* The paths first, with the destination as it is found, then the          *)
(* completed files and the free space, then the directories.               *)
RunTree ==
    /\ Run
    /\ path' = LocalPath(file, ToDirectory, dirs)
    /\ \E order \in ManifestDirs(source, recursive) :
          todo' = DirsToCreate(ToDirectory, order)
    /\ UNCHANGED <<source, recursive, directory, file, dirs>>

(* create_dir, unless the directory exists; the one above must. *)
Creatable(dir) == dir \in dirs \/ Front(dir) \in dirs

CreateDir ==
    /\ phase = "ready" /\ todo # <<>>
    /\ Creatable(Head(todo))
    /\ dirs' = dirs \cup {Head(todo)}
    /\ todo' = Tail(todo)
    /\ UNCHANGED <<vars, source, recursive, directory, file, path>>

(* The open of the writer does not create directories. *)
OpenTree ==
    /\ todo = <<>>
    /\ path.dir \in dirs
    /\ Open
    /\ UNCHANGED treeVars

(* A run that cannot go on for want of a directory. *)
Blocked ==
    /\ phase = "ready"
    /\ IF todo # <<>> THEN ~Creatable(Head(todo)) ELSE path.dir \notin dirs

StopTree(taken) ==
    /\ Stop(taken)
    /\ todo' = <<>>
    /\ UNCHANGED <<source, recursive, directory, file, path, dirs>>

WriterTree ==
    /\ \/ WriteData \/ Flush \/ Verified \/ Rename
       \/ Refuted \/ Restart \/ RemoveRefuted
    /\ UNCHANGED treeVars

ProgressTree ==
    \/ RunTree \/ CreateDir \/ OpenTree \/ WriterTree
    \/ Blocked /\ StopTree(0)

NextTree == ProgressTree \/ \E taken \in 0..Buffer : StopTree(taken)

FairSpecTree == InitTree /\ [][NextTree]_allVars /\ WF_allVars(ProgressTree)

-----------------------------------------------------------------------------
(* Properties. *)

(* A single file from below the source, sent without --directory into a    *)
(* destination that exists: the path has directories nobody creates.       *)
Nested == ~ToDirectory /\ Destination \in dirs /\ file.dir # <<>>

(* "create the local directories needed to write the files" (receiver/     *)
(* mod.rs 169): a run never fails for want of a directory, in whatever     *)
(* order read_dir listed them and wherever earlier runs were killed, but   *)
(* for the one case Nested.                                                *)
DirsReady == Blocked => Nested

(* A later run looks for the partial file where the earlier one left it,   *)
(* though the local path depends on what the destination is by then.       *)
PathStable == [][runs > 0 => path' = path]_allVars

(* Files of one transfer do not write into each other: they differ in      *)
(* their paths and in their partial paths.  (The partial path of one may   *)
(* be the path of another, if the source holds both `x` and `x.partial`.)  *)
SeparatePaths ==
    LET local(f) == LocalPath(f, ToDirectory, dirs)
    IN  \A f1, f2 \in Sent : f1 # f2 =>
            /\ local(f1) # local(f2)
            /\ PartialPath(local(f1)) # PartialPath(local(f2))
=============================================================================
