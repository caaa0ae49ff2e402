------------------------------- MODULE Resume -------------------------------
(***************************************************************************)
(* The partial file of one transferred file, byte for byte, through runs   *)
(* of cccp that may be killed at any moment: a run continues where the     *)
(* length of the partial file says (receiver/mod.rs start_index), writes   *)
(* through a buffer to a file opened for append (receiver/writer.rs), and  *)
(* renames it when it is complete.                                         *)
(*                                                                         *)
(* The contents of a file are a sequence of offsets: <<0, 1, 2>> are the   *)
(* first three bytes of the source in their place.  The source does not    *)
(* change.                                                                 *)
(***************************************************************************)
EXTENDS Naturals, Sequences

CONSTANTS
    Sizes,     \* the sizes a file may have, in bytes
    Transfer,  \* TRANSFER_BUFFER_SIZE, in bytes
    Buffer,    \* WRITE_BUFFER_SIZE, in bytes: a multiple of Transfer
    MaxRuns,   \* bound: runs of cccp
    NoFile     \* a path that names nothing

ASSUME ResumeAssumption ==
    /\ Sizes \subseteq Nat
    /\ Transfer \in Nat \ {0}
    /\ Buffer \in Nat /\ Transfer < Buffer /\ Buffer % Transfer = 0
    /\ MaxRuns \in Nat
    /\ NoFile \notin Seq(Nat)

VARIABLES
    size,      \* details.size
    signed,    \* whether details.signature is there
    partial,   \* what partial_path names: a sequence of bytes, or NoFile
    final,     \* what path names
    phase,     \* of the writer: down, ready, writing, verify, rename, done,
               \* or restart: the sender was told that verification failed
    start,     \* details.start_index
    doomed,    \* whether the writer before this one still has to remove the file
    buffered,  \* bytes in the BufWriter
    position,  \* position of the writer: the offset of the byte it expects
    runs       \* runs so far

details == <<size, signed>>
retry == <<start, doomed>>
vars == <<details, partial, final, phase, retry, buffered, position, runs>>

(* The bytes of the source from offset i on, up to offset j. *)
Bytes(i, j) == [n \in 1..(j - i) |-> i + n - 1]

Source == Bytes(0, size)

Init ==
    /\ size \in Sizes
    /\ signed \in BOOLEAN
    /\ partial = NoFile
    /\ final = NoFile
    /\ phase = "down"
    /\ start = 0
    /\ doomed = FALSE
    /\ buffered = <<>>
    /\ position = 0
    /\ runs = 0

OnDisk == IF partial = NoFile THEN <<>> ELSE partial

(* Mutant: a number of chunks is taken for a number of bytes. *)
StartChunk == Len(OnDisk) \div Transfer

(* Mutant: rounded up past the last whole transfer buffer. *)
StartNext == (Len(OnDisk) \div Transfer + 1) * Transfer

(* Mutant: the last chunk is written again. *)
StartBack == Len(OnDisk) - Transfer

(* start_index: the length rounded down to whole transfer buffers. *)
StartIndex == (Len(OnDisk) \div Transfer) * Transfer

(* A run begins; a file that has its final name already is skipped. *)
Run ==
    /\ phase = "down"
    /\ runs < MaxRuns
    /\ final = NoFile
    /\ runs' = runs + 1
    /\ start' = StartIndex
    /\ position' = start'
    /\ phase' = "ready"
    /\ UNCHANGED <<details, partial, final, doomed, buffered>>

(* The file is opened for append and created if need be.  A write goes to  *)
(* the end of the file wherever the file was sought to before.             *)
Open ==
    /\ phase = "ready"
    /\ partial' = OnDisk
    /\ phase' = "writing"
    /\ UNCHANGED <<details, final, retry, buffered, position, runs>>

(* write_data: the next chunk goes to the buffer, which is written out     *)
(* first when the chunk would not fit.                                     *)
WriteData ==
    /\ phase = "writing"
    /\ position < size
    /\ LET end == IF size - position < Transfer THEN size ELSE position + Transfer
           chunk == Bytes(position, end)
       IN  /\ position' = end
           /\ IF Len(buffered) + Len(chunk) > Buffer
              THEN partial' = partial \o buffered /\ buffered' = chunk
              ELSE buffered' = buffered \o chunk /\ UNCHANGED partial
    /\ UNCHANGED <<details, final, phase, retry, runs>>

Flush ==
    /\ phase = "writing"
    /\ position = size
    /\ partial' = partial \o buffered
    /\ buffered' = <<>>
    /\ phase' = IF signed THEN "verify" ELSE "rename"
    /\ UNCHANGED <<details, final, retry, position, runs>>

(* Mutant: the lengths are compared, not the hashes. *)
VerifiedLength ==
    /\ phase = "verify"
    /\ Len(partial) >= size
    /\ phase' = "rename"
    /\ UNCHANGED <<details, partial, final, retry, buffered, position, runs>>

Verified ==
    /\ phase = "verify"
    /\ partial = Source
    /\ phase' = "rename"
    /\ UNCHANGED <<details, partial, final, retry, buffered, position, runs>>

(* The sender is told (Failure 0), and the file is removed only after that.*)
(* Bound: one such removal is outstanding at a time.                       *)
Refuted ==
    /\ phase = "verify"
    /\ partial # Source
    /\ ~doomed
    /\ doomed' = TRUE
    /\ phase' = "restart"
    /\ UNCHANGED <<details, partial, final, start, buffered, position, runs>>

(* The Start of the retry: from 0 if the partial file is gone by now, and  *)
(* from where the run began otherwise.                                     *)
Restart ==
    /\ phase = "restart"
    /\ start' = IF partial = NoFile THEN 0 ELSE start
    /\ position' = start'
    /\ phase' = "ready"
    /\ UNCHANGED <<details, partial, final, doomed, buffered, runs>>

(* The writer whose file was refuted removes the partial path.  A writer   *)
(* that has it open by then goes on with a file without a name, and fails  *)
(* when it hashes or renames the path.                                     *)
RemoveRefuted ==
    /\ doomed
    /\ doomed' = FALSE
    /\ partial' = NoFile
    /\ IF phase \in {"writing", "verify", "rename"}
       THEN phase' = "down" /\ buffered' = <<>>
       ELSE UNCHANGED <<phase, buffered>>
    /\ UNCHANGED <<details, final, start, position, runs>>

Rename ==
    /\ phase = "rename"
    /\ final' = partial
    /\ partial' = NoFile
    /\ phase' = "done"
    /\ UNCHANGED <<details, retry, buffered, position, runs>>

(* The run ends early: killed, cancelled, or stopped by an error.  What is *)
(* in the buffer is lost, but for whole chunks the kernel had already      *)
(* taken from a write under way (it stops a write between pages).          *)
Stop(taken) ==
    /\ phase \in {"ready", "writing", "verify", "rename", "restart"}
    /\ taken <= Len(buffered)
    /\ taken % Transfer = 0
    /\ partial' = IF taken = 0 THEN partial ELSE partial \o SubSeq(buffered, 1, taken)
    /\ buffered' = <<>>
    /\ phase' = "down"
    /\ doomed' = FALSE
    /\ UNCHANGED <<details, final, start, position, runs>>

Progress ==
    \/ Run \/ Open \/ WriteData \/ Flush \/ Verified \/ Rename
    \/ Refuted \/ Restart \/ RemoveRefuted

Next == Progress \/ \E taken \in 0..Buffer : Stop(taken)

Spec == Init /\ [][Next]_vars

-----------------------------------------------------------------------------
(* Properties. *)

(* Every variable has its type. *)
TypeOK ==
    /\ size \in Sizes /\ signed \in BOOLEAN
    /\ partial = NoFile \/ partial \in Seq(Nat)
    /\ final = NoFile \/ final \in Seq(Nat)
    /\ phase \in {"down", "ready", "writing", "verify", "rename", "done", "restart"}
    /\ start \in Nat /\ doomed \in BOOLEAN
    /\ buffered \in Seq(Nat)
    /\ position \in Nat
    /\ runs \in 0..MaxRuns

(* The file has no short last chunk. *)
Whole == size % Transfer = 0

(* The file that gets the final name is the source, byte for byte.  The    *)
(* start index is computed on the grounds that "the file is written        *)
(* sequentially" (receiver/mod.rs 481).                                    *)
FinalIsSource == final # NoFile => final = Source

(* ... which is so, wherever the runs before were stopped, for a file with *)
(* a signature and for one without a short last chunk.                     *)
FinalRight == signed \/ Whole => FinalIsSource

(* The writer appends each byte where it belongs: the bytes on disk and in *)
(* the buffer reach exactly to its position ("seek to the initial          *)
(* position", receiver/writer.rs 89, though the file is open for append).  *)
InPlace ==
    Whole /\ phase \in {"writing", "verify", "rename"} =>
        Len(partial) + Len(buffered) = position

(* The writer never starts behind the end of the file: `while position !=  *)
(* details.size` (writer.rs 106) would not end, and details.size -         *)
(* start_index (receiver/mod.rs 111) would underflow.                      *)
StartsInside == Whole => position <= size

(* A run that is not stopped completes the file, so unless the last one is *)
(* stopped the file is complete in the end.                                *)
Completes ==
    Whole => <>[](final # NoFile \/ (phase = "down" /\ runs = MaxRuns))
=============================================================================
