# A TLA+ model of cccp

cccp copies files between two hosts: control messages travel over two encrypted
TCP streams, file data over several UDP sockets. This directory holds TLA+
modules for its own protocol logic, configurations that check them with TLC, and
proofs of its safety properties checked by TLAPS. Paths below are relative
to the repository (`src/sender/mod.rs` and so on); `PROJECT.json` maps every
definition to the lines it models.

## 1. The system

| component | state | operations | talks to |
|---|---|---|---|
| `sender::main`, `controller` (sender/mod.rs) | manifest, `files` to start, `active` files | send manifest, start a file, retry it on Failure 0, drop it on Failure 2, settle it on End, Done | receiver's main and controller over the *str* stream |
| `reader` (sender/reader.rs) | position in the file, a read permit | read a chunk, queue it as a job | job queue, `read` semaphore |
| `sender` tasks (sender/mod.rs) | job in hand, retries | send a job, cache it, or put it back | job queue, `send` semaphore, job cache, UDP |
| `receive_confirmations` and its requeue thread | job cache, `lost_confirmations` | confirm, requeue expired jobs | job queue, `read` semaphore |
| `split_receiver` | - | sort incoming messages | the *rts* stream, confirmation and controller channels |
| `receiver::main`, `controller` (receiver/mod.rs) | details of each wanted file | answer the manifest, spawn a writer per Start, end on Done | *str* stream, `SplitQueue`, writers |
| `receiver` tasks | retries | put a datagram's job on the queue of its file | UDP, `SplitQueue` |
| `SplitQueue` (receiver/writer.rs) | two maps, one per end of each queue | push, pop, get, send | controller, writers, receiver tasks |
| `writer` (receiver/writer.rs) | position, early chunks, partial file | write in order, confirm, verify, rename or remove | its queue, the disk, confirmations, messages |
| `send_confirmations`, `send_messages` | pending confirmations | batch, send | *rts* stream |
| `CipherStream` (cipher.rs) | position in the keystream | read and write messages | TCP |
| `main`, `command_runner`, `wait_for_stop`, ctrl-c (main.rs) | options, a `Notify`, exit statuses | check ports, run hosts over ssh, STOP, leave | both hosts, the user |
| `connect_stream`, `listen_stream`, `socket_factory` (main.rs) | next port and iv of each host | set up *rts*, *str* and the UDP sockets | the other host |
| `build_manifest`, `files_and_dirs` (sender/mod.rs), paths of `receiver::main` | - | list the source, compute local and partial paths, create directories | the disk, the manifest |
| installer, statistics, errors | - | - | - |

What makes it hard: a job is in the cache only after its datagram left, so
confirmations overtake it; the requeue thread acts on keys it read under another
lock; a chunk ahead of its turn is confirmed before it is written, and each copy of
it again; two attempts at one file share ids, keys, queue slots and a path, and
nobody waits for the reader or the writer of the first; the tasks of a host end one another and whichever ends
first decides the result; one cipher serves both directions of a stream; a run
may be killed between any two steps and the next one trusts the length of the
partial file; jobs of a file whose writer is gone hold permits all files share, and
the queue of a writer that failed is never removed and blocks who fills it; a
`Notify` wakes only who waits for it already, and each host counts ports and ivs
for itself. `PROJECT.json` lists these hazards at their lines.

What must hold, per component:

* data path - every chunk read is either held for sending or accepted by the
  writer; chunks are written in order, once; read permits are conserved; jobs
  terminate.
* session - the hosts agree on the files left; the ciphers stay in step; at most
  `max` files at a time; Done comes last; success is not a lie; a file is started
  again only when its last writer is out of the way; both hosts return, but for
  one way to hang that section 3 describes.
* partial files - what gets the final name is the source, whenever earlier runs
  stopped; its directory is there, and its paths are its own.
* launch - both hosts mean the same by each stream and socket; when one leaves, or
  a STOP is heard, all leave.
* receiver side queues - a writer that is done leaves no open queue behind; each
  writer finds its own; no receiver task is blocked for good on the queue of a
  writer that works.

## 2. Modules

| module | models | checked by |
|---|---|---|
| `Delivery` | abstract: chunks are read in order and written in order | refined by `JobFlow` |
| `JobFlow` | readers, job queue, both semaphores, sender tasks, cache, requeue thread, lost confirmations, UDP, writer loop; one attempt per file | `JobFlow_safety`, `JobFlow_live`, `JobFlowProofs` |
| `JobFlowRetry` | extends `JobFlow` by the restart of a refuted file, from any start index, beside the readers of earlier attempts | `JobFlowRetry_*` |
| `JobFlowProofs` | theorems about `JobFlow` and `JobFlowRetry` | TLAPS |
| `JobFlowFaults` | extends `JobFlow` by writers that end early, with several files, and the queues failed writers leave behind | `JobFlowFaults_live` |
| `Batch` | abstract: the receiver agrees to files, each path changes once, nothing changes after it left | refined by `Session` |
| `Session` | both hosts from manifest to exit, writers' life cycles and partial files, both TCP streams with ciphers, faults | `Session_*` |
| `SessionProofs`, `SessionFiles`, `SessionBooks` | theorems about `Session`: messages and ciphers; files, retries and the refinement of `Batch`; results and limits | TLAPS |
| `Resume` | one partial file, byte by byte, over stopped runs | `Resume_*` |
| `Layout` | operators: the crawl, local and partial paths, directories to create | `Resume_stops` |
| `ResumeTree` | `Resume` and `Layout` composed: runs that create directories one by one, may be killed in between, and then write | `Resume_stops` |
| `ResumeProofs` | theorems about `Resume` | TLAPS |
| `ResumeTreeProofs` | theorems about `Layout` and `ResumeTree` | TLAPS |
| `Receive` | receiver tasks, `SplitQueue`, bounded queues, both ends of a writer's life | `Receive_*` |
| `ReceiveProofs` | theorems about `Receive` | TLAPS |
| `Launch` | options, logins, command runners, setting up streams and sockets, ctrl-c, STOP and exit statuses | `Launch_cancel` |
| `LaunchProofs` | theorems about `Launch` | TLAPS |
| `MCJobFlow`, `MCJobFlowFaults`, `MCJobFlowRetry`, `MCResumeTree` | instances: file sizes, names, symmetry | |

The modules cut the program where its parts meet through little state. `JobFlow`
needs from `Session` only that a reader and a writer of a file begin at the same
start index (`First`), which the Start/StartIndex exchange establishes; `Session`
takes from `JobFlow` that a reader and a writer that run deliver the rest of the
file (`WriterData` is one step, `Delivered` is why), and from `JobFlowFaults` and
`Receive` when they do not: a queue left behind has filled (`Clogged`), or the start
index lies behind the end of the file. `Receive` refines what
`JobFlow` calls the network on the receiving side: a queue that delays, drops and
reorders. `Launch` ends where `Session` begins: with both streams connected (its
phase *setup* is `Session`'s handshake, *select* its running tasks), and its
`PeerGone` rests on `BothExit`. `Resume` looks into the partial file of which `Session` knows a length
and whether it is right.

### Correspondence

* **JobFlow.** A job is its key `<<id, index>>`; indexes count chunks. The action
  of a task is the code between two awaits at which another task can interfere:
  `SenderAcquire`, `SenderRecv`, `SendOk`/`SendError`, `CacheJob` are the four
  awaits of `sender`; the requeue thread is `RequeueScan` (read lock),
  `RequeueLock` (both write locks) and one `RequeueKey` per key, while the locks
  are held (`requeuer = "locked"`) and shut out `CacheJob` and `Confirm`. Any
  cached job may be older than the requeue interval. The semaphore `send` has no
  effect on safety and is kept for its bound. One confirmation is one step: a
  batch is handled under the same locks, which the order of steps includes. The
  writer tells apart chunks behind, at and ahead of its position, and
  `WriterDrain` is one turn of the inner loop. A reader reads whole chunks: the
  read buffer is a multiple of the transfer buffer (main.rs 53).
* **Session.** `str` is a queue of messages per direction, each with the
  keystream position it was encrypted at; `position` is that of each end's
  cipher. `rts` merges the message channel of the receiver with the stream. The
  writer of attempt *n* at a file goes through *open, data, verify, remove or
  rename, end, report*; partial files are inodes, since attempts share a path and
  one may unlink what another has open. A file on disk at the start is inode 0, of
  any length: up to the whole file, and with the fault *long* also longer, of which
  `Size + 1` chunks stand for every case. Such a file makes `details.size -
  start_index` wrap, so that the manifest may be refused for want of space
  (`MayLackSpace`); otherwise its writer waits for chunks that never come, until the
  receiver tasks time out (`ReceiversStarve`). `leftover` is the queue of a writer
  that failed: left in place and filling, or *full*, when every receiver task is
  blocked on it (`Clogged`) and no writer gets a chunk (`Fed`). A message is dropped
  when the channel is closed or `send_messages` has failed (`Gone`). `results` and `rresults` hold what the tasks of a host ended with;
  `SenderExit` and `ReceiverExit` are the `select!`, which takes any of them.
  `faults`, chosen once from `FaultSets`, is what may go wrong: broken streams,
  failing tasks on sockets, failing disks, wrong data, no space, cancellation.
  A host exits when its process does: what other tasks do between the `select!`
  and the end of the process (`main` still waits for the statistics printer) is
  what they do before `SenderExit` or `ReceiverExit`. The refinement of `Batch`
  maps the files agreed to to `wanted`, the paths to `final`, and *open* to a
  receiver that has not exited; everything else is invisible to it.
* **JobFlowFaults.** `WriterDone` is a writer that has all of `details.size` while the
  source has grown, `WriterFails` one that fails on the disk: either way the chunks
  its reader still queues are confirmed by nobody. The difference is its queue. The
  first removes it, and later chunks are dropped; the second leaves it in both maps,
  where `RecvForFailed` fills it up to `QueueCap` and then blocks the receiver tasks
  one after the other (`blocked`; there is one UDP socket for each sender task, so
  receiver tasks have the names of sender tasks). A reader that fails (`ReaderFail`)
  drops its permit, which goes back.
* **JobFlowRetry.** `Restart` is enabled as soon as the writer has written everything,
  whatever the reader of the attempt does, as `controller` never asks. That reader
  moves to `old` and goes on there (`OldAcquire` to `OldFail`). The first attempt
  begins at any start index, a later one where the one before did or at 0
  (receiver/mod.rs 309). A job is its key, so jobs of two attempts with one key
  share one entry of the cache.
* **Resume.** File contents are sequences of source offsets, so that a byte in
  the wrong place is visible. The write buffer is explicit; `Stop` loses it but
  for a prefix that a write under way had already handed to the kernel. The file
  is opened for append, as in the code. A refutation is three steps: the sender is
  told (`Refuted`), it starts the file again (`Restart`), and the old writer removes
  the path (`RemoveRefuted`), the last two in either order and the last one also
  while the next writer works: what that one has open loses its name, and it fails
  at the hash or the rename.
* **Layout, ResumeTree.** A directory is a sequence of names, a file a directory, a
  stem and extensions, since `with_extension` looks at these. `ManifestDirs` allows
  every order in which `read_dir` may list siblings. `RunTree` computes the path with
  the destination as this run finds it, as `receiver::main` does before it creates
  anything; each `create_dir` is a step, and a run may be killed before and after it.
* **Launch.** `front` is the process the user started; the host it is itself (`local`,
  possibly none: `Mode::Controller`) runs in it. A `runner` is *wait* at its
  `select!`, *busy* in the body of a message, and *notified* when the signal found
  it waiting and the `select!` has not chosen yet: it may still choose a message,
  which drops the notification, as dropping a `Notified` does. Ports are u16 with
  `Width` for 2^16; a release build wraps. `asked` remembers the range and the
  threads the user gave, which `main` overwrites (`Adjusted`).
* **Receive.** A queue is named by file and attempt; the maps hold the attempt
  whose end is in them. `SendJob` waits while the queue is full. Datagrams of any
  file may always arrive, which stands for an arbitrary sender.

## 3. Runs

Passing runs:

| run | instance | shows |
|---|---|---|
| `JobFlow_safety` | 1 file of 2 chunks, 2 sender tasks, 2 permits, 2 retries; symmetry over sender tasks | `NoChunkLost`, `ConfirmationKept`, `OnePlace`, `PermitsConserved`, `Causality`, and that `Delivery` is implemented |
| `JobFlow_live` | 1 file of 2 chunks, 1 sender task | `Delivered`, `PermitsReturn` |
| `JobFlowRetry_bounded` | a one-chunk file, transferred up to three times, from the start or the end of it; readers of all attempts at work, 2 permits | `PermitsBounded` |
| `JobFlowFaults_live` | 2 files of one chunk, 2 permits, 1 sender task and socket, queues of 1 job; readers fail, the writer of one file fails or ends early | `OthersDelivered` |
| `Session_faults` | 2 files, `max` 1, signatures; six sets of faults, two kinds at a time, all but wrong data | `AtMostMax`, `DoneLast`, `SuccessMeansSettled`, `CipherLockstep`, `NothingForgotten`, `BothExit`, and that `Batch` is implemented |
| `Session_retry` | 2 files, `max` 2, wrong data, 2 attempts each | `CipherLockstep`, `RetriedWasRefuted`, `StoredIsRight`, and that `Batch` is implemented |
| `Resume_stops` | `ResumeTree`: 7 and 8 bytes in chunks of 2, buffer of 4, 4 runs, with and without signature; sources of up to 2 files in up to 2 directories, any options, any directories there before | `FinalRight`; `InPlace`, `StartsInside`, `Completes` for 8 bytes; `DirsReady`, `PathStable`, `SeparatePaths` |
| `Receive_queues` | 2 files, 2 attempts each, 2 receiver tasks, queues of 1 job, failing writers | `OpenHasWriter`, `OwnQueue`, `BackToSocket` |
| `Launch_cancel` | 8 ports, ranges and thread counts of every kind, every mode, two ctrl-c | `StreamsPaired`, `PortsAgree`, `OneLeavesAllLeave`, `CancelEndsAll` |

Runs that find the code at odds with what it says of itself (`findings` in
`PROJECT.json` has the quotes):

| run | violated | what happens |
|---|---|---|
| `JobFlowRetry_stale` | `DroppedWasConfirmed` | the chunk of attempt 1 is requeued, its confirmation arrives late and is noted in `lost_confirmations`; attempt 2 sends the same key, and the requeue thread drops it as confirmed before any writer has it |
| `Session_refuted` | `DoneLast` | a refuted signature is reported as Failure 0 and again as Failure 2; the retry begun on the first is given up on the second, and Done overtakes its writer |
| `Resume_tail` | `FinalIsSource` | stopped after the short last chunk was flushed; the next run starts at the last multiple of 1024 and appends the tail again |

More follows from the models without a run of its own. Most of it is the condition
of a property that a run checks, and dropping the condition refutes the property:

* **The transfer that hangs.** A writer that fails on the disk returns before
  `pop_queue` (writer.rs 78-148). Its reader goes on, its jobs are never confirmed
  and are sent again and again, so its queue of 1000 jobs fills; then every receiver
  task that has one more job for it blocks in `SplitQueue::send` (writer.rs 48),
  which no timeout covers (receiver/mod.rs 252 covers the socket only), though
  receiver/mod.rs 262 takes a job that cannot be queued for one of a file that "has
  already been completed (probably)", to be dropped. When all tasks are blocked no
  file gets a chunk, and both hosts wait for ever. Three properties draw the line
  around it: `BackToSocket` speaks of queues whose writer does not fail;
  `OthersDelivered` ends in delivery *or* `blocked = Senders`; `BothExit` in both
  hosts' exit *or* `Hung`, which is just this case: a queue is full and a writer waits.
* `OthersDelivered` also assumes fewer than `JobLimit` stranded jobs. A failed or
  finished writer of a large file strands `job_limit` jobs, and then no other file
  gets on: the transfer sends the same jobs again and again.
* `DoneLast` is checked in `Session_faults`, without refuted signatures; with them it
  fails as in `Session_refuted`. So does an unconditional `NothingForgotten`: it
  excepts a file that was started again and whose refuting writer has reported
  Failure 2 as well (`Retried`), since from then on its books are wrong. In
  `Session_faults`, with one attempt, the exception never applies. What holds through
  every retry is `RetriedWasRefuted`.
* `SuccessMeansSettled` holds of both controllers without condition (but `Retried`).
  A *host* may report success too early: when the rts stream breaks or the peer
  leaves, `split_receiver` returns the error and thereby ends
  `receive_confirmations` with Ok, and `select!` may take that ("propagate the first
  error", sender/mod.rs 163). The property names these cases as its exceptions.
* `OneLeavesAllLeave` excepts `Stuck` hosts. A controller whose second login fails
  leaves the sender it has started connecting for ever; a host that fails between
  its two streams leaves the other one accepting or connecting; `--threads 0` leaves
  the sender at its crawl.
* `CancelEndsAll` begins with a host that heard the cancellation at its `select!`.
  A ctrl-c or STOP during the setup of the streams, the handshake, or the hashing of
  the source finds no `notified()` waiting and is lost; so is one that comes while
  both command runners handle a message. `wait_for_stop` ends with the first STOP.
* `PortsAgree` compares with the range and threads the user gave, not with what `main`
  made of them, and counts ports only for 1 to 2^16 - 1 threads; `threads as u16` is 0 for
  65536, which passes the validation and leaves a range without data ports.
* `DirsReady` excepts `Nested`: a single file found below the source is sent into a
  destination that exists, without `--directory`. Its path has directories, but
  `is_dir` is false and nobody creates them, so the writer fails on open.
* `SeparatePaths` does not say that the partial path of one file differs from the path
  of another: it does not, for a source with both `a` and `a.partial`.
* A retry is meant to begin at 0 once its partial file is gone (receiver/mod.rs
  308), but Failure 0 leaves before the file is removed, so the Start of the
  retry may still find it. `StoredIsRight` holds all the same: the next
  verification refutes the file or the rename finds nothing.
* `InPlace`, `StartsInside` and `Completes` hold for files without a short last
  chunk. Otherwise a doubled tail can make the partial file longer than the file,
  and with a start index beyond `details.size` the writer waits for chunks that do
  not come: until the receiver tasks time out, which is after all other files.

### Bounds, and why they are enough

* Two chunks are the least with which one overtakes another, and two sender tasks
  the least that hold jobs at once; the proofs cover all other values.
  `ConfCap` (confirmations of one chunk in transit) is 1 or 2, while the writer
  confirms every copy of a chunk that is ahead of its position (writer.rs 113-116)
  and the channel is not bounded. So the bound may delay a copy of a chunk, which
  the network may do too, and 2 is the least with which a confirmation arrives
  twice; the proofs hold for every `ConfCap`.
* `SendCap` is 1 instead of 1000: a rate semaphore with one permit already lets
  every interleaving of sends happen.
* `MaxAttempts` bounds the writers of a file, 2 where retries matter in `Session`,
  and 3 in `JobFlowRetry_bounded`, so that two old readers meet beside a new one. In
  `Session` the last attempt is not seen to be refuted, as another would follow.
* `Resume`: chunks of 2 bytes allow a short chunk; the buffer holds two chunks, so
  that writes and flushes differ; one removal of a refuted file is outstanding at a
  time, which a second refutation waits for; 4 runs meet every sequence of stop positions that
  leaves a different file length of a whole file.
* `ResumeTree`: two directories, one in the other, and two names that differ in the
  extension are the least for which the order of directories, the place of the
  extension and a destination that holds some of it already matter.
* `JobFlowFaults`: one chunk per file and two permits, so that one failed file holds
  half of them, or all when another permit is lost as well. `Faulty` names the one
  file whose writer may end early, so that the other must be delivered; `QueueCap` is
  1 instead of 1000, as one job that stays already fills it.
* `Session_faults`: the sets of `FaultSets` pair faults that meet in one task or one
  stream; all of them at once exceed what TLC can finish. One attempt per file, as
  nothing is refuted.
* `Launch`: `Width` 8 has room for ranges that are empty, too small, exact, too large
  and full; thread counts below, at and above them, zero, and `Width` itself. A
  second ctrl-c is the last the code listens to.
* `Receive`: capacity 1 instead of 1000 fills at once; two files and two tasks
  are the least for one file's queue to stop another's data.

Deadlock checking is off everywhere, as every one of these systems ends: a
transfer is over, both hosts have returned, or a bound is reached. That they do
not end early is what `Delivered`, `BothExit`, `Completes` and `BackToSocket` say.

### Fairness

* `JobFlow`: tokio semaphores and locks and kanal channels serve waiters in
  order, so a task that asks again and again is served (SF on acquiring, on
  receiving and on the locks; the requeue thread's locks shut out confirmations as
  a whole, so fairness of confirming is over all of them); other steps of a task
  are weakly fair. The
  interval of the requeue thread makes it look at a cached job again and again
  (SF on a scan that includes the key). The network delivers a datagram that is
  sent repeatedly (SF on `WriterRecv`): without that no protocol transfers
  anything. Losing, failing and duplicating are never fair. `Delivered` and
  `PermitsReturn` assume that no sender task exhausts its retries and no
  reader fails: the code does not recover from either, and ends or waits.
* `Session`: each host keeps running as long as one of its tasks can (WF on its
  steps as a whole); streams and faults are not fair, and neither is the filling of a
  queue that was left behind. That the receiver tasks time out when nothing can come
  (`ReceiversStarve`) is a step of the host, so it happens unless something else does.
* `Resume`: a run that is not stopped gets on (WF).
* `JobFlowFaults`: as in `JobFlow`, for the writers that are still there and as long as
  a receiver task is not blocked: strong fairness of `RecvUnlessBlocked` demands
  nothing once `blocked = Senders`.
* `ResumeTree`: as in `Resume`; a run that cannot go on ends.
* `Launch`: the user's process, each runner, each host and each `wait_for_stop`
  thread goes on while it can (WF on each). `TransferEnds` is not fair: a transfer may
  take for ever. Neither are failures, messages of the channel, and ctrl-c.
* `Receive`: kanal serves blocked senders in order (SF on `SendJob`), the
  controller and the writers get on (WF).

## 4. Proofs

`JobFlowProofs` proves for every set of files, every start index and size, every
number of sender tasks and every limit, from the assumptions named in `JobFlow`
(`FilesAssumption`: sizes are naturals and a start index is not behind the end;
`LimitsAssumption`; `NoJobAssumption`):

| theorem | says |
|---|---|
| `TypeCorrect` | `Spec => []TypeOK` |
| `Invariant` | `Spec => []IInv` |
| `CausalityHolds`, `JobsInOnePlace`, `ChunksNeverLost`, `ConfirmationsNeverLost` | the conjuncts of `IInv` a reader wants |
| `PermitsNeverLeak` | `Spec => []PermitsConserved` |
| `ImplementsDelivery` | `Spec => DeliverySpec` |

None of the properties is inductive alone. A job may be dropped on a noted
confirmation, so `NoChunkLost` needs `Causality` (a noted confirmation means an
accepted chunk); that a job taken from the cache is not elsewhere needs
`OnePlace`; and `OnePlace` needs that a chunk about to be read is not outstanding
yet, which is `Causality` again (`WasRead` for everything outstanding).
`ConfirmationKept` needs `OnePlace` to know that the job whose confirmation is
used up is gone. `IInv` is their conjunction with `TypeOK`; `JobFlow_safety`
checks each conjunct. Every action is first shown to move jobs as its name says
(lemmas `JobPushed` to `JobReleased`: what becomes of `OnePlace` and of
`Outstanding`), and then to keep the rest (`SafePush` to `SafeDrain`).
`PermitsConserved` is a count, so `PermitInv` adds that the counted sets are
finite, and the library's theorems on cardinality do the arithmetic. The
refinement maps `index` and `position` to themselves; `DeliveryStep` needs
`Causality` (no writer is ahead of its reader) and nothing else.

The last part of `JobFlowProofs` proves `PermitsAlwaysBounded`
(`SpecRetry => []PermitsBounded`) from the same assumptions. `OnePlace` and
`Causality` do not survive a retry (a late confirmation of the first attempt may
remove a job of the second, and one job may overwrite another in the cache), so the
proof counts jobs where they are, in the queue, in hands and in the cache: `BoundInv`
adds to `PermitsBounded` that these sets are finite. Each action moves at most one
job or gives a permit back for one, and a job that overwrites another is one less.
The readers of earlier attempts are counted beside the current ones: a restart moves
a reader, with the permit it may hold, from one set to the other (`BoundRestart`),
and each of its later steps does what a reader's step does. The start index plays no
part, so the theorem holds for retries from any.

`ResumeProofs` proves for every set of sizes, every transfer buffer, every write
buffer that is a multiple of it and any number of runs (`ResumeAssumption`):

| theorem | says |
|---|---|
| `TypeCorrect` | `Spec => []TypeOK` |
| `ResumeInvariant` | `Spec => []RInv` |
| `FinalAlwaysRight` | `Spec => []FinalRight` |
| `WritesInPlace` | `Spec => []InPlace` |
| `StaysInside` | `Spec => []StartsInside` |

`FinalRight` says nothing of a file that is still partial. `RInv` adds, for a file
of whole transfer buffers, `Sequential`: what is on disk is the first `n` bytes of
the source, `n` a multiple of the transfer buffer (so that `start_index` rounds
nothing away), and the buffer holds the bytes from `n` to the position. Lemmas about
stretches of the source (`BytesConcat`, `BytesPrefix`) make appending and a stopped
write the only two things that happen to it. A file of whole transfer buffers is
never refuted, so nothing removes it; where one may be (`doomed`), it has a
signature and may be removed under the next writer's hands, which `RInv` allows for. For a file with a signature, which
may well be wrong while partial, `RInv` adds that it is renamed only as the source.
The rounding is why the proof needs the size to be a multiple of the transfer buffer
(`Whole`); `Resume_tail` shows what happens when it is not.

`ReceiveProofs` proves for every set of files, any set of receiver tasks, every
capacity of a queue and any number of retries and attempts (`ReceiveAssumption`):

| theorem | says |
|---|---|
| `TypeCorrect` | `Spec => []TypeOK` |
| `QueueInvariant` | `Spec => [](TypeInv /\ QueueInv)` |
| `OpenChannelsHaveWriters` | `Spec => []OpenHasWriter` |
| `WritersOwnQueues` | `Spec => []OwnQueue` |

`TypeOK` bounds retries by `MaxRetries`, which is not inductive: `TypeInv` adds that
a task that receives has a retry left (`RetriesLeft`). `OwnQueue` needs that no
other writer of the same file removes the entries: `QueueInv` says what both maps
hold while a writer opens, writes, fails or is halfway through `pop_queue`, what
they hold while the controller is halfway through `push_queue`, and that a file
whose transfer is to be started (again) is in neither. Two attempts at once would
need two entries under one id. `OpenHasWriter` follows: a channel of a writer that
is over is in neither map, so whoever cloned its sending end before holds the end of
a closed channel, and his send returns.

`ResumeTreeProofs` proves for every finite set of directories, however deep, every
set of file names and any number of runs (`LayoutAssumption`: a path is a sequence of
names; `ResumeAssumption`):

| theorem | says |
|---|---|
| `DirectoriesReady` | `FairSpecTree => []DirsReady` |
| `PathsStable` | `FairSpecTree => PathStable` |
| `PathsSeparate` | `FairSpecTree => []SeparatePaths` |
| `TreeIsResume` | `FairSpecTree => Spec` of `Resume` |

The argument goes from sequences to runs. `FrontType` and `FrontBelow` say what the
path above a path is; `ManifestOrder` that `find_files` lists every directory it
enters, each after the one it is in; `Creation` that the list which is worked off
in the destination therefore has the same order. `TreeInv` says of every moment of
every run that a directory still to be created has its parent there or ahead of it
(`Parents`), and that the directory of the file is there or still to come
(`Placed`). `Placed` also says that the path is what it would be if it were computed
again now. That needs a proof because `LocalPath` asks whether the destination is a
directory, and the run creates directories. `TreeIsResume` carries the theorems of
`ResumeProofs` over to runs that create directories and are killed between two of
them: they hold of every behaviour of `Resume`.

`SessionProofs`, `SessionFiles` and `SessionBooks` prove for every set of files, any
`Max`, any size, any number of attempts and any sets of faults (`SessionAssumption`):

| theorem | says | in |
|---|---|---|
| `CiphersInStep` | `Spec => []CipherLockstep` | `SessionProofs` |
| `TypesKept` | `Spec => []TypeOK` | `SessionFiles` |
| `VerifiedIsRight` | `Spec => []StoredIsRight` | `SessionFiles` |
| `RetriesFollowRefutations` | `Spec => []RetriedWasRefuted` | `SessionFiles` |
| `SessionIsBatch` | `Spec => BatchSpec` | `SessionFiles` |
| `BooksAgree` | `Spec => []NothingForgotten` | `SessionBooks` |
| `SuccessIsTrue` | `Spec => []SuccessMeansSettled` | `SessionBooks` |
| `MaxIsKept` | `NothingRefuted` implies `Spec => []AtMostMax` | `SessionBooks` |
| `DoneIsLast` | `NothingRefuted` implies `Spec => []DoneLast` | `SessionBooks` |

The proof goes outwards from the stream of requests and replies, each invariant
resting on those before it:

* `Wire`: that stream holds at most one message, and the two ciphers are one
  message apart while it does. `Stage`: which message may be on it in which phase of
  each host, and what neither has begun during the handshake. Both are needed at
  once: a host that writes out of turn would break `Wire`, and only `Stage` says
  whose turn it is. `CipherLockstep` follows.
* `Counted`: a file has as many writers as readers, and one more while its
  StartIndex is on the way. `Tokens`: a file is in one hand, which is that of the
  controller, of one writer, or of one refutation on its way to the controller. So a
  Start finds no earlier writer that is not past its refutation, which is
  `RetriedWasRefuted`: no two writers write, verify or rename at once, though the
  receiver checks nothing. An earlier one may still remove the path.
* `Stored`: a path is named only by a writer that has renamed, and under `--verify`
  what is about to be renamed is right. Every step is then one of `Batch` or none.
* `Truthful`: a report on its way is about a file of which some writer has ended.
  `Books`: of what the controller has ticked off some writer has ended, and every
  file agreed to is on its books, in a message, or such. That is weaker than what
  `NothingForgotten` says (the *last* writer has ended) and inductive as it stands;
  `OverMeans` closes the gap: where some writer has ended, the last one has, or the
  file was started again after a refutation (`Retried`). `Success`: what the end of each task says in turn, up to the
  exit of either host; its disjuncts are the ways in which a task can end in `Ok`
  without a Done (the connection lost, the other host gone).
* `Once`, `Bounded`: where no verification fails a file has one writer, which works
  only while the controller counts the file.

The last two theorems carry the hypothesis `NothingRefuted` (no `--verify`, or no
data fault that a verification could find). It is necessary: `Session_refuted` shows
`DoneLast` violated without it, and the same defect, a controller that drops a
refuted file from its books before it is transferred again, lets `AtMostMax` fail
for two files and `Max = 1`.

`LaunchProofs` proves for every width of a port number, every set of ports a user may
give and every number of threads (`LaunchAssumption`):

| theorem | says |
|---|---|
| `LaunchTypes` | `Spec => []TypeOK` |
| `StreamsArePaired` | `Spec => []StreamsPaired` |
| `PortsDoAgree` | `Spec => []PortsAgree` |

`LaunchInv` says that what a host has opened is a function of the options, as `main`
leaves them, and of the number of its streams (`Streamed`); that no host starts
before the options are settled (`Ordered`); and what settled options are, compared
with what the user asked for (`Settled`: two ports for the streams, then one for each
thread, all inside the range asked for and below `Width`). Agreement of the hosts is
then a fact about one function. `ParseSettles` has the arithmetic of `u16`: the count
of ports and `threads as u16` may wrap, and what `main` checks is enough all the same
but for the number of sockets with 2^16 threads or more, which the property excepts.

Only model-checked: the liveness properties (fairness and ENABLED are beyond the
prover) and what `JobFlowFaults` says, which is liveness too. Every
invariant and every refinement that a passing run checks is also a theorem.

## 5. Not modelled

* Time: timeouts, the requeue interval and the rate are "at any moment".
* Batching of confirmations beyond reordering, statistics, progress, logging.
* Bytes: encodings, ciphers and hashes. A signature matches exactly when the
  contents are right.
* Parsing: clap, IoSpec, Crypto and ByteSize, and the framing of Stats messages in
  ssh data, which is a step that may break the runner. The rate's division
  (sender/mod.rs 437) is listed as a hazard.
* What ssh does to a remote host when the user's process leaves: it may go on.
* Prompts and retries of a login, the installer, conversions of errors.
* Symbolic links, names that are not UTF-8, other platforms' separators, and changes
  to source or destination that other programs make during a run.

## 6. Plan

In order of importance; all are done.

1. `JobFlow`, `Delivery`, `JobFlowProofs`: the data path and its invariants.
2. `JobFlowRetry`: keys of two attempts.
3. `Session`: both hosts; `Batch`, what they promise of the destination.
4. `Resume`, `ResumeProofs`: partial files; `Layout`, `ResumeTree`: where they are.
5. `Receive`: the receiving side's queues.
6. `Launch`: how a transfer comes up and goes down, and the arithmetic of ports.
7. `JobFlowFaults`: which files starve when others go wrong.
8. `ReceiveProofs`, and in `JobFlowProofs` permits over a retry.
9. `SessionProofs`, `SessionFiles`, `SessionBooks`, `LaunchProofs`,
   `ResumeTreeProofs`: the remaining invariants, and the refinement of `Batch`.
