# Verification of ouch

This directory holds TLA+ models of `ouch`, the compression and decompression
tool in `src/ouch` (a native command line and a WASM build of the same crate) and
its TypeScript layer `src/mod.ts`.  TLC checks the models on small instances, and
TLAPS proves the main theorems for every value of their constants.  Paths below are
relative to `src/ouch/src/` unless they start with `src/`.

## 1. The system

### Native command line

| Part | State | Operations | What is hard |
|---|---|---|---|
| `main.rs`, `cli/` | `INITIAL_CURRENT_DIR`, parsed `CliArgs` | parse, start the logger thread, run a command, shut the logger down, exit code | a shutdown while others may still log |
| `utils/logger.rs`, `utils/io.rs` | an mpsc channel, the logger's buffer, a two-party barrier per flush, the stdout and stderr locks | `info!`, `info_accessible!`, `warning!`, `flush_messages`, `shutdown_logger_and_wait`, `lock_and_flush_output_stdio` | threads, timeouts, locks and a rendezvous at once |
| `utils/question.rs` | `QuestionPolicy` | ask to overwrite, merge, rename, cancel; ask to continue; `create_file_or_prompt_on_conflict` | the disk changes between the check and the creation |
| `commands/mod.rs`, `commands/decompress.rs` | `claimed_targets`, targets, a rayon pool | settle every target, then decompress in parallel, flatten a wrapper, `--remove` | several inputs with one target; one task fails while others run |
| `commands/mod.rs`, `commands/compress.rs` | the output file, a chain of encoders over a `BufWriter` | create, write, drop, remove on failure | encoders and buffers finish in `Drop`, where no error can be told |
| `commands/list.rs`, `list.rs` | none | list and print a tree | - |
| `extension.rs`, `check.rs` | none | parse a chain of formats, check it, check a file's signature | the order of a chain |
| `utils/fs.rs` | `LimitedReader.remaining` | resolve conflicts, rename, remove, cap a decoder's output | the exact limit |
| `archive/`, `non_archive/` | `seen_inode`, the read-only directories to restore | walk a tree into an archive, write an archive's entries | the order of a walk: links to earlier entries, directories that forbid what comes after |
| `sandbox/` | kernel rules, applied once | grant the paths a run needs | what is granted is settled before the tasks run, and only for what exists; it forbids the cleanup of a failed compression |

The main thread parses, asks and settles; the rayon tasks of a decompression share
the disk, the logger's channel and the two standard output locks with it; the
logger thread answers flushes through a barrier.  Commands share nothing else.

### WASM build and TypeScript layer

| Part | State | Operations | What is hard |
|---|---|---|---|
| `wasm/vfs.rs` | a map from paths to nodes behind a mutex | write, link, create directories, read, walk, remove, clear | a flat map that stands for a tree |
| `wasm/entry.rs`, `archives.rs`, `codecs.rs`, `stream_encode.rs` | none between calls | compress, compress_from, compress_to_sink, decompress, list, read and stream entries | four loops over the layers of a chain; three routes to one entry |
| `wasm/seekable.rs` | position, read-ahead buffer | read, seek, write over a JavaScript callback | short answers, errors, a buffer that outlives a seek |
| `src/mod.ts`, `src/node.ts`, `src/deno.ts` | one cached instance | streams around the synchronous calls, sinks and sources of a host | cancellation, asynchronous sinks |

JavaScript calls into WASM synchronously and WASM calls back (`readAt`, `writeAt`,
`emit`) before it returns; there are no threads on this side.

### What makes each part correct

- **Log and questions**: every displayable line reaches stderr once and in order,
  before the question or the exit it precedes; nobody waits for ever.
- **Decompression**: inputs do not silently share a target; nothing that was there
  is lost without consent; finished outputs are whole; the outcome is truthful.
- **Flattening**: an entry is only ever moved; the one that can be lost is a file named
  like the wrapper (`x/x/x`), under its temporary name when the task that moved it fails.
- **Compression**: no other file than an agreed overwrite is lost; a success is a
  whole file; a partial file is removed or told of.
- **Sandbox**: the rules of a run allow its tasks everything they have to do.
- **Archives**: an unpacking that succeeds has rebuilt the tree, whatever the order of
  the entries and the modes of directories; one that fails has a cause outside both.
- **Limit**: exactly the limit passes, one byte more fails.
- **Byte source**: the reader is a plain file over the source; a byte crosses from
  JavaScript once.
- **Streaming API**: a stream that ends without an error, or a promise that resolves,
  has given the whole entry or output; every call settles.
- **WASM operations**: what is compressed reads back; every route to an entry agrees;
  decompress changes what it says and nothing it may not.

## 2. Modules

| Module | Models | Used by |
|---|---|---|
| `LogStream` | abstract log: lines accepted, shown, closed | `Logger` (`Stream == INSTANCE`) |
| `Logger` | `run_logger`, `flush_messages`, the shutdown, `lock_and_flush_output_stdio`, the questions, the pool's use of them | `MCLogger`, `LoggerProofs` |
| `DecompressRun` | one `ouch decompress` from its checks to its outcome, with its sandbox | `MCDecompressRun`, `DecompressProofs` |
| `DedupWrapper` | `deduplicate_basename_wrapper` in one or several tasks | `MCDedupWrapper`, `DedupProofs` |
| `CompressRun` | one `ouch compress`: conflict, sandbox, encoders, drop, cleanup, beside another process | `MCCompressRun`, `CompressProofs` |
| `LimitedReader` | the cap of `OUCH_MAX_DECOMPRESSED_BYTES` under `io::copy` | `UnpackRun` (EXTENDS) |
| `UnpackRun` | a tree archived as tar, zip or 7z and unpacked under the cap | `MCUnpackRun`, `UnpackProofs` |
| `RandomAccess` | abstract file: read at the position, seek | `SeekReader` (`File == INSTANCE`) |
| `SeekReader` | `JsSeekReader` | `HostStream` (EXTENDS), `SeekReaderProofs` |
| `HostSink` | `JsSeekSink`, the captured writes, the file sinks of Node and Deno | `HostStream` (EXTENDS) |
| `HostStream` | one call of `streamEntry`, `streamEntryFrom` or `compressTo`, with its stream and consumer | `MCHostStream`, `HostStreamProofs` |
| `Vfs` | the map of `vfs.rs`, as pure operators | `WasmOps` |
| `WasmOps` | the calls of `entry.rs` over the virtual file system and the host | `MCWasmOps`, `WasmProofs` |

They follow the order of the plan: the concurrent core (the log path) first, then the
runs that touch the disk, then the WASM side.  `PROJECT.json` maps each definition to
the lines it stands for.  A definition whose comment begins with "Faulty" is a wrong
version of the one after it, kept to show that a property notices.

### How state and actions correspond to the code

**Logger.**  The channel is the history `sent` and the number `rcvd` of commands
taken, so a line is its position.  `lpc` and `req` are the logger's place in
`run_logger` and the flush it serves; `buffer` and `stderr` hold positions.  Each
other thread has a place `pc`: `Log` is a log macro, `FlushMessages` sends a flush and
waits, `Meet` is the barrier, `LockStdout` and `LockStderr` take one lock each
(re-entrant, with `depth` counting the guards), `Answer` reads stdin, `Continue` is
`user_wants_to_continue` inside the locks of its caller, `Shutdown` is the end of
`main`.  `EnterPool`, `StartTask`, `FinishTask` and `LeavePool` are `pool.install`
with `try_for_each`: a failure stops new tasks from starting.  `Receive`, `Timeout` and
`FlushLogs` are the logger; it writes stderr only when no other thread holds the lock.

**DecompressRun.**  A path is a sequence of components, a component is a name and the
indices that renames gave it, and the content of a file is the set of those who wrote
to it, so a mixture of two inputs is visible.  `Check` ends with one of the answers
that the format and signature checks may give (`AfterChecks`) and creates the directory
of `--dir`; `Prepare` is one call of `prepare_decompress_target`, with what
`resolve_path_conflict`, the answer, the removal or rename and `create_dir` do to the
disk and to `claimed_targets`, or a call that fails; `EnterPool` applies the sandbox,
whose rules (`Policy`) hold for what exists at that moment; `Start`, `Open`, `Create`,
`Copy` and `Finish` are a task, one entry at a time, allowed by `MayRead`, `MayWrite`
and `MayRemove`; a task may fail at each call, or be declined at `Open`; `LeavePool`
is the end of `try_for_each`.

**DedupWrapper.**  An entry is known by where it is (not unpacked, in the inner
directory, one level up, under a temporary name, in the place of the inner directory,
lost).  `MakeParent` and `Create` unpack one entry; `Inspect`, `List`, `Move`,
`RemoveInner` and `Promote` are the file system calls of the function, so that two
tasks interleave between any two of them, and one unpacks while another flattens.
`Fail` drops the temporary path: a file that is there is deleted.

**UnpackRun.**  A file's contents are named by its inode and counted in units.  `Walk`
is one step of the walker, which lists a directory in any order and goes into it at
once; `TarEntry`, `ZipEntry` and `SevenZipEntry` are what each builder makes of a path
(a tar notes the first path of an inode in `inodes`, a 7z keeps the entries without
data apart in `bare`, `length` is the tar's in units).  `FinishBuild` opens the finished
archive.  `IsTree` says what a tree on a disk is: what lies in something lies in a
directory, and the paths of an inode lead to one node.  `Header`, `UnpackDir`,
`UnpackSymlink`, `UnpackLink`, `OpenFile`,
`CopyPiece` and `Close` are the loop over the entries (a tree says of a link whether its
target is written as a path out of the tree, `Escapes`, which `validate_symlink_target`
refuses), `CapOrDecoder` the reads that
fail, `EndOfArchive` and `Restore` what follows the loop.  Every byte goes through the
actions of `LimitedReader`: one cap for a tar, one for each entry of a zip or 7z.

**CompressRun.**  The output is counted in units.  `CreateNew`, `Resolve` and
`CreateFile` are `create_file_or_prompt_on_conflict`, cut where another process may act:
`OtherCreates` lets it create each path of `Contested` once.  `raced` notes that it did
so after the path was chosen and before `File::create`.  `ApplySandbox`, `Wrap`,
`Copy`, `InputFails` and `EndOfInput` are the call of `compress_files`, where an encoder
may hold back what it was given; `Drop` is the end of the chain's life, after the result
is known; `CleanUp` is what `commands/mod.rs` does with the result.

**SeekReader.**  `ReadNothing`, `ReadBuffered`, `ReadRefill`, `ReadCold` and
`ReadFails` are the ways through `read`; `Seek` is `seek`.  A byte is named by its
offset, which makes a wrong byte visible; `Off` is taken modulo the values of a
`usize`, as the cast does.  A read that is served from the buffer although it lies a
whole `usize` or more past its start gets stale bytes; the history `strayed` notes it.

**HostSink.**  `sinkPos` and `sinkSize` are the fields of `JsSeekSink`, `file` the
host's file, `writes` what an asynchronous sink has captured.  `WriteSync`,
`WriteCaptured`, `SinkSeek` and `ReplayWrite` are its operations.  A byte is named by
the write that wrote it; `image` is what a plain file would hold, and only judges.

**HostStream.**  `Call` is the call of `mod.ts`; `SourceReady`, `BufferChunk` and
`BufferEnd` are `toSyncSource`.  From `phase = "parse"`, `"pump"` or `"encode"` to
`CallReturns` or `CallFails` the wasm code runs and nothing else does: `Parse`,
`Locate` and `PumpReader` use the actions of `SeekReader`, `PumpMemory` reads what is
in memory, `Emit` and `FinishLayers` push chunks to the controller, `Encode` uses the
actions of `HostSink`.  Afterwards `Replay`, `ReadBack` and their ends are the loops of
`compressTo` with a sink, `Consume` and `PipeEnd` the reader of the stream, `Cancel`
and `Breaks` a consumer or a writable that gives up.

**WasmOps.**  One action per call of the API that changes something (`RunCompress`,
`RunCompressFrom`, `RunCompressToSink`, `RunDecompress`, `WriteFile`, `VfsRemove`,
`VfsClear`).  A name is a stem and its extensions.  Bytes are what they encode and the
codecs applied since, so decoding in the wrong order fails as it does on real bytes.
`Formats` is the whole table of `slice_to_extension`, aliases included.  The loops over
the layers of a chain (`Through`, `ChainReader`), the entries of an archive
(`WriteEntries`) and the archives of a call (`DecompressAll`) are recursive functions;
`Failed`, `Written` and `Created` are what one entry does to the tree and the report.
`Known` names the lists of entries of the archives that are there at the start.  Such an
archive was made elsewhere, so a path in it may be behind `CurDir` (`./`) or `ParentDir`
(`../`): `Refused` and `Normal` are what `validate_entry_path` does with the two,
`Unpack` is the `unpack_*` of each format, `Shown` the path a listing gives an entry,
`Matches` the comparison by which each reader looks for it (not the same one), `First`
and `PumpBytes` what is then read and streamed.
The calls that only read (`List`, `SeekableList`, `ReadEntry`, `StreamEntry`,
`SeekableReadEntry`, `SeekableStreamEntry`) are operators and are compared in every state.

## 3. Runs

| Run | Instance | Shows |
|---|---|---|
| `Logger` | three tasks, two of them in memory; two threads with `--yes`, `--no` or `/dev/null`, one thread with a terminal; compress and list with every policy; one message each, accessible mode | 236 148 states: every line reaches stderr once and in order (`OnceInOrder`), before a question (`PromptShowsEarlierLogs`) and before the exit (`ExitShowsEverything`, `NoSendAfterShutdown`); locks are given back on every path (`LockDiscipline`); every run ends (`Terminates`); refines `LogStream` (`ImplementsStream`) |
| `LoggerAsk` | two tasks, two threads, a terminal | a violation of `FlushCompletes`, see section 5 |
| `Decompress` | two inputs of one basename in three modes, under three policies, over four disks; three inputs in default mode, one named like the rename of the others; with and without `--remove` and the sandbox; two threads | 308 368 states: `TargetsReady`, `SandboxPermits`, `PriorDataSurvives`, `OutputsIntact`, `DirectoriesConflict`, `SuccessIsComplete`, `Terminates` |
| `DecompressDuplicates` | two inputs under `--dir --no` | a violation of `DuplicatesConflict` |
| `Dedup` | one or two tasks in one wrapper, every subset of six entries, with a file or a directory named like the wrapper inside | 17 563 states: a task alone flattens its wrapper (`Flattened`) and loses nothing; shared, no more than the file a failing task has staged is lost (`NothingLost`) |
| `DedupReadOnly` | one entry that cannot be moved | a violation of `FailureLeavesNested` |
| `HostStream` | a source of 8 bytes with an entry in it, in memory, synchronous (short, empty and failing answers) or asynchronous; a buffer of 3; a `usize` of 6 values, fewer than the source has bytes; three writes of an encoder | 133 380 states: a clean end is a whole entry (`EndIsTrue`), a resolved promise a whole output (`ResolvedIsWhole`), every call settles (`Settles`); under it the reader is a plain file (`ImplementsFile`), asks inside the source (`RequestsInside`) and pulls each byte once (`PulledOnce`); what follows a strayed read is excepted where bytes are compared |
| `Unpack` | seven trees as tar, zip and 7z, six caps, four sizes of disk | 29 007 states: `SuccessIsFaithful`, `FailsOnlyForCause`, `CapIsExact` |
| `Compress` | every kind of first format, policy and sandbox; four sets of occupied paths and another process; two units of input, two held; a disk that takes 0, 1, 2 or 5 more | 149 048 states: other files survive (`PriorFilesSurvive`), success is whole while the disk takes it (`SuccessIsWhole`), a partial file is told (`PartialIsTold`) |
| `CompressTruncated` | a plain zip | a violation of `EverySuccessIsWhole` |
| `WasmOps` | three calls in any order, thirteen names, three trees, two host inputs, with and without a format flag and an output directory | 94 380 states: `RoundTrip`, `ReadersAgree`, `NeverOverwritesUnasked`, `ReportsWhatItWrote` |
| `WasmChain` | one compression to a name of three formats | a violation of `RoundTrip` |

The type invariant of each module (`TypeOK`, `HostTypeOK`, `UnpackTypeOK`) is checked too.

### Why the bounds are enough

- *Logger*: the third task makes one wait for a thread of the pool while another
  asks and a third logs; two inputs in memory let two threads want the locks.  A
  message before and inside a task is enough for a line before and after each flush.
  A second message multiplies states and adds no place where a thread can be.
- *Decompress*: the conflicts are between pairs; the third input has the name that
  renaming gives, the only way for a third to matter.  Two entries in the first archive
  put a failure between two of them; entries share names, so that targets may collide.
- *Dedup*: entries cover each combination the code looks at: at the root or inside,
  file or directory, named like the wrapper or not, of this task or the other.  Two
  tasks are enough for one to find gone, refilled or replaced what it had seen.
- *Compress*: a disk of 5 takes everything; smaller ones are full during the copy, at
  the flush or at the drop.  Paths 0 to 3 let the first rename be taken and the next
  be free.  The other process creates the requested path and its first rename, at any
  moment of the run.
- *HostStream*: the source fits the reader's buffer twice and a bit, so a refill, a cold
  read (lengths 0, 1, 2 and 4), a read past the end of the buffer and a seek (by -3 to 4,
  from each origin) to each side of it all occur.  The entry, bytes 2 to 7, is two
  chunks of 4, each longer than the buffer, which is what a strayed read needs: a
  read at 6 or 7 while the buffer starts at 0.  Three writes of one or two bytes
  are a header, data and a patched header; an encoder seeks up to 3, so a hole occurs.
- *Unpack*: the trees have nested read-only directories, hard links in and outside
  them, symbolic links to a file, to a directory, broken, hard-linked and written as a
  path out of the tree (to nothing, and back to a file of it), files below,
  at and above the buffer of 2, and the output inside its input under its own name, as a
  hard and as a symbolic link.  The caps are 0, below, at and above what the archives
  hold; the disks take nothing, a part and everything.
- *WasmOps*: three calls make compress, decompress and compress again; a fourth only
  repeats one on the same paths.  The archives made elsewhere have what no call of this
  API creates otherwise: directories, a link, a file before its directory, members behind
  `./` in each format and one behind `../` in a 7z.

Bounds in guards: `MaxLogs` and `MaxPrompts` (`Logger`), `MaxCalls` (`WasmOps`),
`MaxWrites` and `MaxEnd` (`HostSink`).  The other models end by themselves or
(`SeekReader`) have finitely many states.  `CHECK_DEADLOCK FALSE` is set for `WasmOps`
and `WasmChain`: the library is passive and stops when its host makes no more calls.  It
is set for `HostStream` and `Unpack`, where one call or one unpacking ends and nothing
follows, and for `LoggerAsk`: what that run shows is that the program stops for good,
and TLC is to report the answer that never comes.  Everywhere else an ended run
stutters in an action of its own, so a deadlock is a finding.

`WasmOps` lets the virtual file system's compress have one layer at most around an
archive: with two it fails, which is what `WasmChain` shows.  The streamed
compressions have any number.

### Fairness

- `Logger`: weak fairness of each thread's steps: the operating system runs a thread
  that can run, the receive has a timeout, and a user who is asked answers or closes
  stdin.  Logging has no fairness: a thread may finish without a line.  No fairness
  decides who gets a lock.
- `DecompressRun`: weak fairness of the main thread and of each task; a rayon pool runs
  what it has and there is no other wait.
- `HostStream`: the promises a call awaits settle; the wasm code comes to an end of its
  own (a parser finds its entry or gives up, a pump goes on, an encoder finishes); the
  consumer reads on, as a writable behind `pipeTo` does.  Nothing is assumed of a parser
  that reads and seeks, of a source that fails, and of a consumer that cancels.
- `DedupWrapper`, `UnpackRun`, `CompressRun` and `WasmOps` claim safety only; what they
  could promise to end is one thread's straight line.

## 4. Proofs

All are checked by `tlapm` for every value of the constants under each module's
named assumption.

- `LoggerProofs`.  Four invariants, each inductive on top of the types.
  `StreamInv` (nothing lost, only displayed lines, in order) gives `StreamCorrect`,
  the property `OnceInOrder`.
  `LockInv` relates the guards a thread holds, its place and the owners, which gives
  `LocksCorrect`.  `Handshake` is the heart: the owner of an
  unanswered flush waits and has sent nothing since; the request served is the last
  command taken, with an empty buffer at the barrier; the shutdown is the last command
  ever sent; tasks run only inside the pool.  Without the last part a worker could send
  after the shutdown, without the first a flush could be answered for another's lines.
  From it follow `SendsAreOver` and `ExitComplete`; `PromptsComeAfterLogs` adds an
  invariant of its own about the lines of a thread that asks.
  `LoggerImplementsStream` shows that every step is a step of `LogStream` or a stutter.
- `DecompressProofs`.  All seven safety properties of the run, for any inputs, trees and
  number of threads.  `Base` adds to the types the plan (a target belongs to an input
  that was prepared and is where its mode puts it; what was merged, renamed or
  overwritten was really there or free) and the places (tasks only in the pool, each at
  an entry it has).  On it rest four invariants.  `Setup` says what the disk holds while
  targets are settled, hence what is ready when the pool starts: `TargetsStayReady`,
  `DirectoriesNeverShared`.  `Granted` says that the rules cover each settled target,
  because `Prepare` created it before: `SandboxNeverInTheWay`.  `Survival` adds to
  `PriorDataSurvives` that whatever a task will write was not there before or has been
  given up by the user (`OutputsFree`), without which a later step could lose it:
  `PriorDataSafe`.  `Written` follows each output of a task that shares nothing from its
  creation to the end of the task: `FinishedOutputsIntact`.  `SuccessfulRunComplete`
  needs the places only.
- `DedupProofs`.  What a task has listed was unpacked, and one entry at most is named
  like the wrapper (`Seen`); a task alone in its wrapper finds the shape its step
  expects (`Solo`, with one `Shape` for each place of the function).  They give
  `FlattenedCorrect`.  `NothingLostCorrect` adds, for any number of tasks in one wrapper
  and an entry `x/x/x` among them, that only a step that fails deletes anything, and only
  what that task has staged (`LostByFailing`).
- `SeekReaderProofs`.  The invariant adds to the checked properties that bytes ahead of
  the position and already pulled are in the buffer (`AheadIsBuffered`), which is why
  nothing is pulled twice.  Nothing is assumed of the length of the source: types, buffer,
  requests and pulls are right for any, and the bytes delivered (`DeliveryCorrect`,
  `ReaderImplementsFile`) until a read strays.  `NeverStrays` says when none does: if the
  source fits a `usize` (4 GiB on wasm32), or if every read is shorter than the buffer.
  For the second, `Near` says where short reads leave the reader: in its buffer or at
  the end of it, or, right after a cold read, less than two buffers past its start, where
  the next read refills.  The constants satisfy
  `2 * BufferSize <= UsizeValues`, as 128 KiB and 2^32 do.  Each way through `read` and
  `seek` is a lemma, which the next proof uses again.
- `HostStreamProofs`.  The properties of the run but its liveness, for every source,
  entry, chunk size and job; `EndCorrect` and `HostImplementsFile` again until a read
  strays, and `HostNeverStrays` says when none does.  `HostInv` has the reader's
  invariant and six more parts.  `Placed` (in `Typed`) says which states of the stream,
  the sink and the outcome go with each place of the call.  `AtThePump`: a synchronous
  pump stands where the reader does, so what it reads is the next byte wanted.
  `PumpedAll`: a pump that ended had everything, unless the source stopped short.
  `Streamed` is the heart: there is a way to cut what is wanted such that the first piece
  has been seen, each chunk of the queue is the next piece, and what is held follows.  An
  append, a flush or a read of the consumer only moves the cuts; without the chunks in the
  invariant a step of the consumer could be anything.  `Stored` says the same of a sink
  that is captured: there is a series of files, from the host's to the encoder's, each
  the one before it with the next captured write laid over; a replay drops the first and
  a write adds one.  `Copied`: what was read back is a beginning of the file.  They
  give `EndCorrect` and `ResolvedCorrect`; `HostPullsOnce` and `HostImplementsFile` carry
  the reader's action property and refinement to the calls that use it.
- `UnpackProofs`.  All four properties of the run, for every tree, order of the walk, cap
  and disk.  The order of an archive is not known, so the invariant speaks of paths, not of
  positions.  `Archived`: each entry tells the truth of its path (`Faithful`), a link entry
  points back to an entry before it (`LinksBack`), and what was walked is listed, but the
  output.  `Unpacked` and `Contents`: what was unpacked is on the disk as its path's node,
  and nothing else is; a file has the identity of the first path of its inode, which makes
  the hard links.  `Counted`: the units that passed the cap are in the file or its buffer.
  `Modes`: until the end every directory on the disk is writable, and the mode of a
  read-only one is owed.  The last is why `FailsCorrect` holds: no creation is refused,
  and a failure is due to the cap, the decoder, the disk, a link that leaves the tree or
  one of the two links the formats cannot keep (`FailsOnlyForCause` names them).
  `LinksBack` is why no link misses its target.  `SuccessCorrect` reads all of them at
  `phase = "ok"`.  It assumes of a tree what `IsTree` says.  The cap has an invariant of
  its own (`Inv`: what is left of the limit is what was not copied), inductive over
  `LimitedReader` alone, which gives `LimitCorrect` there and, since each step of the run
  takes one of its steps or starts a new cap, `UnpackCapCorrect`.
- `CompressProofs`.  `Output` says that until the run removes it the output is a file
  this run made, never one that was there or that the other process made, unless the
  user agreed or the other came between the choice and the creation; `Units` that what
  was fed is held or written unless the disk refused it.  Together with the properties
  they are inductive and give `PriorCorrect`, `SuccessCorrect` and `PartialCorrect`; a
  step of the other process keeps all of it (`OtherStep`).
- `WasmProofs`.  All five properties of the run, for every tree, name, archive and
  sequence of calls.  Its calls loop over layers, entries and archives of any number, so
  the lemmas need induction.  The library's induction theorems take an operator, which the
  provers cannot instantiate; `Least` gets the same from a fact that has none, that finite
  sets are well-founded under inclusion: a non-empty set of numbers has a least element,
  and with `Upwards` a set that has 0 and grows by one has them all.  Each loop then has a
  lemma that its recursion defines a function, and one that says what it preserves.
  The invariant `WasmInv` says that what is stored and what the host holds are paths of
  names and bytes whose entries come from a set of lists, closed in that an archive inside
  an archive has its entries there too; each compression adds to the set, so the set is
  under an `\E`.  `WasmTypeCorrect` follows.
  `Running` is the invariant of a decompression, from the tree at its start: what was there
  is there, and the same unless overwriting; what changed is reported; what is reported is
  there.  It holds after each entry, also of a call that fails half way, which gives
  `OverwriteCorrect` and `ReportCorrect`.  `ChainAgrees` (a chain of readers from the first
  layer on is the loop from the last one back) gives `ReadsCorrect` for chains of any
  length and archives made anywhere: an entry is read, and alike by every route, where the
  readers look for what the listing shows (`Findable`); `Normal` keeps a path a path, so
  the invariant holds of what such an archive unpacks to.
  `EncodeInverse` (the layers that were added in one order come off in the other)
  gives `RoundTripCorrect`, together with `PathOrder` and `Ranks`: the order of paths is
  total, so sorting loses no entry.  It assumes `TwoFormats`, that a compression
  in the virtual file system has two formats at most: with three the property is false,
  which is finding 5.  Nothing is assumed of the streamed compressions.

TLC checked each invariant above, part by part, before it was proved.  Where a part says
that something exists (the cuts of `Streamed`, the files of `Stored`), TLC was given the
one candidate there is.  Only the lists of `WasmInv` are for no instance to list; what TLC
checks of them are the properties that follow.

Only model-checked: liveness (`FlushCompletes`, `Settles` and the `Terminates` of
`Logger` and `DecompressRun`), since liveness under fairness and `ENABLED` are beyond
the prover, and `RoundTrip` of the virtual file system beyond two formats, which is
refuted.  Every other property of a run that passes is a theorem.  No module declares
a RECURSIVE operator.

## 5. Where the code and its words disagree

Each is a run with the one property, quoted from a comment, that TLC refutes.

1. `LoggerAsk`: a task that must decode into memory takes stdout and stderr and asks;
   the question flushes the log again.  If another task has logged a line in between,
   the logger waits for stderr and never reaches the barrier.  Both wait for ever
   (`commands/decompress.rs:232`, `utils/logger.rs:58`).
2. `DecompressDuplicates`: two single-file inputs of one basename under `--dir` or
   `--here` get one target and nobody is asked, since the claimed target does not exist
   yet (`commands/decompress.rs:74`, `commands/mod.rs:240`).
3. `DedupReadOnly`: a rename that fails half way leaves some entries one level up, and
   deletes a file that was staged (`commands/decompress.rs:382`, `:292`).  In a wrapper
   that several inputs were merged into, another task that unpacks there meanwhile has
   the same effect; `Dedup` and its proof say that this is all that can be lost.
4. `CompressTruncated`: a zip or 7z is not flushed before success is reported, so a
   full disk goes unnoticed (`commands/compress.rs:180`, `:32`).
5. `WasmChain`: `run_compress` applies the layers of a chain from the wrong end, so an
   archive with two layers cannot be read back (`wasm/entry.rs:744`, `:1111`).

## 6. Abstractions and what is not modelled

- Wording, colours, progress, levels, passwords and times; modes but the write bit.
- `DecompressRun`: archives are zip-like without directory entries; the formats are
  `UnpackRun`'s.  Rar's spill file and stdin as an input are left out, and so is another
  process.  Symbolic links of the disk are not followed.  How a format is recognised in
  a signature is left out, and `--format` with an archive that is not the first of the
  chain: the checks let it through and `commands/decompress.rs:160` then panics in an
  `unreachable!()`.
- The sandbox's rules for the network and IPC, and the kernel's enforcement: a rule is
  taken to hold.  A call the rules allow may fail all the same.
- `UnpackRun`: rar, lz4 and the single-file codecs (their output is one file, which
  `DecompressRun` has); `--follow-symlinks`; inputs of one basename (of one inode they
  make a hard link of an archive to itself, which cannot be unpacked).  The target
  folder is empty, and the user is not root.
- `CompressRun`: another process creates files, it does not replace or remove this
  run's output.  What `gzp` and the other encoders do when dropped is external: they give
  up all they hold and their trailer.  A disk that is full stays full.  The walk over the
  inputs is `UnpackRun`'s.
- `HostStream`: one call at a time, which is all an instance can do while wasm runs.
  The cached promise of `init()`, `walk()` and the wrappers that pass a call on are left
  out, and backpressure: wasm pushes chunks whatever the queue holds.  With a sink
  `compressTo` does not close the writable (`src/mod.ts:504`), and a stream closes it;
  the model notes neither.  Past 4 GiB the cast at `wasm/seekable.rs:88` may take a
  distance for an offset in the buffer, although `src/README.md:214` has sizes exact up to
  2^53; it is in the model, the properties except what follows (`strayed`), and section 4
  says which readers it cannot meet.  A file that another process creates in time
  (`raced`, `CompressRun`), a short `writeSync` (`shortWrite`), an asynchronous source
  that ends early (`starved`) and a 7z entry that is dropped (`dropped`, `UnpackRun`) are
  treated the same way: the code has them, the model does them, no document promises
  otherwise, and the properties except them.
  The comments at `src/mod.ts:556`, `:596` and `:704` say that a cancelled stream makes the wasm call abort at its next chunk; the error of `enqueue`
  is swallowed there and the call goes on, as `Emit` does.
- `WasmOps`: sizes, times and modes in a listing; allocation failures; the mutex of
  the map, which one thread takes; links in a rar, `..` further inside a path, tar
  entries that are no file, directory or link.  Three things the code does and the
  model with it: an entry stored in a tar as `./x` is listed as `x` and found by no
  reader (`wasm/archives.rs:252`, `:231`); a directory in a rar is listed and cannot be
  read, and behind `./` a file of a rar is read but not streamed (`:598`, `:785`); a zip, 7z
  or rar inside another format is refused with a seekable source
  (`wasm/entry.rs:1183`), where `src/README.md:210` says it falls back to reading the
  whole source.  `ReadersAgree` states what the code does: it promises an answer for the
  entries that are `Findable`, and equal answers for all but streamed rar entries.
- Command line parsing, printing, listing, formatting, file visibility, colours: no
  state.  Build scripts and benchmarks.

## 7. Plan

1. Two processes in `DecompressRun`, for a conflict that appears after it was checked.
2. The listing, with the questions its in-memory archives ask.
3. `--follow-symlinks` and inputs of one basename in `UnpackRun`.
4. Proofs: liveness by hand-made ranking functions where a step cannot be undone
   (`Terminates` of `DecompressRun`), as action properties that say what decreases.
