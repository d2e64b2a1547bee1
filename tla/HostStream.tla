----------------------------- MODULE HostStream -----------------------------
(***************************************************************************)
(* One call of the streaming TypeScript API (mod.ts): streamEntry,         *)
(* streamEntryFrom or compressTo, between the synchronous wasm code, a     *)
(* Web stream and a consumer.  While the wasm code runs nothing else does; *)
(* before it (an asynchronous source is buffered) and after it (the stream *)
(* is drained, a sink is replayed and read back) the consumer may read,    *)
(* cancel or break.                                                        *)
(*                                                                         *)
(* Over a synchronous source the wasm code is the reader of SeekReader:    *)
(* a tar parser reads and seeks until it stands at the entry, then the     *)
(* entry's bytes are pumped chunk by chunk.  Encoders are identities here  *)
(* that hold bytes back and end with a Trailer; zip and 7z are the writes  *)
(* and seeks of HostSink.                                                  *)
(***************************************************************************)
EXTENDS SeekReader, HostSink, SequencesExt

CONSTANTS
  EntryFrom, EntryTo,  \* where the entry's bytes are in the source
  Trailer              \* what an encoder adds when it finishes

ASSUME HostStreamAssumption ==
  /\ EntryFrom \in 0..Size /\ EntryTo \in EntryFrom..Size
  /\ Trailer \notin Nat

VARIABLES
  job,        \* the call: its method and the kind of its source
  phase,      \* where it is
  buffered,   \* bytes of an asynchronous source buffered by toSyncSource
  at,         \* bytes of the entry or file pumped so far
  held,       \* bytes read and not pushed to JavaScript yet
  stream,     \* the ReadableStream: its state and its queue of chunks
  seen,       \* bytes the consumer, or the writable, has received
  readBack,   \* offset of the read-back loop in a sink
  cancelled,  \* the consumer cancelled the stream
  outcome,    \* how the promise of compressTo settled
  starved     \* the source answered with nothing before its end (history)

callVars == <<job, phase, buffered, at, held, stream, seen, readBack, cancelled,
              outcome, starved>>
hostVars == <<vars, sinkVars, callVars>>

Methods == {"streamEntry", "streamEntryFrom", "compressTo", "sinkSync", "sinkAsync"}
Sources == {"vfs", "sync", "async"}

\* streamEntry reads the virtual file system.  A sink's sources are awaited as
\* those of a streamed compressTo are, and only there modelled when asynchronous.
Jobs == {j \in [method : Methods, source : Sources] :
           /\ (j.method = "streamEntry") <=> (j.source = "vfs")
           /\ j.method \in {"sinkSync", "sinkAsync"} => j.source = "sync"}

ToSink == job.method \in {"sinkSync", "sinkAsync"}
Returns == job.method \in {"compressTo", "sinkSync", "sinkAsync"}  \* a promise, not a stream

\* The bytes pumped: one entry's, or the whole file.
From == IF job.method = "compressTo" THEN 0 ELSE EntryFrom
To == IF job.method = "compressTo" THEN Size ELSE EntryTo

Open == [state |-> "readable", queue |-> <<>>]

HostInit ==
  /\ Init /\ SinkInit
  /\ job \in Jobs
  /\ phase = "idle"
  /\ buffered = 0
  /\ at = 0
  /\ held = <<>>
  /\ stream = Open
  /\ seen = <<>>
  /\ readBack = 0
  /\ cancelled = FALSE
  /\ outcome = "pending"
  /\ starved = FALSE

Quiet == UNCHANGED <<vars, sinkVars>>

\* The wasm function is entered: a parser, or the pump at once.
WasmPhase ==
  CASE ToSink -> "encode"
    [] job.method = "streamEntryFrom" /\ job.source = "sync" -> "parse"
    [] OTHER -> "pump"

\* streamEntry runs start, and so the wasm call, in its constructor; the others
\* await toSyncSource first.
Call ==
  /\ phase = "idle"
  /\ phase' = IF job.method = "streamEntry" THEN "pump" ELSE "await"
  /\ buffered' = IF job.method = "streamEntry" THEN Size ELSE 0
  /\ UNCHANGED <<job, at, held, stream, seen, readBack, cancelled, outcome, starved>>
  /\ Quiet

\* toSyncSource: a synchronous source passes through.
SourceReady ==
  /\ phase = "await" /\ job.source = "sync"
  /\ phase' = WasmPhase
  /\ UNCHANGED <<job, buffered, at, held, stream, seen, readBack, cancelled, outcome, starved>>
  /\ Quiet

\* An asynchronous one is read chunk by chunk; an empty chunk ends the loop.
BufferChunk ==
  /\ phase = "await" /\ job.source = "async" /\ buffered < Size
  /\ \E n \in 0..Least(ChunkSize, Size - buffered) :
       /\ buffered' = buffered + n
       /\ starved' = (starved \/ n = 0)
       /\ phase' = IF n = 0 THEN WasmPhase ELSE phase
  /\ UNCHANGED <<job, at, held, stream, seen, readBack, cancelled, outcome>>
  /\ Quiet

BufferEnd ==
  /\ phase = "await" /\ job.source = "async" /\ buffered = Size
  /\ phase' = WasmPhase
  /\ UNCHANGED <<job, buffered, at, held, stream, seen, readBack, cancelled, outcome, starved>>
  /\ Quiet

-----------------------------------------------------------------------------
(* How a call ends                                                         *)

\* controller.close() and controller.error() do nothing to a stream that is
\* cancelled: the first throws into the catch, the second is defined so.
Closed == IF stream.state = "readable" THEN [stream EXCEPT !.state = "closed"] ELSE stream
Errored == IF stream.state = "readable"
           THEN [state |-> "errored", queue |-> <<>>] ELSE stream

\* The reader is dropped with the call.
DropReader ==
  /\ pos' = 0 /\ buf' = <<>> /\ bufStart' = 0 /\ lastEnd' = 0
  /\ got' = <<>> /\ call' = <<>> /\ pulled' = {} /\ UNCHANGED strayed

\* toSyncSource throws for an asynchronous source only; the wasm function may
\* fail anywhere, and has failed when readAt threw.
MayFail ==
  \/ phase = "await" /\ job.source = "async"
  \/ phase \in {"parse", "pump", "encode", "failed"}

\* Faulty CallFails: start's catch closes the stream.
CallFailsClosed ==
  /\ MayFail
  /\ phase' = "after"
  /\ held' = <<>>
  /\ IF ToSink \/ (phase = "await" /\ Returns)
     THEN outcome' = "rejected" /\ UNCHANGED stream
     ELSE stream' = Closed /\ UNCHANGED outcome
  /\ DropReader
  /\ UNCHANGED <<job, buffered, at, seen, readBack, cancelled, starved, sinkVars>>

\* The source throws, or the wasm function returns an error.
CallFails ==
  /\ MayFail
  /\ phase' = "after"
  /\ held' = <<>>
  /\ IF ToSink \/ (phase = "await" /\ Returns)
     THEN outcome' = "rejected" /\ UNCHANGED stream
     ELSE stream' = Errored /\ UNCHANGED outcome
  /\ DropReader
  /\ UNCHANGED <<job, buffered, at, seen, readBack, cancelled, starved, sinkVars>>

-----------------------------------------------------------------------------
(* Inside the wasm call                                                    *)

\* The tar parser reads headers and seeks over the entries before this one.
Parse ==
  /\ phase = "parse"
  /\ \/ \E len \in Lengths :
          ReadNothing(len) \/ ReadBuffered(len) \/ ReadRefill(len) \/ ReadCold(len)
     \/ \E whence \in Whence, delta \in Deltas : Seek(whence, delta)
  /\ UNCHANGED <<sinkVars, callVars>>

\* It stands behind the entry's header.
Locate ==
  /\ phase = "parse" /\ pos = EntryFrom
  /\ phase' = "pump"
  /\ UNCHANGED <<job, buffered, at, held, stream, seen, readBack, cancelled, outcome, starved>>
  /\ Quiet

\* pump_read pushes every read at once; an encoder may hold bytes back.
MayRead ==
  /\ phase = "pump" /\ at < To - From
  /\ job.method # "compressTo" => held = <<>>

\* Bytes handed on; a read of nothing ends the loop as the end of the data does.
Pumped(bytes) ==
  /\ held' = held \o bytes
  /\ at' = at + Len(bytes)
  /\ starved' = (starved \/ bytes = <<>>)
  /\ phase' = IF bytes = <<>> THEN "finish" ELSE phase
  /\ UNCHANGED <<job, buffered, stream, seen, readBack, cancelled, outcome, sinkVars>>

\* From the host's source, at the reader's position.
PumpReader ==
  /\ MayRead /\ job.source = "sync"
  /\ LET len == Least(ChunkSize, To - From - at)
     IN  ReadNothing(len) \/ ReadBuffered(len) \/ ReadRefill(len) \/ ReadCold(len)
  /\ Pumped(got')

\* readAt throws: the error goes up through the parser or the copy.
ReaderFails ==
  /\ \/ phase = "parse" /\ \E len \in Lengths : ReadFails(len)
     \/ MayRead /\ job.source = "sync" /\ ReadFails(Least(ChunkSize, To - From - at))
  /\ phase' = "failed"
  /\ UNCHANGED <<job, buffered, at, held, stream, seen, readBack, cancelled, outcome,
                 starved, sinkVars>>

\* From memory: the virtual file system, or what toSyncSource buffered.
PumpMemory ==
  /\ MayRead /\ job.source # "sync"
  /\ LET left == Least(To, buffered) - (From + at)
     IN  Pumped(IF left <= 0 THEN <<>>
                ELSE Bytes(From + at, Least(ChunkSize, left)))
  /\ UNCHANGED vars

PumpEnd ==
  /\ phase = "pump" /\ at = To - From
  /\ phase' = "finish"
  /\ UNCHANGED <<job, buffered, at, held, stream, seen, readBack, cancelled, outcome, starved>>
  /\ Quiet

\* A chunk reaches controller.enqueue, whose error on a cancelled stream is
\* swallowed: the call goes on.
Emit ==
  /\ phase \in {"pump", "finish"} /\ held # <<>>
  /\ stream' = IF stream.state = "readable"
               THEN [stream EXCEPT !.queue = Append(stream.queue, held)] ELSE stream
  /\ held' = <<>>
  /\ UNCHANGED <<job, phase, buffered, at, seen, readBack, cancelled, outcome, starved>>
  /\ Quiet

\* The encoders' trailers go through the chunk layer, which is flushed last.
FinishLayers ==
  /\ phase = "finish" /\ job.method = "compressTo"
  /\ phase' = "close"
  /\ held' = <<>>
  /\ stream' = [stream EXCEPT !.queue = Append(stream.queue, Append(held, Trailer))]
  /\ UNCHANGED <<job, buffered, at, seen, readBack, cancelled, outcome, starved>>
  /\ Quiet

FinishPump ==
  /\ phase = "finish" /\ job.method # "compressTo" /\ held = <<>>
  /\ phase' = "close"
  /\ UNCHANGED <<job, buffered, at, held, stream, seen, readBack, cancelled, outcome, starved>>
  /\ Quiet

\* Faulty CallReturns: a stream is closed only once its consumer has read it.
CallReturnsDrained ==
  /\ phase = "close"
  /\ phase' = "after"
  /\ stream' = IF stream.queue = <<>> THEN Closed ELSE stream
  /\ DropReader
  /\ UNCHANGED <<job, buffered, at, held, seen, readBack, cancelled, outcome, starved, sinkVars>>

\* The wasm function returned: controller.close().
CallReturns ==
  /\ phase = "close"
  /\ phase' = "after"
  /\ stream' = Closed
  /\ DropReader
  /\ UNCHANGED <<job, buffered, at, held, seen, readBack, cancelled, outcome, starved, sinkVars>>

\* A zip or 7z encoder at work on the sink.
Encode ==
  /\ phase = "encode"
  /\ \/ \E n \in Pieces :
          IF job.method = "sinkSync" THEN WriteSync(n) ELSE WriteCaptured(n)
     \/ \E whence \in Whence, delta \in Deltas : SinkSeek(whence, delta)
  /\ UNCHANGED <<vars, callVars>>

\* The encoder finishes; of JsSeekSink only the size outlives the call.
EncodeEnd ==
  /\ phase = "encode"
  /\ phase' = IF job.method = "sinkAsync" THEN "replay" ELSE "readBack"
  /\ sinkPos' = 0 /\ imagePos' = 0 /\ nextWrite' = 1
  /\ UNCHANGED <<image, sinkSize, file, writes, shortWrite, vars>>
  /\ UNCHANGED <<job, buffered, at, held, stream, seen, readBack, cancelled, outcome, starved>>

-----------------------------------------------------------------------------
(* After the wasm call                                                     *)

Replay ==
  /\ phase = "replay"
  /\ ReplayWrite
  /\ UNCHANGED <<vars, callVars>>

ReplayEnd ==
  /\ phase = "replay" /\ writes = <<>>
  /\ phase' = "readBack"
  /\ UNCHANGED <<job, buffered, at, held, stream, seen, readBack, cancelled, outcome, starved>>
  /\ Quiet

\* Faulty ReadBack: a short answer of readAt is taken for a whole chunk.
ReadBackByChunks ==
  /\ phase = "readBack" /\ readBack < sinkSize
  /\ \E chunk \in SinkReplies(readBack) :
       /\ chunk # <<>>
       /\ seen' = seen \o chunk
       /\ readBack' = readBack + ChunkSize
  /\ UNCHANGED <<job, phase, buffered, at, held, stream, cancelled, outcome, starved>>
  /\ Quiet

\* The archive is read back by its length, one awaited write per chunk.
ReadBack ==
  /\ phase = "readBack" /\ readBack < sinkSize
  /\ \E chunk \in SinkReplies(readBack) :
       /\ chunk # <<>>
       /\ seen' = seen \o chunk
       /\ readBack' = readBack + Len(chunk)
  /\ UNCHANGED <<job, phase, buffered, at, held, stream, cancelled, outcome, starved>>
  /\ Quiet

\* The whole length, or an empty chunk: the promise resolves either way, and
\* the writable stays open.
ReadBackEnd ==
  /\ phase = "readBack"
  /\ readBack >= sinkSize \/ <<>> \in SinkReplies(readBack)
  /\ phase' = "after"
  /\ outcome' = "resolved"
  /\ UNCHANGED <<job, buffered, at, held, stream, seen, readBack, cancelled, starved>>
  /\ Quiet

\* The consumer takes a chunk, or pipeTo writes it to the writable.
Consume ==
  /\ phase = "after" /\ outcome = "pending"
  /\ stream.queue # <<>>
  /\ seen' = seen \o Head(stream.queue)
  /\ stream' = [stream EXCEPT !.queue = Tail(stream.queue)]
  /\ UNCHANGED <<job, phase, buffered, at, held, readBack, cancelled, outcome, starved>>
  /\ Quiet

\* pipeTo settles with the stream.
PipeEnd ==
  /\ phase = "after" /\ job.method = "compressTo" /\ outcome = "pending"
  /\ stream.state # "readable" /\ stream.queue = <<>>
  /\ outcome' = IF stream.state = "closed" THEN "resolved" ELSE "rejected"
  /\ UNCHANGED <<job, phase, buffered, at, held, stream, seen, readBack, cancelled, starved>>
  /\ Quiet

\* The consumer of a stream loses interest.
Cancel ==
  /\ ~Returns /\ phase \in {"await", "after"}
  /\ stream.state = "readable" \/ stream.queue # <<>>
  /\ stream' = [state |-> "closed", queue |-> <<>>]
  /\ cancelled' = TRUE
  /\ UNCHANGED <<job, phase, buffered, at, held, seen, readBack, outcome, starved>>
  /\ Quiet

\* The writable, or an asynchronous sink, breaks: the promise rejects.
Breaks ==
  /\ Returns /\ outcome = "pending"
  /\ phase \in {"replay", "readBack", "after"}
  /\ outcome' = "rejected"
  /\ phase' = "after"
  /\ stream' = [state |-> "errored", queue |-> <<>>]
  /\ UNCHANGED <<job, buffered, at, held, seen, readBack, cancelled, starved>>
  /\ Quiet

Await == SourceReady \/ BufferChunk \/ BufferEnd
Wasm ==
  \/ Parse \/ Locate \/ PumpReader \/ PumpMemory \/ PumpEnd \/ ReaderFails \/ Emit
  \/ FinishLayers \/ FinishPump \/ CallReturns \/ CallFails \/ Encode \/ EncodeEnd
After == Replay \/ ReplayEnd \/ ReadBack \/ ReadBackEnd \/ Consume \/ PipeEnd

HostNext == Call \/ Await \/ Wasm \/ After \/ Cancel \/ Breaks

\* Awaited promises settle, the wasm code comes to an end of its own (a parser
\* finds the entry or gives up, an encoder finishes), the consumer reads on.
Fairness ==
  /\ WF_hostVars(Call)
  /\ WF_hostVars(Await)
  /\ WF_hostVars(Locate \/ (phase = "parse" /\ CallFails))
  /\ WF_hostVars(PumpReader \/ PumpMemory \/ PumpEnd \/ Emit \/ FinishLayers
                 \/ FinishPump \/ CallReturns)
  /\ WF_hostVars(phase = "failed" /\ CallFails)
  /\ WF_hostVars(EncodeEnd)
  /\ WF_hostVars(After)

HostSpec == HostInit /\ [][HostNext]_hostVars /\ Fairness

-----------------------------------------------------------------------------
(* Properties                                                              *)

\* Every variable of the call and the sink has its type, and the queue of a
\* stream holds whole chunks.
HostTypeOK ==
  /\ TypeOK
  /\ job \in Jobs
  /\ buffered \in 0..Size /\ at \in 0..(To - From)
  /\ stream.state \in {"readable", "closed", "errored"}
  /\ \A k \in DOMAIN stream.queue : stream.queue[k] # <<>>
  /\ outcome \in {"pending", "resolved", "rejected"}
  /\ Len(file) <= Len(image)
  /\ (phase = "encode" \/ phase = "readBack") => sinkSize = Len(image)

Wanted ==
  Bytes(From, To - From) \o (IF job.method = "compressTo" THEN <<Trailer>> ELSE <<>>)

\* "Stream one entry's contents out of an archive" (mod.ts:574): whatever the
\* consumer has of a stream is a beginning of the entry, and a stream that ends
\* without an error and uncancelled has given all of it, unless the source
\* itself stopped answering.  A read that strayed voids both.
EndIsTrue ==
  ~Returns /\ ~strayed =>
    /\ IsPrefix(seen, Wanted)
    /\ (/\ stream.state = "closed" /\ stream.queue = <<>>
        /\ ~cancelled /\ ~starved) => seen = Wanted

\* compressTo (mod.ts:460): a promise that resolves has put every byte of the
\* output in the writable, in order, whichever way it went, unless the source
\* stopped answering or a read of it strayed; of a sink, unless a synchronous
\* writeAt wrote less than it said.
ResolvedIsWhole ==
  outcome = "resolved" =>
    IF ToSink THEN ~shortWrite => seen = image /\ file = image
              ELSE ~starved /\ ~strayed => seen = Wanted

\* A call ends: the promise settles, the stream closes, fails or is cancelled.
Settled ==
  IF Returns THEN outcome # "pending"
             ELSE stream.state # "readable" /\ stream.queue = <<>>

\* Every call of the streaming API settles for a consumer that reads on, whether
\* it succeeds, fails, is cancelled or breaks.
Settles == <>Settled
=============================================================================
