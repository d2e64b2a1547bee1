-------------------------- MODULE HostStreamProofs --------------------------
(***************************************************************************)
(* Proofs about HostStream, for any source, buffer, chunk size and encoder *)
(* and any consumer.  Typed holds the types and where a call of each       *)
(* method may be; on it rest the invariant of SeekReaderProofs (the        *)
(* reader under the call), Streamed (what the stream was given), Stored    *)
(* (the file behind a sink) and Copied (what was read back from it).       *)
(***************************************************************************)
EXTENDS HostStream, SeekReaderProofs, SequenceTheorems

-----------------------------------------------------------------------------
(* The invariants                                                          *)

Byte == Nat \cup {Trailer}

Phases == {"idle", "await", "parse", "pump", "finish", "close", "failed", "encode",
           "replay", "readBack", "after"}

Streams == [state : {"readable", "closed", "errored"}, queue : Seq(Seq(Byte) \ {<<>>})]

CallTyped ==
  /\ job \in Jobs
  /\ phase \in Phases
  /\ buffered \in 0..Size
  /\ at \in 0..(To - From)
  /\ held \in Seq(Byte)
  /\ stream \in Streams
  /\ seen \in Seq(Byte)
  /\ readBack \in Nat
  /\ cancelled \in BOOLEAN /\ starved \in BOOLEAN
  /\ outcome \in {"pending", "resolved", "rejected"}

SinkTyped ==
  /\ image \in Seq(Nat) /\ imagePos \in Nat
  /\ sinkPos \in Nat /\ sinkSize \in Nat
  /\ file \in Seq(Nat)
  /\ writes \in Seq([offset : Nat, bytes : Seq(Nat)])
  /\ nextWrite \in Nat
  /\ shortWrite \in BOOLEAN

\* Which phases a call of each method has, and how its stream and its promise
\* stand there.
Placed ==
  /\ phase = "parse" => job.method = "streamEntryFrom" /\ job.source = "sync" /\ at = 0
  /\ phase \in {"pump", "finish", "close", "failed"} => ~ToSink
  /\ phase \in {"encode", "readBack"} => ToSink
  /\ phase = "replay" => job.method = "sinkAsync"
  /\ phase \in {"idle", "await", "parse", "encode", "replay", "readBack"} =>
       at = 0 /\ held = <<>> /\ stream.queue = <<>>
  /\ phase \notin {"readBack", "after"} => seen = <<>> /\ readBack = 0
  /\ phase # "after" => outcome = "pending"
  /\ cancelled => ~Returns /\ stream.state # "readable" /\ stream.queue = <<>>
  /\ stream.state # "readable" => cancelled \/ phase = "after"
  /\ stream.state = "errored" => stream.queue = <<>>
  /\ ToSink => stream.queue = <<>>
  /\ job.method # "compressTo" /\ phase = "close" => held = <<>>
  /\ outcome = "resolved" /\ ~ToSink => stream.state = "closed" /\ stream.queue = <<>>

Typed == CallTyped /\ SinkTyped /\ Placed

\* The reader starts at the beginning, and stands where the pump is.
AtThePump ==
  /\ phase \in {"idle", "await"} => pos = 0
  /\ phase = "pump" /\ job.source = "sync" => pos = From + at

\* Nothing is missing when the pump ends, but for a source that stopped.
PumpedAll ==
  phase \in {"finish", "close"} /\ ~starved => at = To - From

\* What is wanted, from one offset to another.
Piece(from, to) == SubSeq(Wanted, from + 1, to)

\* What was seen and what is queued are one beginning of what is wanted, cut
\* into chunks; what is held comes next.
Cut(cut) ==
  LET n == Len(stream.queue)
  IN  /\ cut \in [0..n -> 0..Len(Wanted)]
      /\ seen = Piece(0, cut[0])
      /\ \A k \in 1..n :
           cut[k - 1] <= cut[k] /\ stream.queue[k] = Piece(cut[k - 1], cut[k])
      /\ stream.state = "readable" /\ phase \in {"pump", "finish"} =>
           cut[n] + Len(held) = at /\ held = Piece(cut[n], at)
      /\ (stream.state = "readable" /\ phase = "close") \/ (stream.state = "closed" /\ ~cancelled) =>
           starved \/ cut[n] = Len(Wanted)

Streamed ==
  ~ToSink /\ (Returns => ~starved) /\ ~strayed => \E cut \in [0..Len(stream.queue) -> Nat] : Cut(cut)

\* The sink's view of the file is right while the encoder works, and replaying
\* what was captured makes the file the encoder's: layer k is the file after
\* k more writes.
Layers(layer) ==
  LET n == Len(writes)
  IN  /\ layer \in [0..n -> Seq(Nat)]
      /\ layer[0] = file /\ layer[n] = image
      /\ \A k \in 0..n : Len(layer[k]) <= Len(image)
      /\ \A k \in 1..n :
           layer[k] = Overlay(layer[k - 1], writes[k].offset, writes[k].bytes)

SameView == sinkSize = Len(image) /\ sinkPos = imagePos

Stored ==
  /\ SameView
  /\ Len(file) <= Len(image)
  /\ job.method = "sinkSync" =>
       writes = <<>> /\ (~shortWrite => file = image)
  /\ job.method = "sinkAsync" =>
       /\ ~shortWrite
       /\ \E layer \in [0..Len(writes) -> Seq(Nat)] : Layers(layer)
       /\ phase = "readBack" => writes = <<>>
  /\ ~ToSink => writes = <<>> /\ image = <<>> 

Copied ==
  ToSink =>
    /\ readBack <= Len(file)
    /\ seen = SubSeq(file, 1, readBack)
    /\ outcome = "resolved" /\ ~shortWrite => file = image /\ readBack = Len(file)

-----------------------------------------------------------------------------
(* Types and places                                                        *)

\* What the constants allow.
LEMMA Constants ==
  /\ Size \in Nat /\ EntryFrom \in 0..Size /\ EntryTo \in EntryFrom..Size
  /\ ChunkSize \in Nat \ {0} /\ Trailer \notin Nat
  BY SeekReaderAssumption, HostSinkAssumption, HostStreamAssumption

\* Where the pumped bytes are in the source.
LEMMA Range0 == ASSUME job \in Jobs
  PROVE  /\ From \in Nat /\ To \in Nat /\ From <= To /\ To <= Size
         /\ job.method = "compressTo" => From = 0 /\ To = Size
  BY Constants DEF From, To

\* The call is what it was when it was made.
LEMMA JobStays ==
  ASSUME [HostNext]_hostVars
  PROVE  UNCHANGED <<job, ToSink, Returns, From, To, Wanted>>
<1>1. job' = job
  BY DEF HostNext, Await, Wasm, After, Call, SourceReady, BufferChunk, BufferEnd, CallFails,
         Parse, Locate, PumpReader, PumpMemory, PumpEnd, ReaderFails, Emit, FinishLayers,
         FinishPump, CallReturns, Encode, EncodeEnd, Replay, ReplayEnd, ReadBack,
         ReadBackEnd, Consume, PipeEnd, Cancel, Breaks, Pumped, callVars, hostVars
<1> QED BY <1>1 DEF ToSink, Returns, From, To, Wanted

\* A run of offsets is a sequence of bytes; so is a beginning, and a joining.
LEMMA BytesTyped ==
  ASSUME NEW from \in Nat, NEW n \in Nat
  PROVE  Bytes(from, n) \in Seq(Byte) /\ Len(Bytes(from, n)) = n
  BY DEF Bytes, Byte

LEMMA NumbersAreBytes == ASSUME NEW s \in Seq(Nat) PROVE s \in Seq(Byte)
  BY DEF Byte

\* What reading a sink back answers: a piece of the file, and none only when
\* the offset is at its end.
LEMMA RepliesAreTheFile ==
  ASSUME file \in Seq(Nat), NEW offset \in Nat, NEW chunk \in SinkReplies(offset)
  PROVE  /\ chunk \in Seq(Nat)
         /\ chunk # <<>> =>
              /\ offset + Len(chunk) <= Len(file)
              /\ chunk = SubSeq(file, offset + 1, offset + Len(chunk))
         /\ chunk = <<>> => Len(file) <= offset
<1> DEFINE left == Larger(0, Len(file) - offset)
<1>1. Len(file) \in Nat /\ ChunkSize \in Nat \ {0} BY HostSinkAssumption
<1>2. left \in Nat /\ (left > 0 => left = Len(file) - offset) /\ (left = 0 => Len(file) <= offset)
  BY <1>1 DEF Larger
<1>3. PICK n \in IF left = 0 THEN {0} ELSE 1..(IF left < ChunkSize THEN left ELSE ChunkSize) :
        chunk = SubSeq(file, offset + 1, offset + n)
  BY DEF SinkReplies
<1> HIDE DEF left
<1>4. n \in 0..left /\ (left > 0 => n > 0) BY <1>1, <1>2, <1>3
<1>5. CASE n = 0
  <2>1. chunk = <<>> BY <1>1, <1>3, <1>5
  <2> QED BY <1>2, <1>4, <1>5, <2>1, EmptySeq
<1>6. CASE n > 0
  <2>1. offset + n <= Len(file) BY <1>1, <1>2, <1>4, <1>6
  <2>2. \A i \in offset + 1 .. offset + n : file[i] \in Nat BY <1>1, <1>4, <2>1
  <2>3. offset + 1 \in Int /\ offset + n \in Int /\ n \in Int BY <1>2, <1>4
  <2> DEFINE from == offset + 1
             to == offset + n
  <2>4. chunk = SubSeq(file, from, to) BY <1>3
  <2>5. from <= to /\ to - from + 1 = n BY <1>6, <2>3
  <2> HIDE DEF from, to
  <2>6. chunk \in Seq(Nat) /\ Len(chunk) = IF from <= to THEN to - from + 1 ELSE 0
    BY <2>2, <2>3, <2>4, SubSeqProperties DEF from, to
  <2>7. Len(chunk) = n BY <2>5, <2>6
  <2>8. chunk # <<>> BY <1>6, <2>7
  <2> QED BY <1>3, <2>1, <2>6, <2>7, <2>8
<1>7. n \in Nat BY <1>2, <1>4
<1> QED BY <1>5, <1>6, <1>7

\* How a stream moves: it stays, takes a chunk, gives one or ends.
LEMMA StreamMoves ==
  ASSUME stream \in Streams
  PROVE  /\ stream.queue \in Seq(Seq(Byte) \ {<<>>})
         /\ \A chunk \in Seq(Byte) : chunk # <<>> =>
              [stream EXCEPT !.queue = Append(stream.queue, chunk)] \in Streams
         /\ stream.queue # <<>> => [stream EXCEPT !.queue = Tail(stream.queue)] \in Streams
         /\ Closed \in Streams /\ Errored \in Streams
         /\ \A s \in {"closed", "errored"} : [state |-> s, queue |-> <<>>] \in Streams
<1>1. /\ stream = [state |-> stream.state, queue |-> stream.queue]
      /\ stream.state \in {"readable", "closed", "errored"}
      /\ stream.queue \in Seq(Seq(Byte) \ {<<>>})
  BY DEF Streams
<1>2. \A s \in {"readable", "closed", "errored"}, q \in Seq(Seq(Byte) \ {<<>>}) :
        [state |-> s, queue |-> q] \in Streams
  BY DEF Streams
<1>4. ASSUME NEW chunk \in Seq(Byte), chunk # <<>>
      PROVE  [stream EXCEPT !.queue = Append(stream.queue, chunk)] \in Streams
  <2> DEFINE q == Append(stream.queue, chunk)
  <2>1. q \in Seq(Seq(Byte) \ {<<>>}) BY <1>1, <1>4, AppendProperties
  <2> HIDE DEF q
  <2>2. [stream EXCEPT !.queue = q] = [state |-> stream.state, queue |-> q] BY <1>1
  <2>3. [stream EXCEPT !.queue = q] \in Streams BY <1>1, <1>2, <2>1, <2>2
  <2> QED BY <2>3 DEF q
<1>5. ASSUME stream.queue # <<>>
      PROVE  [stream EXCEPT !.queue = Tail(stream.queue)] \in Streams
  <2> DEFINE q == Tail(stream.queue)
  <2>1. q \in Seq(Seq(Byte) \ {<<>>}) BY <1>1, <1>5, HeadTailProperties
  <2> HIDE DEF q
  <2>2. [stream EXCEPT !.queue = q] = [state |-> stream.state, queue |-> q] BY <1>1
  <2>3. [stream EXCEPT !.queue = q] \in Streams BY <1>1, <1>2, <2>1, <2>2
  <2> QED BY <2>3 DEF q
<1>6. <<>> \in Seq(Seq(Byte) \ {<<>>}) BY EmptySeq
<1>7. [stream EXCEPT !.state = "closed"] = [state |-> "closed", queue |-> stream.queue]
  BY <1>1
<1>8. Closed \in Streams /\ Errored \in Streams
  BY <1>1, <1>2, <1>6, <1>7 DEF Closed, Errored
<1>9. \A s \in {"closed", "errored"} : [state |-> s, queue |-> <<>>] \in Streams
  BY <1>2, <1>6
<1> QED BY <1>1, <1>4, <1>5, <1>8, <1>9

\* What a pump read delivers, whatever way the read takes.
LEMMA ReadDelivers ==
  ASSUME Inv, NEW len \in Nat,
         ReadNothing(len) \/ ReadBuffered(len) \/ ReadRefill(len) \/ ReadCold(len)
  PROVE  /\ got' \in Seq(Nat) /\ Len(got') \in 0..len /\ pos' = pos + Len(got')
         /\ ~strayed' => got' = Bytes(pos, Len(got'))
<1>1. /\ pos \in Nat /\ Size \in Nat /\ bufStart \in Nat /\ Len(buf) \in Nat
      /\ BufferSize \in Nat \ {0}
  BY SeekReaderAssumption DEF Inv, TypeOK
<1>2. ASSUME NEW n \in Nat, n <= len, pos + n <= Size, Deliver(Bytes(pos, n))
      PROVE  /\ got' \in Seq(Nat) /\ Len(got') \in 0..len /\ pos' = pos + Len(got')
             /\ got' = Bytes(pos, Len(got'))
  <2>1. got' = Bytes(pos, n) /\ pos' = pos + n /\ got' \in Seq(Nat)
    BY <1>2, DeliverFacts DEF Inv
  <2>2. Len(Bytes(pos, n)) = n BY <1>1, BytesFacts
  <2> QED BY <1>2, <2>1, <2>2
<1>3. CASE ReadNothing(len)
  <2>1. got' = <<>> /\ pos' = pos BY <1>3 DEF ReadNothing, reader
  <2>2. Bytes(pos, 0) = <<>> BY DEF Bytes
  <2>3. Len(<<>>) = 0 /\ <<>> \in Seq(Nat) /\ pos + 0 = pos /\ 0 \in 0..len BY <1>1
  <2> QED BY <2>1, <2>2, <2>3
<1>4. CASE ReadBuffered(len)
  <2>1. got' \in Seq(Nat) /\ Len(got') \in 0..len /\ pos' = pos + Len(got')
    BY <1>4, BufferedFacts
  <2>2. ASSUME ~strayed' PROVE got' = Bytes(pos, Len(got'))
    <3>1. PICK n \in Nat \ {0} : pos + n <= bufStart + Len(buf) /\ Deliver(Bytes(pos, n))
      BY <1>4, <2>2, BufferedFacts
    <3>2. pos + n <= Size BY <1>1, <3>1 DEF Inv, BufferIsSource
    <3>3. got' = Bytes(pos, n) BY <3>1, <3>2, DeliverFacts DEF Inv
    <3>4. Len(Bytes(pos, n)) = n BY <1>1, BytesFacts
    <3> QED BY <3>3, <3>4
  <2> QED BY <2>1, <2>2
<1>5. CASE ReadRefill(len)
  <2>1. PICK n, m \in Nat :
          n <= m /\ pos + m <= Size /\ buf' = Bytes(pos, m) /\ Deliver(Bytes(pos, n))
    BY <1>5, RefillFacts
  <2>2. pos + n <= Size BY <1>1, <2>1
  <2>3. got' = Bytes(pos, n) /\ Len(Bytes(pos, n)) = n
    BY <1>1, <2>1, <2>2, DeliverFacts, BytesFacts DEF Inv
  <2>4. Len(buf') = m BY <1>1, <2>1, BytesFacts
  <2>5. got' = SubSeq(buf', 1, Least(len, Len(buf'))) BY <1>5 DEF ReadRefill, Deliver
  <2>6. Least(len, m) \in Nat /\ Least(len, m) <= len /\ Least(len, m) <= m
    BY <2>1 DEF Least
  <2>7. Len(SubSeq(buf', 1, Least(len, m))) = Least(len, m)
    <3>1. buf' \in Seq(Nat) BY <1>1, <2>1, BytesFacts
    <3> QED BY <2>4, <2>6, <3>1
  <2>8. n <= len BY <2>3, <2>4, <2>5, <2>6, <2>7
  <2> QED BY <1>2, <2>1, <2>2, <2>8
<1>6. CASE ReadCold(len)
  <2> DEFINE want == Least(len, Size - pos)
  <2>0. pos < Size BY <1>6 DEF ReadCold
  <2>1. PICK bytes \in Replies(pos, want) : Deliver(bytes) BY <1>6 DEF ReadCold
  <2>2. want \in Nat /\ want <= len /\ pos + want <= Size BY <1>1, <2>0 DEF Least
  <2> HIDE DEF want
  <2>3. PICK n \in 0..want : bytes = Bytes(pos, n) BY <2>1, <2>2 DEF Replies
  <2>4. n <= len /\ n \in Nat /\ pos + n <= Size BY <1>1, <2>2, <2>3
  <2> QED BY <1>2, <2>1, <2>3, <2>4
<1> QED BY <1>3, <1>4, <1>5, <1>6

\* A pump hands on as many bytes as are left or fewer, and unless the reader
\* strayed they are the next ones.
LEMMA PumpDelivers ==
  ASSUME Inv, CallTyped, AtThePump, PumpReader \/ PumpMemory
  PROVE  \E bytes \in Seq(Byte) :
           /\ Pumped(bytes)
           /\ Len(bytes) \in 0..(To - From - at)
           /\ ~strayed' => bytes = Bytes(From + at, Len(bytes))
<1>1. /\ From \in Nat /\ To \in Nat /\ From <= To /\ To <= Size /\ Size \in Nat
      /\ at \in Nat /\ at <= To - From /\ ChunkSize \in Nat \ {0} /\ buffered \in Nat
  BY Range0, Constants DEF CallTyped
<1>2. CASE PumpReader
  <2> DEFINE len == Least(ChunkSize, To - From - at)
  <2>1. len \in Nat /\ len <= To - From - at BY <1>1 DEF Least
  <2>2. ReadNothing(len) \/ ReadBuffered(len) \/ ReadRefill(len) \/ ReadCold(len)
    BY <1>2 DEF PumpReader
  <2>3. pos = From + at /\ Pumped(got') BY <1>2 DEF PumpReader, MayRead, AtThePump
  <2> HIDE DEF len
  <2>4. /\ got' \in Seq(Nat) /\ Len(got') \in 0..len
        /\ ~strayed' => got' = Bytes(pos, Len(got'))
    BY <2>1, <2>2, ReadDelivers
  <2>5. Len(got') \in 0..(To - From - at) BY <1>1, <2>1, <2>4
  <2>6. got' \in Seq(Byte) BY <2>4, NumbersAreBytes
  <2> QED BY <2>3, <2>4, <2>5, <2>6
<1>3. CASE PumpMemory
  <2> DEFINE left == Least(To, buffered) - (From + at)
             n == IF left <= 0 THEN 0 ELSE Least(ChunkSize, left)
  <2>1. left \in Int /\ left <= To - From - at BY <1>1 DEF Least
  <2>2. Pumped(IF left <= 0 THEN <<>> ELSE Bytes(From + at, Least(ChunkSize, left)))
    BY <1>3 DEF PumpMemory
  <2> HIDE DEF left
  <2>3. n \in 0..(To - From - at) /\ n \in Nat BY <1>1, <2>1 DEF Least
  <2>4. Bytes(From + at, 0) = <<>> BY DEF Bytes
  <2>5. Pumped(Bytes(From + at, n)) BY <2>2, <2>4
  <2> HIDE DEF n
  <2>6. Bytes(From + at, n) \in Seq(Byte) /\ Len(Bytes(From + at, n)) = n
    BY <1>1, <2>3, BytesTyped
  <2> QED BY <2>3, <2>5, <2>6
<1> QED BY <1>2, <1>3

\* Every step of a call but a pump leaves what was pumped alone, and holds it
\* back or lets it go.
LEMMA NoPump ==
  ASSUME [HostNext]_hostVars, ~PumpReader, ~PumpMemory
  PROVE  at' = at /\ (held' = held \/ held' = <<>>)
  BY DEF HostNext, Await, Wasm, After, Call, SourceReady, BufferChunk, BufferEnd, CallFails,
         Parse, Locate, PumpEnd, ReaderFails, Emit, FinishLayers, FinishPump, CallReturns,
         Encode, EncodeEnd, Replay, ReplayEnd, ReadBack, ReadBackEnd, Consume, PipeEnd,
         Cancel, Breaks, callVars, hostVars

\* Types of the variables of a call.
LEMMA CallStaysTyped ==
  ASSUME Inv, Typed, AtThePump, [HostNext]_hostVars
  PROVE  CallTyped'
<1>1. job' \in Jobs /\ From' = From /\ To' = To BY JobStays DEF Typed, CallTyped
<1>2. /\ From \in Nat /\ To \in Nat /\ From <= To /\ To <= Size /\ Size \in Nat
      /\ at \in Nat /\ at <= To - From /\ ChunkSize \in Nat \ {0}
      /\ buffered \in Nat /\ buffered <= Size
  BY Range0, Constants DEF Typed, CallTyped
<1>3. phase' \in Phases
  BY DEF Typed, CallTyped, Phases, WasmPhase, HostNext, Await, Wasm, After, Call, SourceReady,
         BufferChunk, BufferEnd, CallFails, Parse, Locate, PumpReader, PumpMemory, Pumped,
         PumpEnd, ReaderFails, Emit, FinishLayers, FinishPump, CallReturns, Encode, EncodeEnd,
         Replay, ReplayEnd, ReadBack, ReadBackEnd, Consume, PipeEnd, Cancel, Breaks, callVars,
         hostVars
<1>4. buffered' \in 0..Size
  <2>1. CASE BufferChunk BY <1>2, <2>1 DEF BufferChunk, Least
  <2>2. CASE Call BY <1>2, <2>2 DEF Call
  <2> QED
    BY <1>2, <2>1, <2>2
    DEF HostNext, Await, Wasm, After, SourceReady, BufferEnd, CallFails, Parse, Locate,
        PumpReader, PumpMemory, Pumped, PumpEnd, ReaderFails, Emit, FinishLayers, FinishPump,
        CallReturns, Encode, EncodeEnd, Replay, ReplayEnd, ReadBack, ReadBackEnd, Consume,
        PipeEnd, Cancel, Breaks, callVars, hostVars
<1>5. at' \in 0..(To' - From') /\ held' \in Seq(Byte)
  <2>1. CASE PumpReader \/ PumpMemory
    <3>1. PICK bytes \in Seq(Byte) : Pumped(bytes) /\ Len(bytes) \in 0..(To - From - at)
      BY <2>1, PumpDelivers DEF Typed
    <3>2. held' = held \o bytes /\ at' = at + Len(bytes) BY <3>1 DEF Pumped
    <3> QED BY <1>1, <1>2, <3>1, <3>2, ConcatProperties DEF Typed, CallTyped
  <2>2. CASE ~PumpReader /\ ~PumpMemory
    <3>1. at' = at /\ (held' = held \/ held' = <<>>) BY <2>2, NoPump
    <3>2. <<>> \in Seq(Byte) BY EmptySeq
    <3> QED BY <1>1, <1>2, <3>1, <3>2 DEF Typed, CallTyped
  <2> QED BY <2>1, <2>2
<1>6. stream' \in Streams
  <2>0. stream \in Streams /\ held \in Seq(Byte) BY DEF Typed, CallTyped
  <2>1. CASE Emit BY <2>0, <2>1, StreamMoves DEF Emit
  <2>2. CASE FinishLayers
    <3>1. Append(held, Trailer) \in Seq(Byte) /\ Append(held, Trailer) # <<>>
      BY <2>0, AppendProperties DEF Byte
    <3> QED BY <2>0, <2>2, <3>1, StreamMoves DEF FinishLayers
  <2>3. CASE Consume BY <2>0, <2>3, StreamMoves DEF Consume
  <2>4. CASE CallFails BY <2>0, <2>4, StreamMoves DEF CallFails
  <2>5. CASE CallReturns BY <2>0, <2>5, StreamMoves DEF CallReturns
  <2>6. CASE Cancel BY <2>0, <2>6, StreamMoves DEF Cancel
  <2>7. CASE Breaks BY <2>0, <2>7, StreamMoves DEF Breaks
  <2>8. stream' = stream \/ Emit \/ FinishLayers \/ Consume \/ CallFails \/ CallReturns
        \/ Cancel \/ Breaks
    BY DEF HostNext, Await, Wasm, After, Call, SourceReady, BufferChunk, BufferEnd, Parse,
           Locate, PumpReader, PumpMemory, Pumped, PumpEnd, ReaderFails, FinishPump, Encode,
           EncodeEnd, Replay, ReplayEnd, ReadBack, ReadBackEnd, PipeEnd, callVars, hostVars
  <2> QED BY <2>0, <2>1, <2>2, <2>3, <2>4, <2>5, <2>6, <2>7, <2>8
<1>7. seen' \in Seq(Byte) /\ readBack' \in Nat
  <2>0. seen \in Seq(Byte) /\ readBack \in Nat /\ file \in Seq(Nat) /\ stream \in Streams
    BY DEF Typed, CallTyped, SinkTyped
  <2>1. CASE ReadBack
    <3>1. PICK chunk \in SinkReplies(readBack) :
            seen' = seen \o chunk /\ readBack' = readBack + Len(chunk)
      BY <2>1 DEF ReadBack
    <3>2. chunk \in Seq(Nat) BY <2>0, <3>1, RepliesAreTheFile
    <3> QED BY <2>0, <3>1, <3>2, NumbersAreBytes, ConcatProperties, LenProperties
  <2>2. CASE Consume
    <3>1. Head(stream.queue) \in Seq(Byte)
      BY <2>0, <2>2, StreamMoves, HeadTailProperties DEF Consume
    <3> QED BY <2>0, <2>2, <3>1, ConcatProperties DEF Consume
  <2>3. (seen' = seen /\ readBack' = readBack) \/ ReadBack \/ Consume
    BY DEF HostNext, Await, Wasm, After, Call, SourceReady, BufferChunk, BufferEnd, CallFails,
           Parse, Locate, PumpReader, PumpMemory, Pumped, PumpEnd, ReaderFails, Emit,
           FinishLayers, FinishPump, CallReturns, Encode, EncodeEnd, Replay, ReplayEnd,
           ReadBackEnd, PipeEnd, Cancel, Breaks, callVars, hostVars
  <2> QED BY <2>0, <2>1, <2>2, <2>3
<1>8. cancelled' \in BOOLEAN /\ starved' \in BOOLEAN
  BY Zenon DEF Typed, CallTyped, HostNext, Await, Wasm, After, Call, SourceReady, BufferChunk,
         BufferEnd, CallFails, Parse, Locate, PumpReader, PumpMemory, Pumped, PumpEnd,
         ReaderFails, Emit, FinishLayers, FinishPump, CallReturns, Encode, EncodeEnd, Replay,
         ReplayEnd, ReadBack, ReadBackEnd, Consume, PipeEnd, Cancel, Breaks, callVars, hostVars
<1>9. outcome' \in {"pending", "resolved", "rejected"}
  BY DEF Typed, CallTyped, HostNext, Await, Wasm, After, Call, SourceReady, BufferChunk,
         BufferEnd, CallFails, Parse, Locate, PumpReader, PumpMemory, Pumped, PumpEnd,
         ReaderFails, Emit, FinishLayers, FinishPump, CallReturns, Encode, EncodeEnd, Replay,
         ReplayEnd, ReadBack, ReadBackEnd, Consume, PipeEnd, Cancel, Breaks, callVars, hostVars
<1> QED BY <1>1, <1>3, <1>4, <1>5, <1>6, <1>7, <1>8, <1>9 DEF CallTyped

\* A file that is written has the bytes of numbers, and its length.
LEMMA OverlayTyped ==
  ASSUME NEW f \in Seq(Nat), NEW offset \in Nat, NEW bytes \in Seq(Nat)
  PROVE  /\ Overlay(f, offset, bytes) \in Seq(Nat)
         /\ Len(Overlay(f, offset, bytes)) = Larger(Len(f), offset + Len(bytes))
<1> DEFINE n == Larger(Len(f), offset + Len(bytes))
<1>1. n \in Nat BY DEF Larger
<1>2. \A k \in 1..n :
        (IF k \in offset + 1 .. offset + Len(bytes) THEN bytes[k - offset]
         ELSE IF k <= Len(f) THEN f[k] ELSE 0) \in Nat
  OBVIOUS
<1> HIDE DEF n
<1>3. [k \in 1..n |-> IF k \in offset + 1 .. offset + Len(bytes) THEN bytes[k - offset]
                      ELSE IF k <= Len(f) THEN f[k] ELSE 0] \in [1..n -> Nat]
  BY <1>2
<1>4. Overlay(f, offset, bytes) \in [1..n -> Nat] BY <1>3 DEF Overlay, n
<1> QED BY <1>1, <1>4, LenProperties DEF n

\* A piece that is written.
LEMMA RepeatTyped ==
  ASSUME NEW byte \in Nat, NEW n \in Nat
  PROVE  /\ Repeat(byte, n) \in Seq(Nat) /\ Len(Repeat(byte, n)) = n
         /\ \A m \in 0..n : SubSeq(Repeat(byte, n), 1, m) = Repeat(byte, m)
  BY DEF Repeat

\* What a step does to the sink, if anything.
LEMMA SinkMoves ==
  ASSUME [HostNext]_hostVars
  PROVE  \/ UNCHANGED sinkVars
         \/ \E n \in Pieces : job.method = "sinkSync" /\ WriteSync(n)
         \/ \E n \in Pieces : job.method # "sinkSync" /\ WriteCaptured(n)
         \/ \E whence \in Whence, delta \in Deltas : SinkSeek(whence, delta)
         \/ ReplayWrite
         \/ /\ sinkPos' = 0 /\ imagePos' = 0 /\ nextWrite' = 1
            /\ UNCHANGED <<image, sinkSize, file, writes, shortWrite>>
<1>1. CASE Encode BY <1>1 DEF Encode
<1>2. CASE EncodeEnd BY <1>2 DEF EncodeEnd
<1>3. CASE Replay BY <1>3 DEF Replay
<1> QED
  BY <1>1, <1>2, <1>3
  DEF HostNext, Await, Wasm, After, Call, SourceReady, BufferChunk, BufferEnd, CallFails,
      Parse, Locate, PumpReader, PumpMemory, Pumped, PumpEnd, ReaderFails, Emit, FinishLayers,
      FinishPump, CallReturns, ReplayEnd, ReadBack, ReadBackEnd, Consume, PipeEnd, Cancel,
      Breaks, Quiet, hostVars

\* Where a write of the encoder goes.
LEMMA PlainWriteTyped ==
  ASSUME SinkTyped, NEW n \in Pieces, PlainWrite(Repeat(nextWrite, n)), Advance(sinkPos + n),
         nextWrite' = nextWrite + 1
  PROVE  /\ image' \in Seq(Nat) /\ imagePos' \in Nat
         /\ sinkPos' \in Nat /\ sinkSize' \in Nat /\ nextWrite' \in Nat
         /\ image' = Overlay(image, imagePos, Repeat(nextWrite, n)) /\ imagePos' = imagePos + n
         /\ sinkPos' = sinkPos + n /\ sinkSize' = Larger(sinkSize, sinkPos + n)
         /\ Len(image') = Larger(Len(image), imagePos + n)
<1>1. n \in Nat BY HostSinkAssumption
<1>2. Repeat(nextWrite, n) \in Seq(Nat) /\ Len(Repeat(nextWrite, n)) = n
  BY <1>1, RepeatTyped DEF SinkTyped
<1>3. /\ image' = Overlay(image, imagePos, Repeat(nextWrite, n)) /\ imagePos' = imagePos + n
      /\ sinkPos' = sinkPos + n /\ sinkSize' = Larger(sinkSize, sinkPos + n)
  BY <1>2 DEF PlainWrite, Advance
<1>4. image \in Seq(Nat) /\ imagePos \in Nat BY DEF SinkTyped
<1>5. image' \in Seq(Nat) /\ Len(image') = Larger(Len(image), imagePos + n)
  BY <1>2, <1>3, <1>4, OverlayTyped
<1> QED BY <1>1, <1>3, <1>5 DEF SinkTyped, Larger

\* Types of the variables of a sink.
LEMMA SinkStaysTyped ==
  ASSUME SinkTyped, SameView, [HostNext]_hostVars
  PROVE  SinkTyped'
<1>0. /\ image \in Seq(Nat) /\ imagePos \in Nat /\ sinkPos \in Nat /\ sinkSize \in Nat
      /\ file \in Seq(Nat) /\ nextWrite \in Nat /\ shortWrite \in BOOLEAN
      /\ writes \in Seq([offset : Nat, bytes : Seq(Nat)])
  BY DEF SinkTyped
<1>1. CASE UNCHANGED sinkVars BY <1>0, <1>1 DEF SinkTyped, sinkVars, plainFile
<1>2. ASSUME NEW n \in Pieces, WriteSync(n) PROVE SinkTyped'
  <2>0. n \in Nat /\ Repeat(nextWrite, n) \in Seq(Nat)
    BY <1>0, RepeatTyped, HostSinkAssumption
  <2>1. PICK written \in 0..n :
          /\ file' = IF written = 0 THEN file
                     ELSE Overlay(file, sinkPos, SubSeq(Repeat(nextWrite, n), 1, written))
          /\ shortWrite' = (shortWrite \/ written < n)
    BY <1>2 DEF WriteSync
  <2>2. Repeat(nextWrite, written) \in Seq(Nat)
        /\ SubSeq(Repeat(nextWrite, n), 1, written) = Repeat(nextWrite, written)
    BY <1>0, <2>0, RepeatTyped
  <2>3. file' \in Seq(Nat) BY <1>0, <2>1, <2>2, OverlayTyped
  <2>4. shortWrite' \in BOOLEAN BY <2>1
  <2>5. writes' = writes BY <1>2 DEF WriteSync
  <2>6. /\ image' \in Seq(Nat) /\ imagePos' \in Nat
        /\ sinkPos' \in Nat /\ sinkSize' \in Nat /\ nextWrite' \in Nat
    BY <1>2, PlainWriteTyped DEF WriteSync
  <2> QED BY <1>0, <2>3, <2>4, <2>5, <2>6 DEF SinkTyped
<1>3. ASSUME NEW n \in Pieces, WriteCaptured(n) PROVE SinkTyped'
  <2>0. n \in Nat /\ Repeat(nextWrite, n) \in Seq(Nat)
    BY <1>0, RepeatTyped, HostSinkAssumption
  <2>1. writes' = Append(writes, [offset |-> sinkPos, bytes |-> Repeat(nextWrite, n)])
        /\ UNCHANGED <<file, shortWrite>>
    BY <1>3 DEF WriteCaptured
  <2>2. writes' \in Seq([offset : Nat, bytes : Seq(Nat)])
    BY <1>0, <2>0, <2>1, AppendProperties
  <2>3. /\ image' \in Seq(Nat) /\ imagePos' \in Nat
        /\ sinkPos' \in Nat /\ sinkSize' \in Nat /\ nextWrite' \in Nat
    BY <1>3, PlainWriteTyped DEF WriteCaptured
  <2> QED BY <1>0, <2>1, <2>2, <2>3 DEF SinkTyped
<1>4. ASSUME NEW whence \in Whence, NEW delta \in Deltas, SinkSeek(whence, delta)
      PROVE  SinkTyped'
  <2>1. sinkPos' \in 0..MaxEnd /\ MaxEnd \in Nat BY <1>4, HostSinkAssumption DEF SinkSeek
  <2>2. imagePos' = sinkPos' BY <1>4 DEF SinkSeek, PlainBase, SinkBase, SameView, Whence
  <2> QED BY <1>0, <1>4, <2>1, <2>2 DEF SinkTyped, SinkSeek
<1>5. CASE ReplayWrite
  <2>1. Head(writes) \in [offset : Nat, bytes : Seq(Nat)]
        /\ Tail(writes) \in Seq([offset : Nat, bytes : Seq(Nat)])
    BY <1>0, <1>5, HeadTailProperties DEF ReplayWrite
  <2>2. file' \in Seq(Nat) BY <1>0, <1>5, <2>1, OverlayTyped DEF ReplayWrite
  <2> QED BY <1>0, <1>5, <2>1, <2>2 DEF SinkTyped, ReplayWrite, plainFile
<1>6. CASE /\ sinkPos' = 0 /\ imagePos' = 0 /\ nextWrite' = 1
           /\ UNCHANGED <<image, sinkSize, file, writes, shortWrite>>
  BY <1>0, <1>6 DEF SinkTyped
<1> QED BY <1>1, <1>2, <1>3, <1>4, <1>5, <1>6, SinkMoves

\* What is left of a stream when it ends.
LEMMA StreamEnds ==
  ASSUME stream \in Streams
  PROVE  /\ Closed.queue = stream.queue
         /\ Closed.state = IF stream.state = "readable" THEN "closed" ELSE stream.state
         /\ Errored.queue = IF stream.state = "readable" THEN <<>> ELSE stream.queue
         /\ Errored.state = IF stream.state = "readable" THEN "errored" ELSE stream.state
  BY DEF Streams, Closed, Errored

\* What a chunk in or out leaves.
LEMMA StreamChunks ==
  ASSUME stream \in Streams, NEW q
  PROVE  /\ [stream EXCEPT !.queue = q].queue = q
         /\ [stream EXCEPT !.queue = q].state = stream.state
  BY DEF Streams

\* Every step of a call is one its method has.
LEMMA StaysPlaced ==
  ASSUME Inv, Typed, AtThePump, [HostNext]_hostVars
  PROVE  Placed'
<1>1. UNCHANGED <<job, ToSink, Returns, From, To>> BY JobStays
<1>2. stream \in Streams /\ job \in Jobs /\ Placed /\ at \in Nat
      /\ outcome \in {"pending", "resolved", "rejected"} /\ phase \in Phases
  BY Range0 DEF Typed, CallTyped
<1>26. cancelled => ~Returns /\ stream.state # "readable" /\ stream.queue = <<>>
  BY <1>2 DEF Placed
<1> USE DEF Placed
<1>3. CASE Call BY <1>1, <1>2, <1>3 DEF Call, ToSink
<1>4. CASE Await
  BY <1>1, <1>2, <1>4 DEF Await, SourceReady, BufferChunk, BufferEnd, WasmPhase, ToSink, Jobs
<1>5. CASE Parse BY <1>1, <1>2, <1>5 DEF Parse, callVars
<1>6. CASE Locate BY <1>1, <1>2, <1>6 DEF Locate, ToSink
<1>7. CASE PumpReader \/ PumpMemory
  <2>1. PICK bytes \in Seq(Byte) : Pumped(bytes)
    BY <1>7, PumpDelivers DEF Typed
  <2>2. phase = "pump" BY <1>7 DEF PumpReader, PumpMemory, MayRead
  <2>3. phase' \in {"pump", "finish"}
        /\ UNCHANGED <<job, buffered, stream, seen, readBack, cancelled, outcome>>
    BY <2>1, <2>2 DEF Pumped
  <2> QED BY <1>1, <1>2, <2>2, <2>3
<1>8. CASE PumpEnd BY <1>1, <1>2, <1>8 DEF PumpEnd
<1>9. CASE ReaderFails BY <1>1, <1>2, <1>9 DEF ReaderFails, MayRead, ToSink
<1>10. CASE Emit
  <2>1. stream'.state = stream.state /\ (stream.state # "readable" => stream' = stream)
    BY <1>2, <1>10, StreamChunks DEF Emit
  <2>2. phase' = phase /\ phase \in {"pump", "finish"} /\ held' = <<>>
        /\ UNCHANGED <<at, seen, readBack, cancelled, outcome>>
    BY <1>10 DEF Emit
  <2> QED BY <1>1, <1>2, <2>1, <2>2
<1>11. CASE FinishLayers
  <2>1. stream'.state = stream.state BY <1>2, <1>11, StreamChunks DEF FinishLayers
  <2>2. phase = "finish" /\ phase' = "close" /\ held' = <<>> /\ job.method = "compressTo"
        /\ UNCHANGED <<at, seen, readBack, cancelled, outcome>>
    BY <1>11 DEF FinishLayers
  <2>3. Returns /\ ~cancelled /\ stream.state = "readable"
    BY <1>2, <2>2 DEF Returns
  <2> QED BY <1>1, <1>2, <2>1, <2>2, <2>3
<1>12. CASE FinishPump BY <1>1, <1>2, <1>12 DEF FinishPump
<1>13. CASE CallReturns
  <2>1. /\ stream'.queue = stream.queue /\ stream'.state # "readable"
        /\ stream.state # "readable" => stream'.state = stream.state
        /\ stream'.state = "errored" => stream.state = "errored"
    BY <1>2, <1>13, StreamEnds DEF CallReturns
  <2>2. phase = "close" /\ phase' = "after"
        /\ UNCHANGED <<at, held, seen, readBack, cancelled, outcome>>
    BY <1>13 DEF CallReturns
  <2>3. cancelled' => ~Returns' /\ stream'.state # "readable" /\ stream'.queue = <<>>
    BY <1>1, <1>26, <2>1, <2>2
  <2> QED BY <1>1, <1>2, <2>1, <2>2, <2>3
<1>14. CASE CallFails
  <2>1. /\ MayFail /\ phase' = "after" /\ held' = <<>>
        /\ IF ToSink \/ (phase = "await" /\ Returns)
           THEN outcome' = "rejected" /\ UNCHANGED stream
           ELSE stream' = Errored /\ UNCHANGED outcome
        /\ UNCHANGED <<at, seen, readBack, cancelled>>
    BY <1>14 DEF CallFails
  <2>2. \/ stream' = stream
        \/ stream'.state # "readable" /\ stream'.queue \in {<<>>, stream.queue}
    BY <1>2, <2>1, StreamEnds
  <2>3. stream'.state = "errored" => stream'.queue = <<>>
    BY <1>2, <2>1, StreamEnds
  <2>4. outcome' # "resolved" BY <1>2, <2>1 DEF MayFail
  <2>5. cancelled' => ~Returns' /\ stream'.state # "readable" /\ stream'.queue = <<>>
    BY <1>1, <1>26, <2>1, <2>2
  <2>6. ToSink' => stream'.queue = <<>> BY <1>1, <1>2, <2>2
  <2> QED BY <1>1, <2>1, <2>3, <2>4, <2>5, <2>6
<1>15. CASE Encode BY <1>1, <1>2, <1>15 DEF Encode, callVars
<1>16. CASE EncodeEnd BY <1>1, <1>2, <1>16 DEF EncodeEnd, ToSink
<1>17. CASE Replay BY <1>1, <1>2, <1>17 DEF Replay, callVars
<1>18. CASE ReplayEnd BY <1>1, <1>2, <1>18 DEF ReplayEnd, ToSink
<1>19. CASE ReadBack BY <1>1, <1>2, <1>19 DEF ReadBack
<1>20. CASE ReadBackEnd BY <1>1, <1>2, <1>20 DEF ReadBackEnd
<1>21. CASE Consume
  <2>1. stream'.state = stream.state BY <1>2, <1>21, StreamChunks DEF Consume
  <2>2. /\ phase = "after" /\ phase' = "after" /\ outcome = "pending" /\ stream.queue # <<>>
        /\ UNCHANGED <<at, held, readBack, cancelled, outcome>>
    BY <1>21 DEF Consume
  <2> QED BY <1>1, <1>2, <2>1, <2>2
<1>22. CASE PipeEnd BY <1>1, <1>2, <1>22 DEF PipeEnd
<1>23. CASE Cancel
  <2>1. stream'.state = "closed" /\ stream'.queue = <<>> BY <1>23 DEF Cancel
  <2>2. ~Returns /\ phase' = phase /\ cancelled'
        /\ UNCHANGED <<at, held, seen, readBack, outcome>>
    BY <1>23 DEF Cancel
  <2> QED BY <1>1, <1>2, <2>1, <2>2
<1>24. CASE Breaks
  <2>1. stream'.state = "errored" /\ stream'.queue = <<>> BY <1>24 DEF Breaks
  <2>2. Returns /\ phase' = "after" /\ outcome' = "rejected"
        /\ UNCHANGED <<at, held, seen, readBack, cancelled>>
    BY <1>24 DEF Breaks
  <2> QED BY <1>1, <1>2, <2>1, <2>2
<1>25. CASE UNCHANGED hostVars BY <1>1, <1>2, <1>25 DEF hostVars, callVars
<1> QED
  BY <1>3, <1>4, <1>5, <1>6, <1>7, <1>8, <1>9, <1>10, <1>11, <1>12, <1>13, <1>14, <1>15, <1>16,
     <1>17, <1>18, <1>19, <1>20, <1>21, <1>22, <1>23, <1>24, <1>25
  DEF HostNext, Wasm, After

-----------------------------------------------------------------------------
(* The reader under the call                                               *)

\* What a step does to the reader, if anything.
LEMMA ReaderMoves ==
  ASSUME CallTyped, [HostNext]_hostVars
  PROVE  \/ UNCHANGED vars
         \/ \E len \in Nat : Read(len) /\ (len \in Lengths \/ len <= ChunkSize)
         \/ \E whence \in Whence, delta \in Int : Seek(whence, delta)
         \/ DropReader
<1>1. Lengths \subseteq Nat /\ Deltas \subseteq Int BY SeekReaderAssumption
<1>2. Least(ChunkSize, To - From - at) \in Nat /\ Least(ChunkSize, To - From - at) <= ChunkSize
  BY Range0, Constants DEF CallTyped, Least
<1>3. CASE Parse BY <1>1, <1>3 DEF Parse, Read
<1>4. CASE PumpReader BY <1>2, <1>4 DEF PumpReader, Read
<1>5. CASE ReaderFails BY <1>1, <1>2, <1>5 DEF ReaderFails, Read
<1> QED
  BY <1>3, <1>4, <1>5
  DEF HostNext, Await, Wasm, After, Call, SourceReady, BufferChunk, BufferEnd, CallFails,
      Locate, PumpMemory, PumpEnd, Emit, FinishLayers, FinishPump, CallReturns, Encode,
      EncodeEnd, Replay, ReplayEnd, ReadBack, ReadBackEnd, Consume, PipeEnd, Cancel, Breaks,
      Quiet, hostVars

\* A reader that is dropped is as one that starts.
LEMMA DroppedIsNew == ASSUME Inv, DropReader PROVE Inv'
<1>1. /\ pos' = 0 /\ buf' = <<>> /\ bufStart' = 0 /\ lastEnd' = 0
      /\ got' = <<>> /\ call' = <<>> /\ pulled' = {} /\ strayed' = strayed
  BY DEF DropReader
<1>2. Size \in Nat /\ BufferSize \in Nat /\ Len(<<>>) = 0 /\ <<>> \in Seq(Nat)
  BY SeekReaderAssumption
<1>3. TypeOK' BY <1>1, <1>2 DEF Inv, TypeOK
<1>4. BufferIsSource'
  <2>1. Bytes(0, 0) = <<>> BY DEF Bytes
  <2> QED BY <1>1, <1>2, <2>1 DEF BufferIsSource
<1>5. DeliversThePosition' /\ RequestsInside' BY <1>1 DEF DeliversThePosition, RequestsInside
<1>6. AheadIsBuffered' BY <1>1, <1>2 DEF AheadIsBuffered
<1> QED BY <1>3, <1>4, <1>5, <1>6 DEF Inv

\* The call keeps the reader's invariant,
LEMMA ReaderInv ==
  ASSUME Inv, CallTyped, [HostNext]_hostVars
  PROVE  Inv'
<1>1. CASE UNCHANGED vars
  BY <1>1
  DEF Inv, TypeOK, BufferIsSource, DeliversThePosition, RequestsInside, AheadIsBuffered, vars,
      reader, history
<1> QED BY <1>1, ReaderMoves, ReadKeepsInv, SeekKeepsInv, DroppedIsNew

\* and the place of the pump.
LEMMA StaysAtThePump ==
  ASSUME Inv, Typed, AtThePump, [HostNext]_hostVars
  PROVE  AtThePump'
<1>1. UNCHANGED <<job, ToSink, Returns, From, To>> BY JobStays
<1>2. /\ From \in Nat /\ at \in Nat /\ job \in Jobs /\ pos \in Nat
      /\ job.method = "compressTo" => From = 0
      /\ job.method # "compressTo" => From = EntryFrom
      /\ Placed
  BY Range0, SeekReaderAssumption DEF Typed, CallTyped, Inv, TypeOK, From
<1>3. CASE Call BY <1>1, <1>2, <1>3 DEF Call, Quiet, vars, reader, AtThePump, Jobs
<1>4. CASE Await
  <2>1. pos = 0 /\ pos' = pos /\ phase = "await"
    BY <1>4 DEF Await, SourceReady, BufferChunk, BufferEnd, Quiet, vars, reader, AtThePump
  <2>2. at' = at /\ at = 0 BY <1>2, <2>1, <1>4 DEF Await, SourceReady, BufferChunk, BufferEnd, Placed
  <2>3. phase' = "pump" /\ job.source = "sync" => job.method = "compressTo"
    BY <1>2, <1>4
    DEF Await, SourceReady, BufferChunk, BufferEnd, WasmPhase, ToSink, Jobs, Methods
  <2> QED BY <1>1, <1>2, <2>1, <2>2, <2>3 DEF AtThePump
<1>5. CASE Locate
  BY <1>1, <1>2, <1>5 DEF Locate, Quiet, vars, reader, AtThePump, Placed
<1>6. CASE PumpReader
  <2> DEFINE len == Least(ChunkSize, To - From - at)
  <2>1. len \in Nat BY Range0, Constants DEF Typed, CallTyped, Least
  <2>2. ReadNothing(len) \/ ReadBuffered(len) \/ ReadRefill(len) \/ ReadCold(len)
    BY <1>6 DEF PumpReader
  <2>3. /\ pos = From + at /\ at' = at + Len(got') /\ phase = "pump"
        /\ phase' \in {"pump", "finish"}
    BY <1>6 DEF PumpReader, MayRead, Pumped, AtThePump
  <2> HIDE DEF len
  <2>4. Len(got') \in Nat /\ pos' = pos + Len(got') BY <2>1, <2>2, ReadDelivers
  <2> QED BY <1>1, <1>2, <2>3, <2>4 DEF AtThePump
<1>7. CASE PumpMemory
  BY <1>1, <1>7 DEF PumpMemory, MayRead, Pumped, AtThePump
<1>8. CASE Emit
  BY <1>1, <1>8 DEF Emit, Quiet, vars, reader, AtThePump
<1>9. CASE Cancel
  BY <1>1, <1>9 DEF Cancel, Quiet, vars, reader, AtThePump
<1>10. CASE UNCHANGED hostVars
  BY <1>1, <1>10 DEF hostVars, callVars, vars, reader, AtThePump
<1>11. CASE phase' \notin {"idle", "await", "pump"} BY <1>11 DEF AtThePump
<1> QED
  BY <1>3, <1>4, <1>5, <1>6, <1>7, <1>8, <1>9, <1>10, <1>11
  DEF HostNext, Wasm, After, Parse, PumpEnd, ReaderFails, FinishLayers, FinishPump,
      CallReturns, CallFails, Encode, EncodeEnd, Replay, ReplayEnd, ReadBack, ReadBackEnd,
      Consume, PipeEnd, Breaks, callVars

\* The pump ends at the end, unless a source stopped.
LEMMA StaysPumped ==
  ASSUME Inv, Typed, AtThePump, PumpedAll, [HostNext]_hostVars
  PROVE  PumpedAll'
<1>1. UNCHANGED <<job, ToSink, Returns, From, To>> BY JobStays
<1>2. CASE PumpReader \/ PumpMemory
  BY <1>2 DEF PumpReader, PumpMemory, MayRead, Pumped, PumpedAll
<1>3. CASE PumpEnd BY <1>1, <1>3 DEF PumpEnd, PumpedAll
<1>4. CASE phase \in {"finish", "close"} /\ ~PumpReader /\ ~PumpMemory
  <2>1. at' = at BY <1>4, NoPump
  <2>2. starved' = starved
    BY <1>4
    DEF HostNext, Await, Wasm, After, Call, SourceReady, BufferChunk, BufferEnd, CallFails,
        Parse, Locate, PumpEnd, ReaderFails, Emit, FinishLayers, FinishPump, CallReturns,
        Encode, EncodeEnd, Replay, ReplayEnd, ReadBack, ReadBackEnd, Consume, PipeEnd, Cancel,
        Breaks, callVars, hostVars
  <2> QED BY <1>1, <1>4, <2>1, <2>2 DEF PumpedAll
<1>5. ASSUME phase \notin {"finish", "close"}, ~PumpReader, ~PumpMemory, ~PumpEnd
      PROVE  phase' \notin {"finish", "close"}
  BY <1>5
  DEF HostNext, Await, Wasm, After, Call, SourceReady, BufferChunk, BufferEnd, CallFails,
      Parse, Locate, ReaderFails, Emit, FinishLayers, FinishPump, CallReturns, Encode,
      EncodeEnd, Replay, ReplayEnd, ReadBack, ReadBackEnd, Consume, PipeEnd, Cancel, Breaks,
      WasmPhase, callVars, hostVars
<1> QED BY <1>2, <1>3, <1>4, <1>5 DEF PumpedAll

-----------------------------------------------------------------------------
(* The stream                                                              *)

\* What an encoder ends with.
LEMMA TrailerTyped ==
  /\ <<Trailer>> \in Seq(Byte) /\ Len(<<Trailer>>) = 1
  /\ <<>> \in Seq(Byte) /\ Len(<<>>) = 0
<1>1. Trailer \in Byte BY DEF Byte
<1> HIDE DEF Byte
<1> QED BY <1>1

\* The wanted bytes and their pieces.
LEMMA WantedFacts ==
  ASSUME job \in Jobs
  PROVE  /\ Wanted \in Seq(Byte)
         /\ Len(Wanted) = IF job.method = "compressTo" THEN To - From + 1 ELSE To - From
         /\ \A a, b \in 0..Len(Wanted) :
              a <= b => Piece(a, b) \in Seq(Byte) /\ Len(Piece(a, b)) = b - a
         /\ \A a, b, c \in 0..Len(Wanted) :
              a <= b /\ b <= c => Piece(a, b) \o Piece(b, c) = Piece(a, c)
<1> DEFINE pumped == Bytes(From, To - From)
           last == IF job.method = "compressTo" THEN <<Trailer>> ELSE <<>>
<1>1. From \in Nat /\ To - From \in Nat BY Range0
<1>2. pumped \in Seq(Byte) /\ Len(pumped) = To - From BY <1>1, BytesTyped
<1>3. last \in Seq(Byte) /\ Len(last) = IF job.method = "compressTo" THEN 1 ELSE 0
  BY TrailerTyped
<1>4. Wanted = pumped \o last BY DEF Wanted
<1> HIDE DEF pumped, last
<1>5. Wanted \in Seq(Byte) /\ Len(Wanted) = Len(pumped) + Len(last)
  BY <1>2, <1>3, <1>4, ConcatProperties
<1>6. ASSUME NEW a \in 0..Len(Wanted), NEW b \in 0..Len(Wanted), a <= b
      PROVE  Piece(a, b) \in Seq(Byte) /\ Len(Piece(a, b)) = b - a
  <2>1. Len(Wanted) \in Nat /\ \A i \in a + 1 .. b : Wanted[i] \in Byte
    BY <1>5, ElementOfSeq
  <2>2. a + 1 \in Int /\ b \in Int BY <2>1
  <2> DEFINE m == a + 1
  <2> HIDE DEF m
  <2>3. /\ SubSeq(Wanted, m, b) \in Seq(Byte)
        /\ Len(SubSeq(Wanted, m, b)) = IF m <= b THEN b - m + 1 ELSE 0
    BY <2>1, <2>2, SubSeqProperties DEF m
  <2>4. (IF m <= b THEN b - m + 1 ELSE 0) = b - a BY <1>6, <2>2 DEF m
  <2> QED BY <2>3, <2>4 DEF Piece, m
<1>7. ASSUME NEW a \in 0..Len(Wanted), NEW b \in 0..Len(Wanted), NEW c \in 0..Len(Wanted),
             a <= b, b <= c
      PROVE  Piece(a, b) \o Piece(b, c) = Piece(a, c)
  <2>1. Len(Wanted) \in Nat BY <1>5
  <2>2. a + 1 \in 1..Len(Wanted) + 1 /\ b \in (a + 1) - 1 .. Len(Wanted) /\ c \in b..Len(Wanted)
    BY <1>7, <2>1
  <2> QED BY <1>5, <2>2, ConcatAdjacentSubSeq DEF Piece
<1>8. Len(Wanted) = IF job.method = "compressTo" THEN To - From + 1 ELSE To - From
  BY <1>1, <1>2, <1>3, <1>5
<1> QED BY <1>5, <1>6, <1>7, <1>8

\* The pieces of what is pumped are bytes of the source, and the last piece of
\* compressTo ends with the trailer.
LEMMA PumpedPieces ==
  ASSUME job \in Jobs
  PROVE  /\ \A a, n \in Nat : a + n <= To - From => Piece(a, a + n) = Bytes(From + a, n)
         /\ job.method = "compressTo" =>
              \A a \in 0..(To - From) :
                 Piece(a, Len(Wanted)) = Append(Piece(a, To - From), Trailer)
<1> DEFINE pumped == Bytes(From, To - From)
           last == IF job.method = "compressTo" THEN <<Trailer>> ELSE <<>>
           size == To - From
<1>1. From \in Nat /\ size \in Nat BY Range0
<1>2. /\ pumped \in Seq(Byte) /\ Len(pumped) = size
      /\ \A k \in 1..size : pumped[k] = From + k - 1
  BY <1>1, BytesTyped, BytesFacts
<1>3. last \in Seq(Byte) /\ (job.method = "compressTo" => last = <<Trailer>>)
  BY TrailerTyped
<1>4. Wanted = pumped \o last BY DEF Wanted
<1>5. Wanted \in Seq(Byte) /\ Len(Wanted) \in Nat /\ size <= Len(Wanted)
      /\ (job.method = "compressTo" => Len(Wanted) = size + 1)
  BY <1>1, WantedFacts
<1> HIDE DEF pumped, last, size
<1>6. \A k \in 1..size : Wanted[k] = From + k - 1
  BY <1>1, <1>2, <1>3, <1>4, ConcatProperties
<1>7. ASSUME NEW a \in Nat, NEW n \in Nat, a + n <= size
      PROVE  Piece(a, a + n) = Bytes(From + a, n)
  <2>1. a \in 0..Len(Wanted) /\ a + n \in 0..Len(Wanted) /\ a <= a + n
    BY <1>1, <1>5, <1>7
  <2>2. Piece(a, a + n) \in Seq(Byte) /\ Len(Piece(a, a + n)) = n BY <2>1, WantedFacts
  <2>3. Bytes(From + a, n) \in Seq(Byte) /\ Len(Bytes(From + a, n)) = n
    BY <1>1, BytesTyped
  <2>4. \A k \in 1..n : Bytes(From + a, n)[k] = From + a + k - 1
    <3>1. From + a \in Nat BY <1>1
    <3> QED BY <3>1, BytesFacts
  <2>5. \A k \in 1..n : Piece(a, a + n)[k] = Wanted[a + k]
    <3>1. \A i \in a + 1 .. a + n : Wanted[i] \in Byte
      BY <1>5, <2>1, ElementOfSeq
    <3>2. a + 1 \in Int /\ a + n \in Int OBVIOUS
    <3>3. \A i \in 1 .. (a + n) - (a + 1) + 1 :
            SubSeq(Wanted, a + 1, a + n)[i] = Wanted[(a + 1) + i - 1]
      BY <3>1, <3>2, SubSeqProperties
    <3> QED BY <3>3 DEF Piece
  <2>6. \A k \in 1..n : Wanted[a + k] = From + a + k - 1 BY <1>1, <1>6, <1>7
  <2>7. \A k \in 1..n : Piece(a, a + n)[k] = Bytes(From + a, n)[k] BY <2>4, <2>5, <2>6
  <2> QED BY <2>2, <2>3, <2>7, SeqEqual
<1>8. ASSUME job.method = "compressTo", NEW a \in 0..size
      PROVE  Piece(a, Len(Wanted)) = Append(Piece(a, size), Trailer)
  <2>1. Len(Wanted) = size + 1 /\ a \in 0..Len(Wanted) /\ size \in 0..Len(Wanted) /\ a <= size
        /\ Len(Wanted) \in 0..Len(Wanted) /\ size <= Len(Wanted)
    BY <1>1, <1>5, <1>8
  <2>2. Piece(a, Len(Wanted)) = Piece(a, size) \o Piece(size, Len(Wanted)) BY <2>1, WantedFacts
  <2>3. Piece(size, Len(Wanted)) = <<Trailer>>
    <3>1. Piece(size, Len(Wanted)) \in Seq(Byte) /\ Len(Piece(size, Len(Wanted))) = 1
      <4>1. /\ Piece(size, Len(Wanted)) \in Seq(Byte)
            /\ Len(Piece(size, Len(Wanted))) = Len(Wanted) - size
        BY <2>1, WantedFacts
      <4> QED BY <1>1, <2>1, <4>1
    <3>2. Wanted[size + 1] = Trailer
      <4>1. /\ last = <<Trailer>> /\ pumped \in Seq(Byte) /\ last \in Seq(Byte)
            /\ Len(pumped) = size
        BY <1>2, <1>3, <1>8
      <4>2. Len(last) = 1 /\ last[1] = Trailer BY <4>1
      <4>3. \A i \in 1 .. size + 1 : (pumped \o last)[i] =
              IF i <= size THEN pumped[i] ELSE last[i - size]
        BY <4>1, <4>2, ConcatProperties
      <4>4. size + 1 \in 1 .. size + 1 /\ ~(size + 1 <= size) /\ size + 1 - size = 1
        BY <1>1
      <4>5. (pumped \o last)[size + 1] = last[1]
        <5> DEFINE i == size + 1
        <5>1. i \in 1 .. i /\ ~(i <= size) /\ i - size = 1 BY <1>1
        <5> HIDE DEF i
        <5> QED BY <4>3, <5>1 DEF i
      <4> QED BY <1>4, <4>2, <4>5
    <3>3. \A i \in size + 1 .. size + 1 : Wanted[i] \in Byte
      BY <1>1, <1>5, <2>1, ElementOfSeq
    <3>4. Piece(size, Len(Wanted))[1] = Wanted[size + 1]
      <4> DEFINE m == size + 1
      <4>1. m \in Int /\ m - m + 1 = 1 /\ m + 1 - 1 = m BY <1>1
      <4>2. \A i \in m .. m : Wanted[i] \in Byte BY <3>3
      <4>3. Piece(size, Len(Wanted)) = SubSeq(Wanted, m, m) BY <2>1 DEF Piece
      <4> HIDE DEF m
      <4>4. \A i \in 1 .. m - m + 1 : SubSeq(Wanted, m, m)[i] = Wanted[m + i - 1]
        BY <4>1, <4>2, SubSeqProperties
      <4>5. 1 \in 1 .. m - m + 1 BY <4>1
      <4>6. SubSeq(Wanted, m, m)[1] = Wanted[m] BY <4>1, <4>4, <4>5
      <4> QED BY <4>3, <4>6 DEF m
    <3> QED BY <3>1, <3>2, <3>4
  <2>4. Piece(a, size) \in Seq(Byte) BY <2>1, WantedFacts
  <2> QED BY <2>2, <2>3, <2>4, AppendIsConcat DEF Byte
<1> QED BY <1>7, <1>8 DEF size

\* A call that has moved nothing yet.
LEMMA NothingStreamed ==
  /\ job \in Jobs
  /\ seen = <<>> /\ stream.queue = <<>> /\ held = <<>> /\ at = 0
  /\ phase # "close"
  /\ stream.state = "closed" => cancelled
  => Streamed
<1> SUFFICES ASSUME job \in Jobs, seen = <<>>, stream.queue = <<>>, held = <<>>, at = 0,
                    phase # "close", stream.state = "closed" => cancelled
             PROVE  Streamed
  OBVIOUS
<1> DEFINE cut == [k \in 0..0 |-> 0]
<1>1. Len(stream.queue) = 0 /\ Len(held) = 0 OBVIOUS
<1>2. Len(Wanted) \in Nat BY WantedFacts
<1>3. cut \in [0..0 -> Nat] /\ cut \in [0..0 -> 0..Len(Wanted)] /\ cut[0] = 0 BY <1>2
<1>4. Piece(0, 0) = <<>> BY DEF Piece
<1> HIDE DEF cut
<1>5. Cut(cut) BY <1>1, <1>3, <1>4 DEF Cut
<1> QED BY <1>1, <1>3, <1>5 DEF Streamed

\* A source that stopped stays known.
LEMMA StarvedStays == ASSUME [HostNext]_hostVars, starved PROVE starved'
  BY DEF HostNext, Await, Wasm, After, Call, SourceReady, BufferChunk, BufferEnd, CallFails,
         Parse, Locate, PumpReader, PumpMemory, Pumped, PumpEnd, ReaderFails, Emit,
         FinishLayers, FinishPump, CallReturns, Encode, EncodeEnd, Replay, ReplayEnd, ReadBack,
         ReadBackEnd, Consume, PipeEnd, Cancel, Breaks, callVars, hostVars

\* Nor is a read that strayed forgotten.
LEMMA StrayedStays == ASSUME Inv, CallTyped, [HostNext]_hostVars, strayed PROVE strayed'
<1>1. CASE UNCHANGED vars BY <1>1 DEF vars, history
<1>2. ASSUME NEW len \in Nat, Read(len) PROVE strayed'
  <2>1. strayed' = strayed \/ strayed' = (strayed \/ pos - bufStart >= UsizeValues)
    BY <1>2 DEF Read, ReadNothing, ReadBuffered, ReadRefill, ReadCold, ReadFails, Pull, history
  <2> QED BY <2>1, Zenon
<1>3. ASSUME NEW whence \in Whence, NEW delta \in Int, Seek(whence, delta) PROVE strayed'
  BY <1>3 DEF Seek, history
<1>4. CASE DropReader BY <1>4 DEF DropReader
<1> QED BY <1>1, <1>2, <1>3, <1>4, ReaderMoves

\* The steps that move no chunk.
LEMMA CutStays ==
  ASSUME UNCHANGED <<Wanted, stream, seen>>, NEW cut, Cut(cut),
         stream.state = "readable" /\ phase' \in {"pump", "finish"} =>
           /\ cut[Len(stream.queue)] + Len(held') = at'
           /\ held' = Piece(cut[Len(stream.queue)], at'),
         \/ stream.state = "readable" /\ phase' = "close"
         \/ stream.state = "closed" /\ ~cancelled'
         => starved' \/ cut[Len(stream.queue)] = Len(Wanted)
  PROVE  Cut(cut)'
  BY DEF Cut, Piece

\* The steps that drop the chunks that were not read.
LEMMA CutDropped ==
  ASSUME UNCHANGED <<Wanted, seen>>, NEW cut, Cut(cut), Len(stream.queue) \in Nat,
         stream'.queue = <<>>, stream'.state # "readable", stream'.state = "closed" => cancelled'
  PROVE  \E c \in [0..Len(stream'.queue) -> Nat] : Cut(c)'
<1> DEFINE c == [k \in 0..0 |-> cut[0]]
<1>1. Len(stream'.queue) = 0 OBVIOUS
<1>2. cut[0] \in 0..Len(Wanted) /\ seen = Piece(0, cut[0]) BY DEF Cut
<1>3. c \in [0..0 -> 0..Len(Wanted)] /\ c[0] = cut[0] /\ c \in [0..0 -> Nat] BY <1>2
<1> HIDE DEF c
<1>4. Cut(c)' BY <1>1, <1>2, <1>3 DEF Cut, Piece
<1> QED BY <1>1, <1>3, <1>4

\* The steps that put a chunk in the stream.
LEMMA CutLonger ==
  ASSUME UNCHANGED <<Wanted, seen, cancelled>>, NEW cut, Cut(cut), stream \in Streams,
         NEW chunk \in Seq(Byte),
         NEW to \in 0..Len(Wanted), cut[Len(stream.queue)] <= to,
         chunk # <<>>, chunk = Piece(cut[Len(stream.queue)], to),
         stream.state = "readable",
         stream' = [stream EXCEPT !.queue = Append(stream.queue, chunk)],
         phase' \in {"pump", "finish"} => at' = to /\ held' = <<>>,
         phase' = "close" => starved' \/ to = Len(Wanted)
  PROVE  \E c \in [0..Len(stream'.queue) -> Nat] : Cut(c)'
<1> DEFINE n == Len(stream.queue)
<1>1. stream.queue \in Seq(Seq(Byte) \ {<<>>}) /\ n \in Nat BY StreamMoves
<1>2. /\ stream'.queue = Append(stream.queue, chunk) /\ stream'.state = "readable"
  BY StreamChunks
<1>3. /\ Len(stream'.queue) = n + 1
      /\ \A k \in 1..n : stream'.queue[k] = stream.queue[k]
      /\ stream'.queue[n + 1] = chunk
  BY <1>1, <1>2, AppendProperties
<1>4. /\ cut \in [0..n -> 0..Len(Wanted)] /\ seen = Piece(0, cut[0])
      /\ \A k \in 1..n :
           cut[k - 1] <= cut[k] /\ stream.queue[k] = Piece(cut[k - 1], cut[k])
  BY DEF Cut
<1>5. PICK c : /\ c \in [0..n + 1 -> 0..Len(Wanted)] /\ c \in [0..n + 1 -> Nat]
               /\ c[n + 1] = to /\ \A k \in 0..n : c[k] = cut[k]
  <2> DEFINE d == [k \in 0..n + 1 |-> IF k = n + 1 THEN to ELSE cut[k]]
  <2>1. d \in [0..n + 1 -> 0..Len(Wanted)] /\ d \in [0..n + 1 -> Nat]
        /\ d[n + 1] = to /\ \A k \in 0..n : d[k] = cut[k]
    BY <1>1, <1>4
  <2> QED BY <2>1
<1>6. \A k \in 1..n + 1 : c[k - 1] <= c[k] /\ stream'.queue[k] = Piece(c[k - 1], c[k])
  BY <1>1, <1>3, <1>4, <1>5
<1>7. Piece(to, to) = <<>> BY DEF Piece
<1>8. Cut(c)'
  <2>1. UNCHANGED <<Wanted, seen>> /\ \A a, b : Piece(a, b)' = Piece(a, b) BY DEF Piece
  <2>2. c[0] = cut[0] BY <1>1, <1>5
  <2>3. phase' \in {"pump", "finish"} =>
          c[n + 1] + Len(held') = at' /\ held' = Piece(c[n + 1], at')
    BY <1>5, <1>7
  <2>4. phase' = "close" => starved' \/ c[n + 1] = Len(Wanted) BY <1>5
  <2> QED BY <1>2, <1>3, <1>4, <1>5, <1>6, <2>1, <2>2, <2>3, <2>4 DEF Cut
<1> QED BY <1>3, <1>5, <1>8

\* The step that takes one out.
LEMMA CutShorter ==
  ASSUME job \in Jobs, UNCHANGED <<Wanted, cancelled, starved>>, NEW cut, Cut(cut), stream \in Streams,
         stream.queue # <<>>,
         stream' = [stream EXCEPT !.queue = Tail(stream.queue)],
         seen' = seen \o Head(stream.queue),
         phase' \notin {"pump", "finish", "close"}
  PROVE  \E c \in [0..Len(stream'.queue) -> Nat] : Cut(c)'
<1> DEFINE n == Len(stream.queue)
<1>1. stream.queue \in Seq(Seq(Byte) \ {<<>>}) /\ n \in Nat \ {0}
  BY StreamMoves, EmptySeq
<1>2. stream'.queue = Tail(stream.queue) /\ stream'.state = stream.state BY StreamChunks
<1>3. /\ Len(stream'.queue) = n - 1
      /\ \A k \in 1..n - 1 : stream'.queue[k] = stream.queue[k + 1]
      /\ Head(stream.queue) = stream.queue[1]
  BY <1>1, <1>2, HeadTailProperties
<1>4. /\ cut \in [0..n -> 0..Len(Wanted)] /\ seen = Piece(0, cut[0])
      /\ \A k \in 1..n :
           cut[k - 1] <= cut[k] /\ stream.queue[k] = Piece(cut[k - 1], cut[k])
      /\ stream.state = "closed" /\ ~cancelled => starved \/ cut[n] = Len(Wanted)
  BY DEF Cut
<1>5. PICK c : /\ c \in [0..n - 1 -> 0..Len(Wanted)] /\ c \in [0..n - 1 -> Nat]
               /\ \A k \in 0..n - 1 : c[k] = cut[k + 1]
  <2> DEFINE d == [k \in 0..n - 1 |-> cut[k + 1]]
  <2>1. /\ d \in [0..n - 1 -> 0..Len(Wanted)] /\ d \in [0..n - 1 -> Nat]
        /\ \A k \in 0..n - 1 : d[k] = cut[k + 1]
    BY <1>1, <1>4
  <2> QED BY <2>1
<1>6. \A k \in 1..n - 1 : c[k - 1] <= c[k] /\ stream'.queue[k] = Piece(c[k - 1], c[k])
  <2> SUFFICES ASSUME NEW k \in 1..n - 1
               PROVE  c[k - 1] <= c[k] /\ stream'.queue[k] = Piece(c[k - 1], c[k])
    OBVIOUS
  <2>1. /\ k + 1 \in 1..n /\ (k + 1) - 1 = k /\ k - 1 \in 0..n - 1 /\ (k - 1) + 1 = k
        /\ k \in 0..n - 1
    <3>1. n \in Nat BY <1>1
    <3> HIDE DEF n
    <3> QED BY <3>1, SMTT(20)
  <2>2. cut[k] <= cut[k + 1] /\ stream.queue[k + 1] = Piece(cut[k], cut[k + 1]) BY <1>4, <2>1
  <2>3. c[k - 1] = cut[k] /\ c[k] = cut[k + 1] BY <1>5, <2>1
  <2> QED BY <1>3, <2>2, <2>3
<1>7. seen' = Piece(0, c[0])
  <2>1. /\ cut[0] \in 0..Len(Wanted) /\ cut[1] \in 0..Len(Wanted) /\ cut[0] <= cut[1]
        /\ stream.queue[1] = Piece(cut[0], cut[1]) /\ c[0] = cut[1] /\ 0 \in 0..Len(Wanted)
    <3>1. 1 \in 1..n /\ 0 \in 0..n /\ 1 \in 0..n /\ 0 \in 0..n - 1 BY <1>1
    <3>2. cut[1 - 1] <= cut[1] /\ stream.queue[1] = Piece(cut[1 - 1], cut[1]) BY <1>4, <3>1
    <3>3. Len(Wanted) \in Nat BY WantedFacts
    <3> QED BY <1>4, <1>5, <3>1, <3>2, <3>3
  <2>2. 0 <= cut[0] BY <2>1
  <2>3. Piece(0, cut[0]) \o Piece(cut[0], cut[1]) = Piece(0, cut[1])
    BY <2>1, <2>2, WantedFacts
  <2> QED BY <1>3, <1>4, <2>1, <2>3
<1>8. Cut(c)'
  <2>1. UNCHANGED Wanted /\ \A a, b : Piece(a, b)' = Piece(a, b) BY DEF Piece
  <2>2. c[n - 1] = cut[n]
    <3> HIDE DEF n
    <3>1. n - 1 \in 0..n - 1 /\ (n - 1) + 1 = n BY <1>1
    <3> QED BY <1>5, <3>1
  <2> QED BY <1>2, <1>3, <1>4, <1>5, <1>6, <1>7, <2>1, <2>2 DEF Cut
<1> QED BY <1>3, <1>5, <1>8

\* Every step keeps the cut, or finds the next one.
LEMMA StaysStreamed ==
  ASSUME Inv, Typed, AtThePump, PumpedAll, Streamed, [HostNext]_hostVars,
         Typed'
  PROVE  Streamed'
<1>1. UNCHANGED <<job, ToSink, Returns, From, To, Wanted>> BY JobStays
<1>2. SUFFICES ASSUME ~ToSink, Returns => ~starved', ~strayed'
               PROVE  \E c \in [0..Len(stream'.queue) -> Nat] : Cut(c)'
  BY <1>1 DEF Streamed
<1>3. PICK cut \in [0..Len(stream.queue) -> Nat] : Cut(cut)
  BY <1>2, StarvedStays, StrayedStays DEF Streamed, Typed
<1>4. /\ stream \in Streams /\ job \in Jobs /\ Len(stream.queue) \in Nat
      /\ From \in Nat /\ To \in Nat /\ To - From \in Nat /\ at \in Nat /\ at <= To - From
      /\ held \in Seq(Byte)
  BY StreamMoves, Range0 DEF Typed, CallTyped
<1>5. /\ Len(Wanted) \in Nat /\ To - From <= Len(Wanted)
      /\ job.method = "compressTo" => Len(Wanted) = To - From + 1
      /\ job.method # "compressTo" => Len(Wanted) = To - From
  <2>1. Len(Wanted) = IF job.method = "compressTo" THEN To - From + 1 ELSE To - From
    BY <1>4, WantedFacts
  <2> DEFINE size == To - From
  <2>2. size \in Nat BY <1>4
  <2>3. Len(Wanted) = IF job.method = "compressTo" THEN size + 1 ELSE size BY <2>1
  <2> HIDE DEF size
  <2>4. /\ Len(Wanted) \in Nat /\ size <= Len(Wanted)
        /\ job.method = "compressTo" => Len(Wanted) = size + 1
        /\ job.method # "compressTo" => Len(Wanted) = size
    BY <2>2, <2>3
  <2> QED BY <2>4 DEF size
<1>6. /\ cut[Len(stream.queue)] \in 0..Len(Wanted)
      /\ stream.state = "readable" /\ phase \in {"pump", "finish"} =>
           /\ cut[Len(stream.queue)] + Len(held) = at
           /\ held = Piece(cut[Len(stream.queue)], at)
      /\ \/ stream.state = "readable" /\ phase = "close"
         \/ stream.state = "closed" /\ ~cancelled
         => starved \/ cut[Len(stream.queue)] = Len(Wanted)
  BY <1>3, <1>4 DEF Cut
<1>7. Placed /\ Placed' BY DEF Typed
\* Nothing has moved yet, and nothing is moved.
<1>8. CASE /\ phase \in {"idle", "await", "parse"}
           /\ UNCHANGED <<at, held, seen>> /\ stream'.queue = <<>> /\ phase' # "close"
           /\ stream'.state = "closed" => cancelled'
  <2>1. job' \in Jobs /\ seen' = <<>> /\ held' = <<>> /\ at' = 0
    BY <1>1, <1>4, <1>7, <1>8 DEF Placed
  <2>2. Streamed'
    <3>1. (/\ job \in Jobs
           /\ seen = <<>> /\ stream.queue = <<>> /\ held = <<>> /\ at = 0
           /\ phase # "close"
           /\ stream.state = "closed" => cancelled)' => Streamed'
      BY NothingStreamed, PTL
    <3> QED BY <1>8, <2>1, <3>1
  <2> QED BY <1>1, <1>2, <2>2 DEF Streamed
<1>9. CASE Call \/ Await \/ Parse \/ Locate
  <2>1. /\ phase \in {"idle", "await", "parse"} /\ phase' # "close"
        /\ UNCHANGED <<at, held, seen, stream, cancelled>>
    BY <1>9 DEF Call, Await, SourceReady, BufferChunk, BufferEnd, Parse, Locate, WasmPhase, callVars
  <2>2. stream.queue = <<>> /\ (stream.state = "closed" => cancelled)
    BY <1>7, <2>1 DEF Placed
  <2> QED BY <1>8, <2>1, <2>2
<1>10. CASE PumpReader \/ PumpMemory
  <2>0. PICK bytes \in Seq(Byte) :
          /\ Pumped(bytes) /\ Len(bytes) \in 0..(To - From - at)
          /\ bytes = Bytes(From + at, Len(bytes))
    BY <1>2, <1>10, PumpDelivers DEF Typed
  <2>1. PICK n \in 0..(To - From - at) : Pumped(Bytes(From + at, n)) BY <2>0
  <2>2. phase = "pump" BY <1>10 DEF PumpReader, PumpMemory, MayRead
  <2>3. /\ held' = held \o Bytes(From + at, n) /\ at' = at + n /\ phase' \in {"pump", "finish"}
        /\ UNCHANGED <<stream, seen, cancelled>>
        /\ Bytes(From + at, n) \in Seq(Byte) /\ Len(Bytes(From + at, n)) = n
    <3>1. From + at \in Nat /\ n \in Nat BY <1>4
    <3>2. Bytes(From + at, n) \in Seq(Byte) /\ Len(Bytes(From + at, n)) = n BY <3>1, BytesTyped
    <3> QED BY <2>1, <2>2, <3>2 DEF Pumped
  <2>4. ASSUME stream.state = "readable"
        PROVE  /\ cut[Len(stream.queue)] + Len(held') = at'
               /\ held' = Piece(cut[Len(stream.queue)], at')
    <3> DEFINE a == cut[Len(stream.queue)]
    <3>1. a + Len(held) = at /\ held = Piece(a, at) BY <1>6, <2>2, <2>4
    <3>2. a \in 0..Len(Wanted) /\ at \in 0..Len(Wanted) /\ at + n \in 0..Len(Wanted)
          /\ at + n <= To - From /\ n \in Nat /\ Len(held) \in Nat
      BY <1>4, <1>5, <1>6
    <3> HIDE DEF a
    <3>3. a <= at /\ at <= at + n BY <1>4, <3>1, <3>2
    <3>4. Piece(at, at + n) = Bytes(From + at, n) BY <1>4, <3>2, PumpedPieces
    <3>5. Piece(a, at) \o Piece(at, at + n) = Piece(a, at + n) BY <1>4, <3>2, <3>3, WantedFacts
    <3>6. Len(held') = Len(held) + n BY <1>4, <2>3, ConcatProperties
    <3>7. a + Len(held') = at'
      <4>1. a \in Nat /\ n \in Nat /\ Len(held) \in Nat /\ at' = at + n BY <1>5, <2>3, <3>2
      <4> QED BY <3>1, <3>6, <4>1
    <3> QED BY <2>3, <3>1, <3>4, <3>5, <3>7 DEF a
  <2>5. ~(stream.state = "closed" /\ ~cancelled) BY <1>7, <2>2 DEF Placed
  <2>6. Cut(cut)' BY <1>1, <1>3, <2>3, <2>4, <2>5, CutStays
  <2> QED BY <1>3, <2>3, <2>6
<1>11. CASE PumpEnd
  <2>1. Cut(cut)' BY <1>1, <1>3, <1>6, <1>11, CutStays DEF PumpEnd
  <2> QED BY <1>3, <1>11, <2>1 DEF PumpEnd
<1>12. CASE ReaderFails
  <2>1. /\ UNCHANGED <<stream, seen, cancelled, starved>> /\ phase' = "failed"
    BY <1>12 DEF ReaderFails
  <2>2. Cut(cut)' BY <1>1, <1>3, <1>6, <2>1, CutStays
  <2> QED BY <1>3, <2>1, <2>2
<1>13. CASE Emit
  <2>1. /\ phase \in {"pump", "finish"} /\ held # <<>> /\ held' = <<>>
        /\ UNCHANGED <<phase, at, seen, cancelled, starved>>
        /\ stream' = IF stream.state = "readable"
                     THEN [stream EXCEPT !.queue = Append(stream.queue, held)] ELSE stream
    BY <1>13 DEF Emit
  <2>2. CASE stream.state = "readable"
    <3>1. /\ at \in 0..Len(Wanted) /\ cut[Len(stream.queue)] <= at
          /\ held = Piece(cut[Len(stream.queue)], at)
      BY <1>4, <1>5, <1>6, <2>1, <2>2
    <3> QED BY <1>1, <1>3, <1>4, <2>1, <2>2, <3>1, CutLonger
  <2>3. CASE stream.state # "readable"
    <3>1. Cut(cut)' BY <1>1, <1>3, <1>6, <2>1, <2>3, CutStays
    <3> QED BY <1>3, <2>1, <2>3, <3>1
  <2> QED BY <2>2, <2>3
<1>14. CASE FinishLayers
  <2>1. /\ phase = "finish" /\ job.method = "compressTo" /\ phase' = "close" /\ held' = <<>>
        /\ stream' = [stream EXCEPT !.queue = Append(stream.queue, Append(held, Trailer))]
        /\ UNCHANGED <<at, seen, cancelled, starved>>
    BY <1>14 DEF FinishLayers
  <2>2. Returns /\ ~starved /\ stream.state = "readable" /\ at = To - From
    BY <1>2, <1>7, <2>1 DEF Returns, Placed, PumpedAll
  <2> DEFINE chunk == Append(held, Trailer)
  <2>3. chunk \in Seq(Byte) /\ chunk # <<>> BY <1>4, AppendProperties DEF Byte
  <2>4. /\ cut[Len(stream.queue)] \in 0..(To - From) /\ held = Piece(cut[Len(stream.queue)], To - From)
    BY <1>4, <1>6, <2>1, <2>2
  <2>5. chunk = Piece(cut[Len(stream.queue)], Len(Wanted))
    BY <1>4, <2>1, <2>4, PumpedPieces
  <2>6. Len(Wanted) \in 0..Len(Wanted) /\ cut[Len(stream.queue)] <= Len(Wanted)
    BY <1>5, <1>6
  <2> HIDE DEF chunk
  <2>7. stream' = [stream EXCEPT !.queue = Append(stream.queue, chunk)] BY <2>1 DEF chunk
  <2> QED BY <1>1, <1>3, <1>4, <2>1, <2>2, <2>3, <2>5, <2>6, <2>7, CutLonger
<1>15. CASE FinishPump
  <2>1. /\ phase = "finish" /\ job.method # "compressTo" /\ phase' = "close" /\ held = <<>>
        /\ UNCHANGED <<stream, held, at, seen, cancelled, starved>>
    BY <1>15 DEF FinishPump
  <2>2. stream.state = "readable" => starved \/ cut[Len(stream.queue)] = Len(Wanted)
    <3>1. ASSUME ~starved, stream.state = "readable"
          PROVE  cut[Len(stream.queue)] + 0 = at /\ at = To - From
      BY <1>6, <2>1, <3>1 DEF PumpedAll
    <3> QED BY <1>4, <1>5, <1>6, <2>1, <3>1
  <2>3. Cut(cut)' BY <1>1, <1>3, <1>6, <2>1, <2>2, CutStays
  <2> QED BY <1>3, <2>1, <2>3
<1>16. CASE CallReturns
  <2>1. /\ phase = "close" /\ phase' = "after" /\ stream' = Closed
        /\ UNCHANGED <<at, held, seen, cancelled, starved>>
    BY <1>16 DEF CallReturns
  <2>2. /\ stream'.queue = stream.queue
        /\ stream'.state = IF stream.state = "readable" THEN "closed" ELSE stream.state
    BY <1>4, <2>1, StreamEnds
  <2>3. Cut(cut)' BY <1>1, <1>3, <1>6, <2>1, <2>2 DEF Cut, Piece
  <2> QED BY <1>3, <2>2, <2>3
<1>17. CASE CallFails
  <2>1. /\ phase' = "after"
        /\ stream' = stream \/ stream' = Errored
        /\ UNCHANGED <<at, seen, cancelled, starved>>
    BY <1>17 DEF CallFails
  <2>2. CASE stream' = stream
    <3>1. Cut(cut)' BY <1>1, <1>3, <1>6, <2>1, <2>2, CutStays
    <3> QED BY <1>3, <2>2, <3>1
  <2>3. CASE stream' = Errored /\ stream.state = "readable"
    <3>1. stream'.queue = <<>> /\ stream'.state = "errored" BY <1>4, <2>3, StreamEnds
    <3> QED BY <1>1, <1>3, <1>4, <2>1, <3>1, CutDropped
  <2>4. CASE stream' = Errored /\ stream.state # "readable"
    BY <2>2, <2>4 DEF Errored
  <2> QED BY <2>1, <2>2, <2>3, <2>4
<1>18. CASE Consume
  <2>1. /\ phase = "after" /\ phase' = "after" /\ stream.queue # <<>>
        /\ seen' = seen \o Head(stream.queue)
        /\ stream' = [stream EXCEPT !.queue = Tail(stream.queue)]
        /\ UNCHANGED <<cancelled, starved>>
    BY <1>18 DEF Consume
  <2> QED BY <1>1, <1>3, <1>4, <2>1, CutShorter
<1>19. CASE PipeEnd
  <2>1. /\ phase' = "after" /\ UNCHANGED <<stream, seen, cancelled, starved>>
    BY <1>19 DEF PipeEnd
  <2>2. Cut(cut)' BY <1>1, <1>3, <1>6, <2>1, CutStays
  <2> QED BY <1>3, <2>1, <2>2
<1>20. CASE Cancel
  <2>1. /\ stream'.queue = <<>> /\ stream'.state = "closed" /\ cancelled' /\ seen' = seen
    BY <1>20 DEF Cancel
  <2> QED BY <1>1, <1>3, <1>4, <2>1, CutDropped
<1>21. CASE Breaks
  <2>1. /\ stream'.queue = <<>> /\ stream'.state = "errored" /\ seen' = seen
    BY <1>21 DEF Breaks
  <2> QED BY <1>1, <1>3, <1>4, <2>1, CutDropped
<1>22. CASE UNCHANGED hostVars
  <2>1. UNCHANGED <<phase, at, held, stream, seen, cancelled, starved>>
    BY <1>22 DEF hostVars, callVars
  <2>2. Cut(cut)' BY <1>1, <1>3, <1>6, <2>1, CutStays
  <2> QED BY <1>3, <2>1, <2>2
<1>23. ~(Encode \/ EncodeEnd \/ Replay \/ ReplayEnd \/ ReadBack \/ ReadBackEnd)
  BY <1>2, <1>7 DEF Encode, EncodeEnd, Replay, ReplayEnd, ReadBack, ReadBackEnd, Placed, ToSink
<1> QED
  BY <1>9, <1>10, <1>11, <1>12, <1>13, <1>14, <1>15, <1>16, <1>17, <1>18, <1>19, <1>20, <1>21,
     <1>22, <1>23
  DEF HostNext, Wasm, After

-----------------------------------------------------------------------------
(* The sink                                                                *)

\* A whole write leaves a synchronous sink's file as the plain file is; a part
\* of one, no longer.
LEMMA WriteSyncStored ==
  ASSUME SinkTyped, SameView, Len(file) <= Len(image), ~shortWrite => file = image,
         NEW n \in Pieces, WriteSync(n)
  PROVE  /\ SameView'
         /\ Len(file') <= Len(image')
         /\ ~shortWrite' => file' = image'
<1> DEFINE bytes == Repeat(nextWrite, n)
<1>1. /\ image \in Seq(Nat) /\ file \in Seq(Nat) /\ imagePos \in Nat /\ sinkPos = imagePos
      /\ sinkSize = Len(image) /\ nextWrite \in Nat /\ n \in Nat \ {0}
  BY HostSinkAssumption DEF SinkTyped, SameView
<1>2. /\ image' = Overlay(image, imagePos, bytes) /\ imagePos' = imagePos + n
      /\ sinkPos' = sinkPos + n /\ sinkSize' = Larger(sinkSize, sinkPos + n)
      /\ Len(image') = Larger(Len(image), imagePos + n)
  BY PlainWriteTyped DEF WriteSync
<1>3. PICK written \in 0..n :
        /\ file' = IF written = 0 THEN file
                   ELSE Overlay(file, sinkPos, SubSeq(bytes, 1, written))
        /\ shortWrite' = (shortWrite \/ written < n)
  BY DEF WriteSync
<1>4. /\ SubSeq(bytes, 1, written) = Repeat(nextWrite, written)
      /\ Repeat(nextWrite, written) \in Seq(Nat) /\ Len(Repeat(nextWrite, written)) = written
  <2>1. n \in Nat /\ written \in Nat BY <1>1
  <2> QED BY <1>1, <2>1, RepeatTyped
<1> HIDE DEF bytes
<1>8. Len(file') = IF written = 0 THEN Len(file) ELSE Larger(Len(file), imagePos + written)
  <2>1. ASSUME written # 0 PROVE file' = Overlay(file, imagePos, Repeat(nextWrite, written))
    BY <1>1, <1>3, <1>4, <2>1
  <2>2. Len(Overlay(file, imagePos, Repeat(nextWrite, written)))
          = Larger(Len(file), imagePos + written)
    <3> DEFINE r == Repeat(nextWrite, written)
    <3>1. file \in Seq(Nat) /\ imagePos \in Nat /\ r \in Seq(Nat) /\ Len(r) = written
      BY <1>1, <1>4
    <3> HIDE DEF r
    <3>2. Len(Overlay(file, imagePos, r)) = Larger(Len(file), imagePos + Len(r))
      BY <3>1, OverlayTyped
    <3> QED BY <3>1, <3>2 DEF r
  <2> QED BY <1>3, <2>1, <2>2
<1>5. SameView' BY <1>1, <1>2 DEF SameView
<1>6. Len(file') <= Len(image')
  <2> DEFINE f == Len(file)
             i == Len(image)
  <2>1. written \in Nat /\ written <= n /\ f \in Nat /\ i \in Nat /\ f <= i
        /\ imagePos \in Nat /\ n \in Nat
    BY <1>1
  <2>2. /\ Len(file') = IF written = 0 THEN f ELSE Larger(f, imagePos + written)
        /\ Len(image') = Larger(i, imagePos + n)
    BY <1>2, <1>8
  <2> HIDE DEF f, i
  <2> QED BY <2>1, <2>2 DEF Larger
<1>7. ASSUME ~shortWrite' PROVE file' = image'
  <2>0. ~shortWrite /\ ~(written < n) BY <1>3, <1>7, Zenon
  <2>1. ~shortWrite /\ written = n BY <1>1, <2>0
  <2>2. SubSeq(bytes, 1, written) = bytes BY <1>4, <2>1 DEF bytes
  <2>3. file' = Overlay(file, sinkPos, bytes) /\ file = image
    BY <1>1, <1>3, <2>1, <2>2
  <2> QED BY <1>1, <1>2, <2>3
<1> QED BY <1>5, <1>6, <1>7

\* A captured write is one layer more.
LEMMA WriteCapturedStored ==
  ASSUME SinkTyped, SameView, NEW layer, Layers(layer), NEW n \in Pieces, WriteCaptured(n)
  PROVE  SameView' /\ \E l \in [0..Len(writes') -> Seq(Nat)] : Layers(l)'
<1> DEFINE bytes == Repeat(nextWrite, n)
           w == Len(writes)
<1>1. /\ image \in Seq(Nat) /\ file \in Seq(Nat) /\ imagePos \in Nat /\ sinkPos = imagePos
      /\ sinkSize = Len(image) /\ nextWrite \in Nat /\ n \in Nat \ {0} /\ w \in Nat
      /\ writes \in Seq([offset : Nat, bytes : Seq(Nat)])
  BY HostSinkAssumption DEF SinkTyped, SameView
<1>2. /\ image' = Overlay(image, imagePos, bytes) /\ imagePos' = imagePos + n
      /\ sinkPos' = sinkPos + n /\ sinkSize' = Larger(sinkSize, sinkPos + n)
      /\ Len(image') = Larger(Len(image), imagePos + n) /\ image' \in Seq(Nat)
  BY PlainWriteTyped DEF WriteCaptured
<1>3. bytes \in Seq(Nat) BY <1>1, RepeatTyped
<1> HIDE DEF bytes
<1>4. writes' = Append(writes, [offset |-> imagePos, bytes |-> bytes]) /\ file' = file
  BY <1>1 DEF WriteCaptured, bytes
<1>5. /\ Len(writes') = w + 1 /\ writes'[w + 1] = [offset |-> imagePos, bytes |-> bytes]
      /\ \A k \in 1..w : writes'[k] = writes[k]
  <2>1. [offset |-> imagePos, bytes |-> bytes] \in [offset : Nat, bytes : Seq(Nat)]
    BY <1>1, <1>3
  <2> QED BY <1>1, <1>4, <2>1, AppendProperties
<1> HIDE DEF w
<1>6. /\ layer \in [0..w -> Seq(Nat)] /\ layer[0] = file /\ layer[w] = image
      /\ \A k \in 0..w : Len(layer[k]) <= Len(image)
      /\ \A k \in 1..w :
           layer[k] = Overlay(layer[k - 1], writes[k].offset, writes[k].bytes)
  BY DEF Layers, w
<1>7. PICK l : /\ l \in [0..w + 1 -> Seq(Nat)] /\ l[w + 1] = image'
               /\ \A k \in 0..w : l[k] = layer[k]
  <2> DEFINE d == [k \in 0..w + 1 |-> IF k = w + 1 THEN image' ELSE layer[k]]
  <2>1. d \in [0..w + 1 -> Seq(Nat)] /\ d[w + 1] = image' /\ \A k \in 0..w : d[k] = layer[k]
    BY <1>1, <1>2, <1>6
  <2> QED BY <2>1
<1>8. \A k \in 0..w + 1 : Len(l[k]) <= Len(image')
  <2>1. Len(image) \in Nat /\ Len(image') \in Nat /\ Len(image) <= Len(image')
    <3> DEFINE i == Len(image)
    <3>1. i \in Nat /\ imagePos + n \in Nat /\ Len(image') = Larger(i, imagePos + n)
      BY <1>1, <1>2
    <3> HIDE DEF i
    <3>2. i \in Nat /\ Len(image') \in Nat /\ i <= Len(image') BY <3>1 DEF Larger
    <3> QED BY <3>2 DEF i
  <2> SUFFICES ASSUME NEW k \in 0..w + 1 PROVE Len(l[k]) <= Len(image') OBVIOUS
  <2>2. CASE k = w + 1 BY <1>7, <2>1, <2>2
  <2>3. CASE k \in 0..w
    <3>1. l[k] \in Seq(Nat) /\ Len(l[k]) <= Len(image) BY <1>6, <1>7, <2>3
    <3>2. Len(l[k]) \in Nat BY <3>1
    <3> QED BY <2>1, <3>1, <3>2
  <2> QED BY <1>1, <2>2, <2>3
<1>9. \A k \in 1..w + 1 :
        l[k] = Overlay(l[k - 1], writes'[k].offset, writes'[k].bytes)
  <2> SUFFICES ASSUME NEW k \in 1..w + 1
               PROVE  l[k] = Overlay(l[k - 1], writes'[k].offset, writes'[k].bytes)
    OBVIOUS
  <2>1. CASE k = w + 1
    <3>1. k - 1 = w /\ w \in 0..w BY <1>1, <2>1
    <3>2. l[k] = image' /\ l[k - 1] = image BY <1>6, <1>7, <2>1, <3>1
    <3>3. writes'[k].offset = imagePos /\ writes'[k].bytes = bytes BY <1>5, <2>1
    <3> QED BY <1>2, <3>2, <3>3 DEF bytes
  <2>2. CASE k \in 1..w
    <3>1. k \in 0..w /\ k - 1 \in 0..w BY <1>1, <2>2
    <3>2. l[k] = layer[k] /\ l[k - 1] = layer[k - 1] BY <1>7, <3>1
    <3> QED BY <1>5, <1>6, <2>2, <3>2
  <2> QED BY <1>1, <2>1, <2>2
<1>10. l[0] = file' BY <1>1, <1>4, <1>6, <1>7
<1>11. Layers(l)' BY <1>5, <1>7, <1>8, <1>9, <1>10 DEF Layers
<1>12. SameView' BY <1>1, <1>2 DEF SameView
<1> QED BY <1>5, <1>7, <1>11, <1>12

\* A replayed write is one layer less.
LEMMA ReplayStored ==
  ASSUME SinkTyped, NEW layer, Layers(layer), ReplayWrite
  PROVE  \E l \in [0..Len(writes') -> Seq(Nat)] : Layers(l)'
<1> DEFINE w == Len(writes)
<1>1. /\ writes \in Seq([offset : Nat, bytes : Seq(Nat)]) /\ writes # <<>> /\ w \in Nat \ {0}
      /\ file' = Overlay(file, Head(writes).offset, Head(writes).bytes)
      /\ writes' = Tail(writes) /\ image' = image
  BY EmptySeq DEF SinkTyped, ReplayWrite, plainFile
<1>2. /\ Len(writes') = w - 1 /\ Head(writes) = writes[1]
      /\ \A k \in 1..w - 1 : writes'[k] = writes[k + 1]
  BY <1>1, HeadTailProperties
<1> HIDE DEF w
<1>3. /\ layer \in [0..w -> Seq(Nat)] /\ layer[0] = file /\ layer[w] = image
      /\ \A k \in 0..w : Len(layer[k]) <= Len(image)
      /\ \A k \in 1..w :
           layer[k] = Overlay(layer[k - 1], writes[k].offset, writes[k].bytes)
  BY DEF Layers, w
<1>4. PICK l : l \in [0..w - 1 -> Seq(Nat)] /\ \A k \in 0..w - 1 : l[k] = layer[k + 1]
  <2> DEFINE d == [k \in 0..w - 1 |-> layer[k + 1]]
  <2>1. d \in [0..w - 1 -> Seq(Nat)] /\ \A k \in 0..w - 1 : d[k] = layer[k + 1]
    BY <1>1, <1>3
  <2> QED BY <2>1
<1>5. l[0] = file'
  <2>1. 0 \in 0..w - 1 /\ 1 \in 1..w BY <1>1
  <2>2. layer[1] = Overlay(layer[1 - 1], writes[1].offset, writes[1].bytes) BY <1>3, <2>1
  <2>3. l[0] = layer[1] BY <1>4, <2>1
  <2> QED BY <1>1, <1>2, <1>3, <2>2, <2>3
<1>6. l[w - 1] = image'
  <2>1. w - 1 \in 0..w - 1 /\ (w - 1) + 1 = w BY <1>1
  <2> QED BY <1>1, <1>3, <1>4, <2>1
<1>7. \A k \in 0..w - 1 : Len(l[k]) <= Len(image')
  <2>1. \A k \in 0..w - 1 : k + 1 \in 0..w BY <1>1
  <2> QED BY <1>1, <1>3, <1>4, <2>1
<1>8. \A k \in 1..w - 1 : l[k] = Overlay(l[k - 1], writes'[k].offset, writes'[k].bytes)
  <2> SUFFICES ASSUME NEW k \in 1..w - 1
               PROVE  l[k] = Overlay(l[k - 1], writes'[k].offset, writes'[k].bytes)
    OBVIOUS
  <2>1. k + 1 \in 1..w /\ (k + 1) - 1 = k /\ k \in 0..w - 1 /\ k - 1 \in 0..w - 1 /\ (k - 1) + 1 = k
    BY <1>1
  <2>2. layer[k + 1] = Overlay(layer[k], writes[k + 1].offset, writes[k + 1].bytes) BY <1>3, <2>1
  <2>3. l[k] = layer[k + 1] /\ l[k - 1] = layer[k] BY <1>4, <2>1
  <2> QED BY <1>2, <2>2, <2>3
<1>9. Layers(l)' BY <1>2, <1>4, <1>5, <1>6, <1>7, <1>8 DEF Layers
<1> QED BY <1>2, <1>4, <1>9

\* The file behind the layers is no longer than the plain one.
LEMMA LayersShort ==
  ASSUME SinkTyped', \E l \in [0..Len(writes') -> Seq(Nat)] : Layers(l)'
  PROVE  Len(file') <= Len(image')
<1>1. PICK l : Layers(l)' OBVIOUS
<1>2. Len(writes') \in Nat BY DEF SinkTyped
<1>3. 0 \in 0..Len(writes') BY <1>2
<1> QED BY <1>1, <1>3 DEF Layers

\* Every step keeps what the sink stores.
LEMMA StaysStored ==
  ASSUME Typed, Stored, [HostNext]_hostVars
  PROVE  Stored'
<1>1. UNCHANGED <<job, ToSink>> BY JobStays
<1>2. SinkTyped /\ Placed /\ SameView /\ Len(file) <= Len(image)
  BY DEF Typed, Stored
<1>3. CASE UNCHANGED sinkVars
  <2>1. UNCHANGED <<image, imagePos, sinkPos, sinkSize, file, writes, shortWrite>>
    BY <1>3 DEF sinkVars, plainFile
  <2>2. job.method = "sinkAsync" /\ phase' = "readBack" => writes' = <<>>
    BY <1>2, <2>1
    DEF Stored, Placed, HostNext, Await, Wasm, After, Call, SourceReady, BufferChunk, BufferEnd,
        CallFails, Parse, Locate, PumpReader, PumpMemory, Pumped, PumpEnd, ReaderFails, Emit,
        FinishLayers, FinishPump, CallReturns, Encode, EncodeEnd, Replay, ReplayEnd, ReadBack,
        ReadBackEnd, Consume, PipeEnd, Cancel, Breaks, callVars, hostVars, WasmPhase
  <2>3. \A l : Layers(l)' <=> Layers(l) BY <2>1 DEF Layers
  <2>4. SameView' BY <1>2, <2>1 DEF SameView
  <2> QED BY <1>1, <1>2, <2>1, <2>2, <2>3, <2>4 DEF Stored
<1>4. CASE Encode /\ ~(UNCHANGED sinkVars)
  <2>1. ToSink /\ phase = "encode" /\ phase' = "encode"
    BY <1>2, <1>4 DEF Encode, callVars, Placed
  <2>2. CASE job.method = "sinkSync"
    <3>1. writes = <<>> /\ (~shortWrite => file = image) BY <2>2 DEF Stored
    <3>2. CASE \E n \in Pieces : WriteSync(n)
      <4>1. SameView' /\ Len(file') <= Len(image') /\ (~shortWrite' => file' = image')
        BY <1>2, <3>1, <3>2, WriteSyncStored
      <4>2. writes' = <<>> BY <3>1, <3>2 DEF WriteSync
      <4> QED BY <1>1, <2>1, <2>2, <4>1, <4>2 DEF Stored, ToSink
    <3>3. CASE \E whence \in Whence, delta \in Deltas : SinkSeek(whence, delta)
      <4>1. SameView'
        BY <1>2, <3>3 DEF SameView, SinkSeek, SinkBase, PlainBase, Whence
      <4>2. UNCHANGED <<image, file, writes, shortWrite>> BY <3>3 DEF SinkSeek
      <4> QED BY <1>1, <1>2, <2>1, <2>2, <3>1, <4>1, <4>2 DEF Stored, ToSink
    <3> QED BY <1>4, <2>2, <3>2, <3>3 DEF Encode
  <2>3. CASE job.method = "sinkAsync"
    <3>1. ~shortWrite /\ \E layer \in [0..Len(writes) -> Seq(Nat)] : Layers(layer)
      BY <2>3 DEF Stored
    <3>2. CASE \E n \in Pieces : WriteCaptured(n)
      <4>1. SameView' /\ \E l \in [0..Len(writes') -> Seq(Nat)] : Layers(l)'
        BY <1>2, <3>1, <3>2, WriteCapturedStored
      <4>2. UNCHANGED shortWrite BY <3>2 DEF WriteCaptured
      <4>3. Len(file') <= Len(image')
        <5>1. SinkTyped' BY <1>2, SinkStaysTyped
        <5> QED BY <4>1, <5>1, LayersShort
      <4> QED BY <1>1, <2>1, <2>3, <3>1, <4>1, <4>2, <4>3 DEF Stored, ToSink
    <3>3. CASE \E whence \in Whence, delta \in Deltas : SinkSeek(whence, delta)
      <4>1. SameView'
        BY <1>2, <3>3 DEF SameView, SinkSeek, SinkBase, PlainBase, Whence
      <4>2. UNCHANGED <<image, file, writes, shortWrite>> BY <3>3 DEF SinkSeek
      <4>3. \A l : Layers(l)' <=> Layers(l) BY <4>2 DEF Layers
      <4> QED BY <1>1, <1>2, <2>1, <2>3, <3>1, <4>1, <4>2, <4>3 DEF Stored, ToSink
    <3> QED BY <1>4, <2>3, <3>2, <3>3 DEF Encode
  <2> QED BY <2>1, <2>2, <2>3 DEF ToSink
<1>5. CASE EncodeEnd
  <2>1. /\ sinkPos' = 0 /\ imagePos' = 0
        /\ UNCHANGED <<image, sinkSize, file, writes, shortWrite>>
        /\ phase = "encode" /\ phase' = IF job.method = "sinkAsync" THEN "replay" ELSE "readBack"
    BY <1>5 DEF EncodeEnd
  <2>2. \A l : Layers(l)' <=> Layers(l) BY <2>1 DEF Layers
  <2>3. SameView' BY <1>2, <2>1 DEF SameView
  <2> QED BY <1>1, <1>2, <2>1, <2>2, <2>3 DEF Stored
<1>6. CASE Replay
  <2>1. /\ job.method = "sinkAsync" /\ phase' = "replay" /\ ReplayWrite
        /\ ToSink
    BY <1>2, <1>6 DEF Replay, callVars, Placed, ToSink
  <2>2. ~shortWrite /\ \E layer \in [0..Len(writes) -> Seq(Nat)] : Layers(layer)
    BY <2>1 DEF Stored
  <2>3. \E l \in [0..Len(writes') -> Seq(Nat)] : Layers(l)'
    BY <1>2, <2>1, <2>2, ReplayStored
  <2>4. SameView' BY <1>2, <2>1 DEF SameView, ReplayWrite, plainFile
  <2>5. Len(file') <= Len(image')
    <3>1. SinkTyped' BY <1>2, SinkStaysTyped
    <3> QED BY <2>3, <3>1, LayersShort
  <2>6. ~shortWrite' BY <2>1, <2>2 DEF ReplayWrite
  <2> QED BY <1>1, <2>1, <2>3, <2>4, <2>5, <2>6 DEF Stored
<1> QED
  BY <1>3, <1>4, <1>5, <1>6
  DEF HostNext, Await, Wasm, After, Call, SourceReady, BufferChunk, BufferEnd, CallFails,
      Parse, Locate, PumpReader, PumpMemory, Pumped, PumpEnd, ReaderFails, Emit, FinishLayers,
      FinishPump, CallReturns, ReplayEnd, ReadBack, ReadBackEnd, Consume, PipeEnd, Cancel,
      Breaks, Quiet, hostVars

\* Every step keeps what was read back.
LEMMA StaysCopied ==
  ASSUME Typed, Stored, Copied, [HostNext]_hostVars, Typed'
  PROVE  Copied'
<1>1. UNCHANGED <<job, ToSink>> BY JobStays
<1>2. SUFFICES ASSUME ToSink PROVE Copied' BY <1>1 DEF Copied
<1>3. /\ file \in Seq(Nat) /\ readBack \in Nat /\ Len(file) \in Nat /\ Placed
      /\ readBack <= Len(file) /\ seen = SubSeq(file, 1, readBack)
      /\ stream.queue = <<>>
      /\ outcome = "resolved" /\ ~shortWrite => file = image /\ readBack = Len(file)
  <2>1. Placed /\ readBack \in Nat /\ file \in Seq(Nat) BY DEF Typed, CallTyped, SinkTyped
  <2>2. Len(file) \in Nat BY <2>1
  <2>3. stream.queue = <<>> BY <1>2, <2>1 DEF Placed
  <2> QED BY <1>2, <2>1, <2>2, <2>3 DEF Copied
<1>4. CASE phase' \notin {"readBack", "after"}
  <2>1. seen' = <<>> /\ readBack' = 0 /\ outcome' = "pending" /\ file' \in Seq(Nat)
    BY <1>4 DEF Typed, SinkTyped, Placed
  <2>2. Len(file') \in Nat /\ SubSeq(file', 1, 0) = <<>> BY <2>1
  <2> QED BY <2>1, <2>2 DEF Copied
<1>5. CASE ReadBack
  <2>1. PICK chunk \in SinkReplies(readBack) :
          chunk # <<>> /\ seen' = seen \o chunk /\ readBack' = readBack + Len(chunk)
    BY <1>5 DEF ReadBack
  <2>2. /\ chunk \in Seq(Nat) /\ readBack + Len(chunk) <= Len(file)
        /\ chunk = SubSeq(file, readBack + 1, readBack + Len(chunk))
    BY <1>3, <2>1, RepliesAreTheFile
  <2>3. SubSeq(file, 1, readBack) \o SubSeq(file, readBack + 1, readBack + Len(chunk))
          = SubSeq(file, 1, readBack + Len(chunk))
    <3> DEFINE to == readBack + Len(chunk)
    <3>1. /\ 1 \in 1..Len(file) + 1 /\ readBack \in (1 - 1)..Len(file)
          /\ to \in readBack..Len(file)
      BY <1>3, <2>2
    <3> HIDE DEF to
    <3>2. SubSeq(file, 1, readBack) \o SubSeq(file, readBack + 1, to) = SubSeq(file, 1, to)
      BY <1>3, <3>1, ConcatAdjacentSubSeq
    <3> QED BY <3>2 DEF to
  <2>4. /\ UNCHANGED <<file, image, shortWrite, outcome>> /\ outcome = "pending"
    BY <1>3, <1>5 DEF ReadBack, Quiet, sinkVars, plainFile, Placed
  <2>5. seen' = SubSeq(file', 1, readBack') /\ readBack' <= Len(file')
    BY <1>3, <2>1, <2>2, <2>3, <2>4
  <2> QED BY <2>4, <2>5 DEF Copied
<1>6. CASE ReadBackEnd
  <2>1. /\ UNCHANGED <<file, image, sinkSize, shortWrite, seen, readBack, writes>>
        /\ phase = "readBack"
        /\ readBack >= sinkSize \/ <<>> \in SinkReplies(readBack)
    BY <1>6 DEF ReadBackEnd, Quiet, sinkVars, plainFile
  <2>2. readBack >= Len(file)
    <3>1. sinkSize = Len(image) /\ Len(file) <= Len(image) /\ Len(image) \in Nat
      BY DEF Stored, SameView, Typed, SinkTyped
    <3>2. CASE readBack >= sinkSize BY <1>3, <3>1, <3>2
    <3>3. CASE <<>> \in SinkReplies(readBack) BY <1>3, <3>3, RepliesAreTheFile
    <3> QED BY <2>1, <3>2, <3>3
  <2>3. ~shortWrite => file = image
    <3>1. CASE job.method = "sinkSync" BY <3>1 DEF Stored
    <3>2. CASE job.method = "sinkAsync"
      <4>1. writes = <<>> /\ \E layer \in [0..Len(writes) -> Seq(Nat)] : Layers(layer)
        BY <2>1, <3>2 DEF Stored
      <4>2. Len(writes) = 0 BY <4>1
      <4> QED BY <4>1, <4>2 DEF Layers
    <3> QED BY <1>2, <3>1, <3>2 DEF ToSink
  <2>4. readBack = Len(file) BY <1>3, <2>2
  <2> QED BY <1>3, <2>1, <2>3, <2>4 DEF Copied
<1>7. CASE /\ UNCHANGED <<file, image, shortWrite, seen, readBack>>
           /\ outcome' = "resolved" => outcome = "resolved"
  BY <1>3, <1>7 DEF Copied
<1>8. ~Consume /\ ~PipeEnd
  BY <1>2, <1>3 DEF Consume, PipeEnd, ToSink
<1>9. CASE UNCHANGED hostVars
  BY <1>7, <1>9 DEF hostVars, callVars, sinkVars, plainFile
<1>10. CASE Call \/ Await \/ Parse \/ Locate \/ PumpReader \/ PumpMemory \/ PumpEnd \/ ReaderFails
            \/ Emit \/ FinishLayers \/ FinishPump \/ CallReturns \/ CallFails \/ Cancel \/ Breaks
            \/ ReplayEnd
  BY <1>7, <1>10
  DEF Await, Call, SourceReady, BufferChunk, BufferEnd, Parse, Locate, PumpReader, PumpMemory,
      Pumped, PumpEnd, ReaderFails, Emit, FinishLayers, FinishPump, CallReturns, CallFails,
      Cancel, Breaks, ReplayEnd, Quiet, callVars, sinkVars, plainFile
<1>11. CASE Encode \/ Replay
  BY <1>3, <1>4, <1>11 DEF Encode, Replay, callVars
<1>12. CASE EncodeEnd
  <2>1. UNCHANGED <<file, image, shortWrite, seen, readBack, outcome>>
    BY <1>12 DEF EncodeEnd
  <2> QED BY <1>7, <2>1
<1> QED
  BY <1>5, <1>6, <1>8, <1>9, <1>10, <1>11, <1>12 DEF HostNext, Wasm, After

-----------------------------------------------------------------------------
(* Theorems                                                                *)

\* A beginning of a sequence is a prefix of it.
LEMMA BeginningIsPrefix ==
  ASSUME NEW S, NEW s \in Seq(S), NEW n \in 0..Len(s)
  PROVE  IsPrefix(SubSeq(s, 1, n), s)
<1>1. n \in Nat /\ n <= Len(s) /\ Len(s) \in Nat OBVIOUS
<1>2. SubSeq(s, 1, n) \in Seq(S) /\ Len(SubSeq(s, 1, n)) = n
  BY <1>1
<1>3. SubSeq(s, 1, n) = SubSeq(s, 1, Len(SubSeq(s, 1, n))) BY <1>2
<1> QED BY <1>1, <1>2, <1>3 DEF IsPrefix

\* The inductive invariant of a call.
HostInv ==
  Inv /\ Typed /\ AtThePump /\ PumpedAll /\ Streamed /\ Stored /\ Copied

\* It holds at first,
LEMMA HostInvInit == HostInit => HostInv
<1> SUFFICES ASSUME HostInit PROVE HostInv OBVIOUS
<1> USE DEF HostInit
<1>1. Inv BY InvInit
<1>2. Typed
  <2>1. <<>> \in Seq(Byte) /\ <<>> \in Seq(Nat) /\ <<>> \in Seq(Seq(Byte) \ {<<>>})
        /\ <<>> \in Seq([offset : Nat, bytes : Seq(Nat)])
    BY EmptySeq
  <2>2. stream \in Streams /\ stream.queue = <<>> /\ stream.state = "readable"
    BY <2>1 DEF Open, Streams
  <2>3. job \in Jobs /\ To - From \in Nat /\ Size \in Nat BY Range0, Constants
  <2>4. CallTyped
    <3> DEFINE n == To - From
    <3>1. n \in Nat /\ Size \in Nat BY <2>3
    <3> HIDE DEF n
    <3>2. at \in 0..n /\ buffered \in 0..Size BY <3>1
    <3>3. at \in 0..(To - From) BY <3>2 DEF n
    <3>4. phase \in Phases BY DEF Phases
    <3>5. /\ cancelled \in BOOLEAN /\ starved \in BOOLEAN
          /\ outcome \in {"pending", "resolved", "rejected"} /\ readBack \in Nat
          /\ held \in Seq(Byte) /\ seen \in Seq(Byte)
      BY <2>1
    <3> HIDE DEF HostInit
    <3> QED BY <2>2, <2>3, <3>2, <3>3, <3>4, <3>5 DEF CallTyped
  <2>5. SinkTyped BY <2>1 DEF SinkInit, SinkTyped
  <2>6. Placed BY <2>2 DEF Placed
  <2> QED BY <2>4, <2>5, <2>6 DEF Typed
<1>3. AtThePump /\ PumpedAll BY DEF AtThePump, PumpedAll, Init
<1>4. Streamed BY NothingStreamed DEF Open
<1>5. Stored
  <2>1. image = <<>> /\ file = <<>> /\ writes = <<>> /\ sinkSize = 0 /\ sinkPos = 0
        /\ imagePos = 0 /\ ~shortWrite /\ phase = "idle"
    BY DEF SinkInit
  <2>2. Len(image) = 0 /\ Len(writes) = 0 BY <2>1
  <2> DEFINE l == [k \in 0..0 |-> <<>>]
  <2>3. l \in [0..0 -> Seq(Nat)] /\ l[0] = <<>> BY EmptySeq
  <2> HIDE DEF l
  <2>4. Layers(l) BY <2>1, <2>2, <2>3 DEF Layers
  <2>5. \E layer \in [0..Len(writes) -> Seq(Nat)] : Layers(layer) BY <2>2, <2>3, <2>4
  <2> QED BY <2>1, <2>2, <2>5 DEF Stored, SameView
<1>6. Copied
  <2>1. file = <<>> /\ seen = <<>> /\ readBack = 0 /\ outcome = "pending" BY DEF SinkInit
  <2>2. Len(file) = 0 /\ SubSeq(file, 1, 0) = <<>> BY <2>1
  <2> QED BY <2>1, <2>2 DEF Copied
<1> QED BY <1>1, <1>2, <1>3, <1>4, <1>5, <1>6 DEF HostInv

\* and every step keeps it.
LEMMA HostInvInductive ==
  ASSUME HostInv, [HostNext]_hostVars
  PROVE  HostInv'
<1> USE DEF HostInv
<1>1. Inv' BY ReaderInv DEF Typed
<1>2. Typed' BY CallStaysTyped, SinkStaysTyped, StaysPlaced DEF Typed, Stored
<1>3. AtThePump' BY StaysAtThePump
<1>4. PumpedAll' BY StaysPumped
<1>5. Streamed' BY <1>2, StaysStreamed
<1>6. Stored' BY StaysStored
<1>7. Copied' BY <1>2, StaysCopied
<1> QED BY <1>1, <1>2, <1>3, <1>4, <1>5, <1>6, <1>7

\* The invariant holds in every reachable state of a call.
THEOREM HostInvAlways == HostSpec => []HostInv
<1>1. HostInit => HostInv BY HostInvInit
<1>2. HostInv /\ [HostNext]_hostVars => HostInv' BY HostInvInductive
<1> QED BY <1>1, <1>2, PTL DEF HostSpec

\* Every variable of the call, its reader and its sink keeps its type, and a
\* stream never holds an empty chunk.
THEOREM HostTypeCorrect == HostSpec => []HostTypeOK
<1>1. HostInv => HostTypeOK
  <2> SUFFICES ASSUME HostInv PROVE HostTypeOK OBVIOUS
  <2>1. TypeOK /\ CallTyped /\ SinkTyped /\ Stored BY DEF HostInv, Inv, Typed
  <2>2. stream \in Streams BY <2>1 DEF CallTyped
  <2>3. stream.queue \in Seq(Seq(Byte) \ {<<>>}) BY <2>2, StreamMoves
  <2>4. \A k \in DOMAIN stream.queue : stream.queue[k] # <<>>
    BY <2>3, LenProperties, ElementOfSeq
  <2>5. stream.state \in {"readable", "closed", "errored"} BY <2>2 DEF Streams
  <2> QED BY <2>1, <2>4, <2>5 DEF HostTypeOK, CallTyped, Stored, SameView
<1> QED BY <1>1, HostInvAlways, PTL

\* Until a read strays, a consumer has a beginning of the entry at any time, and
\* all of it when the stream ended without an error.
THEOREM EndCorrect == HostSpec => []EndIsTrue
<1>1. HostInv => EndIsTrue
  <2> SUFFICES ASSUME HostInv, ~Returns, ~strayed PROVE EndIsTrue BY DEF EndIsTrue
  <2>1. ~ToSink /\ Streamed /\ job \in Jobs
    BY DEF HostInv, Typed, CallTyped, Returns, ToSink
  <2>2. PICK cut \in [0..Len(stream.queue) -> Nat] : Cut(cut) BY <2>1 DEF Streamed
  <2>3. Len(stream.queue) \in Nat BY StreamMoves DEF HostInv, Typed, CallTyped
  <2>4. /\ cut[0] \in 0..Len(Wanted) /\ seen = Piece(0, cut[0]) /\ Wanted \in Seq(Byte)
    <3>1. 0 \in 0..Len(stream.queue) BY <2>3
    <3>2. cut \in [0..Len(stream.queue) -> 0..Len(Wanted)] /\ seen = Piece(0, cut[0])
      BY <2>2 DEF Cut
    <3>3. Wanted \in Seq(Byte) BY <2>1, WantedFacts
    <3> QED BY <3>1, <3>2, <3>3
  <2>5. IsPrefix(seen, Wanted) BY <2>4, BeginningIsPrefix DEF Piece
  <2>6. ASSUME stream.state = "closed", stream.queue = <<>>, ~cancelled, ~starved
        PROVE  seen = Wanted
    <3>1. Len(stream.queue) = 0 BY <2>6
    <3>2. cut[0] = Len(Wanted) BY <2>2, <2>6, <3>1 DEF Cut
    <3> QED BY <2>4, <3>2, SubSeqFull DEF Piece
  <2> QED BY <2>5, <2>6 DEF EndIsTrue
<1> QED BY <1>1, HostInvAlways, PTL

\* A promise of compressTo that resolves has put the whole output, in order, in
\* the writable or the sink, as ResolvedIsWhole states it.
THEOREM ResolvedCorrect == HostSpec => []ResolvedIsWhole
<1>1. HostInv => ResolvedIsWhole
  <2> SUFFICES ASSUME HostInv, outcome = "resolved" PROVE ResolvedIsWhole
    BY DEF ResolvedIsWhole
  <2>1. Placed /\ Streamed /\ Copied /\ job \in Jobs /\ SinkTyped
    BY DEF HostInv, Typed, CallTyped
  <2>2. ASSUME ToSink, ~shortWrite PROVE seen = image /\ file = image
    <3>1. seen = SubSeq(file, 1, readBack) /\ file = image /\ readBack = Len(file)
      BY <2>1, <2>2 DEF Copied
    <3> QED BY <2>1, <3>1, SubSeqFull DEF SinkTyped
  <2>3. ASSUME ~ToSink, ~starved, ~strayed PROVE seen = Wanted
    <3>1. stream.state = "closed" /\ stream.queue = <<>> BY <2>1, <2>3 DEF Placed
    <3>2. PICK cut \in [0..Len(stream.queue) -> Nat] : Cut(cut) BY <2>1, <2>3 DEF Streamed
    <3>3. Len(stream.queue) = 0 BY <3>1
    <3>4. ~cancelled BY <2>1, <2>3 DEF Placed
    <3>5. cut[0] = Len(Wanted) /\ seen = Piece(0, cut[0]) BY <2>3, <3>1, <3>2, <3>3, <3>4 DEF Cut
    <3> QED BY <2>1, <3>5, WantedFacts, SubSeqFull DEF Piece
  <2> QED BY <2>2, <2>3 DEF ResolvedIsWhole
<1> QED BY <1>1, HostInvAlways, PTL

\* Nothing a call does makes its reader ask for bytes outside the source,
THEOREM HostRequestsCorrect == HostSpec => []RequestsInside
<1>1. HostInv => RequestsInside BY DEF HostInv, Inv
<1> QED BY <1>1, HostInvAlways, PTL

\* nor pull a byte twice between two seeks,
THEOREM HostPullsOnce == HostSpec => PulledOnce
<1>1. HostInv /\ [HostNext]_hostVars => [AsksFresh]_vars
  <2> SUFFICES ASSUME HostInv, [HostNext]_hostVars, ~(UNCHANGED vars) PROVE AsksFresh
    OBVIOUS
  <2>1. Inv /\ CallTyped BY DEF HostInv, Typed
  <2>2. CASE \E len \in Nat : Read(len) BY <2>1, <2>2, ReadAsksFresh
  <2>3. CASE \E whence \in Whence, delta \in Int : Seek(whence, delta)
    BY <2>1, <2>3, SeekOfFile
  <2>4. CASE DropReader BY <2>4 DEF DropReader, AsksFresh
  <2> QED BY <2>1, <2>2, <2>3, <2>4, ReaderMoves
<1> QED BY <1>1, HostInvAlways, PTL DEF HostSpec, PulledOnce, AsksFresh

\* and to the parser it is a plain file until a read strays.
THEOREM HostImplementsFile == HostSpec => ImplementsFile
<1>1. HostInit => File!FileInit BY DEF HostInit, Init, File!FileInit
<1>2. HostInv /\ [HostNext]_hostVars => [File!FileNext]_<<pos, got>>
  <2> SUFFICES ASSUME HostInv, [HostNext]_hostVars PROVE [File!FileNext]_<<pos, got>>
    OBVIOUS
  <2>1. Inv /\ CallTyped BY DEF HostInv, Typed
  <2>2. CASE \E len \in Nat : Read(len) BY <2>1, <2>2, ReadOfFile
  <2>3. CASE \E whence \in Whence, delta \in Int : Seek(whence, delta)
    BY <2>1, <2>3, SeekOfFile
  <2>4. CASE DropReader
    <3>1. 0 \in 0..Size BY SeekReaderAssumption
    <3> QED BY <2>4, <3>1 DEF DropReader, File!FileNext, File!SeekTo
  <2>5. CASE UNCHANGED vars BY <2>5 DEF vars, reader
  <2> QED BY <2>1, <2>2, <2>3, <2>4, <2>5, ReaderMoves
<1> QED BY <1>1, <1>2, HostInvAlways, PTL DEF HostSpec, ImplementsFile, File!FileSpec

\* No read of a call strays when the source fits a usize, or when the parser and
\* the pump read less than the buffer holds at once.
THEOREM HostNeverStrays ==
  ASSUME \/ Size <= UsizeValues
         \/ ChunkSize < BufferSize /\ \A len \in Lengths : len < BufferSize
  PROVE  HostSpec => []~strayed
<1>1. HostInit => Calm BY DEF HostInit, Init, Calm, Near
<1>2. HostInv /\ Calm /\ [HostNext]_hostVars => Calm'
  <2> SUFFICES ASSUME HostInv, Calm, [HostNext]_hostVars PROVE Calm' OBVIOUS
  <2>1. Inv /\ CallTyped BY DEF HostInv, Typed
  <2>2. ASSUME NEW len \in Nat, Read(len), len \in Lengths \/ len <= ChunkSize PROVE Calm'
    <3>1. Size <= UsizeValues \/ len < BufferSize
      BY <2>2, SeekReaderAssumption, HostSinkAssumption
    <3> QED BY <2>1, <2>2, <3>1, ReadStaysCalm
  <2>3. ASSUME NEW whence \in Whence, NEW delta \in Int, Seek(whence, delta) PROVE Calm'
    BY <2>1, <2>3, SeekStaysCalm
  <2>4. CASE DropReader BY <2>4 DEF DropReader, Calm, Near
  <2>5. CASE UNCHANGED vars BY <2>5 DEF vars, reader, history, Calm, Near
  <2> QED BY <2>1, <2>2, <2>3, <2>4, <2>5, ReaderMoves
<1>3. Calm => ~strayed BY DEF Calm
<1> QED BY <1>1, <1>2, <1>3, HostInvAlways, PTL DEF HostSpec
=============================================================================
