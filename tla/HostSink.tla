------------------------------ MODULE HostSink ------------------------------
(***************************************************************************)
(* JsSeekSink (wasm/seekable.rs) and the host's file behind it: how a zip  *)
(* or 7z encoder, which writes and seeks, ends up in a file of Node or     *)
(* Deno, and how compressTo (mod.ts) streams that file back.               *)
(*                                                                         *)
(* With a synchronous sink every write of the encoder is a writeAt; with   *)
(* an asynchronous one the writes are captured and replayed after the      *)
(* call.  A byte is named by the number of the write that wrote it, a hole *)
(* is 0.  image and imagePos are what a plain file would hold for the same *)
(* writes and seeks; they judge the sink and steer nothing.                *)
(***************************************************************************)
EXTENDS Integers, Sequences

CONSTANTS
  MaxWrites,   \* writes of the encoder (bound)
  Pieces,      \* lengths of a write
  MaxEnd,      \* largest offset the encoder seeks to (bound)
  ChunkSize    \* STREAM_CHUNK

ASSUME HostSinkAssumption ==
  /\ MaxWrites \in Nat /\ MaxEnd \in Nat
  /\ Pieces \subseteq Nat \ {0}
  /\ ChunkSize \in Nat \ {0}

VARIABLES
  image, imagePos,    \* the plain file (history)
  sinkPos, sinkSize,  \* pos and size of JsSeekSink
  file,               \* the host's file
  writes,             \* the captured writes of an asynchronous sink
  nextWrite,          \* the number of the next write
  shortWrite          \* a synchronous writeAt wrote only a part (history)

plainFile == <<image, imagePos>>
sinkVars == <<plainFile, sinkPos, sinkSize, file, writes, nextWrite, shortWrite>>

Larger(a, b) == IF a > b THEN a ELSE b

\* A file after bytes were written at an offset.
Overlay(f, offset, bytes) ==
  [k \in 1..Larger(Len(f), offset + Len(bytes)) |->
     IF k \in offset + 1 .. offset + Len(bytes) THEN bytes[k - offset]
     ELSE IF k <= Len(f) THEN f[k] ELSE 0]

Repeat(byte, n) == [k \in 1..n |-> byte]

SinkInit ==
  /\ image = <<>> /\ imagePos = 0
  /\ sinkPos = 0 /\ sinkSize = 0
  /\ file = <<>>
  /\ writes = <<>>
  /\ nextWrite = 1
  /\ shortWrite = FALSE

PlainWrite(bytes) ==
  /\ image' = Overlay(image, imagePos, bytes)
  /\ imagePos' = imagePos + Len(bytes)

\* Faulty Advance: the size follows the last write instead of the furthest.
AdvanceLast(end) == sinkSize' = end /\ sinkPos' = end

\* What the adapter does with the end offset writeAt returned.
Advance(end) ==
  /\ sinkSize' = Larger(sinkSize, end)
  /\ sinkPos' = end

\* A write of the encoder into a synchronous sink.  fileSinkSync calls
\* writeSync once and returns the end of the whole piece, whatever was written.
WriteSync(n) ==
  LET bytes == Repeat(nextWrite, n)
  IN  /\ nextWrite <= MaxWrites
      /\ nextWrite' = nextWrite + 1
      /\ PlainWrite(bytes)
      /\ \E written \in 0..n :
           /\ file' = IF written = 0 THEN file
                      ELSE Overlay(file, sinkPos, SubSeq(bytes, 1, written))
           /\ shortWrite' = (shortWrite \/ written < n)
      /\ Advance(sinkPos + n)
      /\ UNCHANGED writes

\* A write into the callback of an asynchronous sink: captured.
WriteCaptured(n) ==
  LET bytes == Repeat(nextWrite, n)
  IN  /\ nextWrite <= MaxWrites
      /\ nextWrite' = nextWrite + 1
      /\ PlainWrite(bytes)
      /\ writes' = Append(writes, [offset |-> sinkPos, bytes |-> bytes])
      /\ Advance(sinkPos + n)
      /\ UNCHANGED <<file, shortWrite>>

\* SeekFrom::Start, End or Current: a position before the sink is an error,
\* which the encoder passes on; one after its end is kept.
SinkBase(whence) ==
  CASE whence = "Start" -> 0 [] whence = "End" -> sinkSize
    [] whence = "Current" -> sinkPos

PlainBase(whence) ==
  CASE whence = "Start" -> 0 [] whence = "End" -> Len(image)
    [] whence = "Current" -> imagePos

SinkSeek(whence, delta) ==
  LET to == SinkBase(whence) + delta
  IN  /\ to \in 0..MaxEnd
      /\ sinkPos' = to
      /\ imagePos' = PlainBase(whence) + delta
      /\ UNCHANGED <<image, sinkSize, file, writes, nextWrite, shortWrite>>

\* for (const w of writes) await sink.writeAt(...).  The asynchronous writeAt
\* loops until the piece is whole or throws.
ReplayWrite ==
  /\ writes # <<>>
  /\ file' = Overlay(file, Head(writes).offset, Head(writes).bytes)
  /\ writes' = Tail(writes)
  /\ UNCHANGED <<plainFile, sinkPos, sinkSize, nextWrite, shortWrite>>

\* What readAt(offset, STREAM_CHUNK) of the sink may answer: at least one byte
\* before the end of the file, none after it.
SinkReplies(offset) ==
  LET left == Larger(0, Len(file) - offset)
  IN  {SubSeq(file, offset + 1, offset + n) :
         n \in IF left = 0 THEN {0} ELSE 1..(IF left < ChunkSize THEN left ELSE ChunkSize)}
=============================================================================
