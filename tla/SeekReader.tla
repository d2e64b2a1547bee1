----------------------------- MODULE SeekReader -----------------------------
(***************************************************************************)
(* JsSeekReader (wasm/seekable.rs): random access to a byte source held by *)
(* JavaScript, with one read-ahead buffer.  Read and Seek are called by an *)
(* archive parser in any order; every other read is a call of the          *)
(* JavaScript readAt, which may throw and, unless Honest, may answer with  *)
(* fewer bytes than it was asked for.                                      *)
(*                                                                         *)
(* A byte is named by its offset in the source.  Offsets are u64 and do    *)
(* not overflow here; usize has UsizeValues values (2^32 in wasm), and the *)
(* distance from the start of the buffer is cast to one.  A read that is   *)
(* so far from it that the cast wraps strays: it is served stale bytes.    *)
(***************************************************************************)
EXTENDS Integers, Sequences

CONSTANTS
  Size,         \* bytes in the source
  BufferSize,   \* READ_BUFFER_SIZE
  Lengths,      \* lengths of the parser's read buffers
  Deltas,       \* seek arguments
  UsizeValues,  \* how many values a usize has
  Honest        \* readAt answers with all the bytes asked for

ASSUME SeekReaderAssumption ==
  /\ Size \in Nat
  /\ BufferSize \in Nat \ {0}
  /\ Lengths \subseteq Nat
  /\ Deltas \subseteq Int
  /\ UsizeValues \in Nat
  /\ 2 * BufferSize <= UsizeValues
  /\ Honest \in BOOLEAN

VARIABLES
  pos,       \* the position
  buf,       \* bytes pulled from JavaScript, starting at buf_start
  bufStart,  \* buf_start
  lastEnd,   \* offset just past the last read
  got,       \* what the last operation delivered
  call,      \* the readAt call it made, <<offset, length>>, or <<>>
  pulled,    \* bytes pulled from JavaScript since the last seek (history)
  strayed    \* a read was served from the buffer at a wrapped offset (history)

reader == <<pos, buf, bufStart, lastEnd>>
history == <<pulled, strayed>>
vars == <<reader, got, call, history>>

-----------------------------------------------------------------------------

Least(a, b) == IF a < b THEN a ELSE b

\* The n bytes of the source at an offset.
Bytes(from, n) == [k \in 1..n |-> from + k - 1]

\* What readAt(offset, want) may answer.
Replies(offset, want) ==
  {Bytes(offset, n) : n \in IF Honest THEN {want} ELSE 0..want}

Init ==
  /\ pos = 0
  /\ buf = <<>>
  /\ bufStart = 0
  /\ lastEnd = 0
  /\ got = <<>>
  /\ call = <<>>
  /\ pulled = {}
  /\ strayed = FALSE

\* A read that delivers nothing and calls nothing: an empty buffer, or the end.
ReadNothing(len) ==
  /\ len = 0 \/ pos >= Size
  /\ got' = <<>>
  /\ call' = <<>>
  /\ UNCHANGED <<reader, history>>

\* off, as a usize: what is left of the distance to the start of the buffer.
Off == (pos - bufStart) % UsizeValues

\* Faulty InBuffer: the last byte of the buffer is missed.
InBufferShort == pos >= bufStart /\ Off + 1 < Len(buf)

InBuffer == pos >= bufStart /\ Off < Len(buf)

Deliver(bytes) ==
  /\ got' = bytes
  /\ pos' = pos + Len(bytes)
  /\ lastEnd' = IF bytes = <<>> THEN lastEnd ELSE pos + Len(bytes)

\* The read lands inside the buffer.
ReadBuffered(len) ==
  /\ len > 0 /\ pos < Size
  /\ InBuffer
  /\ Deliver(SubSeq(buf, Off + 1, Off + Least(len, Len(buf) - Off)))
  /\ call' = <<>>
  /\ strayed' = (strayed \/ pos - bufStart >= UsizeValues)
  /\ UNCHANGED <<buf, bufStart, pulled>>

Sequential(len) == pos = lastEnd /\ len < BufferSize

Pull(bytes) ==
  pulled' = pulled \cup {bytes[k] : k \in DOMAIN bytes} /\ UNCHANGED strayed

\* refill, and the first bytes of the new buffer.
ReadRefill(len) ==
  /\ len > 0 /\ pos < Size
  /\ ~InBuffer
  /\ Sequential(len)
  /\ LET want == Least(BufferSize, Size - pos)
     IN  /\ call' = <<pos, want>>
         /\ \E bytes \in Replies(pos, want) :
              /\ buf' = bytes
              /\ bufStart' = pos
              /\ Deliver(SubSeq(bytes, 1, Least(len, Len(bytes))))
              /\ Pull(bytes)

\* Faulty ReadCold: the length is not clamped to the end of the source.
ReadColdUnclamped(len) ==
  /\ len > 0 /\ pos < Size
  /\ ~InBuffer
  /\ ~Sequential(len)
  /\ call' = <<pos, len>>
  /\ \E bytes \in Replies(pos, Least(len, Size - pos)) : Deliver(bytes) /\ Pull(bytes)
  /\ UNCHANGED <<buf, bufStart>>

\* A cold read is served by JavaScript and leaves the buffer alone.
ReadCold(len) ==
  /\ len > 0 /\ pos < Size
  /\ ~InBuffer
  /\ ~Sequential(len)
  /\ LET want == Least(len, Size - pos)
     IN  /\ call' = <<pos, want>>
         /\ \E bytes \in Replies(pos, want) : Deliver(bytes) /\ Pull(bytes)
  /\ UNCHANGED <<buf, bufStart>>

\* readAt throws, or answers with something that is not a Uint8Array.
ReadFails(len) ==
  /\ len > 0 /\ pos < Size
  /\ ~InBuffer
  /\ call' = <<pos, Least(IF Sequential(len) THEN BufferSize ELSE len, Size - pos)>>
  /\ got' = <<>>
  /\ UNCHANGED <<reader, history>>

\* SeekFrom::Start, End or Current with its argument.
Whence == {"Start", "End", "Current"}

Base(whence) ==
  CASE whence = "Start" -> 0 [] whence = "End" -> Size [] whence = "Current" -> pos

\* Faulty Seek: buf_start is reset and the bytes are kept.
SeekKeepsBytes(whence, delta) ==
  LET to == Base(whence) + delta
      there == Least(to, Size)
  IN  /\ got' = <<>>
      /\ call' = <<>>
      /\ IF to < 0
         THEN UNCHANGED <<reader, history>>
         ELSE /\ pos' = there
              /\ bufStart' = IF there < bufStart \/ there - bufStart > Len(buf)
                              THEN 0 ELSE bufStart
              /\ pulled' = {}
              /\ UNCHANGED <<buf, lastEnd, strayed>>

\* A position before the source is an error; one after it is its end.  The
\* buffer is dropped unless the new position is in it or just after it.
Seek(whence, delta) ==
  LET to == Base(whence) + delta
      there == Least(to, Size)
  IN  /\ got' = <<>>
      /\ call' = <<>>
      /\ IF to < 0
         THEN UNCHANGED <<reader, history>>
         ELSE /\ pos' = there
              /\ IF there < bufStart \/ there - bufStart > Len(buf)
                 THEN buf' = <<>> /\ bufStart' = 0
                 ELSE UNCHANGED <<buf, bufStart>>
              /\ pulled' = {}
              /\ UNCHANGED <<lastEnd, strayed>>

Read(len) ==
  \/ ReadNothing(len) \/ ReadBuffered(len) \/ ReadRefill(len)
  \/ ReadCold(len) \/ ReadFails(len)

Next ==
  \/ \E len \in Lengths : Read(len)
  \/ \E whence \in Whence, delta \in Deltas : Seek(whence, delta)

Spec == Init /\ [][Next]_vars

-----------------------------------------------------------------------------
(* Properties                                                              *)

\* Every variable has its type, and the position stays inside the source as
\* long as no read strayed.
TypeOK ==
  /\ pos \in Nat
  /\ pos <= Size \/ strayed
  /\ buf \in Seq(Nat)
  /\ bufStart \in 0..Size
  /\ lastEnd \in Nat
  /\ got \in Seq(Nat)
  /\ call \in Seq(Nat)
  /\ pulled \subseteq Nat
  /\ strayed \in BOOLEAN

\* The buffer is a piece of the source: no seek, short answer or failure leaves
\* bytes in it that belong elsewhere.
BufferIsSource ==
  /\ buf = Bytes(bufStart, Len(buf))
  /\ bufStart + Len(buf) <= Size

\* "Serve from the internal buffer when the read lands inside it"
\* (seekable.rs:86): whatever way a read takes, it delivers the bytes at the
\* position the parser is at, unless a read strayed.
DeliversThePosition ==
  ~strayed => got = <<>> \/ got = Bytes(pos - Len(got), Len(got))

\* JavaScript is never asked for bytes outside the source.
RequestsInside ==
  call # <<>> => call[2] > 0 /\ call[1] + call[2] <= Size

\* "buffering here collapses many crossings into one" (seekable.rs:17): between
\* two seeks no byte is pulled from JavaScript twice.
PulledOnce ==
  [][call' # <<>> => \A k \in 1..call'[2] : call'[1] + k - 1 \notin pulled]_vars

File == INSTANCE RandomAccess

\* The reader behaves as a plain file over the source, until a read strays.
ImplementsFile == File!FileSpec
=============================================================================
