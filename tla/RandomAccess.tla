---------------------------- MODULE RandomAccess ----------------------------
(***************************************************************************)
(* What a Read + Seek adapter promises over Size bytes that do not change: *)
(* a read delivers the bytes at the position, a seek moves it inside the   *)
(* source.  A byte is named by its offset.  Once the reader has strayed    *)
(* nothing is promised any more.                                           *)
(***************************************************************************)
EXTENDS Integers, Sequences

CONSTANTS
  Size,   \* bytes in the source
  Honest  \* the source always answers with all the bytes asked for

VARIABLES pos, got, strayed

Range(from, n) == [k \in 1..n |-> from + k - 1]

FileInit == pos = 0 /\ got = <<>>

\* n = 0 is the end of the file, unless the source itself gave nothing.
ReadBytes ==
  \E n \in 0..(Size - pos) :
    /\ n = 0 => (pos = Size \/ ~Honest)
    /\ got' = Range(pos, n)
    /\ pos' = pos + n

\* A read of no bytes, a failed read or a failed seek.
NoBytes == got' = <<>> /\ UNCHANGED pos

SeekTo == pos' \in 0..Size /\ got' = <<>>

FileNext == strayed' \/ ReadBytes \/ NoBytes \/ SeekTo

FileSpec == FileInit /\ [][FileNext]_<<pos, got>>
=============================================================================
