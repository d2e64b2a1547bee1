--------------------------- MODULE LimitedReader ---------------------------
(***************************************************************************)
(* LimitedReader (utils/fs.rs) under io::copy: the cap of                  *)
(* OUCH_MAX_DECOMPRESSED_BYTES on what one decoder may deliver.  The       *)
(* decoder yields its output in pieces of any length, may fail anywhere,   *)
(* and tells its end by an empty read.                                     *)
(***************************************************************************)
EXTENDS Naturals

CONSTANTS
  Limits,      \* values of max_decompressed_bytes()
  Totals,      \* how many bytes the decoder has to give
  CopyBuffer   \* length of io::copy's buffer

ASSUME LimitedReaderAssumption ==
  /\ Limits \subseteq Nat
  /\ Totals \subseteq Nat
  /\ CopyBuffer \in Nat \ {0}

VARIABLES
  limit,      \* the cap of this run
  total,      \* what the decoder has to give
  remaining,  \* LimitedReader.remaining
  given,      \* bytes the decoder has given
  copied,     \* bytes io::copy has written
  state       \* copying, done, over (the limit), failed (in the decoder)

inputs == <<limit, total>>
vars == <<inputs, remaining, given, copied, state>>

-----------------------------------------------------------------------------

Lesser(a, b) == IF a < b THEN a ELSE b

Init ==
  /\ limit \in Limits
  /\ total \in Totals
  /\ remaining = limit
  /\ given = 0
  /\ copied = 0
  /\ state = "copying"

\* At most `remaining' bytes are asked of the decoder, and copied.
ReadPiece ==
  /\ state = "copying"
  /\ remaining > 0
  /\ given < total
  /\ \E n \in 1..Lesser(Lesser(remaining, CopyBuffer), total - given) :
       /\ given' = given + n
       /\ copied' = copied + n
       /\ remaining' = remaining - n
  /\ UNCHANGED <<inputs, state>>

\* The decoder is at its end; at the limit, the probe tells so.
ReadEnd ==
  /\ state = "copying"
  /\ given = total
  /\ state' = "done"
  /\ UNCHANGED <<inputs, remaining, given, copied>>

\* Faulty Probe: no byte is probed, reaching the limit is the error.
ProbeBlindly ==
  /\ state = "copying"
  /\ remaining = 0
  /\ state' = "over"
  /\ UNCHANGED <<inputs, remaining, given, copied>>

\* At the limit one more byte is probed: it is discarded and the copy fails.
Probe ==
  /\ state = "copying"
  /\ remaining = 0
  /\ given < total
  /\ given' = given + 1
  /\ state' = "over"
  /\ UNCHANGED <<inputs, remaining, copied>>

DecoderFails ==
  /\ state = "copying"
  /\ state' = "failed"
  /\ UNCHANGED <<inputs, remaining, given, copied>>

Stopped == state # "copying" /\ UNCHANGED vars

Next == ReadPiece \/ ReadEnd \/ Probe \/ DecoderFails \/ Stopped

Spec == Init /\ [][Next]_vars

-----------------------------------------------------------------------------
(* Properties                                                              *)

TypeOK ==
  /\ limit \in Nat
  /\ total \in Nat
  /\ remaining \in Nat
  /\ given \in Nat
  /\ copied \in Nat
  /\ state \in {"copying", "done", "over", "failed"}

\* "tell exactly-at-limit (EOF) from over-limit" (fs.rs:224): a copy that ends
\* well has written everything, one that fails over the limit really had more,
\* of which exactly the limit was written, and none ever writes beyond it.
CapIsExact ==
  /\ copied <= limit
  /\ state = "done" => copied = total /\ total <= limit
  /\ state = "over" => copied = limit /\ total > limit
=============================================================================
