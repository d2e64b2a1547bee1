----------------------------- MODULE LogStream ------------------------------
(***************************************************************************)
(* What ouch promises about its log output, without threads, channels or   *)
(* locks.  A line that deserves display is numbered when a thread hands it *)
(* to the logger; stderr always shows the accepted lines up to some line,  *)
(* each once and in order; and the log is closed only after every accepted *)
(* line has been shown ("waits till it flushes all pending messages",      *)
(* utils/logger.rs).  Module Logger implements this specification.         *)
(***************************************************************************)
EXTENDS Naturals, Sequences

VARIABLES
  accepted,   \* the numbers of the lines handed to the logger
  shown,      \* the lines on stderr, first to last
  closed      \* the logger has shut down

streamVars == <<accepted, shown, closed>>

Ascending(s) == \A i, j \in DOMAIN s : i < j => s[i] < s[j]

Lines(s) == {s[i] : i \in DOMAIN s}

StreamInit ==
  /\ accepted = {}
  /\ shown = <<>>
  /\ closed = FALSE

\* A thread hands over a line; its number is larger than every earlier one.
Accept ==
  /\ ~closed
  /\ \E n \in accepted' :
        /\ \A m \in accepted : m < n
        /\ accepted' = accepted \cup {n}
  /\ UNCHANGED <<shown, closed>>

\* A flush extends what is on stderr to every accepted line up to some line.
Show ==
  /\ ~closed
  /\ \E last \in accepted :
        Lines(shown') = {n \in accepted : n <= last}
  /\ Ascending(shown')
  /\ Len(shown') > Len(shown)
  /\ \A i \in DOMAIN shown : shown'[i] = shown[i]
  /\ UNCHANGED <<accepted, closed>>

Close ==
  /\ ~closed
  /\ Lines(shown) = accepted
  /\ closed' = TRUE
  /\ UNCHANGED <<accepted, shown>>

StreamNext == Accept \/ Show \/ Close

StreamSpec == StreamInit /\ [][StreamNext]_streamVars
=============================================================================
