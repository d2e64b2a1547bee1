---------------------------- MODULE CompressRun ----------------------------
(***************************************************************************)
(* One `ouch compress` (commands/mod.rs, utils/question.rs,                *)
(* commands/compress.rs): the output file is created or its conflict is    *)
(* settled, the sandbox is applied, the inputs go through a chain of       *)
(* encoders and a BufWriter to the disk, the chain is dropped, and an      *)
(* output that was not finished is removed.  Meanwhile another process may *)
(* create files next to it.                                                *)
(*                                                                         *)
(* Path 0 is the requested output and path i its i-th rename.  What goes   *)
(* to the disk is counted in units: Input units of data and a trailer for  *)
(* each encoder.  An encoder or the BufWriter may hold back what it was    *)
(* given; a disk that is full refuses every unit from then on.             *)
(***************************************************************************)
EXTENDS Naturals, FiniteSets

CONSTANTS
  CommandLines,  \* the parsed command lines
  Occupied,      \* the sets of paths that may hold something already
  Renames,       \* bound on the renames that are tried
  Contested,     \* the paths another process may create, once each (bound)
  Input,         \* units of input data
  Held,          \* units the chain may hold back
  Spaces         \* units the disk may still take

ASSUME CompressAssumption ==
  /\ \A line \in CommandLines :
       /\ line.first \in {"stream", "tar", "zip", "7z", "rar"}
       /\ line.encoders \in Nat        \* formats after the first one
       /\ line.misplaced \in BOOLEAN   \* one of them is an archive
       /\ line.inputs \in {"none", "file", "many"}
       /\ line.policy \in {"yes", "no", "ask"}
       /\ line.sandboxed \in BOOLEAN   \* neither --no-sandbox nor what implies it
  /\ Occupied \subseteq SUBSET (0..Renames)
  /\ Contested \subseteq 0..Renames
  /\ Renames \in Nat /\ Input \in Nat /\ Held \in Nat /\ Spaces \subseteq Nat

VARIABLES
  cl,       \* the command line
  prior,    \* the paths that held something when the run started
  others,   \* the paths another process has created since
  raced,    \* it created the chosen path before this run did (history)
  disk,     \* what each path holds: "none", "prior", "other" or "output"
  out,      \* the path chosen for the output, or NoPath
  agreed,   \* the user chose to overwrite
  fed,      \* units of input copied so far
  held,     \* units in the encoders and the BufWriter
  written,  \* units of the output on the disk
  space,    \* units the disk still takes
  sandbox,  \* sandbox_active
  result,   \* what compress_files returned: "none", "true", "false" or "error"
  told,     \* the user was told that a partial file is left
  pc        \* the next step of the run

world == <<prior, others, raced>>
file == <<out, disk, agreed>>
chain == <<fed, held, written, space>>
vars == <<cl, world, file, chain, sandbox, result, told, pc>>

-----------------------------------------------------------------------------

Paths == 0..Renames
NoPath == Renames + 1

\* The chain has one encoder for each format but an archive's.
Trailers == cl.encoders + IF cl.first = "stream" THEN 1 ELSE 0
Total == Input + Trailers

Least(a, b) == IF a < b THEN a ELSE b

Go(label) == pc' = label

Init ==
  /\ cl \in CommandLines
  /\ prior \in Occupied /\ others = {} /\ raced = FALSE
  /\ disk = [p \in Paths |-> IF p \in prior THEN "prior" ELSE "none"]
  /\ out = NoPath
  /\ agreed = FALSE
  /\ fed = 0 /\ held = 0 /\ written = 0
  /\ space \in Spaces
  /\ sandbox = FALSE
  /\ result = "none"
  /\ told = FALSE
  /\ pc = "check"

\* Files to compress, a format that takes them, archives first in the chain.
Accepted ==
  /\ cl.inputs # "none"
  /\ cl.first = "stream" => cl.inputs = "file"
  /\ ~cl.misplaced

Check ==
  /\ pc = "check"
  /\ Go(IF Accepted THEN "create" ELSE "failed")
  /\ UNCHANGED <<cl, world, file, chain, sandbox, result, told>>

\* Faulty CreateNew: what exists is looked up when the run starts.
CreateNewStale ==
  /\ pc = "create"
  /\ \/ /\ 0 \notin prior
        /\ disk' = [disk EXCEPT ![0] = "output"]
        /\ out' = 0
        /\ Go("sandbox")
     \/ 0 \in prior /\ Go("resolve") /\ UNCHANGED <<disk, out>>
  /\ UNCHANGED <<cl, world, agreed, chain, sandbox, result, told>>

\* create_new; another error than AlreadyExists ends the run.
CreateNew ==
  /\ pc = "create"
  /\ \/ /\ disk[0] = "none"
        /\ disk' = [disk EXCEPT ![0] = "output"]
        /\ out' = 0
        /\ Go("sandbox")
     \/ disk[0] # "none" /\ Go("resolve") /\ UNCHANGED <<disk, out>>
     \/ disk[0] = "none" /\ Go("failed") /\ UNCHANGED <<disk, out>>
  /\ UNCHANGED <<cl, world, agreed, chain, sandbox, result, told>>

\* What the policy or the user may choose; a prompt may also end in an error.
Choices ==
  CASE cl.policy = "yes" -> {"overwrite"}
    [] cl.policy = "no" -> {"cancel"}
    [] cl.policy = "ask" -> {"rename", "overwrite", "cancel", "error"}

Free == {p \in Paths \ {0} : disk[p] = "none"}

\* create_file_or_prompt_on_conflict, the conflict: a file to overwrite is
\* removed, which may fail, or the first free rename is looked up.
Resolve ==
  /\ pc = "resolve"
  /\ \E choice \in Choices :
       \/ choice = "cancel" /\ Go("done") /\ UNCHANGED file
       \/ choice = "error" /\ Go("failed") /\ UNCHANGED file
       \/ /\ choice = "overwrite"
          /\ agreed' = TRUE
          /\ \/ disk' = [disk EXCEPT ![0] = "none"] /\ out' = 0 /\ Go("open")
             \/ Go("failed") /\ UNCHANGED <<disk, out>>
       \/ /\ choice = "rename"
          /\ \E new \in Free : (\A p \in Free : new <= p) /\ out' = new
          /\ Go("open")
          /\ UNCHANGED <<disk, agreed>>
  /\ UNCHANGED <<cl, world, chain, sandbox, result, told>>

\* File::create at the chosen path, which truncates what is there by now.
CreateFile ==
  /\ pc = "open"
  /\ \/ disk' = [disk EXCEPT ![out] = "output"] /\ Go("sandbox")
     \/ Go("failed") /\ UNCHANGED disk
  /\ UNCHANGED <<cl, world, out, agreed, chain, sandbox, result, told>>

\* A kernel without landlock leaves a run that asked for the sandbox without it.
ApplySandbox ==
  /\ pc = "sandbox"
  /\ sandbox' \in IF cl.sandboxed THEN BOOLEAN ELSE {FALSE}
  /\ Go("wrap")
  /\ UNCHANGED <<cl, world, file, chain, result, told>>

-----------------------------------------------------------------------------
(* compress_files                                                          *)

Returns(r) == result' = r /\ Go("drop")

InMemory == cl.first \in {"zip", "7z"} /\ cl.encoders > 0

\* The encoders are built, rar is refused, and an archive that is built in
\* memory inside other formats is announced; its question may be declined.
Wrap ==
  /\ pc = "wrap"
  /\ \/ Returns("error")
     \/ /\ cl.first # "rar"
        /\ InMemory => cl.policy # "no"
        /\ Go("copy")
        /\ UNCHANGED result
     \/ InMemory /\ cl.policy # "yes" /\ Returns("false")
  /\ UNCHANGED <<cl, world, file, chain, sandbox, told>>

\* One unit of input is written; the chain passes on any number of units, at
\* least those it has no room for.
Copy ==
  /\ pc = "copy"
  /\ fed < Input
  /\ \E n \in 0..(held + 1) :
       /\ held + 1 - n <= Held
       /\ written' = written + Least(n, space)
       /\ space' = space - Least(n, space)
       /\ IF n <= space
          THEN held' = held + 1 - n /\ fed' = fed + 1 /\ UNCHANGED <<result, pc>>
          ELSE held' = held + 1 - space /\ fed' = fed /\ Returns("error")
  /\ UNCHANGED <<cl, world, file, sandbox, told>>

\* An input cannot be opened or read, or it changed while it was read.
InputFails ==
  /\ pc = "copy"
  /\ Returns("error")
  /\ UNCHANGED <<cl, world, file, chain, sandbox, told>>

\* Faulty EndOfInput: the writer is not flushed after a tar.
EndOfInputUnflushed ==
  /\ pc = "copy"
  /\ fed = Input
  /\ Returns("true")
  /\ UNCHANGED <<chain, cl, world, file, sandbox, told>>

\* All inputs are copied.  Only a tar is flushed: the BufWriter gives up all it
\* holds, an encoder as much as it likes.
EndOfInput ==
  /\ pc = "copy"
  /\ fed = Input
  /\ \E n \in IF cl.first # "tar" THEN {0} ELSE IF cl.encoders = 0 THEN {held} ELSE 0..held :
       /\ written' = written + Least(n, space)
       /\ space' = space - Least(n, space)
       /\ held' = held - Least(n, space)
       /\ Returns(IF n <= space THEN "true" ELSE "error")
  /\ UNCHANGED <<fed, cl, world, file, sandbox, told>>

\* Faulty Drop: the encoders are finished and then finished again when dropped.
DropFinishesTwice ==
  /\ pc = "drop"
  /\ LET rest == held + 2 * Trailers
     IN  /\ written' = written + Least(rest, space)
         /\ space' = space - Least(rest, space)
         /\ held' = 0
  /\ Go("cleanup")
  /\ UNCHANGED <<fed, cl, world, file, sandbox, result, told>>

\* The chain goes out of scope, outermost encoder first: trailers and what is
\* held go to the disk, and an error has nobody to go to.
Drop ==
  /\ pc = "drop"
  /\ LET rest == held + Trailers
     IN  /\ written' = written + Least(rest, space)
         /\ space' = space - Least(rest, space)
         /\ held' = 0
  /\ Go("cleanup")
  /\ UNCHANGED <<fed, cl, world, file, sandbox, result, told>>

-----------------------------------------------------------------------------
(* After compress_files                                                    *)

\* Faulty CleanUp: the file of the requested name is removed.
CleanUpRequested ==
  /\ pc = "cleanup"
  /\ \/ result = "true" /\ Go("done") /\ UNCHANGED <<disk, told>>
     \/ /\ result # "true"
        /\ IF sandbox
           THEN told' = (result = "error") /\ UNCHANGED disk
           ELSE \/ disk' = [disk EXCEPT ![0] = "none"] /\ UNCHANGED told
                \/ told' = (result = "error") /\ UNCHANGED disk
        /\ Go(IF result = "error" THEN "failed" ELSE "done")
  /\ UNCHANGED <<out, agreed, cl, world, chain, sandbox, result>>

\* An output that was declined or failed is removed unless the sandbox forbids
\* it; a removal may fail.  Only an error is told.
CleanUp ==
  /\ pc = "cleanup"
  /\ \/ result = "true" /\ Go("done") /\ UNCHANGED <<disk, told>>
     \/ /\ result # "true"
        /\ IF sandbox
           THEN told' = (result = "error") /\ UNCHANGED disk
           ELSE \/ disk' = [disk EXCEPT ![out] = "none"] /\ UNCHANGED told
                \/ told' = (result = "error") /\ UNCHANGED disk
        /\ Go(IF result = "error" THEN "failed" ELSE "done")
  /\ UNCHANGED <<out, agreed, cl, world, chain, sandbox, result>>

Ended == pc \in {"done", "failed"}

\* Another process creates a file where none is.
OtherCreates ==
  /\ ~Ended
  /\ \E p \in Contested \ others :
       /\ disk[p] = "none"
       /\ disk' = [disk EXCEPT ![p] = "other"]
       /\ others' = others \cup {p}
       /\ raced' = (raced \/ (pc = "open" /\ p = out))
  /\ UNCHANGED <<cl, prior, out, agreed, chain, sandbox, result, told, pc>>

Terminated == Ended /\ UNCHANGED vars

Step ==
  \/ Check \/ CreateNew \/ Resolve \/ CreateFile \/ ApplySandbox
  \/ Wrap \/ Copy \/ InputFails \/ EndOfInput \/ Drop \/ CleanUp

Next == Step \/ OtherCreates \/ Terminated

Spec == Init /\ [][Next]_vars

-----------------------------------------------------------------------------
(* Properties                                                              *)

TypeOK ==
  /\ cl \in CommandLines
  /\ prior \in Occupied
  /\ others \subseteq Contested /\ raced \in BOOLEAN
  /\ disk \in [Paths -> {"none", "prior", "other", "output"}]
  /\ out \in Paths \cup {NoPath}
  /\ agreed \in BOOLEAN /\ sandbox \in BOOLEAN /\ told \in BOOLEAN
  /\ fed \in 0..Input /\ held \in 0..(Held + 1) /\ written \in 0..Total
  /\ space \in Nat
  /\ result \in {"none", "true", "false", "error"}
  /\ pc \in {"check", "create", "resolve", "open", "sandbox", "wrap", "copy", "drop",
             "cleanup", "done", "failed"}

\* "keep both files" (utils/fs.rs:81): what is on the disk, from before the run
\* or from another process, stays there unless the user agreed to overwrite it,
\* and that is never another file than the requested one - not when a rename
\* was chosen, and not when the run fails or is declined and removes its output.
\* The one gap is between the choice of a path and its creation: a file that
\* comes there in between is lost.
PriorFilesSurvive ==
  /\ \A p \in prior : disk[p] = "prior" \/ (p = 0 /\ agreed)
  /\ \A p \in others : disk[p] = "other" \/ (p = 0 /\ agreed) \/ (p = out /\ raced)

\* A run that reports success has written the whole output, as long as the disk
\* took all it was given; for a plain tar, which is flushed, whatever the disk
\* did.
SuccessIsWhole ==
  (/\ pc = "done" /\ result = "true"
   /\ space > 0 \/ (cl.first = "tar" /\ cl.encoders = 0))
    => written = Total /\ disk[out] = "output"

\* Of a run that fails, the output is gone or the user was told where it is.
PartialIsTold ==
  pc = "failed" /\ result = "error" => disk[out] # "output" \/ told

\* "Returns `Ok(true)` if compressed all files normally" (commands/compress.rs:32):
\* a run that reports success has written the whole output.
EverySuccessIsWhole == pc = "done" /\ result = "true" => written = Total
=============================================================================
