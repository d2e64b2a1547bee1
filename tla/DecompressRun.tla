---------------------------- MODULE DecompressRun ----------------------------
(***************************************************************************)
(* `ouch decompress': the targets of all inputs are settled one by one     *)
(* before the sandbox applies (commands/mod.rs, prepare_decompress_target  *)
(* with the conflict helpers of utils/fs.rs and utils/question.rs), then   *)
(* the sandbox is given what the tasks will need (sandbox/), and rayon     *)
(* tasks write the targets in parallel (decompress_file) under it.         *)
(*                                                                         *)
(* A path is a sequence of components; a component is a name and the       *)
(* indices renaming appended to it: report, report_1, report_1_2.          *)
(* The disk is a function from the paths that exist to their contents, and *)
(* the contents of a file are the set of those who wrote to it.  Archives  *)
(* are zip-like: entries are written in place, over what is there, and     *)
(* have no directories, so deduplicate_basename_wrapper returns at once.   *)
(* Inputs are files, not stdin.  Paths are canonical: no symbolic links.   *)
(***************************************************************************)
EXTENDS Naturals, Sequences, FiniteSets

CONSTANTS
  Names,        \* the names that make components
  CommandLines, \* the command lines considered, see CommandLine
  Trees,        \* what may be on the disk before a run with that many inputs
  Stem,         \* the component of input i's directory in default mode
  Leaf,         \* the component of a single file's output
  Members,      \* the components of an archive's entries, in archive order
  Source,       \* the path of input i
  Cwd,          \* INITIAL_CURRENT_DIR
  DirFlag       \* the path given to --dir

\* archives: the inputs whose first format is an archive; the others are single
\* files.  threads: the size of the rayon pool.  sandbox: it is neither disabled
\* nor missing in this kernel.
CommandLine(c) ==
  /\ c.count \in Nat
  /\ c.archives \subseteq 1..c.count
  /\ c.mode \in {"default", "here", "dir"}
  /\ c.policy \in {"Ask", "AlwaysYes", "AlwaysNo"}
  /\ c.remove \in BOOLEAN
  /\ c.sandbox \in BOOLEAN
  /\ c.threads \in Nat \ {0}

VARIABLES
  cl,       \* the command line
  before,   \* the disk when the run started (history)
  disk,     \* the disk now
  phase,    \* the main thread: check, prepare, pool, ok, error
  next,     \* the input prepare_decompress_target is called for
  claimed,  \* claimed_targets
  target,   \* the resolved target of each input, <<>> for none
  choice,   \* how its conflict was settled, "none" without one
  grants,   \* the rules of the sandbox
  pc,       \* where each input's task is
  at        \* which of its outputs the task is writing

flags == <<cl, before>>
plan == <<next, claimed, target, choice>>
vars == <<flags, disk, phase, plan, grants, pc, at>>

Inputs == 1..cl.count

Prior == 0   \* the writer of everything that was there before the run

Dir == [kind |-> "dir", data |-> {}]
File(writers) == [kind |-> "file", data |-> writers]

Nodes == {Dir} \cup {File(S) : S \in SUBSET (Inputs \cup {Prior})}

-----------------------------------------------------------------------------
(* Paths and the disk                                                      *)

Component == [name : Names, suffix : Seq(Nat)]
Path == Seq(Component)

Under(p, q) == Len(p) <= Len(q) /\ \A k \in 1..Len(p) : p[k] = q[k]

Parent(p) == SubSeq(p, 1, Len(p) - 1)

Exists(p, tree) == p \in DOMAIN tree

IsDir(p, tree) == p \in DOMAIN tree /\ tree[p].kind = "dir"

IsEmptyDir(p, tree) ==
  IsDir(p, tree) /\ \A q \in DOMAIN tree : Under(p, q) => q = p

Put(p, node, tree) ==
  [q \in DOMAIN tree \cup {p} |-> IF q = p THEN node ELSE tree[q]]

\* remove_file_or_dir.  (No target that reaches it is the current directory.)
Removed(p, tree) == [q \in {q \in DOMAIN tree : ~Under(p, q)} |-> tree[q]]

\* fs::remove_file.
FileRemoved(p, tree) == [q \in DOMAIN tree \ {p} |-> tree[q]]

\* find_available_filename_by_renaming: the first index that is free on the disk,
\* whatever is claimed.  The set has one member.
Renamed(c, i) == [name |-> c.name, suffix |-> Append(c.suffix, i)]
Sibling(p, i) == [p EXCEPT ![Len(p)] = Renamed(@, i)]

AvailableNames(p, tree) ==
  {Sibling(p, i) : i \in {k \in 1..(Cardinality(DOMAIN tree) + 1) :
                            /\ ~Exists(Sibling(p, k), tree)
                            /\ \A j \in 1..(k - 1) : Exists(Sibling(p, j), tree)}}

\* A disk before the run: a tree of directories and files with the current
\* directory in it; of the path given to --dir only the last component may be
\* missing (create_dir_all would create others).
ATree(tree) ==
  /\ tree = [p \in DOMAIN tree |-> tree[p]]
  /\ \A p \in DOMAIN tree :
       /\ p \in Path /\ p # <<>>
       /\ tree[p] \in {Dir, File({Prior})}
       /\ \A n \in 1..Len(p) : SubSeq(p, 1, n) \in DOMAIN tree
  /\ IsDir(Cwd, tree)
  /\ Exists(DirFlag, tree) => IsDir(DirFlag, tree)
  /\ Len(DirFlag) > 1 => Exists(Parent(DirFlag), tree)

ASSUME DecompressAssumption ==
  /\ Cwd \in Path /\ Cwd # <<>> /\ DirFlag \in Path /\ DirFlag # <<>>
  /\ \A c \in CommandLines :
       /\ CommandLine(c)
       /\ \A tree \in Trees[c.count] : ATree(tree)
       /\ \A i \in 1..c.count :
            /\ Stem[i] \in Component /\ Leaf[i] \in Component
            /\ Members[i] \in Seq(Component)
            /\ Source[i] \in Path /\ Len(Source[i]) > 1

-----------------------------------------------------------------------------
(* Preparing the targets                                                   *)

\* user_wants_to_overwrite for a decompression.  "error": stdin is closed.
Answers ==
  CASE cl.policy = "AlwaysYes" -> {"merge"}
    [] cl.policy = "AlwaysNo"  -> {"cancel"}
    [] cl.policy = "Ask"       -> {"rename", "merge", "overwrite", "cancel", "error"}

Outcome(c, p, tree) == [choice |-> c, path |-> p, tree |-> tree]

Settle(c, p, tree) ==
  CASE c \in {"cancel", "error"} -> {Outcome(c, <<>>, tree)}
    [] c = "overwrite" -> {Outcome(c, p, Removed(p, tree))}
    [] c = "rename"    -> {Outcome(c, q, tree) : q \in AvailableNames(p, tree)}
    [] c = "merge"     -> {Outcome(c, p, tree)}

\* resolve_path_conflict: every outcome it may have.
ResolvePathConflict(p, tree) ==
  IF Exists(p, tree)
  THEN UNION {Settle(c, p, tree) : c \in Answers}
  ELSE {Outcome("none", p, tree)}

OutputDir == IF cl.mode = "dir" THEN DirFlag ELSE Cwd

\* A single file in an explicit directory: the conflict is about the file.
FileOutcomes(i) ==
  LET p == Append(OutputDir, Leaf[i])
  IN  IF p \notin claimed /\ ~Exists(p, disk)
      THEN {Outcome("none", p, disk)}
      ELSE ResolvePathConflict(p, disk)

\* Faulty WithDir: the directory of an overwrite is not created again.
WithDirNotRecreated(o) ==
  IF o.choice # "none" \/ o.path = <<>> \/ Exists(o.path, o.tree) THEN o
  ELSE [o EXCEPT !.tree = Put(o.path, Dir, o.tree)]

\* A directory, created when it is not there.  The current directory is shared.
WithDir(o) ==
  IF o.path = <<>> \/ Exists(o.path, o.tree) THEN o
  ELSE [o EXCEPT !.tree = Put(o.path, Dir, o.tree)]

\* Faulty DirOutcomes: a directory an earlier input claimed is taken again.
DirOutcomesUnclaimed(i) ==
  LET p == IF cl.mode = "default" THEN Append(OutputDir, Stem[i]) ELSE OutputDir
      valid == p = Cwd \/ ~Exists(p, disk) \/ IsEmptyDir(p, disk)
  IN  {WithDir(o) : o \in IF valid THEN {Outcome("none", p, disk)}
                          ELSE ResolvePathConflict(p, disk)}

\* Faulty DirOutcomes: any directory will do, empty or not.
DirOutcomesAnyDir(i) ==
  LET p == IF cl.mode = "default" THEN Append(OutputDir, Stem[i]) ELSE OutputDir
      valid == \/ p = Cwd
               \/ p \notin claimed /\ (~Exists(p, disk) \/ IsDir(p, disk))
  IN  {WithDir(o) : o \in IF valid THEN {Outcome("none", p, disk)}
                          ELSE ResolvePathConflict(p, disk)}

DirOutcomes(i) ==
  LET p == IF cl.mode = "default" THEN Append(OutputDir, Stem[i]) ELSE OutputDir
      valid == \/ p = Cwd
               \/ p \notin claimed /\ (~Exists(p, disk) \/ IsEmptyDir(p, disk))
  IN  {WithDir(o) : o \in IF valid THEN {Outcome("none", p, disk)}
                          ELSE ResolvePathConflict(p, disk)}

ForFile(i) == i \notin cl.archives /\ cl.mode # "default"

\* PreparedTarget's dir: where the task of input i writes.
TargetDir(i) == IF ForFile(i) THEN Parent(target[i]) ELSE target[i]

NoGrants == [read |-> {}, write |-> {}, remove |-> {}]

Init ==
  /\ cl \in CommandLines
  /\ before \in Trees[cl.count]
  /\ disk = before
  /\ phase = "check"
  /\ next = 1
  /\ claimed = {}
  /\ target = [i \in Inputs |-> <<>>]
  /\ choice = [i \in Inputs |-> "none"]
  /\ grants = NoGrants
  /\ pc = [i \in Inputs |-> "queued"]
  /\ at = [i \in Inputs |-> 1]

\* The checks of formats and signatures: a mismatch or a missing format is an
\* error; of a format known by its signature alone the user is asked, and a no
\* ends the whole run.
AfterChecks ==
  {"prepare", "error"} \cup IF cl.policy = "AlwaysYes" THEN {} ELSE {"halted"}

\* After them the directory of --dir is created.
Check ==
  /\ phase = "check"
  /\ phase' \in AfterChecks
  /\ disk' = IF phase' # "prepare" \/ Exists(OutputDir, disk) THEN disk
             ELSE Put(OutputDir, Dir, disk)
  /\ UNCHANGED <<flags, plan, grants, pc, at>>

\* Faulty Prepare: a cancelled input claims the empty path.
PrepareClaimsCancelled ==
  /\ phase = "prepare"
  /\ next <= cl.count
  /\ \E o \in IF ForFile(next) THEN FileOutcomes(next) ELSE DirOutcomes(next) :
       /\ \/ phase' = "prepare" /\ o.choice # "error" /\ disk' = o.tree
          \/ phase' = "error" /\ UNCHANGED disk
       /\ claimed' = claimed \cup {o.path}
       /\ target' = [target EXCEPT ![next] = o.path]
       /\ choice' = [choice EXCEPT ![next] = o.choice]
  /\ next' = next + 1
  /\ UNCHANGED <<flags, grants, pc, at>>

\* A question nobody answers or a failing system call ends the run.
Prepare ==
  /\ phase = "prepare"
  /\ next <= cl.count
  /\ \E o \in IF ForFile(next) THEN FileOutcomes(next) ELSE DirOutcomes(next) :
       /\ \/ phase' = "prepare" /\ o.choice # "error" /\ disk' = o.tree
          \/ phase' = "error" /\ UNCHANGED disk
       /\ claimed' = IF o.path = <<>> THEN claimed ELSE claimed \cup {o.path}
       /\ target' = [target EXCEPT ![next] = o.path]
       /\ choice' = [choice EXCEPT ![next] = o.choice]
  /\ next' = next + 1
  /\ UNCHANGED <<flags, grants, pc, at>>

\* Faulty Policy: the directories the inputs ask for, not those they get.
PolicyUnresolved ==
  [read   |-> {Source[i] : i \in Inputs},
   write  |-> {IF cl.mode = "default" THEN Append(Cwd, Stem[i]) ELSE OutputDir : i \in Inputs},
   remove |-> IF cl.remove THEN {Parent(Source[i]) : i \in Inputs} ELSE {}]

\* Read the inputs, read and write the target of each input that has one, and
\* with --remove delete files next to the inputs.
Policy ==
  [read   |-> {Source[i] : i \in Inputs},
   write  |-> {TargetDir(i) : i \in {j \in Inputs : target[j] # <<>>}},
   remove |-> IF cl.remove THEN {Parent(Source[i]) : i \in Inputs} ELSE {}]

\* The sandbox is applied before the pool starts.  A rule is made from an open
\* descriptor, so what does not exist gets none.
EnterPool ==
  /\ phase = "prepare"
  /\ next > cl.count
  /\ phase' = "pool"
  /\ grants' = IF cl.sandbox
               THEN [kind \in DOMAIN NoGrants |-> Policy[kind] \cap DOMAIN disk]
               ELSE NoGrants
  /\ UNCHANGED <<flags, disk, plan, pc, at>>

\* A rule holds for everything beneath its path; a removal needs one for the
\* directory it happens in.
Beneath(paths, p) == \E g \in paths : Under(g, p)

MayRead(p) == cl.sandbox => Beneath(grants.read \cup grants.write, p)
MayWrite(p) == cl.sandbox => Beneath(grants.write, p)
MayRemove(p) == cl.sandbox => Beneath(grants.write \cup grants.remove, Parent(p))

-----------------------------------------------------------------------------
(* The parallel tasks                                                      *)

\* The files the task of input i writes, in order.
Outputs(i) ==
  CASE i \in cl.archives -> [k \in DOMAIN Members[i] |-> Append(target[i], Members[i][k])]
    [] i \notin cl.archives /\ cl.mode = "default" -> <<Append(target[i], Leaf[i])>>
    [] OTHER -> <<target[i]>>

Ended == {"done", "skipped", "failed"}

Running == {i \in Inputs : pc[i] \notin {"queued"} \cup Ended}

SomeFailed == \E i \in Inputs : pc[i] = "failed"

Goto(i, label) == pc' = [pc EXCEPT ![i] = label]

\* try_for_each starts no further task once one has failed.
Start(i) ==
  /\ phase = "pool"
  /\ pc[i] = "queued"
  /\ ~SomeFailed
  /\ Cardinality(Running) < cl.threads
  /\ Goto(i, IF target[i] = <<>> THEN "skipped" ELSE "open")
  /\ UNCHANGED <<flags, disk, phase, plan, grants, at>>

\* The input is opened; or it cannot be, or is not what its name says; or the user
\* declines to load it in memory.
Readable(i) == Exists(Source[i], disk) /\ ~IsDir(Source[i], disk) /\ MayRead(Source[i])

Open(i) ==
  /\ pc[i] = "open"
  /\ \/ Readable(i) /\ Goto(i, "create")
     \/ Goto(i, "failed")
     \/ i \in cl.archives /\ cl.policy # "AlwaysYes" /\ Goto(i, "skipped")
  /\ UNCHANGED <<flags, disk, phase, plan, grants, at>>

\* The next output is created, or truncated if it is there.
Create(i) ==
  /\ pc[i] = "create"
  /\ at[i] <= Len(Outputs(i))
  /\ LET p == Outputs(i)[at[i]]
     IN  IF IsDir(Parent(p), disk) /\ ~IsDir(p, disk) /\ MayWrite(p)
         THEN disk' = Put(p, File({}), disk) /\ Goto(i, "copy")
         ELSE Goto(i, "failed") /\ UNCHANGED disk
  /\ UNCHANGED <<flags, phase, plan, grants, at>>

\* io::copy, which stops with an error on a corrupt input or at the bomb cap.
Copy(i) ==
  /\ pc[i] = "copy"
  /\ LET p == Outputs(i)[at[i]]
     IN  disk' = IF Exists(p, disk) THEN [disk EXCEPT ![p].data = @ \cup {i}] ELSE disk
  /\ \/ Goto(i, "create") /\ at' = [at EXCEPT ![i] = @ + 1]
     \/ Goto(i, "failed") /\ UNCHANGED at
  /\ UNCHANGED <<flags, phase, plan, grants>>

\* Faulty Finish: off by one, the last output is not awaited.
FinishEarly(i) ==
  /\ pc[i] = "create"
  /\ at[i] >= Len(Outputs(i))
  /\ Goto(i, "done")
  /\ disk' = IF cl.remove THEN FileRemoved(Source[i], disk) ELSE disk
  /\ UNCHANGED <<flags, phase, plan, grants, at>>

\* The summary needs the sizes of a single file and of its output; then
\* --remove deletes the input.
Finish(i) ==
  /\ pc[i] = "create"
  /\ at[i] > Len(Outputs(i))
  /\ IF \/ i \notin cl.archives /\ ~(Exists(Source[i], disk) /\ Exists(Outputs(i)[1], disk))
        \/ cl.remove /\ ~(/\ Exists(Source[i], disk) /\ ~IsDir(Source[i], disk)
                          /\ MayRemove(Source[i]))
     THEN Goto(i, "failed") /\ UNCHANGED disk
     ELSE /\ Goto(i, "done")
          /\ disk' = IF cl.remove THEN FileRemoved(Source[i], disk) ELSE disk
  /\ UNCHANGED <<flags, phase, plan, grants, at>>

\* Faulty LeavePool: the error of a task is dropped.
LeavePoolDropsError ==
  /\ phase = "pool"
  /\ Running = {}
  /\ SomeFailed \/ \A i \in Inputs : pc[i] # "queued"
  /\ phase' = "ok"
  /\ UNCHANGED <<flags, disk, plan, grants, pc, at>>

\* Faulty LeavePool: after an error the tasks that never start are awaited.
LeavePoolAwaitsAll ==
  /\ phase = "pool"
  /\ \A i \in Inputs : pc[i] \in Ended
  /\ phase' = IF SomeFailed THEN "error" ELSE "ok"
  /\ UNCHANGED <<flags, disk, plan, grants, pc, at>>

LeavePool ==
  /\ phase = "pool"
  /\ Running = {}
  /\ SomeFailed \/ \A i \in Inputs : pc[i] # "queued"
  /\ phase' = IF SomeFailed THEN "error" ELSE "ok"
  /\ UNCHANGED <<flags, disk, plan, grants, pc, at>>

Exited == phase \in {"ok", "error", "halted"} /\ UNCHANGED vars

TaskStep(i) == i \in Inputs /\ (Start(i) \/ Open(i) \/ Create(i) \/ Copy(i) \/ Finish(i))

MainStep == Check \/ Prepare \/ EnterPool \/ LeavePool

Next == MainStep \/ (\E i \in Inputs : TaskStep(i)) \/ Exited

Spec == Init /\ [][Next]_vars

\* Every thread that can run does, and a user who is asked answers.
FairSpec == Spec /\ WF_vars(MainStep) /\ \A i \in DOMAIN Source : WF_vars(TaskStep(i))

-----------------------------------------------------------------------------
(* Properties                                                              *)

\* Every variable has its type; <<>> is the target of an input that has none
\* and is never claimed.
TypeOK ==
  /\ cl \in CommandLines
  /\ \A p \in DOMAIN disk : disk[p] \in Nodes
  /\ phase \in {"check", "prepare", "pool", "ok", "error", "halted"}
  /\ next \in 1..(cl.count + 1)
  /\ <<>> \notin claimed
  /\ DOMAIN target = Inputs
  /\ \A i \in Inputs : target[i] \in claimed \cup {<<>>}
  /\ DOMAIN grants = DOMAIN NoGrants
  /\ choice \in [Inputs -> {"none", "rename", "merge", "overwrite", "cancel", "error"}]
  /\ pc \in [Inputs -> {"queued", "open", "create", "copy"} \cup Ended]
  /\ at \in [Inputs -> Nat]

SameTarget(i, j) == target[i] # <<>> /\ target[i] = target[j]

\* Asked to: the user or --yes said that j goes where another input may be.
Agreed(j) == choice[j] \in {"merge", "overwrite"}

\* "claimed targets make duplicate basenames conflict instead of silently
\* merging" (commands/mod.rs:240): two inputs have one target only if the
\* later one's conflict was settled that way, or both unpack into the current
\* directory.
DuplicatesConflict ==
  \A i, j \in Inputs :
    i < j /\ SameTarget(i, j) /\ target[j] # Cwd => Agreed(j)

\* The same for the inputs whose target is a directory.
DirectoriesConflict ==
  \A i, j \in Inputs :
    i < j /\ SameTarget(i, j) /\ target[j] # Cwd /\ ~ForFile(i) /\ ~ForFile(j)
      => Agreed(j)

\* While tasks run, the --dir directory exists (the assertion at
\* decompress.rs:133) and each task has a directory to write into: no later
\* input's rename, merge or overwrite has taken it away.  The exception is a
\* merge the user chose onto a file.
TargetsReady ==
  phase = "pool" =>
    /\ IsDir(OutputDir, disk)
    /\ \A i \in Inputs : target[i] # <<>> =>
         \/ IsDir(TargetDir(i), disk)
         \/ choice[i] = "merge" /\ Exists(target[i], before) /\ ~IsDir(target[i], before)

\* "Resolve conflicts and create output dirs before the sandbox applies"
\* (commands/mod.rs:239): whatever was renamed, merged, overwritten or cancelled
\* before, the rules let every task that still runs do all it has to do.
SandboxPermits ==
  phase = "pool" =>
    \A i \in Inputs : target[i] # <<>> /\ pc[i] \notin Ended =>
      /\ Exists(Source[i], disk) =>
           MayRead(Source[i]) /\ (cl.remove => MayRemove(Source[i]))
      /\ \A k \in DOMAIN Outputs(i) : MayWrite(Outputs(i)[k])

\* What was on the disk before the run is changed only where the user (or
\* --yes) agreed to merge or overwrite, by an archive unpacking into the current
\* directory, or by --remove of an input whose task is done.
PriorDataSurvives ==
  \A p \in DOMAIN before :
    \/ Exists(p, disk) /\ disk[p] = before[p]
    \/ \E i \in Inputs : cl.remove /\ Source[i] = p /\ pc[i] = "done"
    \/ \E i \in Inputs : target[i] # <<>> /\ Agreed(i) /\ Under(target[i], p)
    \/ \E i \in cl.archives : target[i] = Cwd /\ \E k \in DOMAIN Outputs(i) : Outputs(i)[k] = p

\* Another input's target overlaps i's, or some input is one of i's outputs.
Disturbed(i) ==
  \/ \E j \in Inputs \ {i} :
       target[j] # <<>> /\ (Under(target[i], target[j]) \/ Under(target[j], target[i]))
  \/ \E j \in Inputs, k \in DOMAIN Outputs(i) : Outputs(i)[k] = Source[j]

\* Unless inputs share a target, each finished task's outputs are all on the
\* disk and hold that input's data alone, whatever the other tasks do.
OutputsIntact ==
  \A i \in Inputs : pc[i] = "done" /\ ~Disturbed(i) =>
    \A k \in DOMAIN Outputs(i) :
      LET p == Outputs(i)[k] IN Exists(p, disk) /\ disk[p] = File({i})

\* The run succeeds only if every task did, or its user chose to skip it.
SuccessIsComplete ==
  phase = "ok" =>
    \A i \in Inputs :
      \/ pc[i] = "done"
      \/ pc[i] = "skipped" /\ (choice[i] = "cancel" \/ (i \in cl.archives /\ cl.policy # "AlwaysYes"))

\* Every run ends, also when a task fails and others are never started.
Terminates == <>(phase \in {"ok", "error", "halted"})
=============================================================================
