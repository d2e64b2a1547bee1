---------------------------- MODULE DedupWrapper ----------------------------
(***************************************************************************)
(* deduplicate_basename_wrapper (commands/decompress.rs): after an archive *)
(* has been unpacked into the directory named after it, an only child of   *)
(* the same name (archive/archive/...) is flattened, one rename at a time. *)
(* The caller ignores the result, reports success and obeys --remove.      *)
(*                                                                         *)
(* Several tasks share a wrapper when their inputs have one basename and   *)
(* the conflict was settled as a merge; each unpacks, then flattens, while *)
(* the others go on.  With x the name of the wrapper, an entry is at the   *)
(* root of its archive (x/e) or in "inner" (x/x/e), and may be named like  *)
(* the wrapper there (x/x/x); other names do not collide.  A directory     *)
(* entry stands for everything it holds, and a directory is listed as it   *)
(* is when it is opened.                                                   *)
(***************************************************************************)
EXTENDS FiniteSets

CONSTANTS
  Tasks,      \* decompression tasks that may have this wrapper
  Entries,    \* the entries their archives may hold
  Of,         \* the task whose archive holds an entry
  AtRoot,     \* entries at the root of their archive; the others are in inner
  SameName,   \* entries named like the wrapper, x/x/x
  Files,      \* entries that are files; the others are directories
  Unmovable   \* entries whose move to another directory fails (a directory
              \* unpacked without write permission, for one)

ASSUME DedupAssumption ==
  /\ Of \in [Entries -> Tasks]
  /\ AtRoot \subseteq Entries
  /\ SameName \subseteq Entries \ AtRoot
  /\ Files \subseteq Entries
  /\ Unmovable \subseteq Entries

VARIABLES
  sharing, \* the tasks that do have it
  held,    \* the entries the archives really hold
  place,   \* where each entry is
  inner,   \* x/x is a directory
  pc,      \* where each task is
  todo,    \* entries a task is about to create or move, each with the place
           \* it was seen at
  staged   \* the entry a task holds under a temporary name, as a set

vars == <<sharing, held, place, inner, pc, todo, staged>>

-----------------------------------------------------------------------------

\* One task has the wrapper to itself.
Alone == \E t \in Tasks : sharing = {t}

\* The archives hold at most one entry x/x/x, two of them being one path.
Init ==
  /\ sharing \in SUBSET Tasks
  /\ held \in SUBSET {e \in Entries : Of[e] \in sharing}
  /\ \A a, b \in held \cap SameName : a = b
  /\ place = [e \in Entries |-> "none"]
  /\ inner = FALSE
  /\ pc = [t \in Tasks |-> "unpack"]
  /\ todo = [t \in Tasks |-> {}]
  /\ staged = [t \in Tasks |-> {}]

In(where) == {e \in Entries : place[e] = where}

\* x/x is a file: one that was promoted.
Blocked == SameName \cap Files \cap In("top") # {}

\* What x/x holds when it is a directory: an entry that was promoted is x/x
\* itself, and what it holds is there with the rest.
Inside == In("inner") \cup In("promoted")

Goto(t, label) == pc' = [pc EXCEPT ![t] = label]

\* Leaving with an error drops the TempPath: a staged file is deleted, a staged
\* directory keeps its temporary name.
Fail(t) ==
  /\ Goto(t, "error")
  /\ place' = [e \in Entries |-> IF e \in staged[t] \cap Files THEN "lost" ELSE place[e]]
  /\ UNCHANGED <<sharing, held, inner, todo, staged>>

\* The archive is unpacked, one entry at a time: first the parent directory,
\* made when it is missing.  A file in its place makes the task fail.
MakeParent(t, e) ==
  /\ pc[t] = "unpack"
  /\ e \in held /\ Of[e] = t /\ place[e] = "none"
  /\ \/ /\ e \in AtRoot \/ ~Blocked
        /\ todo' = [todo EXCEPT ![t] = {<<e, "none">>}]
        /\ inner' = (inner \/ e \notin AtRoot)
        /\ Goto(t, "create")
     \/ /\ e \notin AtRoot /\ Blocked
        /\ Goto(t, "failed")
        /\ UNCHANGED <<todo, inner>>
  /\ UNCHANGED <<sharing, held, place, staged>>

\* Then the entry: its parent may be gone by now.
Create(t, e) ==
  /\ pc[t] = "create"
  /\ <<e, "none">> \in todo[t]
  /\ todo' = [todo EXCEPT ![t] = {}]
  /\ \/ /\ e \in AtRoot \/ inner
        /\ place' = [place EXCEPT ![e] = IF e \in AtRoot THEN "top" ELSE "inner"]
        /\ Goto(t, "unpack")
     \/ /\ e \notin AtRoot /\ ~inner
        /\ Goto(t, "failed")
        /\ UNCHANGED place
  /\ UNCHANGED <<sharing, held, inner, staged>>

\* read_dir(wrapper): at most two children are looked at.
Inspect(t) ==
  /\ pc[t] = "unpack"
  /\ \A e \in held : Of[e] = t => place[e] # "none"
  /\ Goto(t, IF inner /\ In("top") \cup In("staged") = {} THEN "list" ELSE "ok")
  /\ UNCHANGED <<sharing, held, place, inner, todo, staged>>

\* read_dir(inner), which another task may have removed.
List(t) ==
  /\ pc[t] = "list"
  /\ \/ /\ inner
        /\ todo' = [todo EXCEPT ![t] = {<<e, place[e]>> : e \in Inside}]
        /\ Goto(t, "move")
        /\ UNCHANGED <<sharing, held, place, inner, staged>>
     \/ ~inner /\ Fail(t)

\* Faulty Move: every entry gets a temporary name.
MoveStagesAll(t, e) ==
  /\ pc[t] = "move"
  /\ <<e, place[e]>> \in todo[t]
  /\ todo' = [todo EXCEPT ![t] = @ \ {<<e, place[e]>>}]
  /\ place' = [place EXCEPT ![e] = "staged"]
  /\ staged' = [staged EXCEPT ![t] = {e}]
  /\ UNCHANGED <<sharing, held, inner, pc>>

\* The rename of one entry out of inner, which fails when another task has moved
\* it since it was listed.
Move(t, e) ==
  /\ pc[t] = "move"
  /\ \E where \in {"inner", "promoted"} :
       /\ <<e, where>> \in todo[t]
       /\ \/ /\ place[e] = where /\ e \notin Unmovable
             /\ todo' = [todo EXCEPT ![t] = @ \ {<<e, where>>}]
             /\ IF e \in SameName /\ where = "inner"
                THEN /\ place' = [place EXCEPT ![e] = "staged"]
                     /\ staged' = [staged EXCEPT ![t] = {e}]
                ELSE /\ place' = [place EXCEPT ![e] = "top"]
                     /\ UNCHANGED staged
             /\ UNCHANGED <<sharing, held, inner, pc>>
          \/ (place[e] # where \/ e \in Unmovable) /\ Fail(t)

\* Faulty RemoveInner: remove_dir_all, which also takes what is still there.
RemoveInnerAll(t) ==
  /\ pc[t] = "move"
  /\ todo[t] = {}
  /\ inner' = FALSE
  /\ place' = [e \in Entries |-> IF e \in Inside THEN "lost" ELSE place[e]]
  /\ Goto(t, IF staged[t] = {} THEN "ok" ELSE "promote")
  /\ UNCHANGED <<sharing, held, todo, staged>>

\* Faulty RemoveInner: the staged entry keeps its temporary name.
RemoveInnerForgetsStaged(t) ==
  /\ pc[t] = "move"
  /\ todo[t] = {}
  /\ inner /\ Inside = {}
  /\ inner' = FALSE
  /\ Goto(t, "ok")
  /\ UNCHANGED <<sharing, held, place, todo, staged>>

\* remove_dir(inner) fails when inner is gone or not empty, as it is when another
\* task unpacks into it meanwhile.
RemoveInner(t) ==
  /\ pc[t] = "move"
  /\ todo[t] = {}
  /\ \/ /\ inner /\ Inside = {}
        /\ inner' = FALSE
        /\ Goto(t, IF staged[t] = {} THEN "ok" ELSE "promote")
        /\ UNCHANGED <<sharing, held, place, todo, staged>>
     \/ ~(inner /\ Inside = {}) /\ Fail(t)

\* The staged entry takes the place of inner.  When another task has made inner
\* again, a file cannot replace it, and a directory only if it is empty.
Promote(t) ==
  /\ pc[t] = "promote"
  /\ \E e \in staged[t] :
       \/ /\ IF e \in Files THEN ~inner ELSE Inside = {}
          /\ place' = [place EXCEPT ![e] = IF e \in Files THEN "top" ELSE "promoted"]
          /\ inner' = (e \notin Files)
          /\ staged' = [staged EXCEPT ![t] = {}]
          /\ Goto(t, "ok")
          /\ UNCHANGED <<sharing, held, todo>>
       \/ /\ IF e \in Files THEN inner ELSE Inside # {}
          /\ Fail(t)

Step(t) ==
  \/ \E e \in Entries : MakeParent(t, e) \/ Create(t, e) \/ Move(t, e)
  \/ Inspect(t) \/ List(t) \/ RemoveInner(t) \/ Promote(t)

\* "failed": the archive was not unpacked, which the caller reports; "error": it
\* was not flattened, which the caller does not.
Stopped == {"ok", "failed", "error"}

Finished == (\A t \in sharing : pc[t] \in Stopped) /\ UNCHANGED vars

Next == (\E t \in sharing : Step(t)) \/ Finished

Spec == Init /\ [][Next]_vars

-----------------------------------------------------------------------------
(* Properties                                                              *)

\* Every variable has its type, and a place agrees with the task that holds it.
TypeOK ==
  /\ sharing \subseteq Tasks
  /\ held \subseteq Entries
  /\ place \in [Entries -> {"none", "inner", "top", "staged", "promoted", "lost"}]
  /\ inner \in BOOLEAN
  /\ pc \in [Tasks -> {"unpack", "create", "list", "move", "promote"} \cup Stopped]
  /\ todo \in [Tasks -> SUBSET (Entries \X {"none", "inner", "promoted"})]
  /\ staged \in [Tasks -> SUBSET SameName]

\* An entry once unpacked stays on the disk.  The exception is the file a task
\* has under a temporary name: it is deleted when the flattening fails after
\* that, on an entry that cannot be moved or because another task unpacks into
\* the wrapper meanwhile; the task itself reports success.
NothingLost ==
  /\ In("lost") \subseteq SameName \cap Files
  /\ In("lost") # {} => \E t \in sharing : pc[t] = "error"
  /\ Alone /\ held \cap Unmovable = {} => In("lost") = {}

\* A task alone in its wrapper never fails to flatten what it can move, and
\* when it ends nothing is left in inner or under a temporary name, unless the
\* archive had more than one entry at its root.
Flattened ==
  Alone /\ held \cap Unmovable = {} =>
    \A t \in sharing :
      /\ pc[t] \notin {"failed", "error"}
      /\ pc[t] = "ok" /\ held \cap AtRoot = {} =>
           /\ inner <=> In("promoted") # {}
           /\ \A e \in held : place[e] \in {"top", "promoted"}

\* "Leave the nested layout if the rename fails" (decompress.rs:292).
FailureLeavesNested ==
  \A t \in sharing : pc[t] = "error" => \A e \in held : Of[e] = t => place[e] = "inner"
=============================================================================
