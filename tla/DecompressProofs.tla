-------------------------- MODULE DecompressProofs --------------------------
(***************************************************************************)
(* Proofs about DecompressRun, for any number of inputs and threads, any   *)
(* trees on the disk and any paths that DecompressAssumption allows.  Base *)
(* holds the types, the plan made for the inputs and where their tasks are;*)
(* on it rest Setup (what is on the disk while targets are prepared),      *)
(* Granted (the sandbox's rules), Survival (what was there before the run) *)
(* and Written (what the tasks have written).                              *)
(***************************************************************************)
EXTENDS DecompressRun, TLAPS

-----------------------------------------------------------------------------
(* Paths                                                                   *)

\* A path is beneath itself.
LEMMA UnderReflexive == ASSUME NEW p \in Path PROVE Under(p, p)
BY DEF Under, Path

\* What is beneath a path beneath a third is beneath that one.
LEMMA UnderTransitive ==
  ASSUME NEW p \in Path, NEW q \in Path, NEW r \in Path, Under(p, q), Under(q, r)
  PROVE  Under(p, r)
BY DEF Under, Path

\* Two paths of one length are one or lie apart.
LEMMA UnderSameLength ==
  ASSUME NEW p \in Path, NEW q \in Path, Under(p, q), Len(p) = Len(q)
  PROVE  p = q
BY DEF Under, Path

\* Of two directories above a path one is above the other.
LEMMA UnderComparable ==
  ASSUME NEW p \in Path, NEW q \in Path, NEW r \in Path, Under(p, r), Under(q, r)
  PROVE  Under(p, q) \/ Under(q, p)
BY DEF Under, Path

\* A component appended to a path makes a path strictly beneath it.
LEMMA AppendPath ==
  ASSUME NEW p \in Path, NEW c \in Component
  PROVE  /\ Append(p, c) \in Path /\ Append(p, c) # <<>>
         /\ Len(Append(p, c)) = Len(p) + 1
         /\ Parent(Append(p, c)) = p
         /\ Under(p, Append(p, c)) /\ p # Append(p, c)
<1>1. Append(p, c) \in Path /\ Len(Append(p, c)) = Len(p) + 1 BY DEF Path
<1>2. Parent(Append(p, c)) = p BY DEF Path, Parent
<1>3. Under(p, Append(p, c)) BY DEF Path, Under
<1> QED BY <1>1, <1>2, <1>3 DEF Path

\* Two paths with the same components are one.
LEMMA SamePath ==
  ASSUME NEW p \in Path, NEW q \in Path, Len(p) = Len(q), \A k \in 1..Len(p) : p[k] = q[k]
  PROVE  p = q
BY DEF Path

\* A prefix of a path is a path.
LEMMA PrefixPath ==
  ASSUME NEW p \in Path, NEW n \in 0..Len(p)
  PROVE  /\ SubSeq(p, 1, n) \in Path /\ Len(SubSeq(p, 1, n)) = n
         /\ \A k \in 1..n : SubSeq(p, 1, n)[k] = p[k]
BY DEF Path

\* The parent of a path is above it, and so are the parent's prefixes.
LEMMA ParentPath ==
  ASSUME NEW p \in Path, p # <<>>
  PROVE  /\ Parent(p) \in Path /\ Len(Parent(p)) = Len(p) - 1
         /\ Under(Parent(p), p)
         /\ \A n \in 1..(Len(p) - 1) : SubSeq(p, 1, n) = SubSeq(Parent(p), 1, n)
<1>1. Len(p) \in Nat /\ Len(p) - 1 \in 0..Len(p) BY DEF Path
<1>2. /\ Parent(p) \in Path /\ Len(Parent(p)) = Len(p) - 1
      /\ \A k \in 1..(Len(p) - 1) : Parent(p)[k] = p[k]
  BY <1>1, PrefixPath DEF Parent
<1>3. ASSUME NEW n \in 1..(Len(p) - 1) PROVE SubSeq(p, 1, n) = SubSeq(Parent(p), 1, n)
  <2>1. n \in 0..Len(p) /\ n \in 0..Len(Parent(p)) BY <1>1, <1>2
  <2>2. SubSeq(p, 1, n) \in Path /\ Len(SubSeq(p, 1, n)) = n
        /\ \A k \in 1..n : SubSeq(p, 1, n)[k] = p[k]
    BY <2>1, PrefixPath
  <2>3. SubSeq(Parent(p), 1, n) \in Path /\ Len(SubSeq(Parent(p), 1, n)) = n
        /\ \A k \in 1..n : SubSeq(Parent(p), 1, n)[k] = Parent(p)[k]
    BY <2>1, <1>2, PrefixPath
  <2>4. \A k \in 1..n : k \in 1..(Len(p) - 1) BY <1>1
  <2> QED BY <1>2, <2>2, <2>3, <2>4, SamePath
<1> QED BY <1>1, <1>2, <1>3 DEF Under

\* A renamed path stays in its directory.
LEMMA SiblingPath ==
  ASSUME NEW p \in Path, p # <<>>, NEW i \in Nat
  PROVE  /\ Sibling(p, i) \in Path /\ Sibling(p, i) # <<>>
         /\ Len(Sibling(p, i)) = Len(p)
         /\ Parent(Sibling(p, i)) = Parent(p)
<1>1. Len(p) \in 1..Len(p) /\ p[Len(p)] \in Component BY DEF Path
<1>2. Renamed(p[Len(p)], i) \in Component BY <1>1 DEF Component, Renamed
<1>3. Sibling(p, i) = [p EXCEPT ![Len(p)] = Renamed(p[Len(p)], i)] BY DEF Sibling
<1>4. Sibling(p, i) \in Path /\ Len(Sibling(p, i)) = Len(p) /\ Sibling(p, i) # <<>>
  BY <1>1, <1>2, <1>3 DEF Path
<1>5. \A k \in 1..(Len(p) - 1) : Sibling(p, i)[k] = p[k] BY <1>1, <1>3 DEF Path
<1>6. \A q \in {p, Sibling(p, i)} :
        /\ Parent(q) \in Path /\ Len(Parent(q)) = Len(p) - 1
        /\ \A k \in 1..(Len(p) - 1) : Parent(q)[k] = q[k]
  <2>1. \A q \in {p, Sibling(p, i)} : Len(q) - 1 \in 0..Len(q) BY <1>1, <1>4
  <2> QED BY <2>1, <1>4, PrefixPath DEF Parent
<1> QED BY <1>4, <1>5, <1>6, SamePath

-----------------------------------------------------------------------------
(* How a target is settled                                                 *)

\* What the command line and the disk before the run are.
LEMMA CommandFacts ==
  ASSUME cl \in CommandLines, before \in Trees[cl.count]
  PROVE  /\ cl.count \in Nat /\ cl.archives \subseteq Inputs
         /\ cl.mode \in {"default", "here", "dir"}
         /\ cl.policy \in {"Ask", "AlwaysYes", "AlwaysNo"}
         /\ cl.remove \in BOOLEAN /\ cl.sandbox \in BOOLEAN
         /\ ATree(before)
         /\ OutputDir \in Path /\ OutputDir # <<>>
         /\ \A i \in Inputs :
              /\ Stem[i] \in Component /\ Leaf[i] \in Component
              /\ Members[i] \in Seq(Component)
              /\ Source[i] \in Path /\ Len(Source[i]) > 1
BY DecompressAssumption DEF CommandLine, Inputs, OutputDir

\* The path input i asks for.
Requested(i) ==
  IF ForFile(i) THEN Append(OutputDir, Leaf[i])
  ELSE IF cl.mode = "default" THEN Append(OutputDir, Stem[i]) ELSE OutputDir

\* The disk once a directory target is there.
Made(i, p, tree) == IF ForFile(i) \/ Exists(p, tree) THEN tree ELSE Put(p, Dir, tree)

Outcomes(i) == IF ForFile(i) THEN FileOutcomes(i) ELSE DirOutcomes(i)

Refused(o) == o.choice \in {"cancel", "error"} /\ o.path = <<>> /\ o.tree = disk

\* A path taken without a conflict.
Unasked(i, o) ==
  /\ o.choice = "none" /\ o.path = Requested(i) /\ o.tree = Made(i, o.path, disk)
  /\ \/ ~Exists(o.path, disk)
     \/ ~ForFile(i) /\ (o.path = Cwd \/ (IsEmptyDir(o.path, disk) /\ o.path \notin claimed))

Overwriting(i, o) ==
  /\ o.choice = "overwrite" /\ o.path = Requested(i) /\ Exists(o.path, disk)
  /\ o.tree = Made(i, o.path, Removed(o.path, disk))

Renaming(i, o) ==
  /\ o.choice = "rename" /\ o.path \in AvailableNames(Requested(i), disk)
  /\ o.tree = Made(i, o.path, disk)

Merging(i, o) ==
  /\ o.choice = "merge" /\ o.path = Requested(i) /\ Exists(o.path, disk)
  /\ o.tree = disk

\* The outcomes of a conflict, one by one.
LEMMA ResolvedCases ==
  ASSUME cl.policy \in {"Ask", "AlwaysYes", "AlwaysNo"},
         NEW p, NEW o \in ResolvePathConflict(p, disk)
  PROVE  \/ \E c \in {"cancel", "error"} : o = Outcome(c, <<>>, disk)
         \/ o = Outcome("overwrite", p, Removed(p, disk)) /\ Exists(p, disk)
         \/ \E q \in AvailableNames(p, disk) : o = Outcome("rename", q, disk)
         \/ o = Outcome("merge", p, disk) /\ Exists(p, disk)
         \/ o = Outcome("none", p, disk) /\ ~Exists(p, disk)
<1>1. CASE ~Exists(p, disk) BY <1>1 DEF ResolvePathConflict
<1>2. CASE Exists(p, disk)
  <2>1. PICK c \in Answers : o \in Settle(c, p, disk) BY <1>2 DEF ResolvePathConflict
  <2>2. c \in {"rename", "merge", "overwrite", "cancel", "error"} BY <2>1 DEF Answers
  <2> QED BY <1>2, <2>1, <2>2 DEF Settle
<1> QED BY <1>1, <1>2

\* The path an input asks for is a path of its shape, and so is a rename of it.
DirLength == IF cl.mode = "default" THEN Len(OutputDir) + 1 ELSE Len(OutputDir)

Shaped(i, p) ==
  /\ p \in Path /\ p # <<>>
  /\ IF ForFile(i) THEN Len(p) = Len(OutputDir) + 1 /\ Parent(p) = OutputDir
     ELSE /\ Len(p) = DirLength
          /\ Parent(p) = IF cl.mode = "default" THEN OutputDir ELSE Parent(OutputDir)

\* The path an input asks for has its shape.
LEMMA RequestedShaped ==
  ASSUME cl \in CommandLines, before \in Trees[cl.count], NEW i \in Inputs
  PROVE  Shaped(i, Requested(i))
<1>1. /\ OutputDir \in Path /\ OutputDir # <<>>
      /\ Stem[i] \in Component /\ Leaf[i] \in Component
  BY CommandFacts
<1>2. CASE ForFile(i) BY <1>1, <1>2, AppendPath DEF Requested, Shaped
<1>3. CASE ~ForFile(i) /\ cl.mode = "default"
  BY <1>1, <1>3, AppendPath DEF Requested, Shaped, DirLength
<1>4. CASE ~ForFile(i) /\ cl.mode # "default"
  BY <1>1, <1>4 DEF Requested, Shaped, DirLength
<1> QED BY <1>2, <1>3, <1>4

\* A rename keeps the shape and is free.
LEMMA RenameShaped ==
  ASSUME cl \in CommandLines, before \in Trees[cl.count], NEW i \in Inputs,
         NEW tree, NEW q \in AvailableNames(Requested(i), tree)
  PROVE  Shaped(i, q) /\ ~Exists(q, tree)
<1>1. PICK k \in Nat : q = Sibling(Requested(i), k) /\ ~Exists(q, tree)
  BY DEF AvailableNames
<1>2. Shaped(i, Requested(i)) BY RequestedShaped
<1>3. /\ q \in Path /\ q # <<>> /\ Len(q) = Len(Requested(i))
      /\ Parent(q) = Parent(Requested(i))
  BY <1>1, <1>2, SiblingPath DEF Shaped
<1> QED BY <1>1, <1>2, <1>3 DEF Shaped

\* The ways a target is settled.
LEMMA OutcomeCases ==
  ASSUME cl \in CommandLines, before \in Trees[cl.count], NEW i \in Inputs,
         NEW o \in Outcomes(i)
  PROVE  \/ Refused(o)
         \/ /\ Shaped(i, o.path)
            /\ Unasked(i, o) \/ Overwriting(i, o) \/ Renaming(i, o) \/ Merging(i, o)
<1> DEFINE p == Requested(i)
<1>1. cl.policy \in {"Ask", "AlwaysYes", "AlwaysNo"} BY CommandFacts
<1>2. Shaped(i, p) BY RequestedShaped
<1>3. p # <<>> BY <1>2 DEF Shaped
<1>4. \A q \in AvailableNames(p, disk) : Shaped(i, q) BY RenameShaped
<1>5. CASE ForFile(i)
  <2>1. o \in FileOutcomes(i) BY <1>5 DEF Outcomes
  <2>2. \/ o = Outcome("none", p, disk) /\ ~Exists(p, disk)
        \/ o \in ResolvePathConflict(p, disk)
    BY <1>5, <2>1 DEF FileOutcomes, Requested
  <2>3. CASE o = Outcome("none", p, disk) /\ ~Exists(p, disk)
    BY <2>3, <1>2, <1>5 DEF Unasked, Made, Outcome
  <2>4. CASE o \in ResolvePathConflict(p, disk)
    <3> HIDE DEF p
    <3>1. CASE \E c \in {"cancel", "error"} : o = Outcome(c, <<>>, disk)
      BY <3>1 DEF Refused, Outcome
    <3>2. CASE o = Outcome("overwrite", p, Removed(p, disk)) /\ Exists(p, disk)
      BY <3>2, <1>2, <1>5 DEF p, Overwriting, Outcome, Made
    <3>3. CASE \E q \in AvailableNames(p, disk) : o = Outcome("rename", q, disk)
      BY <3>3, <1>4, <1>5 DEF p, Renaming, Outcome, Made
    <3>4. CASE o = Outcome("merge", p, disk) /\ Exists(p, disk)
      BY <3>4, <1>2, <1>5 DEF p, Merging, Outcome, Made
    <3>5. CASE o = Outcome("none", p, disk) /\ ~Exists(p, disk)
      BY <3>5, <1>2, <1>5 DEF p, Unasked, Outcome, Made
    <3> QED BY <2>4, <3>1, <3>2, <3>3, <3>4, <3>5, <1>1, ResolvedCases
  <2> QED BY <2>2, <2>3, <2>4
<1>6. CASE ~ForFile(i)
  <2>1. o \in DirOutcomes(i) BY <1>6 DEF Outcomes
  <2>2. PICK r :
          /\ o = WithDir(r)
          /\ \/ /\ r = Outcome("none", p, disk)
                /\ p = Cwd \/ (p \notin claimed /\ (~Exists(p, disk) \/ IsEmptyDir(p, disk)))
             \/ r \in ResolvePathConflict(p, disk)
    BY <1>6, <2>1 DEF DirOutcomes, Requested
  <2> HIDE DEF p
  <2>3. CASE r = Outcome("none", p, disk)
    <3>1. o.choice = "none" /\ o.path = p /\ o.tree = Made(i, p, disk)
      BY <2>2, <2>3, <1>3, <1>6 DEF WithDir, Outcome, Made
    <3>2. \/ p = Cwd \/ ~Exists(p, disk) \/ (IsEmptyDir(p, disk) /\ p \notin claimed)
      <4>1. CASE r \in ResolvePathConflict(p, disk)
        BY <4>1, <2>3, <1>1, ResolvedCases DEF Outcome
      <4> QED BY <2>2, <4>1
    <3> QED BY <3>1, <3>2, <1>2, <1>6 DEF p, Unasked
  <2>4. CASE r \in ResolvePathConflict(p, disk)
    <3>1. CASE \E c \in {"cancel", "error"} : r = Outcome(c, <<>>, disk)
      BY <3>1, <2>2 DEF Refused, Outcome, WithDir
    <3>2. CASE r = Outcome("overwrite", p, Removed(p, disk)) /\ Exists(p, disk)
      <4>1. o.choice = "overwrite" /\ o.path = p /\ o.tree = Made(i, p, Removed(p, disk))
        BY <3>2, <2>2, <1>3, <1>6 DEF Outcome, WithDir, Made
      <4> QED BY <4>1, <3>2, <1>2 DEF p, Overwriting
    <3>3. CASE \E q \in AvailableNames(p, disk) : r = Outcome("rename", q, disk)
      <4>1. PICK q \in AvailableNames(p, disk) : r = Outcome("rename", q, disk) BY <3>3
      <4>2. Shaped(i, q) BY <4>1, <1>4
      <4>3. q # <<>> BY <4>2 DEF Shaped
      <4>4. o.choice = "rename" /\ o.path = q /\ o.tree = Made(i, q, disk)
        BY <4>1, <4>3, <2>2, <1>6 DEF Outcome, WithDir, Made
      <4> QED BY <4>1, <4>2, <4>4 DEF p, Renaming
    <3>4. CASE r = Outcome("merge", p, disk) /\ Exists(p, disk)
      <4>1. o.choice = "merge" /\ o.path = p /\ o.tree = disk
        BY <3>4, <2>2 DEF Outcome, WithDir
      <4> QED BY <4>1, <3>4, <1>2 DEF p, Merging
    <3>5. CASE r = Outcome("none", p, disk) /\ ~Exists(p, disk)
      BY <3>5, <2>3
    <3> QED BY <2>4, <3>1, <3>2, <3>3, <3>4, <3>5, <1>1, ResolvedCases
  <2> QED BY <2>2, <2>3, <2>4
<1> QED BY <1>5, <1>6
-----------------------------------------------------------------------------
(* The plan: targets, choices and the places of the tasks                  *)

\* Inputs are settled in order; a task runs only in the pool and with a target.
Plan ==
  /\ before \in Trees[cl.count]
  /\ phase = "check" => next = 1
  /\ phase \in {"pool", "ok"} => next > cl.count
  /\ \A i \in Inputs :
       /\ i >= next => target[i] = <<>> /\ choice[i] = "none"
       /\ choice[i] = "error" => phase = "error"
       /\ IF target[i] = <<>> THEN i < next => choice[i] \in {"cancel", "error"}
          ELSE Shaped(i, target[i]) /\ choice[i] \in {"none", "rename", "merge", "overwrite"}

Places ==
  \A i \in Inputs :
    /\ phase \in {"check", "prepare"} => pc[i] = "queued"
    /\ pc[i] \in {"open", "create", "copy"} => phase = "pool"
    /\ pc[i] \in {"open", "create", "copy", "done"} => target[i] # <<>>
    /\ at[i] # 0
    /\ pc[i] = "copy" => at[i] \in DOMAIN Outputs(i) /\ ~IsDir(Outputs(i)[at[i]], disk)
    /\ pc[i] = "skipped" =>
         target[i] = <<>> \/ (i \in cl.archives /\ cl.policy # "AlwaysYes")
    /\ phase = "ok" => pc[i] \in {"done", "skipped"}

Base == TypeOK /\ Plan /\ Places

\* It holds at first.
LEMMA InitBase == Init => Base
<1> SUFFICES ASSUME Init PROVE Base OBVIOUS
<1> USE DEF Init
<1>1. /\ cl.count \in Nat /\ \A p \in DOMAIN before : before[p] \in {Dir, File({Prior})}
  BY CommandFacts DEF ATree
<1>2. {Dir, File({Prior})} \subseteq Nodes BY DEF Nodes
<1>3. TypeOK BY <1>1, <1>2 DEF TypeOK, Inputs, NoGrants, Ended
<1>4. Plan BY DEF Plan, Inputs
<1>5. Places BY DEF Places
<1> QED BY <1>3, <1>4, <1>5 DEF Base

\* Only the nodes a step puts on the disk matter for the disk's type.
LEMMA PutTyped ==
  ASSUME NEW tree, \A p \in DOMAIN tree : tree[p] \in Nodes, NEW p, NEW node \in Nodes
  PROVE  \A q \in DOMAIN Put(p, node, tree) : Put(p, node, tree)[q] \in Nodes
BY DEF Put

\* Making a directory keeps the disk's type.
LEMMA MadeTyped ==
  ASSUME NEW tree, \A p \in DOMAIN tree : tree[p] \in Nodes, NEW i, NEW p
  PROVE  \A q \in DOMAIN Made(i, p, tree) : Made(i, p, tree)[q] \in Nodes
<1>1. Dir \in Nodes BY DEF Nodes
<1> QED BY <1>1, PutTyped DEF Made

\* So does a removal.
LEMMA RemovedTyped ==
  ASSUME NEW tree, \A p \in DOMAIN tree : tree[p] \in Nodes, NEW p
  PROVE  \A q \in DOMAIN Removed(p, tree) : Removed(p, tree)[q] \in Nodes
BY DEF Removed

\* And so does every way a target is settled.
LEMMA OutcomeTyped ==
  ASSUME cl \in CommandLines, before \in Trees[cl.count], NEW i \in Inputs,
         NEW o \in Outcomes(i), \A p \in DOMAIN disk : disk[p] \in Nodes
  PROVE  \A p \in DOMAIN o.tree : o.tree[p] \in Nodes
<1>1. CASE Refused(o) BY <1>1 DEF Refused
<1>2. CASE Unasked(i, o) BY <1>2, MadeTyped DEF Unasked
<1>3. CASE Overwriting(i, o)
  <2>1. \A p \in DOMAIN Removed(o.path, disk) : Removed(o.path, disk)[p] \in Nodes
    BY RemovedTyped
  <2> HIDE DEF Removed
  <2> QED BY <1>3, <2>1, MadeTyped DEF Overwriting
<1>4. CASE Renaming(i, o) BY <1>4, MadeTyped DEF Renaming
<1>5. CASE Merging(i, o) BY <1>5 DEF Merging
<1> QED BY <1>1, <1>2, <1>3, <1>4, <1>5, OutcomeCases

\* What depends on the command line alone.
LEMMA Unchanging ==
  ASSUME UNCHANGED cl
  PROVE  /\ Inputs' = Inputs /\ OutputDir' = OutputDir /\ DirLength' = DirLength
         /\ \A i : ForFile(i)' <=> ForFile(i)
         /\ \A i, p : Shaped(i, p)' <=> Shaped(i, p)
BY DEF Inputs, OutputDir, DirLength, ForFile, Shaped

\* The checks keep it.
LEMMA CheckBase == Base /\ Check => Base'
<1> SUFFICES ASSUME Base, Check PROVE Base' OBVIOUS
<1> USE DEF Base, Check
<1>1. /\ UNCHANGED <<cl, before, next, claimed, target, choice, grants, pc, at>>
      /\ phase' \in {"prepare", "error", "halted"}
  BY DEF flags, plan, AfterChecks
<1>2. Dir \in Nodes /\ Nodes' = Nodes BY <1>1 DEF Nodes, Inputs
<1>3. \A p \in DOMAIN disk' : disk'[p] \in Nodes
  BY <1>2, PutTyped DEF TypeOK
<1>4. TypeOK' BY <1>1, <1>2, <1>3, Unchanging DEF TypeOK
<1>5. Plan' BY <1>1, Unchanging DEF Plan
<1>6. Places' BY <1>1, Unchanging DEF Places
<1> QED BY <1>4, <1>5, <1>6

\* What a call of prepare_decompress_target leaves behind.
LEMMA PrepareStep ==
  ASSUME Base, Prepare
  PROVE  /\ phase = "prepare" /\ next \in Inputs /\ next' = next + 1
         /\ UNCHANGED <<cl, before, grants, pc, at>>
         /\ \E o \in Outcomes(next) :
              /\ Refused(o) \/ Shaped(next, o.path)
              /\ \/ phase' = "prepare" /\ o.choice # "error" /\ disk' = o.tree
                 \/ phase' = "error" /\ UNCHANGED disk
              /\ claimed' = IF o.path = <<>> THEN claimed ELSE claimed \cup {o.path}
              /\ target' = [target EXCEPT ![next] = o.path]
              /\ choice' = [choice EXCEPT ![next] = o.choice]
              /\ o.choice \in {"none", "rename", "merge", "overwrite", "cancel", "error"}
              /\ o.path = <<>> <=> o.choice \in {"cancel", "error"}
<1>1. /\ phase = "prepare" /\ next \in Inputs /\ next' = next + 1
      /\ UNCHANGED <<cl, before, grants, pc, at>>
  <2>1. cl.count \in Nat BY CommandFacts DEF Base, TypeOK, Plan
  <2> QED BY <2>1 DEF Base, TypeOK, Prepare, flags, Inputs
<1>2. PICK o \in Outcomes(next) :
        /\ \/ phase' = "prepare" /\ o.choice # "error" /\ disk' = o.tree
           \/ phase' = "error" /\ UNCHANGED disk
        /\ claimed' = IF o.path = <<>> THEN claimed ELSE claimed \cup {o.path}
        /\ target' = [target EXCEPT ![next] = o.path]
        /\ choice' = [choice EXCEPT ![next] = o.choice]
  BY DEF Prepare, Outcomes
<1>3. \/ Refused(o)
      \/ /\ Shaped(next, o.path)
         /\ Unasked(next, o) \/ Overwriting(next, o) \/ Renaming(next, o) \/ Merging(next, o)
  BY <1>1, OutcomeCases DEF Base, TypeOK, Plan
<1>4. /\ o.choice \in {"none", "rename", "merge", "overwrite", "cancel", "error"}
      /\ o.path = <<>> <=> o.choice \in {"cancel", "error"}
  BY <1>3 DEF Refused, Shaped, Unasked, Overwriting, Renaming, Merging
<1> QED BY <1>1, <1>2, <1>3, <1>4

\* Preparing an input keeps it.
LEMMA PrepareBase == Base /\ Prepare => Base'
<1> SUFFICES ASSUME Base, Prepare PROVE Base' OBVIOUS
<1> USE DEF Base
<1>1. /\ phase = "prepare" /\ next \in Inputs /\ next' = next + 1
      /\ UNCHANGED <<cl, before, grants, pc, at>>
  BY PrepareStep
<1>2. PICK o \in Outcomes(next) :
        /\ Refused(o) \/ Shaped(next, o.path)
        /\ \/ phase' = "prepare" /\ o.choice # "error" /\ disk' = o.tree
           \/ phase' = "error" /\ UNCHANGED disk
        /\ claimed' = IF o.path = <<>> THEN claimed ELSE claimed \cup {o.path}
        /\ target' = [target EXCEPT ![next] = o.path]
        /\ choice' = [choice EXCEPT ![next] = o.choice]
        /\ o.choice \in {"none", "rename", "merge", "overwrite", "cancel", "error"}
        /\ o.path = <<>> <=> o.choice \in {"cancel", "error"}
  BY PrepareStep
<1>3. cl.count \in Nat BY CommandFacts DEF TypeOK, Plan
<1>4. TypeOK'
  <2>1. \A p \in DOMAIN disk' : disk'[p] \in Nodes
    BY <1>1, <1>2, OutcomeTyped DEF TypeOK, Plan
  <2>2. Nodes' = Nodes BY <1>1 DEF Nodes, Inputs
  <2>3. next' \in 1..(cl.count + 1) BY <1>1, <1>3 DEF Inputs
  <2>4. DOMAIN target' = Inputs /\ \A i \in Inputs : target'[i] \in claimed' \cup {<<>>}
    BY <1>1, <1>2 DEF TypeOK
  <2>5. choice' \in [Inputs -> {"none", "rename", "merge", "overwrite", "cancel", "error"}]
    BY <1>2 DEF TypeOK
  <2>6. <<>> \notin claimed' BY <1>2 DEF TypeOK
  <2> QED BY <1>1, <1>2, <2>1, <2>2, <2>3, <2>4, <2>5, <2>6, Unchanging DEF TypeOK
<1>5. Plan'
  <2>1. before' \in Trees[cl'.count] /\ phase' \in {"prepare", "error"}
    BY <1>1, <1>2 DEF Plan
  <2>2. ASSUME NEW i \in Inputs
        PROVE  /\ i >= next' => target'[i] = <<>> /\ choice'[i] = "none"
               /\ choice'[i] = "error" => phase' = "error"
               /\ IF target'[i] = <<>> THEN i < next' => choice'[i] \in {"cancel", "error"}
                  ELSE /\ Shaped(i, target'[i])
                       /\ choice'[i] \in {"none", "rename", "merge", "overwrite"}
    <3>1. next \in Nat /\ i \in Nat BY <1>1 DEF Inputs
    <3>2. CASE i = next
      BY <1>1, <1>2, <3>1, <3>2 DEF TypeOK, Refused
    <3>3. CASE i # next
      <4>1. target'[i] = target[i] /\ choice'[i] = choice[i] BY <1>2, <3>3 DEF TypeOK
      <4>2. choice[i] # "error" BY <1>1 DEF Plan
      <4> QED BY <1>1, <3>1, <3>3, <4>1, <4>2 DEF Plan
    <3> QED BY <3>2, <3>3
  <2> QED BY <1>1, <2>1, <2>2, Unchanging DEF Plan
<1>6. Places'
  <2>1. \A i \in Inputs : pc'[i] = "queued" BY <1>1 DEF Places
  <2>2. phase' \in {"prepare", "error"} BY <1>2
  <2> QED BY <1>1, <2>1, <2>2, Unchanging DEF Places
<1> QED BY <1>4, <1>5, <1>6

-----------------------------------------------------------------------------
(* The tasks keep it                                                       *)

\* What no task changes; a task moves only its own pc and counter.
TaskFrame(i) ==
  /\ UNCHANGED <<cl, before, next, claimed, target, choice, grants, phase>>
  /\ phase = "pool" /\ i \in Inputs
  /\ \A j \in Inputs \ {i} : pc'[j] = pc[j] /\ at'[j] = at[j]

\* The outputs depend on the command line and the targets.
LEMMA OutputsUnchanging ==
  ASSUME UNCHANGED <<cl, target>>
  PROVE  \A i : Outputs(i)' = Outputs(i)
BY DEF Outputs

\* A task's step is within its frame.
LEMMA TaskMoves ==
  ASSUME Base, NEW i, TaskStep(i)
  PROVE  TaskFrame(i)
<1> USE DEF Base
<1>1. i \in Inputs BY DEF TaskStep
<1>2. CASE Start(i) BY <1>1, <1>2 DEF Start, flags, plan, TaskFrame, Goto, TypeOK
<1>3. CASE Open(i) BY <1>1, <1>3 DEF Open, flags, plan, TaskFrame, Goto, TypeOK, Places
<1>4. CASE Create(i)
  <2>1. phase = "pool" BY <1>1, <1>4 DEF Create, Places
  <2>2. UNCHANGED <<cl, before, next, claimed, target, choice, grants, phase, at>>
    BY <1>4 DEF Create, flags, plan
  <2>3. \E l : pc' = [pc EXCEPT ![i] = l] BY <1>4 DEF Create, Goto
  <2> QED BY <1>1, <2>1, <2>2, <2>3 DEF TaskFrame, TypeOK
<1>5. CASE Copy(i)
  <2>1. phase = "pool" BY <1>1, <1>5 DEF Copy, Places
  <2>2. UNCHANGED <<cl, before, next, claimed, target, choice, grants, phase>>
    BY <1>5 DEF Copy, flags, plan
  <2>3. /\ \E l : pc' = [pc EXCEPT ![i] = l]
        /\ at' = at \/ at' = [at EXCEPT ![i] = @ + 1]
    BY <1>5 DEF Copy, Goto
  <2> QED BY <1>1, <2>1, <2>2, <2>3 DEF TaskFrame, TypeOK
<1>6. CASE Finish(i)
  <2>1. phase = "pool" BY <1>1, <1>6 DEF Finish, Places
  <2>2. UNCHANGED <<cl, before, next, claimed, target, choice, grants, phase, at>>
    BY <1>6 DEF Finish, flags, plan
  <2>3. \E l : pc' = [pc EXCEPT ![i] = l] BY <1>6 DEF Finish, Goto
  <2> QED BY <1>1, <2>1, <2>2, <2>3 DEF TaskFrame, TypeOK
<1> QED BY <1>2, <1>3, <1>4, <1>5, <1>6 DEF TaskStep

\* No task makes a directory or removes one.
LEMMA TaskKeepsDirs ==
  ASSUME Base, NEW i, TaskStep(i)
  PROVE  \A p : IsDir(p, disk') <=> IsDir(p, disk)
<1> USE DEF Base
<1>1. i \in Inputs BY DEF TaskStep
<1>2. CASE Start(i) BY <1>2 DEF Start, IsDir
<1>3. CASE Open(i) BY <1>3 DEF Open, IsDir
<1>4. CASE Create(i)
  <2>1. \/ UNCHANGED disk
        \/ \E p : ~IsDir(p, disk) /\ disk' = Put(p, File({}), disk)
    BY <1>4 DEF Create
  <2>2. ASSUME NEW q, ~IsDir(q, disk), NEW p
        PROVE  IsDir(p, Put(q, File({}), disk)) <=> IsDir(p, disk)
    BY <2>2 DEF IsDir, Put, File
  <2> QED BY <2>1, <2>2
<1>5. CASE Copy(i)
  <2>1. \/ UNCHANGED disk
        \/ \E p \in DOMAIN disk : disk' = [disk EXCEPT ![p].data = @ \cup {i}]
    BY <1>5 DEF Copy, Exists
  <2>2. \A p \in DOMAIN disk : disk[p] \in [kind : {"dir", "file"}, data : SUBSET (Inputs \cup {Prior})]
    BY DEF TypeOK, Nodes, Dir, File
  <2> QED BY <2>1, <2>2 DEF IsDir
<1>6. CASE Finish(i)
  <2>1. \/ UNCHANGED disk
        \/ ~IsDir(Source[i], disk) /\ disk' = FileRemoved(Source[i], disk)
    BY <1>6 DEF Finish
  <2> QED BY <2>1 DEF IsDir, FileRemoved
<1> QED BY <1>2, <1>3, <1>4, <1>5, <1>6 DEF TaskStep

\* A task's step keeps the types.
LEMMA TaskTyped ==
  ASSUME Base, NEW i, TaskStep(i)
  PROVE  /\ \A p \in DOMAIN disk' : disk'[p] \in Nodes
         /\ pc' \in [Inputs -> {"queued", "open", "create", "copy"} \cup Ended]
         /\ at' \in [Inputs -> Nat]
<1> USE DEF Base
<1>1. i \in Inputs BY DEF TaskStep
<1>2. /\ \A p \in DOMAIN disk : disk[p] \in Nodes
      /\ pc \in [Inputs -> {"queued", "open", "create", "copy"} \cup Ended]
      /\ at \in [Inputs -> Nat]
  BY DEF TypeOK
<1>3. CASE Start(i) BY <1>1, <1>2, <1>3 DEF Start, Goto, Ended
<1>4. CASE Open(i) BY <1>1, <1>2, <1>4 DEF Open, Goto, Ended
<1>5. CASE Create(i)
  <2>1. File({}) \in Nodes BY DEF Nodes
  <2>2. disk' = disk \/ \E p : disk' = Put(p, File({}), disk) BY <1>5 DEF Create
  <2>3. UNCHANGED at /\ \E l \in {"copy", "failed"} : pc' = [pc EXCEPT ![i] = l]
    BY <1>5 DEF Create, Goto
  <2> QED BY <1>1, <1>2, <2>1, <2>2, <2>3, PutTyped DEF Ended
<1>6. CASE Copy(i)
  <2>1. \/ UNCHANGED disk
        \/ \E p \in DOMAIN disk : ~IsDir(p, disk) /\ disk' = [disk EXCEPT ![p].data = @ \cup {i}]
    BY <1>1, <1>6 DEF Copy, Exists, Places
  <2>2. /\ at' = at \/ at' = [at EXCEPT ![i] = @ + 1]
        /\ \E l \in {"create", "failed"} : pc' = [pc EXCEPT ![i] = l]
    BY <1>6 DEF Copy, Goto
  <2>3. ASSUME NEW p \in DOMAIN disk, ~IsDir(p, disk)
        PROVE  [disk[p] EXCEPT !.data = @ \cup {i}] \in Nodes
    <3>1. PICK S \in SUBSET (Inputs \cup {Prior}) : disk[p] = File(S)
      BY <1>2, <2>3 DEF Nodes, Dir, IsDir
    <3>2. [disk[p] EXCEPT !.data = @ \cup {i}] = File(S \cup {i}) BY <3>1 DEF File
    <3> QED BY <1>1, <3>2 DEF Nodes
  <2>4. \A p \in DOMAIN disk' : disk'[p] \in Nodes BY <1>2, <2>1, <2>3
  <2> QED BY <1>1, <1>2, <2>2, <2>4 DEF Ended
<1>7. CASE Finish(i)
  <2>1. disk' = disk \/ disk' = FileRemoved(Source[i], disk) BY <1>7 DEF Finish
  <2>2. \A p \in DOMAIN disk' : disk'[p] \in Nodes BY <1>2, <2>1 DEF FileRemoved
  <2>3. UNCHANGED at /\ \E l \in {"done", "failed"} : pc' = [pc EXCEPT ![i] = l]
    BY <1>7 DEF Finish, Goto
  <2> QED BY <1>1, <1>2, <2>2, <2>3 DEF Ended
<1> QED BY <1>3, <1>4, <1>5, <1>6, <1>7 DEF TaskStep

\* The outputs of an input are numbered from one.
LEMMA OutputsCounted ==
  ASSUME Base, NEW i \in Inputs
  PROVE  Len(Outputs(i)) \in Nat /\ DOMAIN Outputs(i) = 1..Len(Outputs(i))
<1>1. CASE i \in cl.archives
  <2>1. Members[i] \in Seq(Component) BY CommandFacts DEF Base, TypeOK, Plan
  <2> DEFINE f == [k \in DOMAIN Members[i] |-> Append(target[i], Members[i][k])]
  <2>2. DOMAIN f = 1..Len(Members[i]) /\ Len(Members[i]) \in Nat BY <2>1
  <2>3. f \in Seq({f[k] : k \in DOMAIN f}) BY <2>2
  <2>4. Outputs(i) = f BY <1>1 DEF Outputs
  <2> HIDE DEF f
  <2> QED BY <2>3, <2>4
<1>2. CASE i \notin cl.archives BY <1>2 DEF Outputs
<1> QED BY <1>1, <1>2

\* Every step of a task keeps the plan and the places.
LEMMA TaskBase == ASSUME Base, NEW i, TaskStep(i) PROVE Base'
<1> USE DEF Base
<1>1. TaskFrame(i) BY TaskMoves
<1>2. /\ UNCHANGED <<cl, before, next, claimed, target, choice, grants, phase>>
      /\ phase = "pool" /\ i \in Inputs /\ Nodes' = Nodes
  BY <1>1 DEF TaskFrame, Nodes, Inputs
<1>3. TypeOK' BY <1>2, TaskTyped, Unchanging DEF TypeOK
<1>4. Plan' BY <1>2, Unchanging DEF Plan
<1>5. ASSUME NEW j \in Inputs
      PROVE  /\ pc'[j] \in {"open", "create", "copy", "done"} => target[j] # <<>>
             /\ at'[j] # 0
             /\ pc'[j] = "copy" =>
                  at'[j] \in DOMAIN Outputs(j) /\ ~IsDir(Outputs(j)[at'[j]], disk')
             /\ pc'[j] = "skipped" =>
                  target[j] = <<>> \/ (j \in cl.archives /\ cl.policy # "AlwaysYes")
  <2>1. CASE j # i
    <3>1. pc'[j] = pc[j] /\ at'[j] = at[j] BY <1>1, <2>1 DEF TaskFrame
    <3> QED BY <3>1, TaskKeepsDirs DEF Places
  <2>2. CASE j = i
    <3>1. CASE Start(i) BY <1>2, <2>2, <3>1 DEF Start, Goto, TypeOK, Places
    <3>2. CASE Open(i) BY <1>2, <2>2, <3>2 DEF Open, Goto, TypeOK, Places
    <3>3. CASE Create(i)
      <4>1. /\ pc[i] = "create" /\ target[i] # <<>> /\ UNCHANGED at
            /\ at[i] # 0 /\ at[i] \in Nat /\ at[i] <= Len(Outputs(i))
            /\ \/ pc'[i] = "copy" /\ ~IsDir(Outputs(i)[at[i]], disk)
               \/ pc'[i] = "failed"
        BY <1>2, <3>3 DEF Create, Goto, TypeOK, Places
      <4>2. at[i] \in DOMAIN Outputs(i) BY <1>2, <4>1, OutputsCounted
      <4> QED BY <2>2, <4>1, <4>2, TaskKeepsDirs
    <3>4. CASE Copy(i)
      <4>1. target[i] # <<>> /\ pc'[i] \in {"create", "failed"} /\ at'[i] # 0
        BY <1>2, <3>4 DEF Copy, Goto, TypeOK, Places
      <4> QED BY <2>2, <4>1
    <3>5. CASE Finish(i)
      <4>1. target[i] # <<>> /\ pc'[i] \in {"done", "failed"} /\ at'[i] # 0
        BY <1>2, <3>5 DEF Finish, Goto, TypeOK, Places
      <4> QED BY <2>2, <4>1
    <3> QED BY <3>1, <3>2, <3>3, <3>4, <3>5 DEF TaskStep
  <2> QED BY <2>1, <2>2
<1>6. Places'
  <2>1. \A j : Outputs(j)' = Outputs(j) BY <1>2, OutputsUnchanging
  <2> QED BY <1>2, <1>5, <2>1, Unchanging DEF Places
<1> QED BY <1>3, <1>4, <1>6

\* So does the start of the pool,
LEMMA EnterPoolBase == Base /\ EnterPool => Base'
<1> SUFFICES ASSUME Base, EnterPool PROVE Base' OBVIOUS
<1> USE DEF Base, EnterPool
<1>1. /\ UNCHANGED <<cl, before, disk, next, claimed, target, choice, pc, at>>
      /\ phase = "prepare" /\ phase' = "pool" /\ next > cl.count
  BY DEF flags, plan
<1>2. DOMAIN grants' = DOMAIN NoGrants BY DEF NoGrants
<1>3. TypeOK' BY <1>1, <1>2, Unchanging DEF TypeOK, Nodes, Inputs
<1>4. Plan'
  <2>1. \A i \in Inputs : choice[i] # "error" BY <1>1 DEF Plan
  <2> QED BY <1>1, <2>1, Unchanging DEF Plan
<1>5. Places' BY <1>1, Unchanging DEF Places
<1> QED BY <1>3, <1>4, <1>5

\* its end, which knows of every failed task,
LEMMA LeavePoolBase == Base /\ LeavePool => Base'
<1> SUFFICES ASSUME Base, LeavePool PROVE Base' OBVIOUS
<1> USE DEF Base
<1>1. /\ UNCHANGED <<cl, before, disk, next, claimed, target, choice, grants, pc, at>>
      /\ phase = "pool" /\ phase' \in {"ok", "error"} /\ Running = {}
  BY DEF LeavePool, flags, plan
<1>2. TypeOK' BY <1>1, Unchanging DEF TypeOK, Nodes, Inputs
<1>3. Plan'
  <2>1. \A i \in Inputs : choice[i] # "error" BY <1>1 DEF Plan
  <2> QED BY <1>1, <2>1, Unchanging DEF Plan
<1>4. Places'
  <2>1. \A i \in Inputs : pc[i] \in {"queued"} \cup Ended BY <1>1 DEF Running
  <2>2. phase' = "ok" => \A i \in Inputs : pc[i] \in {"done", "skipped"}
    BY <2>1 DEF LeavePool, SomeFailed, Ended
  <2>3. \A i \in Inputs : pc[i] \notin {"open", "create", "copy"} BY <2>1 DEF Ended
  <2>4. \A i : Outputs(i)' = Outputs(i) BY <1>1, OutputsUnchanging
  <2> QED BY <1>1, <2>2, <2>3, <2>4, Unchanging DEF Places
<1> QED BY <1>2, <1>3, <1>4

\* and a step that changes nothing.
LEMMA StutterBase == Base /\ UNCHANGED vars => Base'
<1> SUFFICES ASSUME Base, UNCHANGED vars PROVE Base' OBVIOUS
<1>1. UNCHANGED <<cl, before, disk, phase, next, claimed, target, choice, grants, pc, at>>
  BY DEF vars, flags, plan
<1>2. Nodes' = Nodes /\ \A i : Outputs(i)' = Outputs(i) BY <1>1 DEF Nodes, Inputs, Outputs
<1>3. TypeOK' BY <1>1, <1>2, Unchanging DEF Base, TypeOK
<1>4. Plan' BY <1>1, Unchanging DEF Base, Plan
<1>5. Places' BY <1>1, <1>2, Unchanging DEF Base, Places, IsDir
<1> QED BY <1>3, <1>4, <1>5 DEF Base

\* Hence every step keeps them.
LEMMA NextBase == Base /\ [Next]_vars => Base'
BY CheckBase, PrepareBase, EnterPoolBase, LeavePoolBase, TaskBase, StutterBase
   DEF Next, MainStep, Exited

\* The types, the plan and the places of the tasks: what all the rest rests on.
THEOREM BaseAlways == Spec => []Base
BY InitBase, NextBase, PTL DEF Spec

\* Every variable has its type, for any number of inputs, threads and files.
THEOREM DecompressTypeCorrect == Spec => []TypeOK
<1>1. Base => TypeOK BY DEF Base
<1> QED BY <1>1, BaseAlways, PTL

\* A run that succeeds did all its tasks, but for those whose user said no
\* (decompress_files collects the first error of try_for_each).
THEOREM SuccessfulRunComplete == Spec => []SuccessIsComplete
<1>1. Base => SuccessIsComplete
  <2> SUFFICES ASSUME Base, phase = "ok", NEW i \in Inputs, pc[i] # "done"
               PROVE  /\ pc[i] = "skipped"
                      /\ choice[i] = "cancel" \/ (i \in cl.archives /\ cl.policy # "AlwaysYes")
    BY DEF SuccessIsComplete
  <2>1. pc[i] = "skipped" BY DEF Base, Places
  <2>2. CASE target[i] = <<>>
    <3>1. cl.count \in Nat /\ i \in 1..cl.count /\ next \in Nat /\ next > cl.count
      BY CommandFacts DEF Base, TypeOK, Plan, Inputs
    <3> QED BY <2>1, <2>2, <3>1 DEF Base, Plan
  <2> QED BY <2>1, <2>2 DEF Base, Places
<1> QED BY <1>1, BaseAlways, PTL

-----------------------------------------------------------------------------
(* The disk while the targets are prepared                                 *)

\* A tree; what is not a directory was there before the run and is untouched.
Sound(tree) ==
  \A p \in DOMAIN tree :
    /\ p \in Path /\ p # <<>>
    /\ \A n \in 1..Len(p) : SubSeq(p, 1, n) \in DOMAIN tree
    /\ IsDir(p, tree) \/ (p \in DOMAIN before /\ tree[p] = before[p])

OntoFile(i) == choice[i] = "merge" /\ Exists(target[i], before) /\ ~IsDir(target[i], before)

Setup ==
  /\ phase = "check" => disk = before
  /\ phase = "prepare" =>
       /\ Sound(disk)
       /\ IsDir(OutputDir, disk)
       /\ \A i \in Inputs : target[i] # <<>> =>
            Exists(TargetDir(i), disk) /\ (IsDir(TargetDir(i), disk) \/ OntoFile(i))
  /\ TargetsReady

\* The longest prefix of a path is the path.
LEMMA WholePath == ASSUME NEW p \in Path PROVE SubSeq(p, 1, Len(p)) = p
<1>1. Len(p) \in 0..Len(p) BY DEF Path
<1> QED BY <1>1, PrefixPath, SamePath

\* A directory made in one that is there keeps the tree.
LEMMA PutDirSound ==
  ASSUME NEW tree, Sound(tree), NEW p \in Path, p # <<>>,
         Len(p) > 1 => Parent(p) \in DOMAIN tree
  PROVE  Sound(Put(p, Dir, tree))
<1>1. DOMAIN Put(p, Dir, tree) = DOMAIN tree \cup {p} BY DEF Put
<1>2. \A n \in 1..Len(p) : SubSeq(p, 1, n) \in DOMAIN tree \cup {p}
  <2>1. Len(p) \in Nat BY DEF Path
  <2>2. Parent(p) \in Path /\ Len(Parent(p)) = Len(p) - 1 BY ParentPath
  <2>3. TAKE n \in 1..Len(p)
  <2>4. CASE n = Len(p) BY <2>4, WholePath
  <2>5. CASE n # Len(p)
    <3>1. n \in 1..(Len(p) - 1) /\ Len(p) > 1 BY <2>1, <2>5
    <3>2. SubSeq(p, 1, n) = SubSeq(Parent(p), 1, n) BY <3>1, ParentPath
    <3> QED BY <2>2, <3>1, <3>2 DEF Sound
  <2> QED BY <2>4, <2>5
<1>3. IsDir(p, Put(p, Dir, tree)) BY DEF IsDir, Put, Dir
<1>4. \A q \in DOMAIN tree \ {p} :
        /\ Put(p, Dir, tree)[q] = tree[q]
        /\ IsDir(q, Put(p, Dir, tree)) <=> IsDir(q, tree)
  BY DEF IsDir, Put
<1> QED BY <1>1, <1>2, <1>3, <1>4 DEF Sound

\* A removal takes away whole subtrees.
LEMMA RemovedSound ==
  ASSUME NEW tree, Sound(tree), NEW p \in Path
  PROVE  Sound(Removed(p, tree))
<1>1. DOMAIN Removed(p, tree) = {q \in DOMAIN tree : ~Under(p, q)} BY DEF Removed
<1>2. \A q \in DOMAIN Removed(p, tree) :
        /\ Removed(p, tree)[q] = tree[q]
        /\ IsDir(q, Removed(p, tree)) <=> IsDir(q, tree)
  BY DEF Removed, IsDir
<1>3. ASSUME NEW q \in DOMAIN Removed(p, tree), NEW n \in 1..Len(q)
      PROVE  SubSeq(q, 1, n) \in DOMAIN Removed(p, tree)
  <2>1. q \in Path /\ ~Under(p, q) /\ SubSeq(q, 1, n) \in DOMAIN tree
    BY <1>1, <1>3 DEF Sound
  <2>2. SubSeq(q, 1, n) \in Path BY <2>1 DEF Sound
  <2>3. Under(SubSeq(q, 1, n), q)
    <3>1. Len(q) \in Nat BY <2>1 DEF Path
    <3>2. n \in 0..Len(q) BY <3>1
    <3> QED BY <2>1, <3>1, <3>2, PrefixPath DEF Under
  <2>4. ~Under(p, SubSeq(q, 1, n)) BY <2>1, <2>2, <2>3, UnderTransitive
  <2> QED BY <1>1, <2>1, <2>4
<1> QED BY <1>1, <1>2, <1>3 DEF Sound

\* The directory a directory target is made in is there.
LEMMA ParentThere ==
  ASSUME NEW i, NEW p, Shaped(i, p), ~ForFile(i), Len(p) > 1,
         OutputDir \in Path, Sound(disk), IsDir(OutputDir, disk)
  PROVE  Parent(p) \in DOMAIN disk
<1>1. OutputDir \in DOMAIN disk BY DEF IsDir
<1>2. CASE cl.mode = "default" BY <1>1, <1>2 DEF Shaped
<1>3. CASE cl.mode # "default"
  <2>1. Parent(p) = Parent(OutputDir) /\ Len(OutputDir) > 1 /\ Len(OutputDir) \in Nat
    BY <1>3 DEF Shaped, DirLength, Path
  <2>2. Len(OutputDir) - 1 \in 1..Len(OutputDir) BY <2>1
  <2> QED BY <1>1, <2>1, <2>2 DEF Sound, Parent
<1> QED BY <1>2, <1>3

\* What preparing an input does to the disk: only an overwrite takes anything
\* away, and only beneath its path; the directory asked for is there afterwards.
LEMMA PreparedDisk ==
  ASSUME cl \in CommandLines, before \in Trees[cl.count], NEW i \in Inputs,
         NEW o \in Outcomes(i), Sound(disk), IsDir(OutputDir, disk)
  PROVE  /\ Sound(o.tree)
         /\ \A q \in DOMAIN disk : \/ o.choice = "overwrite" /\ Under(o.path, q)
                                   \/ q \in DOMAIN o.tree /\ o.tree[q] = disk[q]
         /\ o.path # <<>> /\ ~ForFile(i) =>
              /\ Exists(o.path, o.tree)
              /\ IsDir(o.path, o.tree) \/
                   (o.choice = "merge" /\ Exists(o.path, before) /\ ~IsDir(o.path, before))
<1>0. OutputDir \in Path BY CommandFacts
<1>1. CASE Refused(o) BY <1>1 DEF Refused
<1>2. ASSUME Shaped(i, o.path), NEW tree, Sound(tree),
             Len(o.path) > 1 /\ ~ForFile(i) => Parent(o.path) \in DOMAIN tree
      PROVE  /\ Sound(Made(i, o.path, tree))
             /\ \A q \in DOMAIN tree : /\ q \in DOMAIN Made(i, o.path, tree)
                                       /\ Made(i, o.path, tree)[q] = tree[q]
             /\ ~ForFile(i) => Exists(o.path, Made(i, o.path, tree))
             /\ ~ForFile(i) /\ ~Exists(o.path, tree) => IsDir(o.path, Made(i, o.path, tree))
  <2>1. CASE ForFile(i) \/ Exists(o.path, tree) BY <1>2, <2>1 DEF Made
  <2>2. CASE ~ForFile(i) /\ ~Exists(o.path, tree)
    <3>1. Sound(Put(o.path, Dir, tree)) BY <1>2, <2>2, PutDirSound DEF Shaped
    <3> QED BY <2>2, <3>1 DEF Made, Exists, IsDir, Put, Dir
  <2> QED BY <2>1, <2>2
<1>3. Shaped(i, o.path) /\ ~ForFile(i) /\ Len(o.path) > 1 => Parent(o.path) \in DOMAIN disk
  BY <1>0, ParentThere
<1>4. CASE Shaped(i, o.path) /\ Unasked(i, o)
  <2>1. o.choice # "overwrite" /\ o.tree = Made(i, o.path, disk) BY <1>4 DEF Unasked
  <2>2. ~ForFile(i) /\ Exists(o.path, disk) =>
          IsDir(o.path, disk) /\ Made(i, o.path, disk) = disk
    <3>1. SUFFICES ASSUME ~ForFile(i), Exists(o.path, disk) PROVE IsDir(o.path, disk)
      BY DEF Made
    <3>2. CASE IsEmptyDir(o.path, disk) BY <3>2 DEF IsEmptyDir
    <3>3. CASE o.path = Cwd
      <4>1. CASE cl.mode = "default"
        <5>1. o.path = Append(Cwd, Stem[i]) /\ Stem[i] \in Component /\ Cwd \in Path
          BY <1>4, <3>1, <4>1, CommandFacts, DecompressAssumption
             DEF Unasked, Requested, OutputDir
        <5> QED BY <3>3, <5>1, AppendPath
      <4>2. CASE cl.mode # "default"
        BY <1>4, <3>1, <4>2 DEF Unasked, Requested
      <4> QED BY <4>1, <4>2
    <3> QED BY <1>4, <3>1, <3>2, <3>3 DEF Unasked
  <2> QED BY <1>2, <1>3, <1>4, <2>1, <2>2
<1>5. CASE Shaped(i, o.path) /\ Overwriting(i, o)
  <2>1. o.choice = "overwrite" /\ o.tree = Made(i, o.path, Removed(o.path, disk))
    BY <1>5 DEF Overwriting
  <2>2. o.path \in Path /\ o.path # <<>> BY <1>5 DEF Shaped
  <2>3. Sound(Removed(o.path, disk)) BY <2>2, RemovedSound
  <2>4. ~Exists(o.path, Removed(o.path, disk)) BY <2>2, UnderReflexive DEF Exists, Removed
  <2>5. \A q \in DOMAIN disk : \/ Under(o.path, q)
                               \/ /\ q \in DOMAIN Removed(o.path, disk)
                                  /\ Removed(o.path, disk)[q] = disk[q]
    BY DEF Removed
  <2>6. ~Under(o.path, Parent(o.path))
    BY <2>2, ParentPath DEF Under, Path
  <2> HIDE DEF Removed
  <2>7. Len(o.path) > 1 /\ ~ForFile(i) => Parent(o.path) \in DOMAIN Removed(o.path, disk)
    BY <1>3, <1>5, <2>5, <2>6
  <2> QED BY <1>2, <1>5, <2>1, <2>3, <2>4, <2>5, <2>7
<1>6. CASE Shaped(i, o.path) /\ Renaming(i, o)
  <2>1. o.choice = "rename" /\ o.tree = Made(i, o.path, disk) /\ ~Exists(o.path, disk)
    BY <1>6, RenameShaped DEF Renaming
  <2> QED BY <1>2, <1>3, <1>6, <2>1
<1>7. CASE Shaped(i, o.path) /\ Merging(i, o)
  BY <1>7 DEF Merging, Sound, Exists, IsDir
<1> QED BY <1>1, <1>4, <1>5, <1>6, <1>7, OutcomeCases

\* An overwritten path is above a directory some task needs only if it is that
\* directory, and then it is made again.
LEMMA OnlyItself ==
  ASSUME cl \in CommandLines, before \in Trees[cl.count], NEW j, NEW q, Shaped(j, q)
  PROVE  /\ Under(q, OutputDir) => ~ForFile(j) /\ q = OutputDir
         /\ \A i, p : Shaped(i, p) /\ ~ForFile(i) /\ Under(q, p) => ~ForFile(j) /\ q = p
<1>1. OutputDir \in Path /\ OutputDir # <<>> /\ q \in Path /\ Len(OutputDir) \in Nat /\ Len(q) \in Nat
  BY CommandFacts DEF Shaped, Path
<1>2. Len(q) = IF ForFile(j) THEN Len(OutputDir) + 1 ELSE DirLength BY DEF Shaped
<1>3. ASSUME Under(q, OutputDir) PROVE ~ForFile(j) /\ q = OutputDir
  <2>1. Len(q) <= Len(OutputDir) BY <1>3 DEF Under
  <2>2. ~ForFile(j) /\ Len(q) = Len(OutputDir) BY <1>1, <1>2, <2>1 DEF DirLength
  <2> QED BY <1>1, <1>3, <2>2, UnderSameLength
<1>4. ASSUME NEW i, NEW p, Shaped(i, p), ~ForFile(i), Under(q, p)
      PROVE  ~ForFile(j) /\ q = p
  <2>1. p \in Path /\ Len(p) = DirLength /\ Len(q) <= Len(p) BY <1>4 DEF Shaped, Under
  <2>2. ForFile(j) => cl.mode # "default" BY DEF ForFile
  <2>3. ~ForFile(j) /\ Len(q) = Len(p) BY <1>1, <1>2, <2>1, <2>2 DEF DirLength
  <2> QED BY <1>1, <1>4, <2>1, <2>3, UnderSameLength
<1> QED BY <1>3, <1>4

\* What a plan says of a task's directory.
LEMMA DirFacts ==
  ASSUME Base, NEW i \in Inputs, target[i] # <<>>
  PROVE  /\ Shaped(i, target[i])
         /\ TargetDir(i) = IF ForFile(i) THEN OutputDir ELSE target[i]
BY DEF Base, Plan, TargetDir, Shaped

\* Nothing is prepared at first.
LEMMA InitSetup == Init => Setup
BY DEF Init, Setup, TargetsReady

\* The directory of --dir is there after the checks.
LEMMA CheckSetup == Base /\ Setup /\ Check => Setup'
<1> SUFFICES ASSUME Base, Setup, Check PROVE Setup' OBVIOUS
<1>1. /\ UNCHANGED <<cl, before, target, choice>> /\ phase = "check" /\ disk = before
      /\ phase' \in {"prepare", "error", "halted"} /\ \A i \in Inputs : target[i] = <<>>
  <2>1. \A i \in Inputs : i >= 1
    BY CommandFacts DEF Base, TypeOK, Plan, Inputs
  <2> QED BY <2>1 DEF Check, flags, plan, AfterChecks, Base, Plan, Setup
<1>2. cl \in CommandLines /\ before \in Trees[cl.count] BY DEF Base, TypeOK, Plan
<1>3. ATree(disk) /\ OutputDir \in Path /\ OutputDir # <<>> BY <1>1, <1>2, CommandFacts
<1>4. Sound(disk) BY <1>1, <1>3 DEF ATree, Sound
<1>5. phase' = "prepare" => Sound(disk') /\ IsDir(OutputDir, disk')
  <2> SUFFICES ASSUME phase' = "prepare" PROVE Sound(disk') /\ IsDir(OutputDir, disk')
    OBVIOUS
  <2>1. CASE Exists(OutputDir, disk)
    <3>1. IsDir(OutputDir, disk) BY <1>3, <2>1 DEF ATree, OutputDir
    <3> QED BY <1>4, <2>1, <3>1 DEF Check
  <2>2. CASE ~Exists(OutputDir, disk)
    <3>1. disk' = Put(OutputDir, Dir, disk) BY <2>2 DEF Check
    <3>2. OutputDir = DirFlag BY <1>3, <2>2 DEF ATree, OutputDir, IsDir, Exists
    <3>3. Len(OutputDir) > 1 => Parent(OutputDir) \in DOMAIN disk
      BY <1>3, <3>2 DEF ATree, Exists
    <3>4. Sound(disk') BY <1>3, <1>4, <3>1, <3>3, PutDirSound
    <3> QED BY <3>1, <3>4 DEF IsDir, Put, Dir
  <2> QED BY <2>1, <2>2
<1>6. Sound(disk)' <=> Sound(disk') BY <1>1 DEF Sound, IsDir
<1> QED BY <1>1, <1>5, <1>6, Unchanging DEF Setup, TargetsReady

\* Preparing an input takes no other's directory away.
LEMMA PrepareSetup == Base /\ Setup /\ Prepare => Setup'
<1> SUFFICES ASSUME Base, Setup, Prepare PROVE Setup' OBVIOUS
<1>1. /\ phase = "prepare" /\ next \in Inputs
      /\ UNCHANGED <<cl, before, grants, pc, at>>
  BY PrepareStep
<1>2. PICK o \in Outcomes(next) :
        /\ Refused(o) \/ Shaped(next, o.path)
        /\ \/ phase' = "prepare" /\ o.choice # "error" /\ disk' = o.tree
           \/ phase' = "error" /\ UNCHANGED disk
        /\ target' = [target EXCEPT ![next] = o.path]
        /\ choice' = [choice EXCEPT ![next] = o.choice]
        /\ o.path = <<>> <=> o.choice \in {"cancel", "error"}
  BY PrepareStep
<1>3. cl \in CommandLines /\ before \in Trees[cl.count] BY DEF Base, TypeOK, Plan
<1>4. Sound(disk) /\ IsDir(OutputDir, disk) BY <1>1 DEF Setup
<1>5. /\ Sound(o.tree)
      /\ \A q \in DOMAIN disk : \/ o.choice = "overwrite" /\ Under(o.path, q)
                                \/ q \in DOMAIN o.tree /\ o.tree[q] = disk[q]
      /\ o.path # <<>> /\ ~ForFile(next) =>
           /\ Exists(o.path, o.tree)
           /\ IsDir(o.path, o.tree) \/
                (o.choice = "merge" /\ Exists(o.path, before) /\ ~IsDir(o.path, before))
  BY <1>1, <1>3, <1>4, PreparedDisk
<1>6. CASE phase' = "error" BY <1>6 DEF Setup, TargetsReady
<1>7. CASE phase' = "prepare" /\ disk' = o.tree
  <2>1. ASSUME NEW q, q \notin DOMAIN o.tree \/ o.tree[q] # disk[q], q \in DOMAIN disk
        PROVE  Shaped(next, o.path) /\ Under(o.path, q) /\ o.choice = "overwrite"
    BY <1>2, <1>5, <2>1 DEF Refused
  <2>2. IsDir(OutputDir, o.tree)
    <3>1. CASE OutputDir \in DOMAIN o.tree /\ o.tree[OutputDir] = disk[OutputDir]
      BY <1>4, <3>1 DEF IsDir
    <3>2. CASE ~(OutputDir \in DOMAIN o.tree /\ o.tree[OutputDir] = disk[OutputDir])
      <4>1. OutputDir \in DOMAIN disk BY <1>4 DEF IsDir
      <4>2. Shaped(next, o.path) /\ ~ForFile(next) /\ o.path = OutputDir /\ o.choice = "overwrite"
        BY <1>3, <2>1, <3>2, <4>1, OnlyItself
      <4> QED BY <1>5, <4>2 DEF Shaped
    <3> QED BY <3>1, <3>2
  <2>3. ASSUME NEW i \in Inputs, target'[i] # <<>>
        PROVE  Exists(TargetDir(i)', o.tree) /\ (IsDir(TargetDir(i)', o.tree) \/ OntoFile(i)')
    <3>1. CASE i = next
      <4>1. target'[i] = o.path /\ choice'[i] = o.choice /\ Shaped(i, o.path)
        BY <1>1, <1>2, <2>3, <3>1 DEF Base, TypeOK, Refused
      <4>2. CASE ForFile(i)
        <5>1. TargetDir(i)' = OutputDir
          BY <1>1, <4>1, <4>2, Unchanging DEF TargetDir, Shaped
        <5> QED BY <5>1, <2>2 DEF IsDir, Exists
      <4>3. CASE ~ForFile(i)
        <5>1. TargetDir(i)' = o.path BY <1>1, <4>1, <4>3, Unchanging DEF TargetDir
        <5>2. OntoFile(i)' <=> /\ o.choice = "merge" /\ Exists(o.path, before)
                               /\ ~IsDir(o.path, before)
          BY <1>1, <4>1 DEF OntoFile, Exists, IsDir
        <5> QED BY <1>2, <1>5, <2>3, <3>1, <4>1, <4>3, <5>1, <5>2
      <4> QED BY <4>2, <4>3
    <3>2. CASE i # next
      <4>1. target'[i] = target[i] /\ choice'[i] = choice[i]
        BY <1>2, <3>2 DEF Base, TypeOK
      <4>2. TargetDir(i)' = TargetDir(i) /\ (OntoFile(i)' <=> OntoFile(i))
        BY <1>1, <4>1, Unchanging DEF TargetDir, OntoFile, Exists, IsDir
      <4>3. Exists(TargetDir(i), disk) /\ (IsDir(TargetDir(i), disk) \/ OntoFile(i))
        BY <1>1, <2>3, <4>1 DEF Setup
      <4>4. /\ Shaped(i, target[i])
            /\ TargetDir(i) = IF ForFile(i) THEN OutputDir ELSE target[i]
        BY <2>3, <4>1, DirFacts
      <4>5. CASE TargetDir(i) \in DOMAIN o.tree /\ o.tree[TargetDir(i)] = disk[TargetDir(i)]
        BY <4>2, <4>3, <4>5 DEF Exists, IsDir
      <4>6. CASE ~(TargetDir(i) \in DOMAIN o.tree /\ o.tree[TargetDir(i)] = disk[TargetDir(i)])
        <5>1. /\ Shaped(next, o.path) /\ Under(o.path, TargetDir(i))
              /\ o.choice = "overwrite"
          BY <2>1, <4>3, <4>6 DEF Exists
        <5>2. ~ForFile(next) /\ o.path = TargetDir(i) BY <1>3, <4>4, <5>1, OnlyItself
        <5>3. o.path # <<>> BY <5>1 DEF Shaped
        <5> QED BY <1>5, <4>2, <5>1, <5>2, <5>3
      <4> QED BY <4>5, <4>6
    <3> QED BY <3>1, <3>2
  <2>4. Sound(o.tree)' <=> Sound(o.tree) BY <1>1 DEF Sound, IsDir
  <2>5. OutputDir' = OutputDir /\ Inputs' = Inputs BY <1>1, Unchanging
  <2>6. Sound(disk)' BY <1>1, <1>5, <1>7 DEF Sound, IsDir
  <2> QED BY <1>7, <2>2, <2>3, <2>5, <2>6 DEF Setup, TargetsReady
<1> QED BY <1>2, <1>6, <1>7

\* Tasks leave the directories alone.
LEMMA TaskSetup == ASSUME Base, Setup, NEW i, TaskStep(i) PROVE Setup'
<1>1. /\ UNCHANGED <<cl, before, target, choice, phase>> /\ phase = "pool"
      /\ \A p : IsDir(p, disk') <=> IsDir(p, disk)
  BY TaskMoves, TaskKeepsDirs DEF TaskFrame
<1>2. \A j : TargetDir(j)' = TargetDir(j) BY <1>1, Unchanging DEF TargetDir
<1> QED BY <1>1, <1>2, Unchanging DEF Setup, TargetsReady, Exists

\* All is prepared when the pool starts.
LEMMA EnterPoolSetup == Base /\ Setup /\ EnterPool => Setup'
<1> SUFFICES ASSUME Base, Setup, EnterPool PROVE Setup' OBVIOUS
<1>1. /\ UNCHANGED <<cl, before, disk, target, choice>> /\ phase = "prepare" /\ phase' = "pool"
  BY DEF EnterPool, flags, plan
<1>2. \A j : TargetDir(j)' = TargetDir(j) BY <1>1, Unchanging DEF TargetDir
<1> QED BY <1>1, <1>2, Unchanging DEF Setup, TargetsReady, Exists, IsDir, OntoFile

\* Nothing is claimed once it has ended.
LEMMA LeavePoolSetup == LeavePool => Setup'
BY DEF LeavePool, Setup, TargetsReady

\* A step that changes nothing keeps it.
LEMMA StutterSetup == Setup /\ UNCHANGED vars => Setup'
<1> SUFFICES ASSUME Setup, UNCHANGED vars PROVE Setup' OBVIOUS
<1>1. UNCHANGED <<cl, before, disk, phase, target, choice>> BY DEF vars, flags, plan
<1> QED BY <1>1, Unchanging
        DEF Setup, TargetsReady, Sound, IsDir, Exists, TargetDir, OntoFile

\* Hence every step keeps it.
LEMMA NextSetup == Base /\ Setup /\ [Next]_vars => Setup'
BY CheckSetup, PrepareSetup, EnterPoolSetup, LeavePoolSetup, TaskSetup, StutterSetup
   DEF Next, MainStep, Exited

\* While tasks run, the directory of --dir and those of the tasks are there: no
\* later rename, merge or overwrite takes one away (decompress.rs:133).
THEOREM TargetsStayReady == Spec => []TargetsReady
<1>1. Setup => TargetsReady BY DEF Setup
<1> QED BY <1>1, InitSetup, NextSetup, BaseAlways, PTL DEF Spec

-----------------------------------------------------------------------------
(* Duplicates                                                              *)

\* An input that is given an earlier one's directory was asked.
LEMMA PrepareConflict ==
  ASSUME Base, Setup, DirectoriesConflict, Prepare
  PROVE  DirectoriesConflict'
<1>1. /\ phase = "prepare" /\ next \in Inputs
      /\ UNCHANGED <<cl, before, grants, pc, at>>
  BY PrepareStep
<1>2. PICK o \in Outcomes(next) :
        /\ target' = [target EXCEPT ![next] = o.path]
        /\ choice' = [choice EXCEPT ![next] = o.choice]
  BY PrepareStep
<1>3. cl \in CommandLines /\ before \in Trees[cl.count] BY DEF Base, TypeOK, Plan
<1>4. SUFFICES ASSUME NEW i \in Inputs, NEW j \in Inputs, i < j, target'[i] # <<>>,
                      target'[i] = target'[j], target'[j] # Cwd, ~ForFile(i), ~ForFile(j)
               PROVE  choice'[j] \in {"merge", "overwrite"}
  BY <1>1, Unchanging DEF DirectoriesConflict, SameTarget, Agreed
<1>5. i \in Nat /\ j \in Nat /\ next \in Nat BY <1>1 DEF Inputs
<1>6. CASE j # next
  <2>1. target[i] = target'[i] /\ target[j] = target'[j] /\ choice'[j] = choice[j]
    <3>1. target[j] = target'[j] /\ choice'[j] = choice[j]
      BY <1>2, <1>6 DEF Base, TypeOK
    <3>2. j < next BY <1>4, <1>5, <3>1 DEF Base, Plan
    <3> QED BY <1>2, <1>4, <1>5, <3>1, <3>2 DEF Base, TypeOK
  <2> QED BY <1>4, <2>1 DEF DirectoriesConflict, SameTarget, Agreed
<1>7. CASE j = next
  <2>1. /\ target[i] = o.path /\ o.path # <<>> /\ o.path # Cwd
        /\ choice'[j] = o.choice
    BY <1>1, <1>2, <1>4, <1>5, <1>7 DEF Base, TypeOK
  <2>2. o.path \in claimed BY <2>1 DEF Base, TypeOK
  <2>3. Exists(o.path, disk) BY <1>1, <1>4, <2>1, DirFacts DEF Setup
  <2>4. \/ Unasked(j, o) \/ Overwriting(j, o) \/ Renaming(j, o) \/ Merging(j, o)
    BY <1>2, <1>3, <1>7, <2>1, OutcomeCases DEF Refused
  <2>5. ~Unasked(j, o) BY <2>1, <2>2, <2>3 DEF Unasked
  <2>6. ~Renaming(j, o) BY <1>3, <2>3, RenameShaped DEF Renaming
  <2> QED BY <2>1, <2>4, <2>5, <2>6 DEF Overwriting, Merging
<1> QED BY <1>6, <1>7

\* Only preparing gives out directories.
LEMMA NextConflict ==
  ASSUME Base, Setup, DirectoriesConflict, [Next]_vars
  PROVE  DirectoriesConflict'
<1>1. CASE UNCHANGED <<cl, target, choice>>
  BY <1>1, Unchanging DEF DirectoriesConflict, SameTarget, Agreed
<1>2. CASE Prepare BY <1>2, PrepareConflict
<1>3. CASE Check \/ EnterPool \/ LeavePool \/ Exited \/ UNCHANGED vars
  BY <1>1, <1>3 DEF Check, EnterPool, LeavePool, Exited, vars, flags, plan
<1>4. ASSUME NEW i, TaskStep(i) PROVE DirectoriesConflict'
  BY <1>1, <1>4, TaskMoves DEF TaskFrame
<1> QED BY <1>2, <1>3, <1>4 DEF Next, MainStep

\* Duplicate directories conflict instead of silently merging: two inputs have one
\* directory, which is not the current one, only where that was agreed to
\* (claimed_targets, commands/mod.rs:240).
THEOREM DirectoriesNeverShared == Spec => []DirectoriesConflict
<1>1. Init => DirectoriesConflict
  BY DEF Init, DirectoriesConflict, SameTarget
<1> QED BY <1>1, InitSetup, NextSetup, NextConflict, BaseAlways, PTL DEF Spec

-----------------------------------------------------------------------------
(* The files the tasks write                                               *)

\* The files the task of input i writes if its target is t.
Files(i, t) ==
  CASE i \in cl.archives -> [k \in DOMAIN Members[i] |-> Append(t, Members[i][k])]
    [] i \notin cl.archives /\ cl.mode = "default" -> <<Append(t, Leaf[i])>>
    [] OTHER -> <<t>>

\* They are strictly beneath the task's directory, and beneath its target.
LEMMA FilesPlaced ==
  ASSUME cl \in CommandLines, before \in Trees[cl.count],
         NEW i \in Inputs, NEW t, Shaped(i, t), NEW k \in DOMAIN Files(i, t)
  PROVE  /\ Files(i, t)[k] \in Path /\ t \in Path /\ t # <<>>
         /\ Under(t, Files(i, t)[k])
         /\ IF ForFile(i)
            THEN /\ Files(i, t)[k] = t
                 /\ Under(OutputDir, t) /\ OutputDir # t /\ OutputDir \in Path
            ELSE t # Files(i, t)[k]
<1>1. t \in Path /\ t # <<>> BY DEF Shaped
<1>2. CASE ForFile(i)
  <2>1. Files(i, t) = <<t>> BY <1>2 DEF Files, ForFile
  <2>2. Files(i, t)[k] = t BY <2>1
  <2>3. Parent(t) = OutputDir BY <1>2 DEF Shaped
  <2> QED BY <1>1, <1>2, <2>2, <2>3, UnderReflexive, ParentPath DEF Path
<1>3. CASE ~ForFile(i)
  <2>1. Leaf[i] \in Component /\ Members[i] \in Seq(Component) BY CommandFacts
  <2>2. \E c \in Component : Files(i, t)[k] = Append(t, c)
    <3>1. CASE i \in cl.archives
      <4>1. Files(i, t) = [m \in DOMAIN Members[i] |-> Append(t, Members[i][m])]
        BY <3>1 DEF Files
      <4>2. k \in DOMAIN Members[i] BY <4>1
      <4>3. Members[i][k] \in Component BY <2>1, <4>2
      <4> QED BY <4>1, <4>2, <4>3
    <3>2. CASE i \notin cl.archives
      <4>1. Files(i, t) = <<Append(t, Leaf[i])>> BY <1>3, <3>2 DEF Files, ForFile
      <4> QED BY <2>1, <4>1
    <3> QED BY <3>1, <3>2
  <2> QED BY <1>1, <1>3, <2>2, AppendPath
<1> QED BY <1>2, <1>3

\* The same of the outputs of an input that has a target.
LEMMA OutputsPlaced ==
  ASSUME Base, NEW i \in Inputs, target[i] # <<>>, NEW k \in DOMAIN Outputs(i)
  PROVE  /\ Outputs(i)[k] \in Path /\ target[i] \in Path /\ TargetDir(i) \in Path
         /\ Under(target[i], Outputs(i)[k])
         /\ Under(TargetDir(i), Outputs(i)[k]) /\ TargetDir(i) # Outputs(i)[k]
<1>1. /\ Shaped(i, target[i])
      /\ TargetDir(i) = IF ForFile(i) THEN OutputDir ELSE target[i]
  BY DirFacts
<1>2. cl \in CommandLines /\ before \in Trees[cl.count] BY DEF Base, TypeOK, Plan
<1>3. Outputs(i) = Files(i, target[i]) BY DEF Outputs, Files
<1>4. CASE ForFile(i) BY <1>1, <1>2, <1>3, <1>4, FilesPlaced
<1>5. CASE ~ForFile(i) BY <1>1, <1>2, <1>3, <1>5, FilesPlaced
<1> QED BY <1>4, <1>5

-----------------------------------------------------------------------------
(* The sandbox                                                             *)

\* What the rules are while tasks run: every directory that is written, and every
\* input that is there, also one that a task has put there meanwhile.
Granted ==
  phase = "pool" /\ cl.sandbox =>
    /\ \A i \in Inputs : target[i] # <<>> => TargetDir(i) \in grants.write
    /\ \A i \in Inputs : Exists(Source[i], disk) =>
         MayRead(Source[i]) /\ (cl.remove => MayRemove(Source[i]))

\* The rules made before the pool starts are enough then,
LEMMA EnterPoolGranted ==
  ASSUME Base, Setup, EnterPool
  PROVE  Granted'
<1>1. /\ UNCHANGED <<cl, disk, target>> /\ phase = "prepare" /\ phase' = "pool"
  BY DEF EnterPool, flags, plan
<1>2. SUFFICES ASSUME cl.sandbox PROVE Granted' BY <1>1 DEF Granted
<1>3. /\ grants'.read = Policy.read \cap DOMAIN disk
      /\ grants'.write = Policy.write \cap DOMAIN disk
      /\ grants'.remove = Policy.remove \cap DOMAIN disk
  BY <1>2 DEF EnterPool, NoGrants
<1>4. ASSUME NEW i \in Inputs, target[i] # <<>> PROVE TargetDir(i) \in grants'.write
  BY <1>1, <1>3, <1>4 DEF Setup, Exists, Policy
<1>5. ASSUME NEW i \in Inputs, Exists(Source[i], disk)
      PROVE  /\ Beneath(grants'.read \cup grants'.write, Source[i])
             /\ cl.remove => Beneath(grants'.write \cup grants'.remove, Parent(Source[i]))
  <2>1. Source[i] \in Path /\ Len(Source[i]) > 1 /\ Len(Source[i]) \in Nat
    BY CommandFacts DEF Base, TypeOK, Plan, Path
  <2>2. Source[i] \in grants'.read BY <1>3, <1>5 DEF Policy, Exists
  <2>3. Parent(Source[i]) \in Path BY <2>1, ParentPath
  <2>4. Len(Source[i]) - 1 \in 1..Len(Source[i]) BY <2>1
  <2>5. Parent(Source[i]) \in DOMAIN disk
    BY <1>1, <1>5, <2>4 DEF Setup, Sound, Exists, Parent
  <2>6. cl.remove => Parent(Source[i]) \in grants'.remove BY <1>3, <2>5 DEF Policy
  <2> QED BY <2>1, <2>2, <2>3, <2>6, UnderReflexive DEF Beneath
<1>6. \A i : TargetDir(i)' = TargetDir(i) BY <1>1, Unchanging DEF TargetDir
<1> QED BY <1>1, <1>4, <1>5, <1>6, Unchanging DEF Granted, MayRead, MayRemove, Exists, Beneath

\* Beneath a directory that may be written everything may be read, written and
\* removed.
LEMMA BeneathTarget ==
  ASSUME NEW W, NEW R, NEW d \in W, NEW p \in Path, d \in Path, Under(d, p), d # p
  PROVE  Beneath(R \cup W, p) /\ Beneath(W, p) /\ Beneath(W \cup R, Parent(p))
<1>1. Len(d) \in Nat /\ Len(p) \in Nat /\ Len(d) < Len(p)
  <2>1. Len(d) # Len(p) BY UnderSameLength
  <2> QED BY <2>1 DEF Under, Path
<1>2. p # <<>> BY <1>1
<1>3. /\ Len(Parent(p)) = Len(p) - 1
      /\ \A k \in 1..(Len(p) - 1) : Parent(p)[k] = p[k]
  <2>1. Len(p) - 1 \in 0..Len(p) BY <1>1
  <2> QED BY <2>1, PrefixPath DEF Parent
<1>4. Under(d, Parent(p)) BY <1>1, <1>3 DEF Under
<1> QED BY <1>4 DEF Beneath

\* and stay so: what a task creates is beneath a directory that may be written.
LEMMA TaskGranted ==
  ASSUME Base, Granted, NEW i, TaskStep(i)
  PROVE  Granted'
<1>1. /\ UNCHANGED <<cl, target, grants, phase>> /\ phase = "pool" /\ i \in Inputs
  BY TaskMoves DEF TaskFrame
<1>2. SUFFICES ASSUME cl.sandbox PROVE Granted' BY <1>1 DEF Granted
<1>3. ASSUME NEW j \in Inputs, Exists(Source[j], disk'), ~Exists(Source[j], disk)
      PROVE  MayRead(Source[j]) /\ MayRemove(Source[j])
  <2>1. Create(i) /\ target[i] # <<>> /\ \E k \in DOMAIN Outputs(i) : Source[j] = Outputs(i)[k]
    <3>1. CASE Start(i) BY <1>3, <3>1 DEF Start
    <3>2. CASE Open(i) BY <1>3, <3>2 DEF Open
    <3>3. CASE Create(i)
      <4>1. /\ target[i] # <<>> /\ at[i] # 0 /\ at[i] \in Nat
            /\ at[i] <= Len(Outputs(i))
        BY <1>1, <3>3 DEF Create, Base, TypeOK, Places
      <4>0. at[i] \in DOMAIN Outputs(i) BY <1>1, <4>1, OutputsCounted
      <4>2. disk' = Put(Outputs(i)[at[i]], File({}), disk) BY <1>3, <3>3 DEF Create
      <4>3. Source[j] = Outputs(i)[at[i]] BY <1>3, <4>2 DEF Exists, Put
      <4> QED BY <3>3, <4>0, <4>1, <4>3
    <3>4. CASE Copy(i) BY <1>3, <3>4 DEF Copy, Exists
    <3>5. CASE Finish(i) BY <1>3, <3>5 DEF Finish, Exists, FileRemoved
    <3> QED BY <3>1, <3>2, <3>3, <3>4, <3>5 DEF TaskStep
  <2>2. PICK k \in DOMAIN Outputs(i) : Source[j] = Outputs(i)[k] BY <2>1
  <2>3. /\ Source[j] \in Path /\ TargetDir(i) \in Path
        /\ Under(TargetDir(i), Source[j]) /\ TargetDir(i) # Source[j]
    BY <1>1, <2>1, <2>2, OutputsPlaced
  <2>4. TargetDir(i) \in grants.write BY <1>1, <1>2, <2>1 DEF Granted
  <2> QED BY <2>3, <2>4, BeneathTarget DEF MayRead, MayRemove
<1>4. \A j : TargetDir(j)' = TargetDir(j) BY <1>1, Unchanging DEF TargetDir
<1>5. \A p : (MayRead(p)' <=> MayRead(p)) /\ (MayRemove(p)' <=> MayRemove(p))
  BY <1>1 DEF MayRead, MayRemove, Beneath
<1>6. \A j \in Inputs : Exists(Source[j], disk') =>
        MayRead(Source[j]) /\ (cl.remove => MayRemove(Source[j]))
  BY <1>1, <1>2, <1>3 DEF Granted
<1>7. Inputs' = Inputs BY <1>1, Unchanging
<1> QED BY <1>1, <1>2, <1>4, <1>5, <1>6, <1>7 DEF Granted

\* Hence every step keeps it.
LEMMA NextGranted == Base /\ Setup /\ Granted /\ [Next]_vars => Granted'
<1> SUFFICES ASSUME Base, Setup, Granted, [Next]_vars PROVE Granted' OBVIOUS
<1>1. CASE Check \/ Prepare \/ LeavePool
  <2>1. phase' # "pool" BY <1>1 DEF Check, Prepare, LeavePool, AfterChecks
  <2> QED BY <2>1 DEF Granted
<1>2. CASE Exited \/ UNCHANGED vars
  <2>1. UNCHANGED <<cl, disk, phase, target, grants>>
    BY <1>2 DEF Exited, vars, flags, plan
  <2>2. \A j : TargetDir(j)' = TargetDir(j) BY <2>1, Unchanging DEF TargetDir
  <2>3. \A p : (MayRead(p)' <=> MayRead(p)) /\ (MayRemove(p)' <=> MayRemove(p))
    BY <2>1 DEF MayRead, MayRemove, Beneath
  <2> QED BY <2>1, <2>2, <2>3, Unchanging DEF Granted, Exists
<1> QED BY <1>1, <1>2, EnterPoolGranted, TaskGranted DEF Next, MainStep

\* The rules given before the tasks run let each of them do all it has to do,
\* whatever was renamed, merged, overwritten or cancelled before
\* (commands/mod.rs:239).
THEOREM SandboxNeverInTheWay == Spec => []SandboxPermits
<1>1. Init => Granted BY DEF Init, Granted
<1>2. Base /\ Granted => SandboxPermits
  <2> SUFFICES ASSUME Base, Granted, phase = "pool", NEW i \in Inputs, target[i] # <<>>
               PROVE  /\ Exists(Source[i], disk) =>
                           MayRead(Source[i]) /\ (cl.remove => MayRemove(Source[i]))
                      /\ \A k \in DOMAIN Outputs(i) : MayWrite(Outputs(i)[k])
    BY DEF SandboxPermits
  <2>1. CASE ~cl.sandbox BY <2>1 DEF MayRead, MayRemove, MayWrite
  <2>2. CASE cl.sandbox
    <3>1. TargetDir(i) \in grants.write BY <2>2 DEF Granted
    <3>2. \A k \in DOMAIN Outputs(i) : MayWrite(Outputs(i)[k])
      BY <3>1, OutputsPlaced DEF MayWrite, Beneath
    <3> QED BY <2>2, <3>2 DEF Granted
  <2>3. cl.sandbox \in BOOLEAN BY CommandFacts DEF Base, TypeOK, Plan
  <2> QED BY <2>1, <2>2, <2>3
<1> QED BY <1>1, <1>2, NextGranted, InitSetup, NextSetup, BaseAlways, PTL DEF Spec

-----------------------------------------------------------------------------
(* What was there before the run                                           *)

\* Given up: somebody agreed, or an archive unpacks it into the current directory.
GivenUp(p) ==
  \/ \E i \in Inputs : target[i] # <<>> /\ Agreed(i) /\ Under(target[i], p)
  \/ \E i \in cl.archives : target[i] = Cwd /\ \E k \in DOMAIN Outputs(i) : Outputs(i)[k] = p

\* Whatever a task will write was not there before or is given up.
OutputsFree ==
  \A i \in Inputs : target[i] # <<>> =>
    \A k \in DOMAIN Outputs(i) : Outputs(i)[k] \in DOMAIN before => GivenUp(Outputs(i)[k])

Survival == PriorDataSurvives /\ OutputsFree

\* What is above something on the disk is on the disk.
LEMMA AboveThere ==
  ASSUME NEW p, p \in DOMAIN disk, Sound(disk), NEW q \in Path, q # <<>>, Under(q, p)
  PROVE  q \in DOMAIN disk
<1>1. p \in Path /\ Len(q) \in 0..Len(p) /\ Len(q) \in 1..Len(p)
  <2>1. p \in Path /\ Len(q) <= Len(p) BY DEF Sound, Under
  <2> QED BY <2>1 DEF Path
<1>2. SubSeq(p, 1, Len(q)) = q
  <2>1. /\ SubSeq(p, 1, Len(q)) \in Path /\ Len(SubSeq(p, 1, Len(q))) = Len(q)
        /\ \A k \in 1..Len(q) : SubSeq(p, 1, Len(q))[k] = p[k]
    BY <1>1, PrefixPath
  <2>2. \A k \in 1..Len(q) : q[k] = p[k] BY DEF Under
  <2> QED BY <2>1, <2>2, SamePath
<1> QED BY <1>1, <1>2 DEF Sound

\* Only an archive takes the current directory.
LEMMA CwdRequested ==
  ASSUME cl \in CommandLines, before \in Trees[cl.count], NEW i \in Inputs,
         ~ForFile(i), Requested(i) = Cwd
  PROVE  i \in cl.archives
<1>1. CASE cl.mode = "default"
  <2>1. Requested(i) = Append(Cwd, Stem[i]) /\ Stem[i] \in Component /\ Cwd \in Path
    BY <1>1, CommandFacts, DecompressAssumption DEF ForFile, Requested, OutputDir
  <2> QED BY <2>1, AppendPath
<1>2. CASE cl.mode # "default" BY <1>2 DEF ForFile
<1> QED BY <1>1, <1>2

\* Preparing an input changes nothing nobody gave up, and promises no more.
LEMMA PrepareSurvival ==
  ASSUME Base, Setup, Survival, Prepare
  PROVE  Survival'
<1>1. /\ phase = "prepare" /\ next \in Inputs
      /\ UNCHANGED <<cl, before, grants, pc, at>>
  BY PrepareStep
<1>2. PICK o \in Outcomes(next) :
        /\ Refused(o) \/ Shaped(next, o.path)
        /\ \/ phase' = "prepare" /\ o.choice # "error" /\ disk' = o.tree
           \/ phase' = "error" /\ UNCHANGED disk
        /\ target' = [target EXCEPT ![next] = o.path]
        /\ choice' = [choice EXCEPT ![next] = o.choice]
        /\ o.path = <<>> <=> o.choice \in {"cancel", "error"}
  BY PrepareStep
<1>3. cl \in CommandLines /\ before \in Trees[cl.count] BY DEF Base, TypeOK, Plan
<1>4. Sound(disk) /\ IsDir(OutputDir, disk) BY <1>1 DEF Setup
<1>5. /\ target[next] = <<>> /\ target'[next] = o.path /\ choice'[next] = o.choice
      /\ \A i \in Inputs \ {next} : target'[i] = target[i] /\ choice'[i] = choice[i]
      /\ cl.archives \subseteq Inputs /\ Cwd # <<>> /\ next \in Nat
  BY <1>1, <1>2, <1>3, CommandFacts, DecompressAssumption DEF Base, TypeOK, Plan, Inputs
<1>6. \A i : Outputs(i)' = Files(i, target'[i]) /\ Outputs(i) = Files(i, target[i])
  BY <1>1 DEF Outputs, Files
<1>7. ASSUME NEW p, GivenUp(p) PROVE GivenUp(p)'
  <2>1. CASE \E i \in Inputs : target[i] # <<>> /\ Agreed(i) /\ Under(target[i], p)
    BY <1>1, <1>5, <2>1, Unchanging DEF GivenUp, Agreed
  <2>2. CASE \E i \in cl.archives :
               target[i] = Cwd /\ \E k \in DOMAIN Outputs(i) : Outputs(i)[k] = p
    <3>1. PICK i \in cl.archives :
                 target[i] = Cwd /\ \E k \in DOMAIN Outputs(i) : Outputs(i)[k] = p
      BY <2>2
    <3>2. i \in cl'.archives /\ target'[i] = Cwd /\ Outputs(i)' = Outputs(i)
      BY <1>1, <1>5, <1>6, <3>1
    <3> QED BY <3>1, <3>2 DEF GivenUp
  <2> QED BY <1>7, <2>1, <2>2 DEF GivenUp
<1>8. ASSUME NEW p, o.choice \in {"merge", "overwrite"}, o.path # <<>>, Under(o.path, p) PROVE GivenUp(p)'
  BY <1>1, <1>5, <1>8, Unchanging DEF GivenUp, Agreed
<1>9. \A p \in DOMAIN before : GivenUp(p) \/ (Exists(p, disk) /\ disk[p] = before[p])
  BY <1>1 DEF Survival, PriorDataSurvives, GivenUp, Base, Places
<1>10. PriorDataSurvives'
  <2>1. ASSUME NEW p \in DOMAIN before, ~GivenUp(p)'
        PROVE  Exists(p, disk') /\ disk'[p] = before[p]
    <3>1. Exists(p, disk) /\ disk[p] = before[p] BY <1>7, <1>9, <2>1
    <3>2. \A q \in DOMAIN disk : \/ o.choice = "overwrite" /\ Under(o.path, q)
                                 \/ q \in DOMAIN o.tree /\ o.tree[q] = disk[q]
      BY <1>1, <1>3, <1>4, PreparedDisk
    <3>3. ~(o.choice = "overwrite" /\ Under(o.path, p))
      BY <1>2, <1>8, <2>1
    <3> QED BY <1>2, <3>1, <3>2, <3>3 DEF Exists
  <2> QED BY <1>1, <2>1 DEF PriorDataSurvives, GivenUp, Exists
<1>11. OutputsFree'
  <2>1. SUFFICES ASSUME NEW i \in Inputs, target'[i] # <<>>, NEW p \in DOMAIN before,
                        NEW k \in DOMAIN Files(i, target'[i]), p = Files(i, target'[i])[k]
                 PROVE  GivenUp(p)'
    BY <1>1, <1>6, Unchanging DEF OutputsFree
  <2>2. CASE i # next
    <3>1. target'[i] = target[i] /\ target[i] # <<>> BY <1>5, <2>1, <2>2
    <3>2. GivenUp(p) BY <1>6, <2>1, <3>1 DEF Survival, OutputsFree
    <3> QED BY <1>7, <3>2
  <2>3. CASE i = next
    <3>1. p = Files(i, o.path)[k] /\ k \in DOMAIN Files(i, o.path) /\ o.path # <<>>
      BY <1>5, <2>1, <2>3
    <3>2. Shaped(i, o.path) BY <1>2, <2>3, <3>1 DEF Refused
    <3>3. /\ Under(o.path, p) /\ o.path \in Path
          /\ ~ForFile(i) => o.path # p
      BY <1>3, <3>1, <3>2, FilesPlaced
    <3>4. \/ Unasked(i, o) \/ Overwriting(i, o) \/ Renaming(i, o) \/ Merging(i, o)
      BY <1>3, <2>3, <3>1, OutcomeCases DEF Refused
    <3>5. CASE GivenUp(p) BY <1>7, <3>1, <3>5
    <3>6. CASE o.choice \in {"merge", "overwrite"} BY <1>8, <3>1, <3>3, <3>6
    <3>7. CASE p \in DOMAIN disk /\ o.choice \notin {"merge", "overwrite"}
      <4>1. Exists(o.path, disk) BY <1>4, <3>1, <3>3, <3>7, AboveThere DEF Exists
      <4>2. ~Renaming(i, o) BY <1>3, <4>1, RenameShaped DEF Renaming
      <4>3. Unasked(i, o)
        BY <3>4, <3>7, <4>2 DEF Overwriting, Merging
      <4>4. ~ForFile(i) /\ o.path = Cwd
        BY <3>3, <3>7, <4>1, <4>3 DEF Unasked, IsEmptyDir
      <4>5. i \in cl.archives BY <1>3, <4>3, <4>4, CwdRequested DEF Unasked
      <4>6. target'[i] = Cwd /\ cl' = cl BY <1>1, <1>5, <2>3, <4>4
      <4> QED BY <1>6, <2>1, <3>1, <4>5, <4>6 DEF GivenUp
    <3> QED BY <1>9, <2>1, <3>1, <3>5, <3>6, <3>7 DEF Exists
  <2> QED BY <2>2, <2>3
<1> QED BY <1>10, <1>11 DEF Survival

\* All a task does to what is on the disk: it writes its outputs and, once it is
\* done, removes its input.
LEMMA TaskWrites ==
  ASSUME Base, NEW i, TaskStep(i), NEW q \in DOMAIN disk
  PROVE  \/ q \in DOMAIN disk' /\ disk'[q] = disk[q]
         \/ q = Source[i] /\ cl.remove /\ pc'[i] = "done"
         \/ target[i] # <<>> /\ \E k \in DOMAIN Outputs(i) : q = Outputs(i)[k]
<1>1. i \in Inputs BY DEF TaskStep
<1>2. CASE Start(i) BY <1>2 DEF Start
<1>3. CASE Open(i) BY <1>3 DEF Open
<1>4. CASE Create(i)
  <2>1. /\ target[i] # <<>> /\ at[i] # 0 /\ at[i] \in Nat
        /\ at[i] <= Len(Outputs(i))
    BY <1>1, <1>4 DEF Create, Base, TypeOK, Places
  <2>2. at[i] \in DOMAIN Outputs(i) BY <1>1, <2>1, OutputsCounted
  <2>3. disk' = disk \/ disk' = Put(Outputs(i)[at[i]], File({}), disk) BY <1>4 DEF Create
  <2> QED BY <2>1, <2>2, <2>3 DEF Put
<1>5. CASE Copy(i)
  <2>1. target[i] # <<>> /\ at[i] \in DOMAIN Outputs(i) BY <1>1, <1>5 DEF Copy, Base, Places
  <2>2. \/ disk' = disk
        \/ disk' = [disk EXCEPT ![Outputs(i)[at[i]]].data = @ \cup {i}]
    BY <1>5 DEF Copy
  <2> QED BY <2>1, <2>2
<1>6. CASE Finish(i)
  <2>1. \/ disk' = disk
        \/ cl.remove /\ disk' = FileRemoved(Source[i], disk) /\ Goto(i, "done")
    BY <1>6 DEF Finish
  <2>2. Goto(i, "done") => pc'[i] = "done" BY <1>1 DEF Goto, Base, TypeOK
  <2> QED BY <2>1, <2>2 DEF FileRemoved
<1> QED BY <1>2, <1>3, <1>4, <1>5, <1>6 DEF TaskStep

\* A task that is done stays so.
LEMMA DoneStays ==
  ASSUME Base, NEW i, TaskStep(i), NEW j \in Inputs, pc[j] = "done"
  PROVE  pc'[j] = "done"
<1>1. CASE j # i BY <1>1, TaskMoves DEF TaskFrame
<1>2. CASE j = i BY <1>2 DEF TaskStep, Start, Open, Create, Copy, Finish
<1> QED BY <1>1, <1>2

\* Tasks change what is given up alone.
LEMMA TaskSurvival ==
  ASSUME Base, Survival, NEW i, TaskStep(i)
  PROVE  Survival'
<1>1. UNCHANGED <<cl, before, target, choice>> /\ i \in Inputs
  BY TaskMoves DEF TaskFrame
<1>2. \A p : GivenUp(p)' <=> GivenUp(p)
  BY <1>1, Unchanging, OutputsUnchanging DEF GivenUp, Agreed
<1>3. OutputsFree'
  BY <1>1, <1>2, Unchanging, OutputsUnchanging DEF Survival, OutputsFree
<1>4. ASSUME NEW p \in DOMAIN before, ~GivenUp(p)
      PROVE  \/ Exists(p, disk') /\ disk'[p] = before[p]
             \/ \E j \in Inputs : cl.remove /\ Source[j] = p /\ pc'[j] = "done"
  <2>1. \/ Exists(p, disk) /\ disk[p] = before[p]
        \/ \E j \in Inputs : cl.remove /\ Source[j] = p /\ pc[j] = "done"
    BY <1>4 DEF Survival, PriorDataSurvives, GivenUp
  <2>2. ~(target[i] # <<>> /\ \E k \in DOMAIN Outputs(i) : p = Outputs(i)[k])
    BY <1>1, <1>4 DEF Survival, OutputsFree
  <2>3. CASE Exists(p, disk) /\ disk[p] = before[p]
    BY <1>1, <2>2, <2>3, TaskWrites DEF Exists
  <2>4. CASE \E j \in Inputs : cl.remove /\ Source[j] = p /\ pc[j] = "done"
    BY <2>4, DoneStays
  <2> QED BY <2>1, <2>3, <2>4
<1>5. PriorDataSurvives'
  <2> SUFFICES ASSUME NEW p \in DOMAIN before, ~GivenUp(p)
               PROVE  \/ Exists(p, disk') /\ disk'[p] = before[p]
                      \/ \E j \in Inputs : cl.remove /\ Source[j] = p /\ pc'[j] = "done"
    BY <1>1, <1>2, Unchanging, OutputsUnchanging DEF PriorDataSurvives, GivenUp, Exists, Agreed
  <2> QED BY <1>4
<1> QED BY <1>3, <1>5 DEF Survival

\* Nothing is lost at first.
LEMMA InitSurvival == Init => Survival
<1> SUFFICES ASSUME Init PROVE Survival OBVIOUS
<1>1. PriorDataSurvives BY DEF Init, PriorDataSurvives, Exists
<1>2. OutputsFree BY DEF Init, OutputsFree
<1> QED BY <1>1, <1>2 DEF Survival

\* Hence every step keeps it.
LEMMA NextSurvival == Base /\ Setup /\ Survival /\ [Next]_vars => Survival'
<1> SUFFICES ASSUME Base, Setup, Survival, [Next]_vars PROVE Survival' OBVIOUS
<1>1. CASE /\ UNCHANGED <<cl, before, target, choice, pc>>
           /\ \A p \in DOMAIN disk : p \in DOMAIN disk' /\ disk'[p] = disk[p]
  <2>1. \A p : GivenUp(p)' <=> GivenUp(p)
    BY <1>1, Unchanging, OutputsUnchanging DEF GivenUp, Agreed
  <2>2. OutputsFree'
    BY <1>1, <2>1, Unchanging, OutputsUnchanging DEF Survival, OutputsFree
  <2>3. PriorDataSurvives'
    BY <1>1, Unchanging, OutputsUnchanging
       DEF Survival, PriorDataSurvives, Exists, Agreed
  <2> QED BY <2>2, <2>3 DEF Survival
<1>2. CASE Check
  <2>1. UNCHANGED <<cl, before, target, choice, pc>> BY <1>2 DEF Check, flags, plan
  <2>2. \/ disk' = disk
        \/ ~Exists(OutputDir, disk) /\ disk' = Put(OutputDir, Dir, disk)
    BY <1>2 DEF Check
  <2>3. \A p \in DOMAIN disk : p \in DOMAIN disk' /\ disk'[p] = disk[p]
    BY <2>2 DEF Exists, Put
  <2> QED BY <1>1, <2>1, <2>3
<1>3. CASE EnterPool \/ LeavePool \/ Exited \/ UNCHANGED vars
  BY <1>1, <1>3 DEF EnterPool, LeavePool, Exited, vars, flags, plan
<1> QED BY <1>2, <1>3, PrepareSurvival, TaskSurvival DEF Next, MainStep

\* What was on the disk before the run is changed only where the user or --yes
\* agreed to it, where an archive unpacks into the current directory, or when
\* --remove removes the input of a task that is done.
THEOREM PriorDataSafe == Spec => []PriorDataSurvives
<1>1. Survival => PriorDataSurvives BY DEF Survival
<1> QED BY <1>1, InitSurvival, NextSurvival, InitSetup, NextSetup, BaseAlways, PTL DEF Spec

-----------------------------------------------------------------------------
(* What the tasks wrote                                                    *)

Holds(p, S) == p \in DOMAIN disk /\ disk[p] = File(S)

\* An undisturbed task has written the outputs it has left behind, and has
\* created the one it is at.
Written ==
  /\ \A i \in Inputs : pc[i] \in {"queued", "open"} => at[i] = 1
  /\ \A i \in Inputs : target[i] # <<>> /\ ~Disturbed(i) =>
       \A k \in DOMAIN Outputs(i) :
         /\ pc[i] = "create" /\ k < at[i] => Holds(Outputs(i)[k], {i})
         /\ pc[i] = "copy" /\ Outputs(i)[k] = Outputs(i)[at[i]] => Holds(Outputs(i)[k], {})
         /\ pc[i] = "copy" /\ k < at[i] /\ Outputs(i)[k] # Outputs(i)[at[i]] =>
              Holds(Outputs(i)[k], {i})
         /\ pc[i] = "done" => Holds(Outputs(i)[k], {i})

\* No other task touches the outputs of an undisturbed one.
LEMMA NobodyElse ==
  ASSUME Base, NEW i, TaskStep(i), NEW j \in Inputs \ {i}, target[j] # <<>>, ~Disturbed(j),
         NEW k \in DOMAIN Outputs(j), Outputs(j)[k] \in DOMAIN disk
  PROVE  Outputs(j)[k] \in DOMAIN disk' /\ disk'[Outputs(j)[k]] = disk[Outputs(j)[k]]
<1>1. i \in Inputs BY DEF TaskStep
<1>2. Outputs(j)[k] # Source[i] BY <1>1 DEF Disturbed
<1>3. ASSUME target[i] # <<>>, NEW m \in DOMAIN Outputs(i), Outputs(j)[k] = Outputs(i)[m]
      PROVE  FALSE
  <2>1. /\ Outputs(j)[k] \in Path /\ target[j] \in Path /\ Under(target[j], Outputs(j)[k])
        /\ target[i] \in Path /\ Under(target[i], Outputs(j)[k])
    BY <1>1, <1>3, OutputsPlaced
  <2>2. Under(target[i], target[j]) \/ Under(target[j], target[i])
    BY <2>1, UnderComparable
  <2> QED BY <1>1, <1>3, <2>2 DEF Disturbed
<1> QED BY <1>2, <1>3, TaskWrites

\* Whatever step a task takes, the undisturbed ones keep what they wrote.
LEMMA TaskWritten ==
  ASSUME Base, Written, NEW i, TaskStep(i)
  PROVE  Written'
<1>1. UNCHANGED <<cl, target>> /\ i \in Inputs
      /\ \A j \in Inputs \ {i} : pc'[j] = pc[j] /\ at'[j] = at[j]
  BY TaskMoves DEF TaskFrame
<1>2. \A j : (Disturbed(j)' <=> Disturbed(j)) /\ Outputs(j)' = Outputs(j)
  BY <1>1, Unchanging, OutputsUnchanging DEF Disturbed
<1>3. at[i] \in Nat /\ DOMAIN pc = Inputs /\ DOMAIN at = Inputs BY <1>1 DEF Base, TypeOK
<1>4. \A j \in Inputs : pc'[j] \in {"queued", "open"} => at'[j] = 1
  <2>1. pc'[i] \in {"queued", "open"} => at'[i] = 1
    BY <1>1, <1>3 DEF TaskStep, Start, Open, Create, Copy, Finish, Goto, Written
  <2> QED BY <1>1, <2>1 DEF Written
<1>5. ASSUME NEW j \in Inputs, target[j] # <<>>, ~Disturbed(j), NEW k \in DOMAIN Outputs(j)
      PROVE  LET p == Outputs(j)[k]
                 q == Outputs(j)[at'[j]]
             IN  /\ pc'[j] = "create" /\ k < at'[j] => p \in DOMAIN disk' /\ disk'[p] = File({j})
                 /\ pc'[j] = "copy" /\ p = q => p \in DOMAIN disk' /\ disk'[p] = File({})
                 /\ pc'[j] = "copy" /\ k < at'[j] /\ p # q =>
                      p \in DOMAIN disk' /\ disk'[p] = File({j})
                 /\ pc'[j] = "done" => p \in DOMAIN disk' /\ disk'[p] = File({j})
  <2> DEFINE p == Outputs(j)[k]
  <2>1. CASE j # i
    <3>1. p \in DOMAIN disk => p \in DOMAIN disk' /\ disk'[p] = disk[p]
      BY <1>5, <2>1, NobodyElse
    <3> HIDE DEF p
    <3>2. pc'[j] = pc[j] /\ at'[j] = at[j] BY <1>1, <2>1
    <3> QED BY <1>5, <3>1, <3>2 DEF p, Written, Holds
  <2>2. CASE j = i
    <3>1. CASE Start(i) BY <1>1, <1>3, <2>2, <3>1 DEF Start, Goto
    <3>2. CASE Open(i)
      <4>1. pc'[i] \in {"create", "failed", "skipped"} /\ at'[i] = 1
        BY <1>1, <1>3, <3>2 DEF Open, Goto, Written
      <4>2. ~(k < 1) BY <1>5, <1>1, <2>2, OutputsCounted
      <4> QED BY <2>2, <4>1, <4>2
    <3>3. CASE Create(i)
      <4>1. CASE pc'[i] = "copy"
        <5>1. /\ disk' = Put(Outputs(i)[at[i]], File({}), disk) /\ at' = at
              /\ pc[i] = "create"
          BY <1>1, <1>3, <3>3, <4>1 DEF Create, Goto
        <5>2. k < at[i] => Holds(p, {i}) BY <1>5, <2>2, <5>1 DEF Written
        <5> QED BY <2>2, <4>1, <5>1, <5>2 DEF Holds, Put
      <4>2. CASE pc'[i] # "copy"
        <5>1. pc'[i] = "failed" BY <1>1, <1>3, <3>3, <4>2 DEF Create, Goto
        <5> QED BY <2>2, <5>1
      <4> QED BY <4>1, <4>2
    <3>4. CASE Copy(i)
      <4>1. CASE pc'[i] = "create"
        <5> DEFINE q == Outputs(i)[at[i]]
        <5>1. at[i] \in DOMAIN Outputs(i) BY <1>1, <3>4 DEF Copy, Base, Places
        <5>2. /\ at'[i] = at[i] + 1 /\ pc[i] = "copy"
              /\ disk' = IF q \in DOMAIN disk THEN [disk EXCEPT ![q].data = @ \cup {i}] ELSE disk
          BY <1>1, <1>3, <3>4, <4>1 DEF Copy, Goto, Exists
        <5>3. Holds(q, {}) BY <1>5, <2>2, <5>1, <5>2 DEF Written
        <5>4. k < at[i] /\ p # q => Holds(p, {i}) BY <1>5, <2>2, <5>2 DEF Written
        <5>5. p = q => p \in DOMAIN disk' /\ disk'[p] = File({i})
          BY <5>2, <5>3 DEF Holds, File
        <5>6. k < at[i] + 1 => k < at[i] \/ k = at[i]
          BY <1>1, <1>3, <1>5, <2>2, OutputsCounted
        <5>7. k = at[i] => p = q BY <2>2
        <5> HIDE DEF q
        <5> QED BY <2>2, <4>1, <5>2, <5>4, <5>5, <5>6, <5>7 DEF Holds
      <4>2. CASE pc'[i] # "create"
        <5>1. pc'[i] = "failed" BY <1>1, <1>3, <3>4, <4>2 DEF Copy, Goto
        <5> QED BY <2>2, <5>1
      <4> QED BY <4>1, <4>2
    <3>5. CASE Finish(i)
      <4>1. CASE pc'[i] = "done"
        <5>1. /\ pc[i] = "create" /\ at[i] > Len(Outputs(i))
              /\ disk' = disk \/ disk' = FileRemoved(Source[i], disk)
          BY <3>5 DEF Finish
        <5>2. k < at[i] BY <1>1, <1>3, <1>5, <2>2, <5>1, OutputsCounted
        <5>3. Holds(p, {i}) BY <1>5, <2>2, <5>1, <5>2 DEF Written
        <5>4. p # Source[i] BY <1>1, <1>5, <2>2 DEF Disturbed
        <5> QED BY <2>2, <4>1, <5>1, <5>3, <5>4 DEF Holds, FileRemoved
      <4>2. CASE pc'[i] # "done"
        <5>1. pc'[i] = "failed" BY <1>1, <1>3, <3>5, <4>2 DEF Finish, Goto
        <5> QED BY <2>2, <5>1
      <4> QED BY <4>1, <4>2
    <3> QED BY <3>1, <3>2, <3>3, <3>4, <3>5 DEF TaskStep
  <2> QED BY <2>1, <2>2
<1> QED BY <1>1, <1>2, <1>4, <1>5, Unchanging DEF Written, Holds

\* Hence every step keeps it.
LEMMA NextWritten == Base /\ Written /\ [Next]_vars => Written'
<1> SUFFICES ASSUME Base, Written, [Next]_vars PROVE Written' OBVIOUS
<1>1. CASE UNCHANGED <<cl, disk, target, pc, at>>
  <2>1. \A j : (Disturbed(j)' <=> Disturbed(j)) /\ Outputs(j)' = Outputs(j)
    BY <1>1, Unchanging, OutputsUnchanging DEF Disturbed
  <2> QED BY <1>1, <2>1, Unchanging DEF Written, Holds
<1>2. CASE Check \/ Prepare
  <2>1. UNCHANGED <<cl, pc, at>> /\ phase \in {"check", "prepare"}
    BY <1>2 DEF Check, Prepare, flags
  <2>2. \A i \in Inputs : pc[i] = "queued" BY <2>1 DEF Base, Places
  <2> QED BY <2>1, <2>2, Unchanging DEF Written
<1>3. CASE EnterPool \/ LeavePool \/ Exited \/ UNCHANGED vars
  BY <1>1, <1>3 DEF EnterPool, LeavePool, Exited, vars, flags, plan
<1> QED BY <1>2, <1>3, TaskWritten DEF Next, MainStep

\* The outputs of a task that is done are all on the disk and hold its input's data
\* alone, however the other tasks run, unless targets overlap or an output is an
\* input (decompress_file).
THEOREM FinishedOutputsIntact == Spec => []OutputsIntact
<1>1. Init => Written BY DEF Init, Written
<1>2. Base /\ Written => OutputsIntact
  <2> SUFFICES ASSUME Base, Written, NEW i \in Inputs, pc[i] = "done", ~Disturbed(i),
                      NEW k \in DOMAIN Outputs(i)
               PROVE  Exists(Outputs(i)[k], disk) /\ disk[Outputs(i)[k]] = File({i})
    BY DEF OutputsIntact
  <2>1. target[i] # <<>> BY DEF Base, Places
  <2> QED BY <2>1 DEF Written, Holds, Exists
<1> QED BY <1>1, <1>2, NextWritten, BaseAlways, PTL DEF Spec
=============================================================================
