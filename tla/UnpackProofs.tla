---------------------------- MODULE UnpackProofs ----------------------------
(***************************************************************************)
(* UnpackTypeOK, CapIsExact, SuccessIsFaithful and FailsOnlyForCause of    *)
(* UnpackRun hold for every set of trees, every cap, every disk and every  *)
(* capacity of the buffers, whatever the order of the walk.                *)
(***************************************************************************)
EXTENDS UnpackRun, SequenceTheorems, TLAPS

-----------------------------------------------------------------------------
(* The cap by itself                                                       *)

\* What is left of the limit is what was not copied, and nothing the decoder
\* gave is missing from the copy but the probed byte.
Inv ==
  /\ TypeOK
  /\ copied + remaining = limit
  /\ given <= total
  /\ state = "over" => remaining = 0 /\ given = copied + 1
  /\ state # "over" => given = copied
  /\ state = "done" => given = total

\* Every read and every copied piece keeps the count.
LEMMA InvInductive == Inv /\ [Next]_vars => Inv'
<1> SUFFICES ASSUME Inv, [Next]_vars PROVE Inv' OBVIOUS
<1> USE DEF Inv, TypeOK
<1>1. CASE ReadPiece
  <2>1. PICK n \in 1..Lesser(Lesser(remaining, CopyBuffer), total - given) :
          /\ given' = given + n
          /\ copied' = copied + n
          /\ remaining' = remaining - n
    BY <1>1 DEF ReadPiece
  <2>2. n \in Nat /\ n <= remaining /\ n <= total - given
    BY <1>1, <2>1, LimitedReaderAssumption DEF ReadPiece, Lesser
  <2> QED BY <1>1, <2>1, <2>2 DEF ReadPiece, inputs
<1>2. CASE ReadEnd BY <1>2 DEF ReadEnd, inputs
<1>3. CASE Probe BY <1>3 DEF Probe, inputs
<1>4. CASE DecoderFails BY <1>4 DEF DecoderFails, inputs
<1>5. CASE Stopped \/ UNCHANGED vars BY <1>5 DEF Stopped, vars, inputs
<1> QED BY <1>1, <1>2, <1>3, <1>4, <1>5 DEF Next

\* The cap is exact, and never exceeded, for every limit and every decoder.
THEOREM LimitCorrect == Spec => []CapIsExact
<1>1. Init => Inv BY LimitedReaderAssumption DEF Init, Inv, TypeOK
<1>2. Inv => CapIsExact BY DEF Inv, TypeOK, CapIsExact
<1> QED BY <1>1, <1>2, InvInductive, PTL DEF Spec

-----------------------------------------------------------------------------
(* The whole run                                                           *)

Kinds == {"file", "dir", "symlink"}

Entries == [path : Paths, kind : Kinds \cup {"link"}, inode : Nat, size : Nat,
            writable : BOOLEAN, to : Seq(STRING)]

Nodes == [kind : Kinds, inode : Nat, size : Nat, writable : BOOLEAN,
          to : Seq(STRING), id : Paths]

\* The variables have their types, those of the cap its own invariant.
Typed ==
  /\ Inv
  /\ tree \in Trees /\ format \in Formats
  /\ archive \in Seq(Entries) /\ bare \in Seq(Entries) /\ length \in Nat
  /\ walked \subseteq DOMAIN tree
  /\ phase \in {"build", "unpack", "copy", "restore", "ok", "failed"}
  /\ next \in 1..Len(archive) + 1
  /\ disk \in [DOMAIN disk -> Nodes]
  /\ readOnly \in Seq(Paths)
  /\ room \in Nat /\ units \in Nat /\ buffered \in 0..BufferUnits
  /\ dropped \in BOOLEAN

\* The paths a tar stores as hard links, once one of their inode is in it.
Hard(p) == format = "tar" /\ Kind(p) # "dir" /\ HardLinked(p)

\* The mode a path has once it is unpacked, and the path a file is created at.
Mode(p) == KeepsMode(p) => tree[p].writable

Id(p) == IF Hard(p) THEN inodes[tree[p].inode] ELSE p

\* What an entry of the archive says of its path.
Faithful(e) ==
  LET p == e.path
  IN  /\ p \in walked /\ ~IsOutput(p) /\ Kept(p) \in DOMAIN tree
      /\ Hard(p) => tree[p].inode \in DOMAIN inodes
      /\ IF e.kind = "link" THEN Hard(p) /\ e.to = Id(p)
         ELSE /\ e.kind = Kind(Kept(p)) /\ (e.writable <=> Mode(p)) /\ Id(p) = p
              /\ e.kind = "file" =>
                   e.inode = tree[Kept(p)].inode /\ e.size = tree[Kept(p)].size
              /\ e.kind = "symlink" => e.to = tree[p].to

\* The entry of a path comes after that of its link's target.
LinksBack ==
  \A k \in 1..Len(archive) :
    archive[k].kind = "link" => \E j \in 1..k - 1 : archive[j].path = archive[k].to

\* seen_inode holds paths that are in the archive.
Seen ==
  \A i \in DOMAIN inodes :
    /\ inodes[i] \in DOMAIN tree /\ tree[inodes[i]].inode = i
    /\ format = "tar" /\ \E j \in 1..Len(archive) : archive[j].path = inodes[i]

Listed(p) ==
  \/ \E k \in 1..Len(archive) : archive[k].path = p
  \/ \E k \in 1..Len(bare) : bare[k].path = p

\* The archive tells the truth, and nothing walked is missing from it.
Archived ==
  /\ \A k \in 1..Len(archive) : Faithful(archive[k])
  /\ \A k \in 1..Len(bare) : Faithful(bare[k]) /\ bare[k].kind # "link"
  /\ LinksBack /\ Seen
  /\ phase # "failed" => \A p \in walked : IsOutput(p) \/ Listed(p)
  /\ phase \notin {"build", "failed"} => walked = DOMAIN tree /\ bare = <<>>

\* What is on the disk is of the tree, and what was unpacked is on the disk.
Unpacked ==
  /\ \A p \in DOMAIN disk : p \in DOMAIN tree /\ ~IsOutput(p)
  /\ \A k \in 1..next - 1 : archive[k].path \in DOMAIN disk
  /\ phase = "build" => /\ DOMAIN disk = {} /\ next = 1 /\ readOnly = <<>>
                        /\ total = 0 /\ state = "done"
  /\ phase \in {"restore", "ok"} => next = Len(archive) + 1

\* Every node is its path's, but for the mode of a directory and the size of a
\* file whose data is on its way.
Suits(node, p) ==
  /\ node.kind = Kind(Kept(p))
  /\ node.kind = "file" => /\ node.inode = tree[Kept(p)].inode
                           /\ node.writable <=> Mode(p)
                           /\ node.id = Id(p)
  /\ node.kind = "symlink" => node.to = tree[p].to

Copying(p) == phase = "copy" /\ p = ThisEntry.path

Contents ==
  /\ \A p \in DOMAIN disk : Suits(disk[p], p)
  /\ phase # "failed" /\ ~dropped =>
       \A p \in DOMAIN disk :
         disk[p].kind = "file" /\ ~Copying(p) => disk[p].size = tree[Kept(p)].size

\* While an entry is copied, every unit that passed the cap is in its file or
\* in the BufWriter.
Counted ==
  phase = "copy" =>
    /\ next <= Len(archive) /\ ThisEntry.kind = "file" /\ ThisEntry.path \in DOMAIN disk
    /\ disk[ThisEntry.path].kind = "file"
    /\ disk[ThisEntry.path].size + buffered = units /\ units <= ThisEntry.size
    /\ format # "7z" => buffered = 0

\* A read-only directory is writable until the end, where its mode is owed.
Noted(p) == \E i \in 1..Len(readOnly) : readOnly[i] = p

Modes ==
  /\ \A i \in 1..Len(readOnly) :
       /\ readOnly[i] \in DOMAIN disk /\ disk[readOnly[i]].kind = "dir"
       /\ ~Mode(readOnly[i])
  /\ phase \in {"unpack", "copy"} =>
       /\ \A p \in DOMAIN disk : disk[p].kind = "dir" => disk[p].writable
       /\ \A k \in 1..next - 1 :
            format = "tar" /\ archive[k].kind = "dir" =>
              Mode(archive[k].path) \/ Noted(archive[k].path)
  /\ phase \in {"restore", "ok"} =>
       \A p \in DOMAIN disk :
         disk[p].kind = "dir" => (disk[p].writable <=> Mode(p)) \/ Noted(p)
  /\ phase = "ok" => readOnly = <<>>

UnpackInv ==
  /\ Typed /\ Archived /\ Unpacked /\ Contents /\ Counted /\ Modes /\ FailsOnlyForCause

-----------------------------------------------------------------------------
(* The tree                                                                *)

\* What the assumption says of the tree that is archived.
LEMMA TreeFacts ==
  ASSUME tree \in Trees
  PROVE  /\ DOMAIN tree \subseteq Paths
         /\ \A p \in DOMAIN tree :
              /\ Kind(p) \in Kinds /\ tree[p].inode \in Nat /\ tree[p].writable \in BOOLEAN
              /\ Kind(p) = "file" => tree[p].size \in Nat
              /\ Kind(p) = "symlink" => tree[p].to \in Seq(STRING)
         /\ \A p, q \in DOMAIN tree : tree[p].inode = tree[q].inode => tree[p] = tree[q]
         /\ Output \in DOMAIN tree => Kind(Output) = "file"
         /\ \A p \in DOMAIN tree : Behind(p) \in DOMAIN tree => Kind(Behind(p)) # "symlink"
<1>1. IsTree(tree) /\ (Output \in DOMAIN tree => tree[Output].kind = "file")
  BY UnpackAssumption
<1>2. \A p \in DOMAIN tree : IsNode(tree, p) BY <1>1 DEF IsTree
<1>3. \A p \in DOMAIN tree :
        /\ Kind(p) \in Kinds /\ tree[p].inode \in Nat /\ tree[p].writable \in BOOLEAN
        /\ Kind(p) = "file" => tree[p].size \in Nat
        /\ Kind(p) = "symlink" => tree[p].to \in Seq(STRING)
  BY <1>2 DEF IsNode, Kind, Kinds
<1>4. DOMAIN tree \subseteq Paths BY <1>1 DEF IsTree
<1>5. \A p, q \in DOMAIN tree : tree[p].inode = tree[q].inode => tree[p] = tree[q]
  BY <1>1 DEF IsTree
<1>6. \A p \in DOMAIN tree : Behind(p) \in DOMAIN tree => Kind(Behind(p)) # "symlink"
  BY <1>1 DEF IsTree, Behind, Kind
<1> QED BY <1>1, <1>3, <1>4, <1>5, <1>6 DEF Kind

\* What a path's folders are.
LEMMA ParentFacts ==
  ASSUME tree \in Trees, NEW p \in DOMAIN tree, NEW k \in 1..Len(p) - 1
  PROVE  /\ SubSeq(p, 1, k) \in DOMAIN tree
         /\ Kind(SubSeq(p, 1, k)) = "dir"
         /\ ~IsOutput(SubSeq(p, 1, k))
<1> DEFINE q == SubSeq(p, 1, k)
<1>1. IsTree(tree) BY UnpackAssumption
<1>2. q \in DOMAIN tree /\ Kind(q) = "dir" BY <1>1 DEF IsTree, Kind
<1> HIDE DEF q
<1>3. ~IsOutput(q)
  <2>1. SUFFICES ASSUME Output \in DOMAIN tree, tree[q].inode = tree[Output].inode PROVE FALSE
    BY <1>2 DEF IsOutput, Behind
  <2>2. tree[q] = tree[Output] BY <1>2, <2>1, TreeFacts
  <2> QED BY <1>2, <2>1, <2>2, TreeFacts DEF Kind
<1> QED BY <1>2, <1>3 DEF q

\* A path is kept as it is, but for the symbolic links of a 7z.
LEMMA KeptFacts ==
  ASSUME tree \in Trees, NEW p \in DOMAIN tree
  PROVE  /\ Kind(p) # "symlink" => Kept(p) = p
         /\ format # "7z" => Kept(p) = p
         /\ Kept(p) \in DOMAIN tree /\ Kind(Kept(p)) = "symlink" => format # "7z"
BY TreeFacts DEF Kept, Behind

\* What a path is depends on the tree, the format and seen_inode alone.
LEMMA Steady ==
  ASSUME UNCHANGED <<tree, format>>
  PROVE  /\ \A p : Kind(p)' = Kind(p) /\ Kept(p)' = Kept(p) /\ (IsOutput(p)' <=> IsOutput(p))
         /\ \A p : (Mode(p)' <=> Mode(p)) /\ (Hard(p)' <=> Hard(p))
         /\ inodes' = inodes => \A p : Id(p)' = Id(p)
<1>1. \A p : Kind(p)' = Kind(p) BY DEF Kind
<1>2. \A p : Behind(p)' = Behind(p) BY DEF Behind, Kind
<1>3. \A p : Kept(p)' = Kept(p) BY <1>2 DEF Kept
<1>4. \A p : IsOutput(p)' <=> IsOutput(p) BY <1>2 DEF IsOutput
<1>5. \A p : Mode(p)' <=> Mode(p) BY <1>1 DEF Mode, KeepsMode
<1>6. \A p : HardLinked(p)' <=> HardLinked(p) BY DEF HardLinked
<1>7. \A p : Hard(p)' <=> Hard(p) BY <1>1, <1>6 DEF Hard
<1>8. inodes' = inodes => \A p : Id(p)' = Id(p) BY <1>7 DEF Id
<1> QED BY <1>1, <1>3, <1>4, <1>5, <1>7, <1>8

-----------------------------------------------------------------------------
(* Building                                                                *)

\* Nothing is archived or unpacked at first.
LEMMA UnpackInvInit == UnpackInit => UnpackInv
<1> SUFFICES ASSUME UnpackInit PROVE UnpackInv OBVIOUS
<1>1. Inv
  BY LimitedReaderAssumption DEF UnpackInit, Inv, TypeOK
<1>2. /\ archive = <<>> /\ bare = <<>> /\ readOnly = <<>> /\ Len(archive) = 0 /\ Len(bare) = 0
      /\ Len(readOnly) = 0 /\ archive \in Seq(Entries) /\ bare \in Seq(Entries)
      /\ readOnly \in Seq(Paths) /\ DOMAIN disk = {} /\ DOMAIN inodes = {} /\ next = 1
      /\ phase = "build" /\ walked = {} /\ cause = "none" /\ dropped = FALSE
  BY EmptySeq DEF UnpackInit
<1>3. disk \in [DOMAIN disk -> Nodes]
  BY DEF UnpackInit
<1>4. Typed
  <2>1. room \in Nat /\ buffered \in 0..BufferUnits BY UnpackAssumption DEF UnpackInit
  <2>2. tree \in Trees /\ format \in Formats /\ length \in Nat /\ units \in Nat
    BY DEF UnpackInit
  <2>3. next \in 1..Len(archive) + 1
    <3>1. next = 1 /\ Len(archive) = 0 BY <1>2
    <3> QED BY <3>1
  <2>4. walked \subseteq DOMAIN tree /\ dropped \in BOOLEAN BY <1>2
  <2> QED BY <1>1, <1>2, <1>3, <2>1, <2>2, <2>3, <2>4 DEF Typed
<1>5. Archived BY <1>2 DEF Archived, LinksBack, Seen
<1>6. Unpacked BY <1>2 DEF Unpacked, UnpackInit
<1>7. Contents /\ Counted /\ Modes /\ FailsOnlyForCause
  BY <1>2 DEF Contents, Counted, Modes, FailsOnlyForCause
<1> QED BY <1>4, <1>5, <1>6, <1>7 DEF UnpackInv

\* The entry a step of the walk makes.
LEMMA EntryTyped ==
  ASSUME tree \in Trees, NEW p \in DOMAIN tree, NEW kind \in Kinds \cup {"link"},
         NEW size \in Nat, NEW to \in Seq(STRING)
  PROVE  Entry(p, kind, size, to) \in Entries
<1>1. p \in Paths /\ tree[p].inode \in Nat /\ tree[p].writable \in BOOLEAN BY TreeFacts
<1> QED BY <1>1 DEF Entry, Entries

LEMMA PlainTyped ==
  ASSUME tree \in Trees, NEW p \in DOMAIN tree
  PROVE  /\ Plain(p) \in Entries /\ Plain(p).path = p /\ Plain(p).kind = Kind(p)
         /\ Plain(p).inode = tree[p].inode /\ Plain(p).writable = tree[p].writable
         /\ Kind(p) = "file" => Plain(p).size = tree[p].size
         /\ Kind(p) = "symlink" => Plain(p).to = tree[p].to
<1> DEFINE size == IF Kind(p) = "file" THEN tree[p].size ELSE 0
           to == IF Kind(p) = "symlink" THEN tree[p].to ELSE <<>>
<1>1. Kind(p) \in Kinds \cup {"link"} BY TreeFacts
<1>2. size \in Nat BY TreeFacts
<1>3. to \in Seq(STRING) BY TreeFacts, EmptySeq
<1>4. Plain(p) = Entry(p, Kind(p), size, to) BY DEF Plain
<1>5. Plain(p) \in Entries BY <1>1, <1>2, <1>3, <1>4, EntryTyped
<1> HIDE DEF size, to
<1>6. /\ Plain(p).path = p /\ Plain(p).kind = Kind(p) /\ Plain(p).size = size
      /\ Plain(p).inode = tree[p].inode /\ Plain(p).writable = tree[p].writable
      /\ Plain(p).to = to
  BY <1>4 DEF Entry
<1> QED BY <1>5, <1>6 DEF size, to

\* What an entry says stays true as the walk goes on.
LEMMA FaithfulStays ==
  ASSUME UNCHANGED <<tree, format>>, walked \subseteq walked',
         \A i \in DOMAIN inodes : i \in DOMAIN inodes' /\ inodes'[i] = inodes[i]
  PROVE  \A f : Faithful(f) => Faithful(f)'
<1> SUFFICES ASSUME NEW f, Faithful(f) PROVE Faithful(f)' OBVIOUS
<1> DEFINE q == f.path
<1>1. q \in walked /\ ~IsOutput(q) /\ Kept(q) \in DOMAIN tree
      /\ (Hard(q) => tree[q].inode \in DOMAIN inodes)
  BY DEF Faithful
<1>2. Id(q)' = Id(q)
  <2>1. CASE Hard(q)
    <3>1. Hard(q)' BY <2>1, Steady
    <3>2. Id(q) = inodes[tree[q].inode] BY <2>1 DEF Id
    <3>3. Id(q)' = inodes'[tree[q].inode] BY <3>1 DEF Id
    <3> QED BY <1>1, <2>1, <3>2, <3>3
  <2>2. CASE ~Hard(q)
    <3>1. ~Hard(q)' BY <2>2, Steady
    <3> QED BY <2>2, <3>1 DEF Id
  <2> QED BY <2>1, <2>2
<1>3. Kind(Kept(q))' = Kind(Kept(q))
  BY Steady
<1>4. /\ q \in walked' /\ ~IsOutput(q)' /\ Kept(q)' = Kept(q) /\ (Mode(q)' <=> Mode(q))
      /\ (Hard(q)' <=> Hard(q))
  BY <1>1, Steady
<1> QED BY <1>1, <1>2, <1>3, <1>4 DEF Faithful

\* What the archive says, and that it is whole, stays true while it is as it is.
LEMMA ArchivedStays ==
  ASSUME Archived, UNCHANGED <<tree, format, archive, bare, inodes>>,
         walked \subseteq walked' /\ walked' \subseteq DOMAIN tree,
         phase' = "failed" \/ phase # "failed",
         \A p \in walked' : p \in walked \/ IsOutput(p) \/ phase' = "failed",
         phase' \in {"build", "failed"} \/ phase \notin {"build", "failed"}
  PROVE  Archived'
<1>1. \A f : Faithful(f) => Faithful(f)' BY FaithfulStays
<1>2. (\A k \in 1..Len(archive) : Faithful(archive[k]))' BY <1>1 DEF Archived
<1>3. (\A k \in 1..Len(bare) : Faithful(bare[k]) /\ bare[k].kind # "link")'
  BY <1>1 DEF Archived
<1>4. LinksBack' BY DEF Archived, LinksBack
<1>5. Seen' BY DEF Archived, Seen
<1>6. (phase # "failed" => \A p \in walked : IsOutput(p) \/ Listed(p))'
  <2> SUFFICES ASSUME phase' # "failed", NEW p \in walked' PROVE IsOutput(p)' \/ Listed(p)'
    OBVIOUS
  <2>1. IsOutput(p) \/ Listed(p) BY DEF Archived
  <2>2. IsOutput(p)' <=> IsOutput(p) BY Steady
  <2>3. Listed(p)' <=> Listed(p) BY DEF Listed
  <2> QED BY <2>1, <2>2, <2>3
<1>7. (phase \notin {"build", "failed"} => walked = DOMAIN tree /\ bare = <<>>)'
  BY DEF Archived
<1> QED BY <1>2, <1>3, <1>4, <1>5, <1>6, <1>7 DEF Archived

\* An entry that tells the truth, at the end of the archive, keeps it whole.
LEMMA EntryAdded ==
  ASSUME Typed, Archived, phase = "build", UNCHANGED <<tree, format, phase>>,
         NEW p \in DOMAIN tree, walked' = walked \cup {p}, ~IsOutput(p),
         NEW e \in Entries, e.path = p, Faithful(e)',
         \A i \in DOMAIN inodes : i \in DOMAIN inodes' /\ inodes'[i] = inodes[i],
         \A i \in DOMAIN inodes' : i \in DOMAIN inodes \/
           (inodes'[i] = p /\ i = tree[p].inode /\ format = "tar" /\ archive' = Append(archive, e)),
         e.kind = "link" => /\ \E j \in 1..Len(archive) : archive[j].path = e.to
                            /\ archive' = Append(archive, e),
         \/ archive' = Append(archive, e) /\ bare' = bare
         \/ bare' = Append(bare, e) /\ archive' = archive
  PROVE  Archived' /\ archive' \in Seq(Entries) /\ bare' \in Seq(Entries)
<1> DEFINE n == Len(archive)
           m == Len(bare)
<1>1. archive \in Seq(Entries) /\ bare \in Seq(Entries) /\ n \in Nat /\ m \in Nat
  BY DEF Typed
<1>2. /\ archive' \in Seq(Entries) /\ bare' \in Seq(Entries)
      /\ Len(archive') \in n..n + 1 /\ Len(bare') \in m..m + 1
      /\ \A k \in 1..n : archive'[k] = archive[k]
      /\ \A k \in 1..m : bare'[k] = bare[k]
      /\ \A k \in 1..Len(archive') : k \notin 1..n => k = n + 1 /\ archive'[k] = e
      /\ \A k \in 1..Len(bare') : k \notin 1..m => k = m + 1 /\ bare'[k] = e /\ e.kind # "link"
  <2>1. CASE archive' = Append(archive, e) /\ bare' = bare
    <3>1. /\ archive' \in Seq(Entries) /\ Len(archive') = n + 1
          /\ \A k \in 1..n : archive'[k] = archive[k]
          /\ archive'[n + 1] = e
      BY <1>1, <2>1, AppendProperties
    <3> HIDE DEF n, m
    <3> QED BY <1>1, <2>1, <3>1 DEF m
  <2>2. CASE bare' = Append(bare, e) /\ archive' = archive
    <3>1. /\ bare' \in Seq(Entries) /\ Len(bare') = m + 1
          /\ \A k \in 1..m : bare'[k] = bare[k]
          /\ bare'[m + 1] = e
      BY <1>1, <2>2, AppendProperties
    <3>2. e.kind # "link"
      <4>1. archive' # Append(archive, e)
        <5>1. Len(Append(archive, e)) = n + 1 BY <1>1, AppendProperties
        <5> QED BY <1>1, <2>2, <5>1
      <4> QED BY <4>1
    <3> HIDE DEF n, m
    <3> QED BY <1>1, <2>2, <3>1, <3>2 DEF n
  <2> QED BY <2>1, <2>2
<1>3. \/ \E k \in 1..Len(archive') : archive'[k] = e
      \/ \E k \in 1..Len(bare') : bare'[k] = e
  <2>1. CASE archive' = Append(archive, e) BY <1>1, <2>1, AppendProperties
  <2>2. CASE bare' = Append(bare, e) BY <1>1, <2>2, AppendProperties
  <2> QED BY <2>1, <2>2
<1> HIDE DEF n, m
<1>4. \A f : Faithful(f) => Faithful(f)' BY FaithfulStays
<1>5. \A k \in 1..Len(archive') : \A f : f = archive'[k] => Faithful(f)'
  BY <1>2, <1>4 DEF Archived, n
<1>6. \A k \in 1..Len(bare') : /\ \A f : f = bare'[k] => Faithful(f)'
                               /\ bare'[k].kind # "link"
  BY <1>2, <1>4 DEF Archived, m
<1>7. LinksBack'
  <2> SUFFICES ASSUME NEW k \in 1..Len(archive'), archive'[k].kind = "link"
               PROVE  \E j \in 1..k - 1 : archive'[j].path = archive'[k].to
    BY DEF LinksBack
  <2>1. CASE k \in 1..n
    <3>1. PICK j \in 1..k - 1 : archive[j].path = archive[k].to
      BY <1>2, <2>1 DEF Archived, LinksBack, n
    <3>2. j \in 1..n BY <1>1, <2>1
    <3> QED BY <1>2, <2>1, <3>1, <3>2
  <2>2. CASE k \notin 1..n
    <3>1. k = n + 1 /\ archive'[k] = e BY <1>2, <2>2
    <3>2. PICK j \in 1..n : archive[j].path = e.to BY <3>1 DEF n
    <3>3. j \in 1..k - 1 BY <1>1, <3>1
    <3> QED BY <1>2, <3>1, <3>2, <3>3
  <2> QED BY <2>1, <2>2
<1>8. Seen'
  <2> SUFFICES ASSUME NEW i \in DOMAIN inodes'
               PROVE  /\ inodes'[i] \in DOMAIN tree /\ tree[inodes'[i]].inode = i
                      /\ format = "tar"
                      /\ \E j \in 1..Len(archive') : archive'[j].path = inodes'[i]
    BY DEF Seen
  <2>1. CASE i \in DOMAIN inodes
    <3>1. /\ inodes[i] \in DOMAIN tree /\ tree[inodes[i]].inode = i /\ format = "tar"
      BY <2>1 DEF Archived, Seen
    <3>2. PICK j \in 1..n : archive[j].path = inodes[i] BY <2>1 DEF Archived, Seen, n
    <3>3. j \in 1..Len(archive') BY <1>1, <1>2
    <3> QED BY <1>2, <2>1, <3>1, <3>2, <3>3
  <2>2. CASE i \notin DOMAIN inodes
    <3>1. inodes'[i] = p /\ i = tree[p].inode /\ format = "tar" /\ archive' = Append(archive, e)
      BY <2>2
    <3>2. \E j \in 1..Len(archive') : archive'[j] = e BY <1>1, <3>1, AppendProperties
    <3> QED BY <3>1, <3>2
  <2> QED BY <2>1, <2>2
<1>9. \A q \in walked' : IsOutput(q)' \/ Listed(q)'
  <2> SUFFICES ASSUME NEW q \in walked', ~IsOutput(q)' PROVE Listed(q)' OBVIOUS
  <2>1. CASE q = p BY <1>3, <2>1 DEF Listed
  <2>2. CASE q \in walked
    <3>1. Listed(q) BY <2>2, Steady DEF Archived
    <3>2. 1..n \subseteq 1..Len(archive') /\ 1..m \subseteq 1..Len(bare') BY <1>1, <1>2
    <3> QED BY <1>2, <3>1, <3>2 DEF Listed, n, m
  <2> QED BY <2>1, <2>2
<1>10. Archived'
  <2>1. (\A k \in 1..Len(archive) : Faithful(archive[k]))' BY <1>5
  <2>2. (\A k \in 1..Len(bare) : Faithful(bare[k]) /\ bare[k].kind # "link")' BY <1>6
  <2> QED BY <1>7, <1>8, <1>9, <2>1, <2>2 DEF Archived
<1> QED BY <1>2, <1>10

\* The entry of a path in a tar: a link to the first path of its inode, or the
\* path itself, which is then the first.
LEMMA TarEntryAdded ==
  ASSUME Typed, Archived, phase = "build", UNCHANGED <<tree, format, phase>>,
         NEW p \in DOMAIN tree, walked' = walked \cup {p}, ~IsOutput(p),
         format = "tar", TarEntry(p)
  PROVE  /\ Archived' /\ archive' \in Seq(Entries) /\ bare' \in Seq(Entries)
         /\ length' \in Nat
<1> DEFINE i == tree[p].inode
           hard == Kind(p) # "dir" /\ HardLinked(p)
           link == hard /\ i \in DOMAIN inodes
<1>1. tree \in Trees /\ length \in Nat /\ i \in Nat BY TreeFacts DEF Typed
<1>2. hard <=> Hard(p) BY DEF Hard
<1>3. PICK e : e = IF link THEN Entry(p, "link", 0, inodes[i]) ELSE Plain(p) OBVIOUS
<1>4. /\ archive' = Append(archive, e) /\ length' = length + 1 + e.size /\ bare' = bare
      /\ inodes' = IF hard /\ i \notin DOMAIN inodes
                   THEN [j \in DOMAIN inodes \cup {i} |-> IF j = i THEN p ELSE inodes[j]]
                   ELSE inodes
  BY <1>3 DEF TarEntry
<1> HIDE DEF hard
<1>5. e \in Entries /\ e.path = p
  <2>1. CASE link
    <3>1. inodes[i] \in Seq(STRING)
      <4>1. inodes[i] \in DOMAIN tree BY <2>1 DEF Archived, Seen
      <4> QED BY <1>1, <4>1, TreeFacts DEF Paths
    <3>2. Entry(p, "link", 0, inodes[i]) \in Entries BY <1>1, <3>1, EntryTyped
    <3> QED BY <1>3, <2>1, <3>2 DEF Entry
  <2>2. CASE ~link BY <1>1, <1>3, <2>2, PlainTyped
  <2> QED BY <2>1, <2>2
<1>6. length' \in Nat BY <1>1, <1>4, <1>5 DEF Entries
<1>7. /\ \A j \in DOMAIN inodes : j \in DOMAIN inodes' /\ inodes'[j] = inodes[j]
      /\ \A j \in DOMAIN inodes' : j \in DOMAIN inodes \/ (inodes'[j] = p /\ j = i)
      /\ hard => i \in DOMAIN inodes' /\ inodes'[i] = IF link THEN inodes[i] ELSE p
  <2> HIDE DEF i
  <2>1. CASE hard /\ i \notin DOMAIN inodes
    BY <1>4, <2>1
  <2>2. CASE ~(hard /\ i \notin DOMAIN inodes)
    BY <1>4, <2>2
  <2> QED BY <2>1, <2>2
<1>8. Faithful(e)'
  <2>1. /\ p \in walked' /\ ~IsOutput(p)' /\ Kept(p)' = p /\ Kind(p)' = Kind(p)
        /\ (Hard(p)' <=> hard) /\ (Mode(p)' <=> Mode(p)) /\ p \in DOMAIN tree'
        /\ tree' = tree
    BY <1>1, <1>2, KeptFacts, Steady
  <2>2. Mode(p) <=> tree[p].writable BY DEF Mode, KeepsMode
  <2>3. Id(p)' = IF hard THEN inodes'[i] ELSE p BY <2>1 DEF Id
  <2>4. CASE link
    <3>1. e.kind = "link" /\ e.to = inodes[i] BY <1>3, <2>4 DEF Entry
    <3> QED BY <1>5, <1>7, <2>1, <2>3, <2>4, <3>1 DEF Faithful
  <2>5. CASE ~link
    <3>1. e = Plain(p) BY <1>3, <2>5
    <3>2. Id(p)' = p BY <1>7, <2>3, <2>5
    <3>3. e.kind \in Kinds /\ e.kind # "link" BY <1>1, <3>1, PlainTyped, TreeFacts DEF Kinds
    <3>4. /\ e.kind = Kind(p) /\ e.inode = i /\ e.writable = tree[p].writable
          /\ Kind(p) = "file" => e.size = tree[p].size
          /\ Kind(p) = "symlink" => e.to = tree[p].to
      BY <1>1, <3>1, PlainTyped
    <3>5. e.writable <=> Mode(p)' BY <2>1, <2>2, <3>4
    <3> QED BY <1>5, <1>7, <2>1, <3>2, <3>3, <3>4, <3>5 DEF Faithful
  <2> QED BY <2>4, <2>5
<1>9. e.kind = "link" => \E j \in 1..Len(archive) : archive[j].path = e.to
  <2>1. CASE link
    <3>1. e.to = inodes[i] BY <1>3, <2>1 DEF Entry
    <3> QED BY <2>1, <3>1 DEF Archived, Seen
  <2>2. CASE ~link
    <3>1. e.kind \in Kinds BY <1>1, <1>3, <2>2, PlainTyped, TreeFacts
    <3> QED BY <3>1 DEF Kinds
  <2> QED BY <2>1, <2>2
<1> QED BY <1>4, <1>5, <1>6, <1>7, <1>8, <1>9, EntryAdded

\* The entry of a path in a zip.
LEMMA ZipEntryAdded ==
  ASSUME Typed, Archived, phase = "build", UNCHANGED <<tree, format, phase>>,
         NEW p \in DOMAIN tree, walked' = walked \cup {p}, ~IsOutput(p),
         format = "zip", ZipEntry(p)
  PROVE  /\ Archived' /\ archive' \in Seq(Entries) /\ bare' \in Seq(Entries)
         /\ length' \in Nat
<1>1. tree \in Trees /\ length \in Nat BY DEF Typed
<1>2. PICK e : e = IF Kind(p) = "dir" THEN [Plain(p) EXCEPT !.writable = TRUE] ELSE Plain(p)
  OBVIOUS
<1>3. /\ archive' = Append(archive, e) /\ bare' = bare /\ length' = length
      /\ inodes' = inodes
  BY <1>2 DEF ZipEntry
<1>4. /\ e \in Entries /\ e.path = p /\ e.kind = Kind(p) /\ e.inode = tree[p].inode
      /\ Kind(p) = "file" => e.size = tree[p].size
      /\ Kind(p) = "symlink" => e.to = tree[p].to
      /\ e.writable = IF Kind(p) = "dir" THEN TRUE ELSE tree[p].writable
  <2>1. CASE Kind(p) = "dir"
    <3>1. e = [Plain(p) EXCEPT !.writable = TRUE] BY <1>2, <2>1
    <3> QED BY <1>1, <2>1, <3>1, PlainTyped DEF Entries
  <2>2. CASE Kind(p) # "dir"
    <3>1. e = Plain(p) BY <1>2, <2>2
    <3> QED BY <1>1, <2>2, <3>1, PlainTyped
  <2> QED BY <2>1, <2>2
<1>5. e.kind # "link" BY <1>1, <1>4, TreeFacts DEF Kinds
<1>6. /\ p \in walked' /\ ~IsOutput(p)' /\ Kept(p)' = p /\ Kind(p)' = Kind(p) /\ ~Hard(p)'
      /\ (Mode(p)' <=> Mode(p)) /\ p \in DOMAIN tree' /\ tree' = tree
  BY <1>1, KeptFacts, Steady DEF Hard
<1>7. Id(p)' = p BY <1>6 DEF Id
<1>8. e.writable <=> Mode(p)
  <2>1. Mode(p) <=> (Kind(p) # "dir" => tree[p].writable) BY DEF Mode, KeepsMode
  <2> QED BY <1>4, <2>1
<1>9. Faithful(e)' BY <1>4, <1>5, <1>6, <1>7, <1>8 DEF Faithful
<1> QED BY <1>1, <1>3, <1>4, <1>5, <1>9, EntryAdded

\* The entry of a path in a 7z: what a symbolic link leads to.
LEMMA SevenZipEntryAdded ==
  ASSUME Typed, Archived, phase = "build", UNCHANGED <<tree, format, phase>>,
         NEW p \in DOMAIN tree, walked' = walked \cup {p}, ~IsOutput(p),
         format = "7z", Behind(p) \in DOMAIN tree, SevenZipEntry(p)
  PROVE  /\ Archived' /\ archive' \in Seq(Entries) /\ bare' \in Seq(Entries)
         /\ length' \in Nat
<1>1. tree \in Trees /\ length \in Nat BY DEF Typed
<1>2. PICK q \in DOMAIN tree : q = Behind(p) OBVIOUS
<1>3. Kept(p) = q /\ Kind(q) \in Kinds /\ Kind(q) # "symlink" /\ tree[q].inode \in Nat
  BY <1>1, <1>2, TreeFacts DEF Kept
<1>4. PICK e : e = [Entry(p, Kind(q), Plain(q).size, <<>>) EXCEPT
                      !.inode = tree[q].inode, !.writable = TRUE]
  OBVIOUS
<1>5. /\ \/ archive' = Append(archive, e) /\ bare' = bare
         \/ bare' = Append(bare, e) /\ archive' = archive
      /\ length' = length /\ inodes' = inodes
  BY <1>2, <1>4 DEF SevenZipEntry
<1>6. /\ e \in Entries /\ e.path = p /\ e.kind = Kind(q) /\ e.inode = tree[q].inode
      /\ e.size = Plain(q).size /\ e.writable = TRUE
  <2>1. Plain(q).size \in Nat BY <1>1, PlainTyped DEF Entries
  <2>2. Entry(p, Kind(q), Plain(q).size, <<>>) \in Entries
    BY <1>1, <1>3, <2>1, EntryTyped, EmptySeq
  <2> QED BY <1>3, <1>4, <2>2 DEF Entries, Entry
<1>7. e.kind # "link" /\ e.kind # "symlink" BY <1>3, <1>6 DEF Kinds
<1>8. /\ p \in walked' /\ ~IsOutput(p)' /\ Kept(p)' = q /\ Kind(q)' = Kind(q) /\ ~Hard(p)'
      /\ Mode(p)' /\ q \in DOMAIN tree' /\ tree' = tree
  BY <1>3, Steady DEF Hard, Mode, KeepsMode
<1>9. Id(p)' = p BY <1>8 DEF Id
<1>10. Kind(q) = "file" => e.size = tree[q].size BY <1>1, <1>6, PlainTyped
<1>11. Faithful(e)' BY <1>6, <1>7, <1>8, <1>9, <1>10 DEF Faithful
<1> QED BY <1>1, <1>5, <1>6, <1>7, <1>11, EntryAdded

\* While the archive is built the disk is as it was.
LEMMA NothingUnpacked ==
  ASSUME Typed, Unpacked, phase = "build", phase' \in {"build", "failed", "unpack"},
         UNCHANGED <<next, disk, readOnly>>,
         phase' = "build" => UNCHANGED <<total, state>>
  PROVE  Unpacked' /\ Contents' /\ Counted' /\ Modes'
<1>1. DOMAIN disk' = {} /\ next' = 1 /\ readOnly' = <<>> BY DEF Unpacked
<1>2. Unpacked' BY <1>1 DEF Unpacked
<1>3. Contents' BY <1>1 DEF Contents
<1>4. Counted' BY DEF Counted
<1>5. Modes'
  <2>1. Len(readOnly') = 0 BY <1>1, EmptySeq
  <2> QED BY <1>1, <2>1 DEF Modes
<1> QED BY <1>2, <1>3, <1>4, <1>5

\* A step of the walk adds an entry that tells the truth, skips the output, or
\* stops at a broken link.
LEMMA WalkKeeps ==
  ASSUME UnpackInv, NEW p \in DOMAIN tree, Walk(p)
  PROVE  UnpackInv'
<1>1. /\ Typed /\ Archived /\ Unpacked /\ phase = "build" /\ p \notin walked
      /\ walked' = walked \cup {p}
      /\ UNCHANGED <<tree, format, next, disk, readOnly, room, units, buffered, dropped, vars>>
  BY DEF UnpackInv, Walk
<1>2. Inv' BY <1>1 DEF Typed, Inv, TypeOK, vars, inputs
<1>3. DOMAIN disk = {} /\ next = 1 BY <1>1 DEF Unpacked
<1>4. /\ phase' \in {"build", "failed"}
      /\ Archived' /\ archive' \in Seq(Entries) /\ bare' \in Seq(Entries) /\ length' \in Nat
      /\ phase' = "failed" => /\ cause' = "brokenLink" /\ format = "7z"
                              /\ Behind(p) \notin DOMAIN tree
  <2>1. CASE IsOutput(p)
    <3>1. UNCHANGED <<archive, bare, length, inodes, phase, cause>> BY <2>1 DEF Walk
    <3>2. walked' \subseteq DOMAIN tree BY <1>1 DEF Typed
    <3>3. Archived' BY <1>1, <2>1, <3>1, <3>2, ArchivedStays
    <3> QED BY <1>1, <3>1, <3>3 DEF Typed
  <2>2. CASE ~IsOutput(p) /\ format = "7z" /\ Behind(p) \notin DOMAIN tree
    <3>1. /\ phase' = "failed" /\ cause' = "brokenLink"
          /\ UNCHANGED <<archive, bare, length, inodes>>
      BY <2>2 DEF Walk
    <3>2. walked' \subseteq DOMAIN tree BY <1>1 DEF Typed
    <3>3. Archived' BY <1>1, <3>1, <3>2, ArchivedStays
    <3> QED BY <1>1, <2>2, <3>1, <3>3 DEF Typed
  <2>3. CASE ~IsOutput(p) /\ ~(format = "7z" /\ Behind(p) \notin DOMAIN tree)
    <3>1. /\ CASE format = "tar" -> TarEntry(p)
               [] format = "zip" -> ZipEntry(p)
               [] format = "7z" -> SevenZipEntry(p)
          /\ UNCHANGED <<phase, cause>>
      BY <2>3 DEF Walk
    <3>2. format \in {"tar", "zip", "7z"} BY <1>1, UnpackAssumption DEF Typed
    <3>3. CASE format = "tar"
      <4>1. TarEntry(p) BY <3>1, <3>3
      <4> QED BY <1>1, <2>3, <3>1, <3>3, <4>1, TarEntryAdded
    <3>4. CASE format = "zip"
      <4>1. ZipEntry(p) BY <3>1, <3>4
      <4> QED BY <1>1, <2>3, <3>1, <3>4, <4>1, ZipEntryAdded
    <3>5. CASE format = "7z"
      <4>1. SevenZipEntry(p) BY <3>1, <3>5
      <4> QED BY <1>1, <2>3, <3>1, <3>5, <4>1, SevenZipEntryAdded
    <3> QED BY <3>2, <3>3, <3>4, <3>5
  <2> QED BY <2>1, <2>2, <2>3
<1>5. Typed'
  <2>1. next' \in 1..Len(archive') + 1
    <3>1. Len(archive') \in Nat /\ next' = 1 BY <1>1, <1>3, <1>4
    <3> QED BY <3>1
  <2>2. walked' \subseteq DOMAIN tree' BY <1>1 DEF Typed
  <2>3. disk' \in [DOMAIN disk' -> Nodes] BY <1>1 DEF Typed
  <2> QED BY <1>1, <1>2, <1>4, <2>1, <2>2, <2>3 DEF Typed
<1>6. Unpacked' /\ Contents' /\ Counted' /\ Modes'
  <2>1. UNCHANGED <<total, state>> BY <1>1 DEF vars, inputs
  <2> QED BY <1>1, <1>4, <2>1, NothingUnpacked
<1>7. FailsOnlyForCause'
  <2>1. Behind(p)' = Behind(p) /\ tree' = tree /\ format' = format
    BY <1>1 DEF Behind, Kind
  <2>2. SUFFICES ASSUME phase' = "failed"
                 PROVE  cause' = "brokenLink" /\ format' = "7z"
                        /\ \E q \in DOMAIN tree' : Behind(q)' \notin DOMAIN tree'
    BY DEF FailsOnlyForCause
  <2> QED BY <1>4, <2>1, <2>2
<1> QED BY <1>4, <1>5, <1>6, <1>7 DEF UnpackInv

\* The archive is closed and opened: the entries are the same.
LEMMA FinishKeeps ==
  ASSUME UnpackInv, FinishBuild
  PROVE  UnpackInv'
<1> DEFINE n == Len(archive)
           m == Len(bare)
<1>1. /\ Typed /\ Archived /\ Unpacked /\ phase = "build" /\ walked = DOMAIN tree
      /\ phase' = "unpack" /\ archive' = archive \o bare /\ bare' = <<>>
      /\ UNCHANGED <<tree, format, length, last, walked, inodes, next, disk, readOnly, room,
                     units, buffered, dropped, cause, limit, remaining, given, copied>>
  BY DEF UnpackInv, FinishBuild
<1>2. /\ archive \in Seq(Entries) /\ bare \in Seq(Entries) /\ n \in Nat /\ m \in Nat
      /\ DOMAIN disk = {} /\ next = 1 /\ total = 0 /\ state = "done" /\ Inv
  BY <1>1 DEF Typed, Unpacked
<1>3. Inv'
  <2>1. given = 0 /\ copied = 0 BY <1>2 DEF Inv, TypeOK
  <2>2. total' \in Nat /\ (state' = "copying" \/ (total' = total /\ state' = state))
    <3>1. length \in Nat BY <1>1 DEF Typed
    <3> QED BY <1>2, <3>1 DEF FinishBuild
  <2> QED BY <1>1, <1>2, <2>1, <2>2 DEF Inv, TypeOK
<1>4. /\ archive' \in Seq(Entries) /\ Len(archive') = n + m
      /\ \A k \in 1..n + m : archive'[k] = IF k <= n THEN archive[k] ELSE bare[k - n]
  BY <1>1, <1>2, ConcatProperties
<1>5. bare' \in Seq(Entries) /\ Len(bare') = 0 BY <1>1, EmptySeq
<1> HIDE DEF n, m
<1>6. Archived'
  <2>1. \A f : Faithful(f) => Faithful(f)' BY <1>1, FaithfulStays
  <2>2. (\A k \in 1..Len(archive) : Faithful(archive[k]))'
    <3>1. \A k \in 1..n + m : \A f : f = archive'[k] => Faithful(f)
      <4> SUFFICES ASSUME NEW k \in 1..n + m PROVE Faithful(archive'[k]) OBVIOUS
      <4>1. CASE k <= n
        <5>1. k \in 1..n /\ archive'[k] = archive[k] BY <1>2, <1>4, <4>1
        <5> QED BY <1>1, <5>1 DEF Archived, n
      <4>2. CASE ~(k <= n)
        <5>1. k - n \in 1..m /\ archive'[k] = bare[k - n] BY <1>2, <1>4, <4>2
        <5> QED BY <1>1, <5>1 DEF Archived, m
      <4> QED BY <4>1, <4>2
    <3>2. \A k \in 1..Len(archive') : \A f : f = archive'[k] => Faithful(f)'
      BY <1>4, <2>1, <3>1
    <3> QED BY <3>2
  <2>3. (\A k \in 1..Len(bare) : Faithful(bare[k]) /\ bare[k].kind # "link")' BY <1>5
  <2>4. LinksBack'
    <3> SUFFICES ASSUME NEW k \in 1..n + m, archive'[k].kind = "link"
                 PROVE  \E j \in 1..k - 1 : archive'[j].path = archive'[k].to
      BY <1>4 DEF LinksBack
    <3>1. CASE k <= n
      <4>1. k \in 1..n /\ archive'[k] = archive[k] BY <1>2, <1>4, <3>1
      <4>2. PICK j \in 1..k - 1 : archive[j].path = archive[k].to
        BY <1>1, <4>1 DEF Archived, LinksBack, n
      <4>3. j \in 1..n + m /\ j <= n BY <1>2, <3>1
      <4> QED BY <1>4, <4>1, <4>2, <4>3
    <3>2. CASE ~(k <= n)
      <4>1. k - n \in 1..m /\ archive'[k] = bare[k - n] BY <1>2, <1>4, <3>2
      <4> QED BY <1>1, <4>1 DEF Archived, m
    <3> QED BY <3>1, <3>2
  <2>5. Seen'
    <3>1. \A j \in 1..n : j \in 1..n + m /\ archive'[j] = archive[j] BY <1>2, <1>4
    <3> SUFFICES ASSUME NEW i \in DOMAIN inodes
                 PROVE  /\ inodes[i] \in DOMAIN tree /\ tree[inodes[i]].inode = i
                        /\ format = "tar"
                        /\ \E j \in 1..n + m : archive'[j].path = inodes[i]
      BY <1>1, <1>4 DEF Seen
    <3>2. /\ inodes[i] \in DOMAIN tree /\ tree[inodes[i]].inode = i /\ format = "tar"
          /\ \E j \in 1..n : archive[j].path = inodes[i]
      BY <1>1 DEF Archived, Seen, n
    <3> QED BY <3>1, <3>2
  <2>6. (phase # "failed" => \A p \in walked : IsOutput(p) \/ Listed(p))'
    <3> SUFFICES ASSUME NEW p \in walked PROVE IsOutput(p)' \/ Listed(p)' BY <1>1
    <3>1. IsOutput(p) \/ Listed(p) BY <1>1 DEF Archived
    <3>2. CASE IsOutput(p) BY <1>1, <3>2, Steady
    <3>3. ASSUME NEW k \in 1..n, archive[k].path = p PROVE Listed(p)'
      <4>1. k \in 1..n + m /\ archive'[k] = archive[k] BY <1>2, <1>4
      <4> QED BY <1>4, <3>3, <4>1 DEF Listed
    <3>4. ASSUME NEW k \in 1..m, bare[k].path = p PROVE Listed(p)'
      <4>1. n + k \in 1..n + m /\ ~(n + k <= n) /\ (n + k) - n = k BY <1>2
      <4>2. archive'[n + k] = bare[k] BY <1>4, <4>1
      <4> QED BY <1>4, <3>4, <4>1, <4>2 DEF Listed
    <3> QED BY <3>1, <3>2, <3>3, <3>4 DEF Listed, n, m
  <2> QED BY <1>1, <2>2, <2>3, <2>4, <2>5, <2>6 DEF Archived
<1>7. Typed'
  <2>1. next' \in 1..Len(archive') + 1
    <3>1. Len(archive') \in Nat /\ next' = 1 BY <1>1, <1>2, <1>4
    <3> QED BY <3>1
  <2>2. disk' \in [DOMAIN disk' -> Nodes] BY <1>1 DEF Typed
  <2> QED BY <1>1, <1>3, <1>4, <1>5, <2>1, <2>2 DEF Typed
<1>8. Unpacked' /\ Contents' /\ Counted' /\ Modes' BY <1>1, NothingUnpacked
<1>9. FailsOnlyForCause' BY <1>1 DEF FailsOnlyForCause
<1> QED BY <1>6, <1>7, <1>8, <1>9 DEF UnpackInv

-----------------------------------------------------------------------------
(* Unpacking                                                               *)

\* The entry being unpacked tells the truth of a path that is not the output.
LEMMA ThisEntryFacts ==
  ASSUME Typed, Archived, next <= Len(archive)
  PROVE  /\ next \in 1..Len(archive) /\ next + 1 \in 1..Len(archive) + 1
         /\ ThisEntry \in Entries /\ Faithful(ThisEntry)
         /\ ThisEntry.path \in DOMAIN tree /\ tree \in Trees
<1>1. archive \in Seq(Entries) /\ Len(archive) \in Nat /\ next \in 1..Len(archive) + 1
  BY DEF Typed
<1>2. next \in 1..Len(archive) /\ next + 1 \in 1..Len(archive) + 1 BY <1>1
<1>3. ThisEntry \in Entries BY <1>1, <1>2, ElementOfSeq DEF ThisEntry
<1>4. Faithful(ThisEntry) BY <1>2 DEF Archived, ThisEntry
<1>5. ThisEntry.path \in DOMAIN tree /\ tree \in Trees BY <1>4 DEF Faithful, Typed
<1> QED BY <1>2, <1>3, <1>4, <1>5

\* Until the end every directory can be written into.
LEMMA NeverRefused ==
  ASSUME Typed, Unpacked, Contents, Modes, phase = "unpack", NEW p \in DOMAIN tree
  PROVE  ~Refused(p)
<1>1. tree \in Trees BY DEF Typed
<1>2. SUFFICES ASSUME NEW k \in 0..Len(p) - 1, SubSeq(p, 1, k) \in DOMAIN disk,
                      ~disk[SubSeq(p, 1, k)].writable
               PROVE  FALSE
  BY DEF Refused
<1> DEFINE q == SubSeq(p, 1, k)
<1>3. p \in Seq(STRING) /\ q \in Paths BY <1>1, <1>2, TreeFacts DEF Unpacked, Paths
<1>4. k # 0
  <2>1. SubSeq(p, 1, 0) = <<>> BY <1>3, SubSeqEmpty
  <2> QED BY <1>3, <2>1 DEF Paths
<1>5. k \in 1..Len(p) - 1
  <2>1. Len(p) \in Nat BY <1>3, LenProperties
  <2> QED BY <1>4, <2>1
<1>6. q \in DOMAIN tree /\ Kind(q) = "dir" BY <1>1, <1>5, ParentFacts
<1> HIDE DEF q
<1>7. Kept(q) = q BY <1>1, <1>6, KeptFacts
<1>8. q \in DOMAIN disk /\ ~disk[q].writable BY <1>2 DEF q
<1>9. disk[q].kind = "dir" BY <1>6, <1>7, <1>8 DEF Contents, Suits
<1> QED BY <1>8, <1>9 DEF Modes

\* What suits a path suits it as long as the archive is the same.
LEMMA SuitsStays ==
  ASSUME UNCHANGED <<tree, format, inodes>>
  PROVE  \A node, p : Suits(node, p)' <=> Suits(node, p)
<1> SUFFICES ASSUME NEW node, NEW p PROVE Suits(node, p)' <=> Suits(node, p) OBVIOUS
<1>1. /\ Kept(p)' = Kept(p) /\ (Mode(p)' <=> Mode(p)) /\ Id(p)' = Id(p)
      /\ Kind(Kept(p))' = Kind(Kept(p))
  BY Steady
<1> QED BY <1>1 DEF Suits

\* Creating something that suits its path, with the folders it lies in.
LEMMA Created ==
  ASSUME Typed, Archived, Unpacked, Contents, next <= Len(archive),
         UNCHANGED <<tree, format, inodes>>,
         NEW p \in DOMAIN tree, p = ThisEntry.path, NEW node \in Nodes, Suits(node, p),
         disk' = With(p, node)
  PROVE  /\ disk' \in [DOMAIN disk' -> Nodes]
         /\ \A q \in DOMAIN disk : q \in DOMAIN disk'
         /\ p \in DOMAIN disk' /\ disk'[p] = node
         /\ \A q \in DOMAIN disk' : q \in DOMAIN tree /\ ~IsOutput(q)
         /\ \A q \in DOMAIN disk' : Suits(disk'[q], q)
         /\ \A q \in DOMAIN disk : q # p => disk'[q] = disk[q]
         /\ \A q \in DOMAIN disk' : q # p /\ q \notin DOMAIN disk =>
              disk'[q].kind = "dir" /\ disk'[q].writable
<1>1. tree \in Trees /\ ~IsOutput(p) /\ p \in Paths
  BY ThisEntryFacts, TreeFacts DEF Faithful
<1>2. DOMAIN disk' = DOMAIN disk \cup Missing(p) \cup {p} BY DEF With
<1>3. \A q \in DOMAIN disk' :
        disk'[q] = IF q = p THEN node ELSE IF q \in DOMAIN disk THEN disk[q] ELSE ADirectory
  BY <1>2 DEF With
<1>4. \A q \in Missing(p) : /\ q \in DOMAIN tree /\ Kind(q) = "dir" /\ ~IsOutput(q)
                            /\ q \notin DOMAIN disk
  BY <1>1, ParentFacts DEF Missing
<1>5. ADirectory \in Nodes /\ ADirectory.kind = "dir" /\ ADirectory.writable = TRUE
  <2>1. <<>> \in Seq(STRING) BY EmptySeq
  <2> QED BY <1>1, <2>1 DEF ADirectory, Node, Nodes, Kinds
<1>6. \A q \in Missing(p) : Suits(ADirectory, q)
  <2> SUFFICES ASSUME NEW q \in Missing(p) PROVE Suits(ADirectory, q) OBVIOUS
  <2>1. Kept(q) = q /\ Kind(q) = "dir" BY <1>1, <1>4, KeptFacts
  <2> QED BY <1>5, <2>1 DEF Suits
<1>7. disk' \in [DOMAIN disk' -> Nodes]
  <2>1. disk \in [DOMAIN disk -> Nodes] BY DEF Typed
  <2>2. \A q \in DOMAIN disk' : disk'[q] \in Nodes BY <1>3, <1>5, <2>1
  <2>3. disk' = [q \in DOMAIN disk' |-> disk'[q]] BY <1>2 DEF With
  <2> QED BY <2>2, <2>3
<1>8. \A q \in DOMAIN disk' : q \in DOMAIN tree /\ ~IsOutput(q)
  BY <1>1, <1>2, <1>4 DEF Unpacked
<1>9. \A q \in DOMAIN disk' : Suits(disk'[q], q)
  BY <1>2, <1>3, <1>6 DEF Contents
<1> QED BY <1>2, <1>3, <1>5, <1>7, <1>8, <1>9

\* The archive is the same from its opening on.
LEMMA BuildStays ==
  ASSUME Archived, UNCHANGED build, phase \notin {"build", "failed"}, walked \subseteq DOMAIN tree
  PROVE  Archived'
<1>1. UNCHANGED <<tree, format, archive, bare, inodes, walked>> BY DEF build
<1> QED BY <1>1, ArchivedStays

\* An entry is done: its path is on the disk as it should be, the modes owed are
\* noted, and nothing else is touched.
LEMMA EntryDone ==
  ASSUME UnpackInv, phase = "unpack", next <= Len(archive),
         UNCHANGED <<build, phase, room, buffered, dropped, cause, vars>>,
         next' = next + 1, units' = 0,
         NEW p \in DOMAIN tree, p = ThisEntry.path,
         disk' \in [DOMAIN disk' -> Nodes],
         \A q \in DOMAIN disk : q \in DOMAIN disk',
         p \in DOMAIN disk',
         \A q \in DOMAIN disk' : q \in DOMAIN tree /\ ~IsOutput(q) /\ Suits(disk'[q], q),
         \A q \in DOMAIN disk : q # p => disk'[q] = disk[q],
         \A q \in DOMAIN disk' : q # p /\ q \notin DOMAIN disk =>
           disk'[q].kind = "dir" /\ disk'[q].writable,
         disk'[p].kind = "dir" => disk'[p].writable,
         disk'[p].kind = "file" => dropped \/ disk'[p].size = tree[Kept(p)].size,
         readOnly' \in Seq(Paths),
         \A q : Noted(q) => Noted(q)',
         \A q : Noted(q)' => Noted(q) \/ (q = p /\ disk'[p].kind = "dir" /\ ~Mode(p)),
         format = "tar" /\ ThisEntry.kind = "dir" => Mode(p) \/ Noted(p)'
  PROVE  UnpackInv'
<1>1. /\ Typed /\ Archived /\ Unpacked /\ Contents /\ Modes /\ FailsOnlyForCause
      /\ UNCHANGED <<tree, format, archive, bare, length, inodes, walked>>
  BY DEF UnpackInv, build
<1>2. /\ next \in 1..Len(archive) /\ next + 1 \in 1..Len(archive) + 1 /\ next \in Nat
      /\ Len(archive) \in Nat
  <2>1. Len(archive) \in Nat BY <1>1 DEF Typed
  <2> QED BY <1>1, <2>1, ThisEntryFacts
<1>3. Typed'
  <2>1. Inv' BY <1>1 DEF Typed, Inv, TypeOK, vars, inputs
  <2> QED BY <1>1, <1>2, <2>1 DEF Typed
<1>4. Archived'
  <2>1. walked \subseteq DOMAIN tree BY <1>1 DEF Typed
  <2> QED BY <1>1, <2>1, BuildStays
<1>5. \A k \in 1..next' - 1 : k \in 1..next - 1 \/ (k = next /\ archive[k].path = p)
  BY <1>2 DEF ThisEntry
<1>6. Unpacked'
  <2>1. (\A q \in DOMAIN disk : q \in DOMAIN tree /\ ~IsOutput(q))' BY <1>1, Steady
  <2>2. \A k \in 1..next' - 1 : archive'[k].path \in DOMAIN disk'
    BY <1>1, <1>5 DEF Unpacked
  <2> QED BY <2>1, <2>2 DEF Unpacked
<1>7. Contents'
  <2>1. (\A q \in DOMAIN disk : Suits(disk[q], q))'
    <3>1. \A q \in DOMAIN disk' : \A node : node = disk'[q] => Suits(node, q)'
      BY <1>1, SuitsStays
    <3> QED BY <3>1
  <2>2. ASSUME ~dropped, NEW q \in DOMAIN disk', disk'[q].kind = "file"
        PROVE  disk'[q].size = tree[Kept(q)].size
    <3>1. CASE q = p BY <2>2, <3>1
    <3>2. CASE q # p
      <4>1. q \in DOMAIN disk /\ disk'[q] = disk[q] BY <2>2, <3>2
      <4>2. ~Copying(q) BY DEF Copying
      <4> QED BY <1>1, <2>2, <4>1, <4>2 DEF Contents
    <3> QED BY <3>1, <3>2
  <2>3. \A q \in DOMAIN disk' : Kept(q)' = Kept(q) BY <1>1, Steady
  <2> QED BY <1>1, <2>1, <2>2, <2>3 DEF Contents
<1>8. Counted' BY DEF Counted
<1>9. Modes'
  <2>1. \A q : Mode(q)' <=> Mode(q) BY <1>1, Steady
  <2>2. ASSUME NEW q, Noted(q)'
        PROVE  q \in DOMAIN disk' /\ disk'[q].kind = "dir" /\ ~Mode(q)
    <3>1. CASE Noted(q)
      <4>1. q \in DOMAIN disk /\ disk[q].kind = "dir" /\ ~Mode(q)
        BY <1>1, <3>1 DEF Modes, Noted
      <4>2. disk[q].kind = Kind(Kept(q)) /\ disk'[q].kind = Kind(Kept(q))
        BY <1>1, <4>1 DEF Contents, Suits
      <4> QED BY <4>1, <4>2
    <3>2. CASE ~Noted(q)
      BY <2>2, <3>2
    <3> QED BY <3>1, <3>2
  <2>3. (\A i \in 1..Len(readOnly) :
          /\ readOnly[i] \in DOMAIN disk /\ disk[readOnly[i]].kind = "dir"
          /\ ~Mode(readOnly[i]))'
    <3>1. \A i \in 1..Len(readOnly') : \A q : q = readOnly'[i] =>
            q \in DOMAIN disk' /\ disk'[q].kind = "dir" /\ ~Mode(q)'
      BY <2>1, <2>2 DEF Noted
    <3> QED BY <3>1
  <2>4. \A q \in DOMAIN disk' : disk'[q].kind = "dir" => disk'[q].writable
    <3> SUFFICES ASSUME NEW q \in DOMAIN disk', disk'[q].kind = "dir"
                 PROVE  disk'[q].writable
      OBVIOUS
    <3>1. CASE q = p BY <3>1
    <3>2. CASE q # p /\ q \in DOMAIN disk BY <1>1, <3>2 DEF Modes
    <3>3. CASE q # p /\ q \notin DOMAIN disk BY <3>3
    <3> QED BY <3>1, <3>2, <3>3
  <2>5. \A k \in 1..next' - 1 : \A q : q = archive'[k].path =>
          (format = "tar" /\ archive'[k].kind = "dir" => Mode(q) \/ Noted(q)')
    <3> SUFFICES ASSUME NEW k \in 1..next' - 1, NEW q, q = archive[k].path,
                        format = "tar", archive[k].kind = "dir"
                 PROVE  Mode(q) \/ Noted(q)'
      BY <1>1
    <3>1. CASE k \in 1..next - 1
      <4>1. Mode(q) \/ Noted(q) BY <1>1, <3>1 DEF Modes
      <4> QED BY <4>1
    <3>2. CASE k = next /\ archive[k].path = p BY <3>2 DEF ThisEntry
    <3> QED BY <1>5, <3>1, <3>2
  <2>6. (\A k \in 1..next - 1 :
           format = "tar" /\ archive[k].kind = "dir" =>
             Mode(archive[k].path) \/ Noted(archive[k].path))'
    BY <1>1, <2>1, <2>5
  <2> QED BY <2>3, <2>4, <2>6 DEF Modes
<1>10. FailsOnlyForCause' BY DEF FailsOnlyForCause
<1> QED BY <1>3, <1>4, <1>6, <1>7, <1>8, <1>9, <1>10 DEF UnpackInv

\* What an entry that is ready says.
LEMMA ReadyFacts ==
  ASSUME UnpackInv, NEW kind, Ready(kind)
  PROVE  /\ Typed /\ Archived /\ Unpacked /\ Contents /\ Modes
         /\ phase = "unpack" /\ next <= Len(archive) /\ ThisEntry.kind = kind
         /\ ThisEntry.path \in DOMAIN tree /\ ThisEntry.path \in Paths
         /\ ~Refused(ThisEntry.path)
         /\ ThisEntry \in Entries /\ Faithful(ThisEntry)
<1>1. /\ Typed /\ Archived /\ Unpacked /\ Contents /\ Modes
      /\ phase = "unpack" /\ next <= Len(archive) /\ ThisEntry.kind = kind
  BY DEF UnpackInv, Ready
<1>2. /\ ThisEntry.path \in DOMAIN tree /\ ThisEntry \in Entries /\ Faithful(ThisEntry)
      /\ ThisEntry.path \in Paths
  BY <1>1, ThisEntryFacts, TreeFacts
<1>3. ~Refused(ThisEntry.path) BY <1>1, <1>2, NeverRefused
<1> QED BY <1>1, <1>2, <1>3

\* A directory is made, or was there, and its mode is noted.
LEMMA UnpackDirKeeps ==
  ASSUME UnpackInv, UnpackDir
  PROVE  UnpackInv'
<1>1. Ready("dir") /\ UNCHANGED vars BY DEF UnpackDir
<1>2. PICK p \in DOMAIN tree : p = ThisEntry.path BY <1>1, ReadyFacts
<1>3. /\ Typed /\ Archived /\ Unpacked /\ Contents /\ phase = "unpack"
      /\ next <= Len(archive) /\ ThisEntry.kind = "dir" /\ p \in Paths /\ ~Refused(p)
      /\ Faithful(ThisEntry)
  BY <1>1, <1>2, ReadyFacts
<1>4. /\ disk' = IF p \in DOMAIN disk THEN disk ELSE With(p, ADirectory)
      /\ readOnly' = IF format = "tar" /\ ~ThisEntry.writable
                     THEN Append(readOnly, p) ELSE readOnly
      /\ next' = next + 1 /\ units' = 0
      /\ UNCHANGED <<build, phase, room, buffered, dropped, cause>>
  BY <1>2, <1>3 DEF UnpackDir
<1>5. UNCHANGED <<tree, format, inodes>> BY <1>4 DEF build
<1>6. Kind(Kept(p)) = "dir" /\ (ThisEntry.writable <=> Mode(p))
  BY <1>2, <1>3 DEF Faithful
<1>7. ADirectory \in Nodes /\ ADirectory.kind = "dir" /\ ADirectory.writable = TRUE
  <2>1. <<>> \in Seq(STRING) BY EmptySeq
  <2> QED BY <1>2, <1>3, <2>1 DEF ADirectory, Node, Nodes, Kinds
<1>8. Suits(ADirectory, p) BY <1>6, <1>7 DEF Suits
<1>9. /\ disk' \in [DOMAIN disk' -> Nodes]
      /\ \A q \in DOMAIN disk : q \in DOMAIN disk'
      /\ p \in DOMAIN disk' /\ disk'[p].kind = "dir" /\ disk'[p].writable
      /\ \A q \in DOMAIN disk' : q \in DOMAIN tree /\ ~IsOutput(q) /\ Suits(disk'[q], q)
      /\ \A q \in DOMAIN disk : q # p => disk'[q] = disk[q]
      /\ \A q \in DOMAIN disk' : q # p /\ q \notin DOMAIN disk =>
           disk'[q].kind = "dir" /\ disk'[q].writable
  <2>1. CASE p \in DOMAIN disk
    <3>1. disk' = disk BY <1>4, <2>1
    <3>2. disk[p].kind = "dir" BY <1>3, <1>6, <2>1 DEF Contents, Suits
    <3>3. disk[p].writable BY <1>1, <1>3, <2>1, <3>2, ReadyFacts DEF Modes
    <3> QED BY <1>3, <2>1, <3>1, <3>2, <3>3 DEF Typed, Unpacked, Contents
  <2>2. CASE p \notin DOMAIN disk
    <3>1. disk' = With(p, ADirectory) BY <1>4, <2>2
    <3> QED BY <1>2, <1>3, <1>5, <1>7, <1>8, <3>1, Created
  <2> QED BY <2>1, <2>2
<1>10. /\ readOnly' \in Seq(Paths)
       /\ \A q : Noted(q) => Noted(q)'
       /\ \A q : Noted(q)' => Noted(q) \/ (q = p /\ ~Mode(p))
       /\ format = "tar" => Mode(p) \/ Noted(p)'
  <2>1. readOnly \in Seq(Paths) /\ Len(readOnly) \in Nat BY <1>3 DEF Typed
  <2>2. CASE format = "tar" /\ ~ThisEntry.writable
    <3> DEFINE n == Len(readOnly)
    <3>1. /\ readOnly' \in Seq(Paths) /\ Len(readOnly') = n + 1
          /\ \A i \in 1..n : readOnly'[i] = readOnly[i]
          /\ readOnly'[n + 1] = p
      BY <1>3, <1>4, <2>1, <2>2, AppendProperties
    <3>2. n \in Nat BY <2>1
    <3>3. \A q : Noted(q) <=> \E i \in 1..n : readOnly[i] = q BY DEF Noted
    <3>4. \A q : Noted(q)' <=> \E i \in 1..n + 1 : readOnly'[i] = q BY <3>1 DEF Noted
    <3> HIDE DEF n
    <3>5. \A i \in 1..n + 1 : i \in 1..n \/ i = n + 1 BY <3>2
    <3>6. n + 1 \in 1..n + 1 /\ \A i \in 1..n : i \in 1..n + 1 BY <3>2
    <3>7. \A q : Noted(q)' <=> Noted(q) \/ q = p BY <3>1, <3>3, <3>4, <3>5, <3>6
    <3> QED BY <1>6, <2>2, <3>1, <3>7
  <2>3. CASE ~(format = "tar" /\ ~ThisEntry.writable)
    <3>1. readOnly' = readOnly BY <1>4, <2>3
    <3>2. \A q : Noted(q)' <=> Noted(q) BY <3>1 DEF Noted
    <3> QED BY <1>6, <2>1, <2>3, <3>1, <3>2
  <2> QED BY <2>2, <2>3
<1> QED BY <1>1, <1>2, <1>3, <1>4, <1>9, <1>10, EntryDone

\* A failure with a cause leaves everything else as it is.
LEMMA FailKeeps ==
  ASSUME UnpackInv, phase \notin {"build", "failed"}, NEW why, Fail(why), Inv',
         FailsOnlyForCause'
  PROVE  UnpackInv'
<1>1. /\ Typed /\ Archived /\ Unpacked /\ Contents /\ Modes /\ phase' = "failed"
      /\ UNCHANGED <<build, next, disk, readOnly, room, units, buffered, dropped>>
      /\ UNCHANGED <<tree, format, archive, bare, length, inodes, walked>>
  BY DEF UnpackInv, Fail, build
<1>2. Typed' BY <1>1 DEF Typed
<1>3. Archived'
  <2>1. walked \subseteq DOMAIN tree BY <1>1 DEF Typed
  <2> QED BY <1>1, <2>1, BuildStays
<1>4. Unpacked'
  <2>1. (\A q \in DOMAIN disk : q \in DOMAIN tree /\ ~IsOutput(q))'
    BY <1>1, Steady DEF Unpacked
  <2> QED BY <1>1, <2>1 DEF Unpacked
<1>5. Contents'
  <2>1. (\A q \in DOMAIN disk : Suits(disk[q], q))'
    <3>1. \A q \in DOMAIN disk' : \A node : node = disk'[q] => Suits(node, q)'
      BY <1>1, SuitsStays DEF Contents
    <3> QED BY <3>1
  <2> QED BY <1>1, <2>1 DEF Contents
<1>6. Counted' BY <1>1 DEF Counted
<1>7. Modes'
  <2>1. \A q : Mode(q)' <=> Mode(q) BY <1>1, Steady
  <2>2. \A i \in 1..Len(readOnly') : \A q : q = readOnly'[i] =>
          q \in DOMAIN disk' /\ disk'[q].kind = "dir" /\ ~Mode(q)'
    BY <1>1, <2>1 DEF Modes
  <2>3. (\A i \in 1..Len(readOnly) :
          /\ readOnly[i] \in DOMAIN disk /\ disk[readOnly[i]].kind = "dir"
          /\ ~Mode(readOnly[i]))'
    BY <2>2
  <2> QED BY <1>1, <2>3 DEF Modes
<1> QED BY <1>2, <1>3, <1>4, <1>5, <1>6, <1>7 DEF UnpackInv

\* A symbolic link is made.
LEMMA UnpackSymlinkKeeps ==
  ASSUME UnpackInv, UnpackSymlink
  PROVE  UnpackInv'
<1>1. Ready("symlink") /\ UNCHANGED vars BY DEF UnpackSymlink
<1>2. PICK p \in DOMAIN tree : p = ThisEntry.path BY <1>1, ReadyFacts
<1>3. /\ Typed /\ Archived /\ Unpacked /\ Contents /\ phase = "unpack"
      /\ next <= Len(archive) /\ ThisEntry.kind = "symlink" /\ p \in Paths /\ ~Refused(p)
      /\ Faithful(ThisEntry) /\ ThisEntry \in Entries
  BY <1>1, <1>2, ReadyFacts
<1>e. CASE Escapes(p)
  <2>1. Fail("escapingLink") BY <1>2, <1>e DEF UnpackSymlink
  <2>2. Inv' BY <1>1, <1>3 DEF Typed, Inv, TypeOK, vars, inputs
  <2>3. FailsOnlyForCause'
    <3>1. /\ Kind(Kept(p)) = "symlink" /\ Kept(p) \in DOMAIN tree
          /\ format \in {"tar", "zip", "7z"} /\ tree \in Trees
      BY <1>2, <1>3, UnpackAssumption DEF Faithful, Typed
    <3>2. format \in {"tar", "zip"} BY <1>2, <1>3, <3>1, KeptFacts
    <3>3. UNCHANGED <<tree, format>> /\ cause' = "escapingLink" BY <2>1 DEF Fail, build
    <3>4. Escapes(p)' BY <1>e, <3>3 DEF Escapes, Kind
    <3> QED BY <3>2, <3>3, <3>4 DEF FailsOnlyForCause
  <2> QED BY <1>3, <2>1, <2>2, <2>3, FailKeeps
<1>n. CASE ~Escapes(p)
  <2>4. PICK node : node = Node("symlink", ThisEntry.inode, TRUE, ThisEntry.to) OBVIOUS
  <2>5. /\ disk' = With(p, node) /\ next' = next + 1 /\ units' = 0
        /\ UNCHANGED <<build, phase, readOnly, room, buffered, dropped, cause>>
    BY <1>2, <1>3, <1>n, <2>4 DEF UnpackSymlink
  <2>6. UNCHANGED <<tree, format, inodes>> BY <2>5 DEF build
  <2>7. node \in Nodes /\ node.kind = "symlink" /\ node.to = ThisEntry.to
    BY <1>2, <1>3, <2>4 DEF Node, Nodes, Kinds, Entries
  <2>8. Suits(node, p)
    <3>1. Kind(Kept(p)) = "symlink" /\ ThisEntry.to = tree[p].to
      BY <1>2, <1>3 DEF Faithful
    <3> QED BY <2>7, <3>1 DEF Suits
  <2>9. /\ disk' \in [DOMAIN disk' -> Nodes]
        /\ \A q \in DOMAIN disk : q \in DOMAIN disk'
        /\ p \in DOMAIN disk' /\ disk'[p].kind = "symlink"
        /\ \A q \in DOMAIN disk' : q \in DOMAIN tree /\ ~IsOutput(q) /\ Suits(disk'[q], q)
        /\ \A q \in DOMAIN disk : q # p => disk'[q] = disk[q]
        /\ \A q \in DOMAIN disk' : q # p /\ q \notin DOMAIN disk =>
             disk'[q].kind = "dir" /\ disk'[q].writable
    BY <1>2, <1>3, <2>5, <2>6, <2>7, <2>8, Created
  <2>10. \A q : Noted(q)' <=> Noted(q) BY <2>5 DEF Noted
  <2>11. readOnly' \in Seq(Paths) BY <1>3, <2>5 DEF Typed
  <2> QED BY <1>1, <1>2, <1>3, <2>5, <2>9, <2>10, <2>11, EntryDone
<1> QED BY <1>e, <1>n

\* Two paths of an inode, of which one is a hard link.
LEMMA HardFacts ==
  ASSUME tree \in Trees, NEW p \in DOMAIN tree, NEW q \in DOMAIN tree, Hard(p),
         tree[q].inode = tree[p].inode
  PROVE  /\ Hard(q) /\ HardLinked(q) /\ tree[q] = tree[p] /\ Kind(q) = Kind(p)
         /\ Id(q) = Id(p) /\ Kept(p) = p /\ Kept(q) = q /\ (Mode(q) <=> Mode(p))
<1>1. format = "tar" /\ Kind(p) # "dir" /\ HardLinked(p) BY DEF Hard
<1>2. tree[q] = tree[p] BY TreeFacts
<1>3. Kind(q) = Kind(p) BY <1>2 DEF Kind
<1>4. HardLinked(q)
  <2>1. CASE q = p BY <1>1, <2>1
  <2>2. CASE q # p BY <2>2 DEF HardLinked
  <2> QED BY <2>1, <2>2
<1>5. Hard(q) BY <1>1, <1>3, <1>4 DEF Hard
<1>6. Id(q) = Id(p) BY <1>5 DEF Id
<1>7. Kept(p) = p /\ Kept(q) = q BY <1>1, KeptFacts
<1>8. Mode(q) <=> Mode(p) BY <1>1, <1>2 DEF Mode, KeepsMode
<1> QED BY <1>2, <1>3, <1>4, <1>5, <1>6, <1>7, <1>8

\* A hard link finds its target; one to a symbolic link is refused.
LEMMA UnpackLinkKeeps ==
  ASSUME UnpackInv, UnpackLink
  PROVE  UnpackInv'
<1>1. Ready("link") /\ UNCHANGED vars BY DEF UnpackLink
<1>2. PICK p \in DOMAIN tree : p = ThisEntry.path BY <1>1, ReadyFacts
<1>3. /\ Typed /\ Archived /\ Unpacked /\ Contents /\ phase = "unpack"
      /\ next <= Len(archive) /\ ThisEntry.kind = "link" /\ p \in Paths /\ ~Refused(p)
      /\ Faithful(ThisEntry) /\ ThisEntry \in Entries
  BY <1>1, <1>2, ReadyFacts
<1>4. PICK to : to = ThisEntry.to OBVIOUS
<1>5. Hard(p) /\ to = Id(p) /\ tree[p].inode \in DOMAIN inodes /\ tree \in Trees
  BY <1>2, <1>3, <1>4 DEF Faithful, Typed
<1>6. to \in DOMAIN tree /\ tree[to].inode = tree[p].inode
  BY <1>3, <1>5 DEF Id, Archived, Seen
<1>7. to \in DOMAIN disk
  <2>1. next \in 1..Len(archive) BY <1>3, ThisEntryFacts
  <2>2. PICK j \in 1..next - 1 : archive[j].path = to
    BY <1>3, <1>4, <2>1 DEF Archived, LinksBack, ThisEntry
  <2> QED BY <1>3, <2>2 DEF Unpacked
<1>8. /\ Hard(to) /\ HardLinked(to) /\ tree[to] = tree[p] /\ Kind(to) = Kind(p)
      /\ Id(to) = Id(p) /\ Kept(p) = p /\ Kept(to) = to /\ (Mode(to) <=> Mode(p))
  BY <1>5, <1>6, HardFacts
<1>9. Suits(disk[to], to) /\ disk[to] \in Nodes BY <1>3, <1>7 DEF Contents, Typed
<1>10. CASE disk[to].kind = "symlink"
  <2>1. Fail("linkedSymlink") BY <1>2, <1>3, <1>4, <1>7, <1>10 DEF UnpackLink
  <2>2. Inv' BY <1>1, <1>3 DEF Typed, Inv, TypeOK, vars, inputs
  <2>3. FailsOnlyForCause'
    <3>1. Kind(to) = "symlink" BY <1>8, <1>9, <1>10 DEF Suits
    <3>2. UNCHANGED <<tree, format>> /\ cause' = "linkedSymlink" BY <2>1 DEF Fail, build
    <3>3. Kind(to)' = Kind(to) /\ (HardLinked(to)' <=> HardLinked(to))
      BY <3>2 DEF Kind, HardLinked
    <3>4. format' = "tar" BY <1>5, <3>2 DEF Hard
    <3>5. \E q \in DOMAIN tree' : Kind(q)' = "symlink" /\ HardLinked(q)'
      BY <1>6, <1>8, <3>1, <3>2, <3>3
    <3> QED BY <3>2, <3>4, <3>5 DEF FailsOnlyForCause
  <2> QED BY <1>3, <2>1, <2>2, <2>3, FailKeeps
<1>11. CASE disk[to].kind # "symlink"
  <2>1. PICK node : node = disk[to] OBVIOUS
  <2>2. /\ disk' = With(p, node) /\ next' = next + 1 /\ units' = 0
        /\ UNCHANGED <<build, phase, readOnly, room, buffered, dropped, cause>>
    BY <1>2, <1>3, <1>4, <1>7, <1>11, <2>1 DEF UnpackLink
  <2>3. UNCHANGED <<tree, format, inodes>> BY <2>2 DEF build
  <2>4. node \in Nodes BY <1>9, <2>1
  <2>5. Suits(node, p) /\ node.kind = "file"
    <3>1. node.kind = Kind(p) BY <1>8, <1>9, <2>1 DEF Suits
    <3>2. node.kind = "file" BY <1>5, <1>11, <2>1, <2>4, <3>1 DEF Hard, Nodes, Kinds
    <3>3. node.inode = tree[p].inode /\ (node.writable <=> Mode(p)) /\ node.id = Id(p)
      BY <1>8, <1>9, <2>1, <3>2 DEF Suits
    <3> QED BY <1>8, <3>1, <3>2, <3>3 DEF Suits
  <2>6. dropped \/ node.size = tree[Kept(p)].size
    <3>1. ~Copying(to) BY <1>3 DEF Copying
    <3> QED BY <1>3, <1>7, <1>8, <2>1, <2>5, <3>1 DEF Contents
  <2>7. /\ disk' \in [DOMAIN disk' -> Nodes]
        /\ \A q \in DOMAIN disk : q \in DOMAIN disk'
        /\ p \in DOMAIN disk' /\ disk'[p] = node
        /\ \A q \in DOMAIN disk' : q \in DOMAIN tree /\ ~IsOutput(q) /\ Suits(disk'[q], q)
        /\ \A q \in DOMAIN disk : q # p => disk'[q] = disk[q]
        /\ \A q \in DOMAIN disk' : q # p /\ q \notin DOMAIN disk =>
             disk'[q].kind = "dir" /\ disk'[q].writable
    BY <1>2, <1>3, <2>2, <2>3, <2>4, <2>5, Created
  <2>8. \A q : Noted(q)' <=> Noted(q) BY <2>2 DEF Noted
  <2>9. readOnly' \in Seq(Paths) BY <1>3, <2>2 DEF Typed
  <2> QED BY <1>1, <1>2, <1>3, <2>2, <2>5, <2>6, <2>7, <2>8, <2>9, EntryDone
<1> QED BY <1>10, <1>11

\* A file is made, empty; its data is to come.
LEMMA OpenFileKeeps ==
  ASSUME UnpackInv, OpenFile
  PROVE  UnpackInv'
<1>1. Ready("file") BY DEF OpenFile
<1>2. PICK p \in DOMAIN tree : p = ThisEntry.path BY <1>1, ReadyFacts
<1>3. /\ Typed /\ Archived /\ Unpacked /\ Contents /\ Modes /\ phase = "unpack"
      /\ next <= Len(archive) /\ ThisEntry.kind = "file" /\ p \in Paths /\ ~Refused(p)
      /\ Faithful(ThisEntry) /\ ThisEntry \in Entries
  BY <1>1, <1>2, ReadyFacts
<1>4. PICK node : node = Node("file", ThisEntry.inode, ThisEntry.writable, <<>>) OBVIOUS
<1>5. /\ disk' = With(p, node) /\ phase' = "copy" /\ units' = 0 /\ buffered' = 0
      /\ UNCHANGED <<build, next, readOnly, room, dropped, cause>>
      /\ IF format = "tar" THEN UNCHANGED vars
         ELSE /\ total' = ThisEntry.size /\ state' = "copying"
              /\ remaining' = limit /\ given' = 0 /\ copied' = 0
              /\ UNCHANGED limit
  BY <1>2, <1>3, <1>4 DEF OpenFile
<1>6. UNCHANGED <<tree, format, archive, bare, length, inodes, walked>> BY <1>5 DEF build
<1>7. /\ node \in Nodes /\ node.kind = "file" /\ node.inode = ThisEntry.inode /\ node.id = p
      /\ node.writable = ThisEntry.writable /\ node.size = 0
  <2>1. <<>> \in Seq(STRING) BY EmptySeq
  <2> QED BY <1>2, <1>3, <1>4, <2>1 DEF Node, Nodes, Kinds, Entries
<1>8. /\ Kind(Kept(p)) = "file" /\ (ThisEntry.writable <=> Mode(p)) /\ Id(p) = p
      /\ ThisEntry.inode = tree[Kept(p)].inode /\ ThisEntry.size \in Nat
  BY <1>2, <1>3 DEF Faithful, Entries
<1>9. Suits(node, p) BY <1>7, <1>8 DEF Suits
<1>10. /\ disk' \in [DOMAIN disk' -> Nodes]
       /\ \A q \in DOMAIN disk : q \in DOMAIN disk'
       /\ p \in DOMAIN disk' /\ disk'[p] = node
       /\ \A q \in DOMAIN disk' : q \in DOMAIN tree /\ ~IsOutput(q)
       /\ \A q \in DOMAIN disk' : Suits(disk'[q], q)
       /\ \A q \in DOMAIN disk : q # p => disk'[q] = disk[q]
       /\ \A q \in DOMAIN disk' : q # p /\ q \notin DOMAIN disk =>
            disk'[q].kind = "dir" /\ disk'[q].writable
  BY <1>2, <1>3, <1>5, <1>6, <1>7, <1>9, Created
<1>11. Typed'
  <2>1. Inv'
    <3>1. CASE format = "tar"
      <4>1. UNCHANGED vars BY <1>5, <3>1
      <4> QED BY <1>3, <4>1 DEF Typed, Inv, TypeOK, vars, inputs
    <3>2. CASE format # "tar"
      <4>1. limit \in Nat BY <1>3 DEF Typed, Inv, TypeOK
      <4>2. /\ total' = ThisEntry.size /\ state' = "copying" /\ remaining' = limit
            /\ given' = 0 /\ copied' = 0 /\ limit' = limit
        BY <1>5, <3>2
      <4> QED BY <1>8, <4>1, <4>2 DEF Inv, TypeOK
    <3> QED BY <3>1, <3>2
  <2>2. buffered' \in 0..BufferUnits BY <1>5, UnpackAssumption
  <2> QED BY <1>3, <1>5, <1>6, <1>10, <2>1, <2>2 DEF Typed
<1>12. Archived'
  <2>1. walked \subseteq DOMAIN tree BY <1>3 DEF Typed
  <2> QED BY <1>3, <1>5, <2>1, BuildStays
<1>13. Unpacked'
  <2>1. (\A q \in DOMAIN disk : q \in DOMAIN tree /\ ~IsOutput(q))' BY <1>6, <1>10, Steady
  <2> QED BY <1>3, <1>5, <1>6, <1>10, <2>1 DEF Unpacked
<1>14. Contents'
  <2>1. (\A q \in DOMAIN disk : Suits(disk[q], q))'
    <3>1. \A q \in DOMAIN disk' : \A n : n = disk'[q] => Suits(n, q)'
      BY <1>6, <1>10, SuitsStays
    <3> QED BY <3>1
  <2>2. ThisEntry' = ThisEntry BY <1>5, <1>6 DEF ThisEntry
  <2>3. ASSUME ~dropped, NEW q \in DOMAIN disk', disk'[q].kind = "file", ~Copying(q)'
        PROVE  disk'[q].size = tree[Kept(q)].size
    <3>1. q # p BY <1>2, <1>5, <2>2, <2>3 DEF Copying
    <3>2. q \in DOMAIN disk /\ disk'[q] = disk[q] BY <1>10, <2>3, <3>1
    <3>3. ~Copying(q) BY <1>3 DEF Copying
    <3> QED BY <1>3, <2>3, <3>2, <3>3 DEF Contents
  <2>4. \A q : Kept(q)' = Kept(q) BY <1>6, Steady
  <2> QED BY <1>5, <1>6, <2>1, <2>3, <2>4 DEF Contents
<1>15. Counted'
  <2>1. ThisEntry' = ThisEntry BY <1>5, <1>6 DEF ThisEntry
  <2> QED BY <1>2, <1>3, <1>5, <1>6, <1>7, <1>8, <1>10, <2>1 DEF Counted
<1>16. Modes'
  <2>1. \A q : (Mode(q)' <=> Mode(q)) /\ (Noted(q)' <=> Noted(q))
    BY <1>5, <1>6, Steady DEF Noted
  <2>2. \A q \in DOMAIN disk : disk'[q].kind = disk[q].kind
    BY <1>3, <1>10 DEF Contents, Suits
  <2>3. \A i \in 1..Len(readOnly') : \A q : q = readOnly'[i] =>
          q \in DOMAIN disk' /\ disk'[q].kind = "dir" /\ ~Mode(q)'
    BY <1>3, <1>5, <1>10, <2>1, <2>2 DEF Modes
  <2>4. (\A i \in 1..Len(readOnly) :
          /\ readOnly[i] \in DOMAIN disk /\ disk[readOnly[i]].kind = "dir"
          /\ ~Mode(readOnly[i]))'
    BY <2>3
  <2>5. \A q \in DOMAIN disk' : disk'[q].kind = "dir" => disk'[q].writable
    <3> SUFFICES ASSUME NEW q \in DOMAIN disk', disk'[q].kind = "dir"
                 PROVE  disk'[q].writable
      OBVIOUS
    <3>1. q # p BY <1>7, <1>10
    <3>2. CASE q \in DOMAIN disk BY <1>3, <1>10, <3>1, <3>2 DEF Modes
    <3>3. CASE q \notin DOMAIN disk BY <1>10, <3>1, <3>3
    <3> QED BY <3>2, <3>3
  <2>6. \A k \in 1..next' - 1 : \A q : q = archive'[k].path =>
          (format' = "tar" /\ archive'[k].kind = "dir" => Mode(q)' \/ Noted(q)')
    BY <1>3, <1>5, <1>6, <2>1 DEF Modes
  <2>7. (\A k \in 1..next - 1 :
           format = "tar" /\ archive[k].kind = "dir" =>
             Mode(archive[k].path) \/ Noted(archive[k].path))'
    BY <2>6
  <2> QED BY <1>5, <2>4, <2>5, <2>7 DEF Modes
<1>17. FailsOnlyForCause' BY <1>5 DEF FailsOnlyForCause
<1> QED BY <1>11, <1>12, <1>13, <1>14, <1>15, <1>16, <1>17 DEF UnpackInv

\* A step that changes no more of the disk than sizes and modes of directories.
LEMMA SameNodes ==
  ASSUME UnpackInv, phase \notin {"build", "failed"}, UNCHANGED build,
         disk' \in [DOMAIN disk -> Nodes],
         \A q \in DOMAIN disk :
           /\ disk'[q].kind = disk[q].kind /\ disk'[q].inode = disk[q].inode
           /\ disk'[q].to = disk[q].to /\ disk'[q].id = disk[q].id
           /\ disk[q].kind = "file" => (disk'[q].writable <=> disk[q].writable)
  PROVE  /\ DOMAIN disk' = DOMAIN disk /\ Archived'
         /\ UNCHANGED <<tree, format, archive, bare, length, inodes, walked>>
         /\ \A q : Kept(q)' = Kept(q) /\ (Mode(q)' <=> Mode(q))
         /\ (\A q \in DOMAIN disk : q \in DOMAIN tree /\ ~IsOutput(q))'
         /\ (\A q \in DOMAIN disk : Suits(disk[q], q))'
<1>1. /\ Typed /\ Archived /\ Unpacked /\ Contents
      /\ UNCHANGED <<tree, format, archive, bare, length, inodes, walked>>
  BY DEF UnpackInv, build
<1>2. DOMAIN disk' = DOMAIN disk OBVIOUS
<1>3. Archived'
  <2>1. walked \subseteq DOMAIN tree BY <1>1 DEF Typed
  <2> QED BY <1>1, <2>1, BuildStays
<1>4. \A q : Kept(q)' = Kept(q) /\ (Mode(q)' <=> Mode(q)) BY <1>1, Steady
<1>5. (\A q \in DOMAIN disk : q \in DOMAIN tree /\ ~IsOutput(q))'
  BY <1>1, <1>2, Steady DEF Unpacked
<1>6. (\A q \in DOMAIN disk : Suits(disk[q], q))'
  <2>1. \A q \in DOMAIN disk : Suits(disk'[q], q) BY <1>1 DEF Contents, Suits
  <2>2. \A q \in DOMAIN disk' : \A node : node = disk'[q] => Suits(node, q)'
    BY <1>1, <1>2, <2>1, SuitsStays
  <2> QED BY <2>2
<1> QED BY <1>1, <1>2, <1>3, <1>4, <1>5, <1>6

\* As long as no mode is touched the modes owed are the same.
LEMMA ModesStay ==
  ASSUME UnpackInv, phase \in {"unpack", "copy"}, phase' \in {"unpack", "copy", "failed"},
         UNCHANGED <<build, readOnly>>,
         DOMAIN disk' = DOMAIN disk,
         \A q \in DOMAIN disk : /\ disk'[q].kind = disk[q].kind
                                /\ disk'[q].writable <=> disk[q].writable,
         next' = next \/ (next' = next + 1 /\ ThisEntry.kind # "dir")
  PROVE  Modes'
<1>1. /\ Modes /\ UNCHANGED <<tree, format, archive, inodes>> /\ next \in Nat
  BY DEF UnpackInv, Typed, build
<1>2. \A q : (Mode(q)' <=> Mode(q)) /\ (Noted(q)' <=> Noted(q))
  BY <1>1, Steady DEF Noted
<1>3. \A i \in 1..Len(readOnly') : \A q : q = readOnly'[i] =>
        q \in DOMAIN disk' /\ disk'[q].kind = "dir" /\ ~Mode(q)'
  BY <1>1, <1>2 DEF Modes
<1>4. (\A i \in 1..Len(readOnly) :
        /\ readOnly[i] \in DOMAIN disk /\ disk[readOnly[i]].kind = "dir"
        /\ ~Mode(readOnly[i]))'
  BY <1>3
<1>5. \A q \in DOMAIN disk' : disk'[q].kind = "dir" => disk'[q].writable
  BY <1>1 DEF Modes
<1>6. \A k \in 1..next' - 1 : k \in 1..next - 1 \/ archive[k].kind # "dir"
  BY <1>1 DEF ThisEntry
<1>7. \A k \in 1..next' - 1 : \A q : q = archive'[k].path =>
        (format' = "tar" /\ archive'[k].kind = "dir" => Mode(q)' \/ Noted(q)')
  BY <1>1, <1>2, <1>6 DEF Modes
<1>8. (\A k \in 1..next - 1 :
         format = "tar" /\ archive[k].kind = "dir" =>
           Mode(archive[k].path) \/ Noted(archive[k].path))'
  BY <1>7
<1> QED BY <1>4, <1>5, <1>8 DEF Modes

\* A header passes the cap.
LEMMA HeaderKeeps ==
  ASSUME UnpackInv, Header
  PROVE  UnpackInv'
<1>1. /\ Typed /\ Unpacked /\ Contents /\ phase = "unpack" /\ ReadPiece /\ units' = 1
      /\ UNCHANGED <<build, phase, next, disk, readOnly, room, buffered, dropped, cause>>
  BY DEF UnpackInv, Header
<1>2. Inv' BY <1>1, InvInductive DEF Typed, Next
<1>3. /\ DOMAIN disk' = DOMAIN disk /\ Archived'
      /\ UNCHANGED <<tree, format, archive, bare, length, inodes, walked>>
      /\ \A q : Kept(q)' = Kept(q) /\ (Mode(q)' <=> Mode(q))
      /\ (\A q \in DOMAIN disk : q \in DOMAIN tree /\ ~IsOutput(q))'
      /\ (\A q \in DOMAIN disk : Suits(disk[q], q))'
  BY <1>1, SameNodes DEF Typed
<1>4. Typed' BY <1>1, <1>2, <1>3 DEF Typed
<1>5. Unpacked' BY <1>1, <1>3 DEF Unpacked
<1>6. Contents'
  <2>1. \A q : ~Copying(q) BY <1>1 DEF Copying
  <2> QED BY <1>1, <1>3, <2>1 DEF Contents
<1>7. Modes' BY <1>1, ModesStay
<1>8. Counted' /\ FailsOnlyForCause' BY <1>1 DEF Counted, FailsOnlyForCause
<1> QED BY <1>3, <1>4, <1>5, <1>6, <1>7, <1>8 DEF UnpackInv

\* A file that grows is the same but for its size.
LEMMA Grown ==
  ASSUME disk \in [DOMAIN disk -> Nodes], NEW p \in DOMAIN disk, p = ThisEntry.path,
         NEW n \in Nat, Grow(n)
  PROVE  /\ disk' \in [DOMAIN disk -> Nodes]
         /\ \A q \in DOMAIN disk :
              /\ disk'[q].kind = disk[q].kind /\ disk'[q].inode = disk[q].inode
              /\ disk'[q].to = disk[q].to /\ disk'[q].id = disk[q].id
              /\ disk'[q].writable = disk[q].writable
              /\ q # p => disk'[q] = disk[q]
         /\ disk'[p].size = disk[p].size + n /\ disk[p].size \in Nat
<1>1. disk[p] \in Nodes /\ disk[p].size \in Nat BY DEF Nodes
<1>2. PICK size \in Nat : size = disk[p].size + n BY <1>1
<1>3. PICK node : node = [disk[p] EXCEPT !.size = size] OBVIOUS
<1>4. disk' = [disk EXCEPT ![p] = node] BY <1>2, <1>3 DEF Grow
<1>5. /\ node \in Nodes /\ node.kind = disk[p].kind /\ node.inode = disk[p].inode
      /\ node.to = disk[p].to /\ node.id = disk[p].id /\ node.writable = disk[p].writable
      /\ node.size = disk[p].size + n
  BY <1>2, <1>3, <1>1 DEF Nodes
<1>6. disk' \in [DOMAIN disk -> Nodes] BY <1>4, <1>5
<1>7. disk'[p] = node /\ \A q \in DOMAIN disk : q # p => disk'[q] = disk[q]
  BY <1>4
<1> QED BY <1>1, <1>5, <1>6, <1>7

\* What is written reaches the file, or the disk is full and the copy fails.
LEMMA Written ==
  ASSUME NEW m \in Nat, room \in Nat, ToDisk(m)
  PROVE  \E w \in Nat :
           /\ Grow(w) /\ room' \in Nat
           /\ \/ w = m /\ UNCHANGED <<phase, cause>>
              \/ phase' = "failed" /\ cause' = "full" /\ room' = 0
<1>1. CASE m <= room
  <2>1. Grow(m) /\ room' = room - m /\ UNCHANGED <<phase, cause>> BY <1>1 DEF ToDisk
  <2>2. room - m \in Nat BY <1>1
  <2> QED BY <2>1, <2>2
<1>2. CASE ~(m <= room)
  <2>1. Grow(room) /\ room' = 0 /\ phase' = "failed" /\ cause' = "full" BY <1>2 DEF ToDisk
  <2> QED BY <2>1
<1> QED BY <1>1, <1>2

\* While an entry is copied its file is on the disk.
LEMMA CopyFacts ==
  ASSUME UnpackInv, phase = "copy"
  PROVE  /\ Typed /\ Archived /\ Unpacked /\ Contents /\ Modes /\ next <= Len(archive)
         /\ ThisEntry \in Entries /\ Faithful(ThisEntry) /\ ThisEntry.kind = "file"
         /\ ThisEntry.path \in DOMAIN disk /\ disk[ThisEntry.path].kind = "file"
         /\ disk[ThisEntry.path].size + buffered = units /\ units <= ThisEntry.size
         /\ format # "7z" => buffered = 0
         /\ ThisEntry.size = tree[Kept(ThisEntry.path)].size
         /\ disk[ThisEntry.path].size \in Nat /\ ThisEntry.size \in Nat
         /\ units \in Nat /\ buffered \in Nat /\ room \in Nat
<1>1. /\ Typed /\ Archived /\ Unpacked /\ Contents /\ Modes /\ next <= Len(archive)
      /\ ThisEntry.kind = "file"
      /\ ThisEntry.path \in DOMAIN disk /\ disk[ThisEntry.path].kind = "file"
      /\ disk[ThisEntry.path].size + buffered = units /\ units <= ThisEntry.size
      /\ format # "7z" => buffered = 0
  BY DEF UnpackInv, Counted
<1>2. ThisEntry \in Entries /\ Faithful(ThisEntry) BY <1>1, ThisEntryFacts
<1>3. ThisEntry.size = tree[Kept(ThisEntry.path)].size BY <1>1, <1>2 DEF Faithful
<1>4. disk[ThisEntry.path].size \in Nat /\ ThisEntry.size \in Nat
  BY <1>1, <1>2 DEF Typed, Nodes, Entries
<1>5. units \in Nat /\ buffered \in Nat /\ room \in Nat BY <1>1 DEF Typed
<1> QED BY <1>1, <1>2, <1>3, <1>4, <1>5

\* Every unit that passes the cap is then in the file or in the BufWriter.
LEMMA CopyPieceKeeps ==
  ASSUME UnpackInv, CopyPiece
  PROVE  UnpackInv'
<1>1. phase = "copy" /\ ReadPiece BY DEF CopyPiece
<1>2. PICK p : p = ThisEntry.path OBVIOUS
<1>3. /\ Typed /\ Archived /\ Unpacked /\ Contents /\ Modes /\ next <= Len(archive)
      /\ ThisEntry.kind = "file" /\ p \in DOMAIN disk /\ disk[p].kind = "file"
      /\ disk[p].size + buffered = units /\ (format # "7z" => buffered = 0)
      /\ disk[p].size \in Nat /\ ThisEntry.size \in Nat
      /\ units \in Nat /\ buffered \in Nat /\ room \in Nat
  BY <1>1, <1>2, CopyFacts
<1>4. PICK n \in Nat : n = copied' - copied
  <2>1. Inv /\ Inv' BY <1>1, <1>3, InvInductive DEF Typed, Next
  <2>2. copied \in Nat BY <2>1 DEF Inv, TypeOK
  <2>3. PICK k \in 1..Lesser(Lesser(remaining, CopyBuffer), total - given) :
          copied' = copied + k
    BY <1>1 DEF ReadPiece
  <2>4. k \in Nat
    <3>1. k \in Int /\ k >= 1
      <4>1. /\ remaining \in Nat /\ CopyBuffer \in Nat /\ total \in Nat /\ given \in Nat
        BY <2>1, LimitedReaderAssumption DEF Inv, TypeOK
      <4>2. Lesser(Lesser(remaining, CopyBuffer), total - given) \in Int
        BY <4>1 DEF Lesser
      <4> QED BY <2>3, <4>2
    <3> QED BY <3>1
  <2> QED BY <2>2, <2>3, <2>4
<1>5. /\ units + n <= ThisEntry.size /\ units' = units + n
      /\ UNCHANGED <<build, next, readOnly, dropped>>
      /\ IF format = "7z" THEN ToBuffer(n) ELSE ToDisk(n) /\ UNCHANGED buffered
  BY <1>4 DEF CopyPiece
<1>6. PICK w \in Nat :
        /\ disk' \in [DOMAIN disk -> Nodes] /\ disk'[p].size = disk[p].size + w
        /\ \A q \in DOMAIN disk :
             /\ disk'[q].kind = disk[q].kind /\ disk'[q].inode = disk[q].inode
             /\ disk'[q].to = disk[q].to /\ disk'[q].id = disk[q].id
             /\ disk'[q].writable = disk[q].writable
             /\ q # p => disk'[q] = disk[q]
        /\ room' \in Nat /\ buffered' \in 0..BufferUnits
        /\ \/ /\ w + buffered' = n + buffered /\ UNCHANGED <<phase, cause>>
              /\ format # "7z" => buffered' = 0
           \/ phase' = "failed" /\ cause' = "full" /\ room' = 0
  <2>1. BufferUnits \in Nat /\ buffered \in 0..BufferUnits /\ disk \in [DOMAIN disk -> Nodes]
    BY <1>3, UnpackAssumption DEF Typed
  <2>2. ASSUME NEW m \in Nat, ToDisk(m), NEW b \in 0..BufferUnits, buffered' = b,
               m + b = n + buffered, format # "7z" => b = 0
        PROVE  \E w \in Nat :
                 /\ Grow(w) /\ room' \in Nat /\ buffered' \in 0..BufferUnits
                 /\ \/ /\ w + buffered' = n + buffered /\ UNCHANGED <<phase, cause>>
                       /\ format # "7z" => buffered' = 0
                    \/ phase' = "failed" /\ cause' = "full" /\ room' = 0
    <3>1. PICK w \in Nat :
            /\ Grow(w) /\ room' \in Nat
            /\ \/ w = m /\ UNCHANGED <<phase, cause>>
               \/ phase' = "failed" /\ cause' = "full" /\ room' = 0
      BY <1>3, <2>2, Written
    <3> QED BY <2>2, <3>1
  <2>3. \/ \E w \in Nat :
             /\ Grow(w) /\ room' \in Nat /\ buffered' \in 0..BufferUnits
             /\ \/ /\ w + buffered' = n + buffered /\ UNCHANGED <<phase, cause>>
                   /\ format # "7z" => buffered' = 0
                \/ phase' = "failed" /\ cause' = "full" /\ room' = 0
        \/ /\ UNCHANGED <<disk, room, phase, cause>> /\ format = "7z"
           /\ buffered' = buffered + n /\ buffered' \in 0..BufferUnits
    <3>1. CASE format # "7z"
      <4>1. ToDisk(n) /\ buffered' = 0 /\ buffered = 0 /\ n + 0 = n + buffered /\ 0 \in 0..BufferUnits
        BY <1>3, <1>5, <2>1, <3>1
      <4> QED BY <2>2, <4>1
    <3>2. CASE format = "7z" /\ buffered + n <= BufferUnits /\ n < BufferUnits
      <4>1. buffered' = buffered + n /\ UNCHANGED <<disk, room, phase, cause>>
        BY <1>5, <3>2 DEF ToBuffer
      <4> QED BY <1>3, <2>1, <3>2, <4>1
    <3>3. CASE format = "7z" /\ ~(buffered + n <= BufferUnits) /\ n < BufferUnits
      <4>1. buffered' = n /\ ToDisk(buffered) BY <1>5, <3>3 DEF ToBuffer
      <4>2. n \in 0..BufferUnits /\ buffered + n = n + buffered BY <1>3, <2>1, <3>3
      <4> QED BY <1>3, <2>2, <3>3, <4>1, <4>2
    <3>4. CASE format = "7z" /\ ~(n < BufferUnits)
      <4>1. buffered' = 0 /\ ToDisk(buffered + n) BY <1>5, <3>4 DEF ToBuffer
      <4>2. /\ 0 \in 0..BufferUnits /\ buffered + n \in Nat
            /\ (buffered + n) + 0 = n + buffered
        BY <1>3, <2>1
      <4> QED BY <2>2, <3>4, <4>1, <4>2
    <3> QED BY <3>1, <3>2, <3>3, <3>4
  <2>4. CASE UNCHANGED disk /\ room' = room /\ UNCHANGED <<phase, cause>> /\ format = "7z"
             /\ buffered' = buffered + n /\ buffered' \in 0..BufferUnits
    <3>1. 0 \in Nat /\ disk[p].size = disk[p].size + 0 /\ 0 + buffered' = n + buffered
      BY <1>3, <2>4
    <3> QED BY <1>3, <2>1, <2>4, <3>1
  <2>5. ASSUME NEW w \in Nat, Grow(w)
        PROVE  /\ disk' \in [DOMAIN disk -> Nodes] /\ disk'[p].size = disk[p].size + w
               /\ \A q \in DOMAIN disk :
                    /\ disk'[q].kind = disk[q].kind /\ disk'[q].inode = disk[q].inode
                    /\ disk'[q].to = disk[q].to /\ disk'[q].id = disk[q].id
                    /\ disk'[q].writable = disk[q].writable
                    /\ q # p => disk'[q] = disk[q]
    BY <1>2, <1>3, <2>1, <2>5, Grown
  <2> QED BY <2>3, <2>4, <2>5
<1>7. /\ DOMAIN disk' = DOMAIN disk /\ Archived'
      /\ UNCHANGED <<tree, format, archive, bare, length, inodes, walked>>
      /\ \A q : Kept(q)' = Kept(q) /\ (Mode(q)' <=> Mode(q))
      /\ (\A q \in DOMAIN disk : q \in DOMAIN tree /\ ~IsOutput(q))'
      /\ (\A q \in DOMAIN disk : Suits(disk[q], q))'
  BY <1>1, <1>5, <1>6, SameNodes
<1>8. phase' \in {"copy", "failed"} BY <1>1, <1>6
<1>9. Typed'
  <2>1. Inv' BY <1>1, <1>3, InvInductive DEF Typed, Next
  <2>2. units' \in Nat BY <1>3, <1>5
  <2>3. disk' \in [DOMAIN disk' -> Nodes] BY <1>6, <1>7
  <2> QED BY <1>3, <1>5, <1>6, <1>7, <1>8, <2>1, <2>2, <2>3 DEF Typed
<1>10. Unpacked' BY <1>3, <1>5, <1>7, <1>8 DEF Unpacked
<1>11. ThisEntry' = ThisEntry BY <1>5, <1>7 DEF ThisEntry
<1>12. Contents'
  <2>1. ASSUME ~dropped, phase' = "copy", NEW q \in DOMAIN disk', disk'[q].kind = "file",
               q # p
        PROVE  disk'[q].size = tree[Kept(q)].size
    <3>1. ~Copying(q) BY <1>2, <2>1 DEF Copying
    <3> QED BY <1>1, <1>3, <1>6, <1>7, <2>1, <3>1 DEF Contents
  <2> QED BY <1>2, <1>5, <1>7, <1>8, <1>11, <2>1 DEF Contents, Copying
<1>13. Counted'
  <2> SUFFICES ASSUME phase' = "copy" PROVE Counted' BY DEF Counted
  <2>1. w + buffered' = n + buffered /\ (format # "7z" => buffered' = 0) BY <1>6
  <2>2. disk'[p].size + buffered' = units'
    <3>1. buffered' \in Nat BY <1>6, UnpackAssumption
    <3>2. disk'[p].size = disk[p].size + w BY <1>6
    <3>3. units' = units + n BY <1>5
    <3>4. disk[p].size + buffered = units /\ disk[p].size \in Nat /\ buffered \in Nat
      BY <1>3
    <3>5. PICK s \in Nat, b \in Nat, c \in Nat :
            s = disk[p].size /\ b = buffered /\ c = buffered'
      BY <3>1, <3>4
    <3>6. s + b = units /\ w + c = n + b BY <2>1, <3>4, <3>5
    <3>7. (s + w) + c = units + n BY <3>6
    <3> QED BY <3>2, <3>3, <3>5, <3>7
  <2>3. units' <= ThisEntry.size BY <1>5
  <2> QED BY <1>2, <1>3, <1>5, <1>6, <1>7, <1>11, <2>1, <2>2, <2>3 DEF Counted
<1>14. Modes' BY <1>1, <1>5, <1>6, <1>7, <1>8, ModesStay
<1>15. FailsOnlyForCause' BY <1>1, <1>6 DEF FailsOnlyForCause
<1> QED BY <1>7, <1>9, <1>10, <1>12, <1>13, <1>14, <1>15 DEF UnpackInv

\* The entry is whole, unless its BufWriter could not be emptied, which is told
\* nowhere.
LEMMA CloseKeeps ==
  ASSUME UnpackInv, Close
  PROVE  UnpackInv'
<1>1. phase = "copy" /\ units = ThisEntry.size BY DEF Close
<1>2. PICK p : p = ThisEntry.path OBVIOUS
<1>3. /\ Typed /\ Archived /\ Unpacked /\ Contents /\ Modes /\ next <= Len(archive)
      /\ ThisEntry.kind = "file" /\ p \in DOMAIN disk /\ disk[p].kind = "file"
      /\ disk[p].size + buffered = units /\ ThisEntry.size = tree[Kept(p)].size
      /\ disk[p].size \in Nat /\ ThisEntry.size \in Nat
      /\ units \in Nat /\ buffered \in Nat /\ room \in Nat
  BY <1>1, <1>2, CopyFacts
<1>4. PICK w \in Nat : w = Lesser(buffered, room) BY <1>3 DEF Lesser
<1>5. w <= buffered /\ w <= room /\ w \in Nat /\ room - w \in Nat
  BY <1>3, <1>4 DEF Lesser
<1>6. /\ Grow(w) /\ room' = room - w /\ dropped' = (dropped \/ w < buffered)
      /\ buffered' = 0 /\ phase' = "unpack" /\ next' = next + 1 /\ units' = 0
      /\ UNCHANGED <<build, readOnly, cause>>
      /\ IF format = "tar" THEN UNCHANGED vars ELSE ReadEnd
  BY <1>4 DEF Close
<1>7. /\ disk' \in [DOMAIN disk -> Nodes] /\ disk'[p].size = disk[p].size + w
      /\ \A q \in DOMAIN disk :
           /\ disk'[q].kind = disk[q].kind /\ disk'[q].inode = disk[q].inode
           /\ disk'[q].to = disk[q].to /\ disk'[q].id = disk[q].id
           /\ disk'[q].writable = disk[q].writable
           /\ q # p => disk'[q] = disk[q]
  BY <1>2, <1>3, <1>5, <1>6, Grown DEF Typed
<1>8. /\ DOMAIN disk' = DOMAIN disk /\ Archived'
      /\ UNCHANGED <<tree, format, archive, bare, length, inodes, walked>>
      /\ \A q : Kept(q)' = Kept(q) /\ (Mode(q)' <=> Mode(q))
      /\ (\A q \in DOMAIN disk : q \in DOMAIN tree /\ ~IsOutput(q))'
      /\ (\A q \in DOMAIN disk : Suits(disk[q], q))'
  BY <1>1, <1>6, <1>7, SameNodes
<1>9. /\ next \in 1..Len(archive) /\ next + 1 \in 1..Len(archive) + 1 /\ next \in Nat
  <2>1. Len(archive) \in Nat BY <1>3 DEF Typed
  <2> QED BY <1>3, <2>1, ThisEntryFacts
<1>10. Typed'
  <2>1. Inv'
    <3>1. Inv BY <1>3 DEF Typed
    <3>2. ReadEnd \/ UNCHANGED vars BY <1>6
    <3> QED BY <3>1, <3>2, InvInductive DEF Next
  <2>2. buffered' \in 0..BufferUnits BY <1>6, UnpackAssumption
  <2>3. disk' \in [DOMAIN disk' -> Nodes] BY <1>7, <1>8
  <2>4. dropped' \in BOOLEAN BY <1>6
  <2>5. next' \in 1..Len(archive') + 1 /\ room' \in Nat BY <1>5, <1>6, <1>8, <1>9
  <2> QED BY <1>3, <1>6, <1>8, <2>1, <2>2, <2>3, <2>4, <2>5 DEF Typed
<1>11. Unpacked'
  <2>1. \A k \in 1..next' - 1 : k \in 1..next - 1 \/ archive[k].path = p
    BY <1>2, <1>6, <1>9 DEF ThisEntry
  <2>2. \A k \in 1..next' - 1 : archive'[k].path \in DOMAIN disk'
    BY <1>3, <1>8, <2>1 DEF Unpacked
  <2> QED BY <1>6, <1>8, <2>2 DEF Unpacked
<1>12. Contents'
  <2>1. ASSUME ~dropped', NEW q \in DOMAIN disk', disk'[q].kind = "file"
        PROVE  disk'[q].size = tree[Kept(q)].size
    <3>1. ~dropped /\ ~(w < buffered) BY <1>6, <2>1
    <3>2. CASE q = p
      <4>1. w = buffered BY <1>3, <1>5, <3>1
      <4> QED BY <1>1, <1>3, <1>7, <3>2, <4>1
    <3>3. CASE q # p
      <4>1. ~Copying(q) BY <1>2, <3>3 DEF Copying
      <4> QED BY <1>1, <1>3, <1>7, <1>8, <2>1, <3>1, <3>3, <4>1 DEF Contents
    <3> QED BY <3>2, <3>3
  <2> QED BY <1>8, <2>1 DEF Contents
<1>13. Modes'
  <2>1. ThisEntry.kind # "dir" BY <1>3
  <2> QED BY <1>1, <1>6, <1>7, <1>8, <2>1, ModesStay
<1>14. Counted' /\ FailsOnlyForCause' BY <1>6 DEF Counted, FailsOnlyForCause
<1> QED BY <1>8, <1>10, <1>11, <1>12, <1>13, <1>14 DEF UnpackInv

\* The cap, or the decoder, ends it: the cause is told.
LEMMA CapOrDecoderKeeps ==
  ASSUME UnpackInv, CapOrDecoder
  PROVE  UnpackInv'
<1>1. phase \in {"unpack", "copy"} /\ Inv BY DEF CapOrDecoder, Reading, UnpackInv, Typed
<1>2. CASE Probe /\ Fail("cap")
  <2>1. Inv' BY <1>1, <1>2, InvInductive DEF Next
  <2>2. FailsOnlyForCause' BY <1>2 DEF Probe, Fail, FailsOnlyForCause
  <2> QED BY <1>1, <1>2, <2>1, <2>2, FailKeeps
<1>3. CASE DecoderFails /\ Fail("decoder")
  <2>1. Inv' BY <1>1, <1>3, InvInductive DEF Next
  <2>2. FailsOnlyForCause' BY <1>3 DEF Fail, FailsOnlyForCause
  <2> QED BY <1>1, <1>3, <2>1, <2>2, FailKeeps
<1> QED BY <1>2, <1>3 DEF CapOrDecoder

\* Everything is unpacked: what is not yet as it was archived is noted.
LEMMA EndOfArchiveKeeps ==
  ASSUME UnpackInv, EndOfArchive
  PROVE  UnpackInv'
<1>1. /\ Typed /\ Archived /\ Unpacked /\ Contents /\ Modes
      /\ phase = "unpack" /\ next > Len(archive) /\ phase' = "restore"
      /\ UNCHANGED <<build, next, disk, readOnly, room, units, buffered, dropped, cause, vars>>
  BY DEF UnpackInv, EndOfArchive
<1>2. /\ DOMAIN disk' = DOMAIN disk /\ Archived'
      /\ UNCHANGED <<tree, format, archive, bare, length, inodes, walked>>
      /\ \A q : Kept(q)' = Kept(q) /\ (Mode(q)' <=> Mode(q))
      /\ (\A q \in DOMAIN disk : q \in DOMAIN tree /\ ~IsOutput(q))'
      /\ (\A q \in DOMAIN disk : Suits(disk[q], q))'
  BY <1>1, SameNodes DEF Typed
<1>3. next = Len(archive) + 1 /\ next - 1 = Len(archive)
  <2>1. Len(archive) \in Nat /\ next \in 1..Len(archive) + 1 BY <1>1 DEF Typed
  <2> QED BY <1>1, <2>1
<1>4. Typed'
  <2>1. Inv' BY <1>1 DEF Typed, Inv, TypeOK, vars, inputs
  <2> QED BY <1>1, <1>2, <2>1 DEF Typed
<1>5. Unpacked' BY <1>1, <1>2, <1>3 DEF Unpacked
<1>6. Contents'
  <2>1. \A q : ~Copying(q) BY <1>1 DEF Copying
  <2> QED BY <1>1, <1>2, <2>1 DEF Contents
<1>7. Modes'
  <2>1. \A q : Noted(q)' <=> Noted(q) BY <1>1 DEF Noted
  <2>2. ASSUME NEW q \in DOMAIN disk, disk[q].kind = "dir", ~Mode(q)
        PROVE  Noted(q)
    <3>1. q \in DOMAIN tree /\ ~IsOutput(q) /\ Kind(Kept(q)) = "dir" /\ tree \in Trees
      BY <1>1, <2>2 DEF Unpacked, Contents, Suits, Typed
    <3>2. format = "tar"
      <4>1. KeepsMode(q) BY <2>2 DEF Mode
      <4>2. ASSUME format = "zip" PROVE Kind(q) = "dir" BY <3>1, <4>2, KeptFacts
      <4> QED BY <4>1, <4>2 DEF KeepsMode
    <3>3. q \in walked /\ bare = <<>> BY <1>1, <3>1 DEF Archived
    <3>4. PICK k \in 1..Len(archive) : archive[k].path = q
      <4>1. Listed(q) BY <1>1, <3>1, <3>3 DEF Archived
      <4>2. Len(bare) = 0 BY <3>3, EmptySeq
      <4> QED BY <4>1, <4>2 DEF Listed
    <3>5. Faithful(archive[k]) BY <1>1 DEF Archived
    <3>6. ~Hard(q) BY <3>1, <3>2, KeptFacts DEF Hard
    <3>7. archive[k].kind = "dir" BY <3>1, <3>4, <3>5, <3>6 DEF Faithful
    <3>8. k \in 1..next - 1 BY <1>3
    <3> QED BY <1>1, <2>2, <3>2, <3>4, <3>7, <3>8 DEF Modes
  <2>3. \A q \in DOMAIN disk' :
          disk'[q].kind = "dir" => (disk'[q].writable <=> Mode(q)') \/ Noted(q)'
    BY <1>1, <1>2, <2>1, <2>2 DEF Modes
  <2>4. \A i \in 1..Len(readOnly') : \A q : q = readOnly'[i] =>
          q \in DOMAIN disk' /\ disk'[q].kind = "dir" /\ ~Mode(q)'
    BY <1>1, <1>2 DEF Modes
  <2>5. (\A i \in 1..Len(readOnly) :
          /\ readOnly[i] \in DOMAIN disk /\ disk[readOnly[i]].kind = "dir"
          /\ ~Mode(readOnly[i]))'
    BY <2>4
  <2> QED BY <1>1, <2>3, <2>5 DEF Modes
<1>8. Counted' /\ FailsOnlyForCause' BY <1>1 DEF Counted, FailsOnlyForCause
<1> QED BY <1>2, <1>4, <1>5, <1>6, <1>7, <1>8 DEF UnpackInv

\* A directory noted gets its mode; when none is left, all have theirs.
LEMMA RestoreKeeps ==
  ASSUME UnpackInv, Restore
  PROVE  UnpackInv'
<1>1. /\ Typed /\ Archived /\ Unpacked /\ Contents /\ Modes /\ phase = "restore"
      /\ UNCHANGED <<build, next, room, units, buffered, dropped, cause, vars>>
      /\ disk \in [DOMAIN disk -> Nodes] /\ readOnly \in Seq(Paths)
  BY DEF UnpackInv, Restore, Typed
<1>2. Inv' BY <1>1 DEF Typed, Inv, TypeOK, vars, inputs
<1>3. /\ disk' \in [DOMAIN disk -> Nodes] /\ readOnly' \in Seq(Paths)
      /\ phase' \in {"restore", "ok"} /\ (phase' = "ok" => readOnly' = <<>>)
      /\ \A q \in DOMAIN disk :
           /\ disk'[q].kind = disk[q].kind /\ disk'[q].inode = disk[q].inode
           /\ disk'[q].to = disk[q].to /\ disk'[q].id = disk[q].id
           /\ disk'[q].size = disk[q].size
           /\ disk[q].kind = "file" => (disk'[q].writable <=> disk[q].writable)
           /\ disk[q].kind = "dir" /\ ((disk[q].writable <=> Mode(q)) \/ Noted(q)) =>
                (disk'[q].writable <=> Mode(q)) \/ Noted(q)'
      /\ \A q : Noted(q)' => Noted(q)
  <2>1. CASE readOnly = <<>>
    <3>1. phase' = "ok" /\ UNCHANGED <<disk, readOnly>> BY <2>1 DEF Restore
    <3>2. \A q : Noted(q)' <=> Noted(q) BY <3>1 DEF Noted
    <3> QED BY <1>1, <2>1, <3>1, <3>2
  <2>2. CASE readOnly # <<>>
    <3>1. PICK h : h = Head(readOnly) OBVIOUS
    <3>2. PICK node : node = [disk[h] EXCEPT !.writable = FALSE] OBVIOUS
    <3>3. /\ disk' = [disk EXCEPT ![h] = node] /\ readOnly' = Tail(readOnly) /\ phase' = phase
      BY <2>2, <3>1, <3>2 DEF Restore
    <3> DEFINE n == Len(readOnly)
    <3>4. /\ n \in Nat \ {0} /\ h = readOnly[1] /\ readOnly' \in Seq(Paths)
          /\ Len(readOnly') = n - 1
          /\ \A i \in 1..n - 1 : readOnly'[i] = readOnly[i + 1]
      BY <1>1, <2>2, <3>1, <3>3, HeadTailProperties, EmptySeq
    <3>5. \A q : Noted(q) <=> \E i \in 1..n : readOnly[i] = q BY DEF Noted
    <3>6. \A q : Noted(q)' <=> \E i \in 1..n - 1 : readOnly'[i] = q BY <3>4 DEF Noted
    <3>7. h \in DOMAIN disk /\ disk[h].kind = "dir" /\ ~Mode(h)
      <4>1. 1 \in 1..n BY <3>4
      <4> QED BY <1>1, <3>4, <4>1 DEF Modes
    <3> HIDE DEF n
    <3>8. \A q : Noted(q)' => Noted(q)
      <4>1. \A i \in 1..n - 1 : i + 1 \in 1..n BY <3>4
      <4> QED BY <3>4, <3>5, <3>6, <4>1
    <3>9. \A q : Noted(q) => q = h \/ Noted(q)'
      <4> SUFFICES ASSUME NEW q, Noted(q), q # h PROVE Noted(q)' OBVIOUS
      <4>1. PICK i \in 1..n : readOnly[i] = q BY <3>5
      <4>2. i # 1 BY <3>4, <4>1
      <4>3. i - 1 \in 1..n - 1 /\ (i - 1) + 1 = i BY <3>4, <4>2
      <4>4. readOnly'[i - 1] = q BY <3>4, <4>1, <4>3
      <4> QED BY <3>6, <4>3, <4>4
    <3>10. /\ node \in Nodes /\ node.kind = disk[h].kind /\ node.inode = disk[h].inode
           /\ node.to = disk[h].to /\ node.id = disk[h].id /\ node.size = disk[h].size
           /\ node.writable = FALSE
      BY <1>1, <3>2, <3>7 DEF Nodes
    <3>11. disk' \in [DOMAIN disk -> Nodes] BY <1>1, <3>3, <3>10
    <3>12. \A q \in DOMAIN disk : disk'[q] = IF q = h THEN node ELSE disk[q] BY <3>3
    <3> QED BY <1>1, <2>2, <3>3, <3>4, <3>7, <3>8, <3>9, <3>10, <3>11, <3>12
  <2> QED BY <2>1, <2>2
<1>4. /\ DOMAIN disk' = DOMAIN disk /\ Archived'
      /\ UNCHANGED <<tree, format, archive, bare, length, inodes, walked>>
      /\ \A q : Kept(q)' = Kept(q) /\ (Mode(q)' <=> Mode(q))
      /\ (\A q \in DOMAIN disk : q \in DOMAIN tree /\ ~IsOutput(q))'
      /\ (\A q \in DOMAIN disk : Suits(disk[q], q))'
  BY <1>1, <1>3, SameNodes
<1>5. Typed'
  <2>1. disk' \in [DOMAIN disk' -> Nodes] BY <1>3, <1>4
  <2> QED BY <1>1, <1>2, <1>3, <1>4, <2>1 DEF Typed
<1>6. Unpacked' BY <1>1, <1>3, <1>4 DEF Unpacked
<1>7. Contents'
  <2>1. \A q : ~Copying(q) BY <1>1 DEF Copying
  <2>2. ~dropped => \A q \in DOMAIN disk : disk'[q].kind = "file" => disk'[q].size = tree[Kept(q)].size
    BY <1>1, <1>3, <2>1 DEF Contents
  <2> QED BY <1>1, <1>4, <2>2 DEF Contents
<1>8. Modes'
  <2>1. \A q : Noted(q)' => q \in DOMAIN disk /\ disk[q].kind = "dir" /\ ~Mode(q)
    <3>1. \A q : Noted(q) => q \in DOMAIN disk /\ disk[q].kind = "dir" /\ ~Mode(q)
      BY <1>1 DEF Modes, Noted
    <3> QED BY <1>3, <3>1
  <2>2. \A i \in 1..Len(readOnly') : \A q : q = readOnly'[i] =>
          q \in DOMAIN disk' /\ disk'[q].kind = "dir" /\ ~Mode(q)'
    BY <1>3, <1>4, <2>1 DEF Noted
  <2>3. (\A i \in 1..Len(readOnly) :
          /\ readOnly[i] \in DOMAIN disk /\ disk[readOnly[i]].kind = "dir"
          /\ ~Mode(readOnly[i]))'
    BY <2>2
  <2>4. \A q \in DOMAIN disk' :
          disk'[q].kind = "dir" => (disk'[q].writable <=> Mode(q)') \/ Noted(q)'
    <3> SUFFICES ASSUME NEW q \in DOMAIN disk, disk[q].kind = "dir"
                 PROVE  (disk'[q].writable <=> Mode(q)) \/ Noted(q)'
      BY <1>3, <1>4
    <3>1. (disk[q].writable <=> Mode(q)) \/ Noted(q) BY <1>1 DEF Modes
    <3> QED BY <1>3, <3>1
  <2> QED BY <1>3, <2>3, <2>4 DEF Modes
<1>9. Counted' /\ FailsOnlyForCause' BY <1>3 DEF Counted, FailsOnlyForCause
<1> QED BY <1>4, <1>5, <1>6, <1>7, <1>8, <1>9 DEF UnpackInv

-----------------------------------------------------------------------------
(* The theorems                                                            *)

\* Every step keeps the invariant.
LEMMA UnpackInvInductive ==
  UnpackInv /\ [UnpackNext]_<<unpackVars, vars>> => UnpackInv'
<1> SUFFICES ASSUME UnpackInv, [UnpackNext]_<<unpackVars, vars>> PROVE UnpackInv' OBVIOUS
<1>1. CASE \E p \in DOMAIN tree : Walk(p) BY <1>1, WalkKeeps
<1>2. CASE FinishBuild BY <1>2, FinishKeeps
<1>3. CASE Header BY <1>3, HeaderKeeps
<1>4. CASE UnpackDir BY <1>4, UnpackDirKeeps
<1>5. CASE UnpackSymlink BY <1>5, UnpackSymlinkKeeps
<1>6. CASE UnpackLink BY <1>6, UnpackLinkKeeps
<1>7. CASE OpenFile BY <1>7, OpenFileKeeps
<1>8. CASE CopyPiece BY <1>8, CopyPieceKeeps
<1>9. CASE Close BY <1>9, CloseKeeps
<1>10. CASE CapOrDecoder BY <1>10, CapOrDecoderKeeps
<1>11. CASE EndOfArchive BY <1>11, EndOfArchiveKeeps
<1>12. CASE Restore BY <1>12, RestoreKeeps
<1>13. CASE UNCHANGED <<unpackVars, vars>>
  <2>1. /\ UNCHANGED <<tree, format, archive, bare, length, last, walked, inodes>>
        /\ UNCHANGED <<phase, next, disk, readOnly, room, units, buffered, dropped, cause>>
        /\ UNCHANGED <<limit, total, remaining, given, copied, state>>
    BY <1>13 DEF unpackVars, build, vars, inputs
  <2>2. Typed' BY <2>1 DEF UnpackInv, Typed, Inv, TypeOK
  <2>3. Archived'
    <3>1. Archived /\ walked' \subseteq DOMAIN tree BY <2>1 DEF UnpackInv, Typed
    <3> QED BY <2>1, <3>1, ArchivedStays
  <2>4. Unpacked' BY <2>1 DEF UnpackInv, Unpacked, IsOutput, Behind, Kind
  <2>5. Contents'
    BY <2>1 DEF UnpackInv, Contents, Suits, Copying, ThisEntry, Kept, Behind, Kind, Mode,
                KeepsMode, Id, Hard, HardLinked
  <2>6. Counted' BY <2>1 DEF UnpackInv, Counted, ThisEntry
  <2>7. Modes' BY <2>1 DEF UnpackInv, Modes, Noted, Mode, KeepsMode, Kind
  <2>8. FailsOnlyForCause'
    BY <2>1 DEF UnpackInv, FailsOnlyForCause, Kind, HardLinked, Behind, Escapes
  <2> QED BY <2>2, <2>3, <2>4, <2>5, <2>6, <2>7, <2>8 DEF UnpackInv
<1> QED
  BY <1>1, <1>2, <1>3, <1>4, <1>5, <1>6, <1>7, <1>8, <1>9, <1>10, <1>11, <1>12, <1>13
     DEF UnpackNext

\* Every archive that is built tells the truth of its tree, and at every step of
\* its unpacking the disk holds what the entries done so far say.
THEOREM UnpackInvAlways == UnpackSpec => []UnpackInv
BY UnpackInvInit, UnpackInvInductive, PTL DEF UnpackSpec

\* Every variable has its type, and every unit that passed the cap is in its
\* file or in the BufWriter (sevenz.rs:57).
THEOREM UnpackTypeCorrect == UnpackSpec => []UnpackTypeOK
<1>1. ASSUME UnpackInv PROVE UnpackTypeOK
  <2>1. /\ Typed /\ Counted /\ Modes BY <1>1 DEF UnpackInv
  <2>2. \A k \in DOMAIN readOnly : disk[readOnly[k]].kind = "dir"
    <3>1. DOMAIN readOnly = 1..Len(readOnly) BY <2>1, LenProperties DEF Typed
    <3> QED BY <2>1, <3>1 DEF Modes
  <2> QED BY <2>1, <2>2 DEF UnpackTypeOK, Typed, Counted
<1> QED BY <1>1, UnpackInvAlways, PTL

\* The cap is exact for the one stream of a tar and for each entry of a zip or
\* a 7z, whatever the entries are (fs.rs:211).
THEOREM UnpackCapCorrect == UnpackSpec => []CapIsExact
<1>1. UnpackInv => CapIsExact BY DEF UnpackInv, Typed, Inv, TypeOK, CapIsExact
<1> QED BY <1>1, UnpackInvAlways, PTL

\* Unpacking fails for the cap, the decoder or the disk, and never for the order
\* of the entries or the mode of a directory (tar.rs:79).
THEOREM FailsCorrect == UnpackSpec => []FailsOnlyForCause
<1>1. UnpackInv => FailsOnlyForCause BY DEF UnpackInv
<1> QED BY <1>1, UnpackInvAlways, PTL

\* A success has rebuilt the tree: every path but the output's, with its kind,
\* contents, target, mode and hard links (tar.rs:80, tar.rs:170, tar.rs:188).
THEOREM SuccessCorrect == UnpackSpec => []SuccessIsFaithful
<1>1. ASSUME UnpackInv, phase = "ok", ~dropped
      PROVE  /\ DOMAIN disk = {p \in DOMAIN tree : ~IsOutput(p)}
             /\ \A p \in DOMAIN disk :
                  /\ disk[p].kind = Kind(Kept(p))
                  /\ disk[p].kind = "file" => disk[p].inode = tree[Kept(p)].inode
                                               /\ disk[p].size = tree[Kept(p)].size
                  /\ disk[p].kind = "symlink" => disk[p].to = tree[p].to
                  /\ disk[p].kind # "symlink" => (disk[p].writable <=> Mode(p))
                                                 /\ disk[p].writable \in BOOLEAN
             /\ format = "tar" =>
                  \A p, q \in DOMAIN disk :
                    disk[p].kind = "file" /\ disk[q].kind = "file" =>
                      (disk[p].id = disk[q].id <=> tree[p].inode = tree[q].inode)
  <2>1. Typed /\ Archived /\ Unpacked /\ Contents /\ Modes /\ tree \in Trees
    BY <1>1 DEF UnpackInv, Typed
  <2>2. next = Len(archive) + 1 /\ next - 1 = Len(archive)
    <3>1. Len(archive) \in Nat BY <2>1 DEF Typed
    <3> QED BY <1>1, <2>1, <3>1 DEF Unpacked
  <2>3. DOMAIN disk = {p \in DOMAIN tree : ~IsOutput(p)}
    <3>1. ASSUME NEW p \in DOMAIN tree, ~IsOutput(p) PROVE p \in DOMAIN disk
      <4>1. Listed(p) /\ bare = <<>> BY <1>1, <2>1, <3>1 DEF Archived
      <4>2. Len(bare) = 0 BY <4>1, EmptySeq
      <4>3. PICK k \in 1..Len(archive) : archive[k].path = p BY <4>1, <4>2 DEF Listed
      <4> QED BY <2>1, <2>2, <4>3 DEF Unpacked
    <3> QED BY <2>1, <3>1 DEF Unpacked
  <2>4. ASSUME NEW p \in DOMAIN disk
        PROVE  /\ disk[p].kind = Kind(Kept(p))
               /\ disk[p].kind = "file" => disk[p].inode = tree[Kept(p)].inode
                                            /\ disk[p].size = tree[Kept(p)].size
               /\ disk[p].kind = "symlink" => disk[p].to = tree[p].to
               /\ disk[p].kind # "symlink" => (disk[p].writable <=> Mode(p))
                                              /\ disk[p].writable \in BOOLEAN
    <3>1. Suits(disk[p], p) /\ disk[p] \in Nodes BY <2>1 DEF Contents, Typed
    <3>2. disk[p].kind \in Kinds /\ disk[p].writable \in BOOLEAN BY <3>1 DEF Nodes
    <3>3. ~Copying(p) BY <1>1 DEF Copying
    <3>4. ~Noted(p)
      <4>1. readOnly = <<>> BY <1>1, <2>1 DEF Modes
      <4>2. Len(readOnly) = 0 BY <4>1, EmptySeq
      <4> QED BY <4>2 DEF Noted
    <3>5. disk[p].kind = "dir" => (disk[p].writable <=> Mode(p))
      BY <1>1, <2>1, <3>4 DEF Modes
    <3>6. disk[p].kind = "file" => disk[p].size = tree[Kept(p)].size
      BY <1>1, <2>1, <3>3 DEF Contents
    <3> QED BY <3>1, <3>2, <3>5, <3>6 DEF Suits, Kinds
  <2>5. ASSUME format = "tar", NEW p \in DOMAIN disk, NEW q \in DOMAIN disk,
               disk[p].kind = "file", disk[q].kind = "file"
        PROVE  disk[p].id = disk[q].id <=> tree[p].inode = tree[q].inode
    <3>1. p \in DOMAIN tree /\ q \in DOMAIN tree BY <2>1 DEF Unpacked
    <3>2. /\ disk[p].id = Id(p) /\ Kind(p) = "file"
          /\ disk[q].id = Id(q) /\ Kind(q) = "file"
      BY <2>1, <2>5, <3>1, KeptFacts DEF Contents, Suits
    <3>3. \A r \in DOMAIN tree : r \in DOMAIN disk => tree[Id(r)].inode = tree[r].inode
      <4> SUFFICES ASSUME NEW r \in DOMAIN disk, r \in DOMAIN tree, Hard(r)
                   PROVE  tree[inodes[tree[r].inode]].inode = tree[r].inode
        BY DEF Id
      <4>1. Listed(r) /\ bare = <<>> BY <1>1, <2>1 DEF Archived, Unpacked
      <4>2. Len(bare) = 0 BY <4>1, EmptySeq
      <4>3. PICK k \in 1..Len(archive) : archive[k].path = r BY <4>1, <4>2 DEF Listed
      <4>4. Faithful(archive[k]) BY <2>1 DEF Archived
      <4>5. tree[r].inode \in DOMAIN inodes BY <4>3, <4>4 DEF Faithful
      <4> QED BY <2>1, <4>5 DEF Archived, Seen
    <3>4. tree[p].inode = tree[q].inode => Id(p) = Id(q)
      <4> SUFFICES ASSUME tree[p].inode = tree[q].inode, p # q PROVE Id(p) = Id(q) OBVIOUS
      <4>1. Hard(p) /\ Hard(q) BY <2>5, <3>1, <3>2 DEF Hard, HardLinked
      <4> QED BY <4>1 DEF Id
    <3>5. Id(p) = Id(q) => tree[p].inode = tree[q].inode
      <4>1. tree[Id(p)].inode = tree[p].inode BY <3>1, <3>3
      <4>2. tree[Id(q)].inode = tree[q].inode BY <3>1, <3>3
      <4> QED BY <4>1, <4>2
    <3> QED BY <3>2, <3>4, <3>5
  <2> QED BY <2>3, <2>4, <2>5
<1>2. ASSUME UnpackInv PROVE SuccessIsFaithful
  <2> SUFFICES ASSUME phase = "ok", ~dropped PROVE SuccessIsFaithful
    BY DEF SuccessIsFaithful
  <2>1. ASSUME NEW p \in DOMAIN disk, disk[p].kind # "symlink"
        PROVE  disk[p].writable = (KeepsMode(p) => tree[p].writable)
    <3>1. (disk[p].writable <=> Mode(p)) /\ disk[p].writable \in BOOLEAN
      BY <1>1, <1>2, <2>1
    <3>2. Mode(p) <=> (KeepsMode(p) => tree[p].writable) BY Zenon DEF Mode
    <3> QED BY <3>1, <3>2
  <2> QED BY <1>1, <1>2, <2>1 DEF SuccessIsFaithful
<1> QED BY <1>2, UnpackInvAlways, PTL
=============================================================================
