----------------------------- MODULE UnpackRun -----------------------------
(***************************************************************************)
(* The archive formats (archive/tar.rs, zip.rs, sevenz.rs): a tree of      *)
(* files, directories, hard links and symbolic links is walked into an     *)
(* archive, and the archive is unpacked entry by entry into an empty       *)
(* folder, under the cap of LimitedReader and on a disk that may be full.  *)
(*                                                                         *)
(* A path is a sequence of names.  A file's contents are named by its      *)
(* inode and measured in units; a header or the end mark of a tar is one   *)
(* unit.  Symbolic links are not followed (--follow-symlinks is off), the  *)
(* inputs have distinct names, and the user is not root: creating anything *)
(* in a read-only directory fails.                                         *)
(***************************************************************************)
EXTENDS LimitedReader, Sequences

CONSTANTS
  Formats,     \* a subset of {"tar", "zip", "7z"}
  Trees,       \* functions from paths to nodes
  Output,      \* the path of the archive itself, when it lies in the tree
  Rooms,       \* units the target disk can take
  BufferUnits  \* capacity of the BufWriter of 7z entries

Paths == Seq(STRING) \ {<<>>}

\* What one finds at a path of t.
IsNode(t, p) ==
  /\ t[p].inode \in Nat /\ t[p].writable \in BOOLEAN
  /\ \/ t[p].kind = "dir" /\ \A q \in DOMAIN t : t[q].inode = t[p].inode => q = p
     \/ t[p].kind = "file" /\ t[p].size \in Nat
     \/ t[p].kind = "symlink" /\ t[p].to \in Seq(STRING) /\ t[p].escapes \in BOOLEAN

\* A tree: what is in something is in a directory of it, the paths of an inode
\* lead to one node (a directory has one path), and a symbolic link is given
\* with what it leads to in the end and whether its target, as it is written, is
\* a relative path that climbs out of the folder the tree is in.
IsTree(t) ==
  /\ t = [p \in DOMAIN t |-> t[p]] /\ DOMAIN t \subseteq Paths
  /\ \A p \in DOMAIN t :
       /\ IsNode(t, p)
       /\ \A k \in 1..Len(p) - 1 :
            SubSeq(p, 1, k) \in DOMAIN t /\ t[SubSeq(p, 1, k)].kind = "dir"
       /\ \A q \in DOMAIN t : t[p].inode = t[q].inode => t[p] = t[q]
       /\ t[p].kind = "symlink" /\ t[p].to \in DOMAIN t => t[t[p].to].kind # "symlink"

ASSUME UnpackAssumption ==
  /\ Formats \subseteq {"tar", "zip", "7z"}
  /\ Rooms \subseteq Nat
  /\ BufferUnits \in Nat \ {0}
  /\ \A t \in Trees :
       IsTree(t) /\ (Output \in DOMAIN t => t[Output].kind = "file")

VARIABLES
  tree,      \* what is archived
  format,
  archive,   \* the entries, in the archive's order
  bare,      \* while a 7z is built, its entries without data
  length,    \* units of the tar that is built
  last,      \* the path walked last
  walked,    \* the paths walked
  inodes,    \* seen_inode: the first path of an inode, tar only
  phase,
  next,      \* index of the entry being unpacked
  disk,      \* what is in the output folder
  readOnly,  \* read_only_dirs_and_modes
  room,      \* what the disk can still take
  units,     \* units of this entry read through the cap
  buffered,  \* what the BufWriter of a 7z entry holds
  dropped,   \* a BufWriter could not write what it held when it was dropped
  cause      \* why it failed

build == <<tree, format, archive, bare, length, last, walked, inodes>>
unpackVars == <<build, phase, next, disk, readOnly, room, units, buffered, dropped, cause>>

-----------------------------------------------------------------------------
(* Building                                                                *)

Kind(p) == tree[p].kind

\* nlink() > 1: another path of the tree has p's inode.
HardLinked(p) == \E q \in DOMAIN tree : q # p /\ tree[q].inode = tree[p].inode

\* The walker lists a directory's entries in any order and goes into each
\* subdirectory at once: the next path lies in the deepest unfinished one.
Unfinished(dir) == {p \in DOMAIN tree \ walked : SubSeq(p, 1, Len(p) - 1) = dir}

Deepest ==
  CHOOSE dir \in {SubSeq(last, 1, k) : k \in 0..Len(last)} :
    /\ Unfinished(dir) # {}
    /\ \A k \in Len(dir) + 1 .. Len(last) : Unfinished(SubSeq(last, 1, k)) = {}

\* What a path leads to; a symbolic link may be broken.
Behind(p) == IF Kind(p) = "symlink" THEN tree[p].to ELSE p

Escapes(p) == Kind(p) = "symlink" /\ tree[p].escapes

\* is_same_file_as_output: the output, a hard link or a symbolic link to it.
IsOutput(p) ==
  /\ {Output, Behind(p)} \subseteq DOMAIN tree
  /\ tree[Behind(p)].inode = tree[Output].inode

Entry(p, kind, size, to) ==
  [path |-> p, kind |-> kind, inode |-> tree[p].inode, size |-> size,
   writable |-> tree[p].writable, to |-> to]

Plain(p) ==
  Entry(p, Kind(p), IF Kind(p) = "file" THEN tree[p].size ELSE 0,
        IF Kind(p) = "symlink" THEN tree[p].to ELSE <<>>)

\* A later path of an inode with several links is a Link entry to the first,
\* whatever the inode is.
TarEntry(p) ==
  LET i == tree[p].inode
      hard == Kind(p) # "dir" /\ HardLinked(p)
      e == IF hard /\ i \in DOMAIN inodes THEN Entry(p, "link", 0, inodes[i]) ELSE Plain(p)
  IN  /\ archive' = Append(archive, e) /\ length' = length + 1 + e.size
      /\ inodes' = IF hard /\ i \notin DOMAIN inodes
                   THEN [j \in DOMAIN inodes \cup {i} |-> IF j = i THEN p ELSE inodes[j]]
                   ELSE inodes
      /\ UNCHANGED bare

\* A 7z has no links and no modes: it stores what metadata() finds at the path.
\* The entries without data are stored apart from the others.
SevenZipEntry(p) ==
  LET q == Behind(p)
      e == [Entry(p, Kind(q), Plain(q).size, <<>>) EXCEPT
              !.inode = tree[q].inode, !.writable = TRUE]
  IN  /\ IF e.size > 0 THEN archive' = Append(archive, e) /\ UNCHANGED bare
         ELSE bare' = Append(bare, e) /\ UNCHANGED archive
      /\ UNCHANGED <<inodes, length>>

\* add_directory is given no mode, so a zip's directories are writable.
ZipEntry(p) ==
  /\ archive' = Append(archive, IF Kind(p) = "dir" THEN [Plain(p) EXCEPT !.writable = TRUE]
                                ELSE Plain(p))
  /\ UNCHANGED <<inodes, bare, length>>

\* One step of the walk; the output file is skipped.
Walk(p) ==
  /\ phase = "build"
  /\ p \in DOMAIN tree \ walked /\ p \in Unfinished(Deepest)
  /\ walked' = walked \cup {p}
  /\ last' = p
  /\ IF IsOutput(p) THEN UNCHANGED <<archive, bare, length, inodes, phase, cause>>
     ELSE IF format = "7z" /\ Behind(p) \notin DOMAIN tree
     THEN /\ phase' = "failed" /\ cause' = "brokenLink"
          /\ UNCHANGED <<archive, bare, length, inodes>>
     ELSE /\ CASE format = "tar" -> TarEntry(p)
               [] format = "zip" -> ZipEntry(p)
               [] format = "7z" -> SevenZipEntry(p)
          /\ UNCHANGED <<phase, cause>>
  /\ UNCHANGED <<tree, format, next, disk, readOnly, room, units, buffered, dropped, vars>>

\* The archive is finished and opened.  A tar is one stream under one cap; the
\* 7z library gives the entries without data after the others.
FinishBuild ==
  /\ phase = "build" /\ walked = DOMAIN tree
  /\ phase' = "unpack"
  /\ archive' = archive \o bare /\ bare' = <<>>
  /\ IF format = "tar" THEN total' = length + 1 /\ state' = "copying"
     ELSE UNCHANGED <<total, state>>
  /\ UNCHANGED <<tree, format, length, last, walked, inodes, next, disk, readOnly, room, units,
                 buffered, dropped, cause, limit, remaining, given, copied>>

-----------------------------------------------------------------------------
(* Unpacking                                                               *)

ThisEntry == archive[next]

Fail(why) ==
  /\ phase' = "failed" /\ cause' = why
  /\ UNCHANGED <<build, next, disk, readOnly, room, units, buffered, dropped>>

\* Creating something needs a writable parent; missing parents are created.
Missing(p) == {SubSeq(p, 1, k) : k \in 1..Len(p) - 1} \ DOMAIN disk

Refused(p) ==
  \E k \in 0..Len(p) - 1 :
    /\ SubSeq(p, 1, k) \in DOMAIN disk
    /\ SubSeq(p, 1, k + 1) \notin DOMAIN disk
    /\ ~disk[SubSeq(p, 1, k)].writable

\* A file's identity on the disk is the path it was created at.
Node(kind, inode, writable, to) ==
  [kind |-> kind, inode |-> inode, size |-> 0, writable |-> writable, to |-> to,
   id |-> ThisEntry.path]

ADirectory == Node("dir", 0, TRUE, <<>>)

With(p, node) ==
  [q \in DOMAIN disk \cup Missing(p) \cup {p} |->
     IF q = p THEN node ELSE IF q \in DOMAIN disk THEN disk[q] ELSE ADirectory]

\* tar: the entry's header passes through the cap like its data.
Header ==
  /\ phase = "unpack" /\ format = "tar"
  /\ next <= Len(archive) + 1 /\ units = 0
  /\ ReadPiece /\ copied' = copied + 1
  /\ units' = 1
  /\ UNCHANGED <<build, phase, next, disk, readOnly, room, buffered, dropped, cause>>

Ready(kind) ==
  /\ phase = "unpack" /\ next <= Len(archive)
  /\ format = "tar" => units = 1
  /\ ThisEntry.kind = kind

\* Faulty UnpackDir: a read-only directory is unpacked as it is.
UnpackDirAsIs ==
  /\ Ready("dir")
  /\ LET p == ThisEntry.path
     IN  IF p \notin DOMAIN disk /\ Refused(p) THEN Fail("mode")
         ELSE /\ disk' = IF p \in DOMAIN disk THEN disk
                         ELSE With(p, [ADirectory EXCEPT !.writable = ThisEntry.writable])
              /\ next' = next + 1 /\ units' = 0
              /\ UNCHANGED <<build, phase, readOnly, room, buffered, dropped, cause>>
  /\ UNCHANGED vars

\* A directory that is there is kept.  tar gives it the archived mode; when
\* that is read-only it is made writable and noted for the end.
UnpackDir ==
  /\ Ready("dir")
  /\ LET p == ThisEntry.path
     IN  IF p \notin DOMAIN disk /\ Refused(p) THEN Fail("mode")
         ELSE /\ disk' = IF p \in DOMAIN disk THEN disk ELSE With(p, ADirectory)
              /\ readOnly' = IF format = "tar" /\ ~ThisEntry.writable
                             THEN Append(readOnly, p) ELSE readOnly
              /\ next' = next + 1 /\ units' = 0
              /\ UNCHANGED <<build, phase, room, buffered, dropped, cause>>
  /\ UNCHANGED vars

\* validate_symlink_target refuses a target that climbs out of the output folder;
\* the archive holds it as it was written.
UnpackSymlink ==
  /\ Ready("symlink")
  /\ IF Escapes(ThisEntry.path) THEN Fail("escapingLink")
     ELSE IF Refused(ThisEntry.path) THEN Fail("mode")
     ELSE /\ disk' = With(ThisEntry.path, Node("symlink", ThisEntry.inode, TRUE, ThisEntry.to))
          /\ next' = next + 1 /\ units' = 0
          /\ UNCHANGED <<build, phase, readOnly, room, buffered, dropped, cause>>
  /\ UNCHANGED vars

\* validate_dest_inside_root refuses a target that is a symbolic link on the
\* disk, and fs::hard_link one that is not there.
UnpackLink ==
  /\ Ready("link")
  /\ IF ThisEntry.to \notin DOMAIN disk THEN Fail("noTarget")
     ELSE IF disk[ThisEntry.to].kind = "symlink" THEN Fail("linkedSymlink")
     ELSE IF Refused(ThisEntry.path) THEN Fail("mode")
     ELSE /\ disk' = With(ThisEntry.path, disk[ThisEntry.to])
          /\ next' = next + 1 /\ units' = 0
          /\ UNCHANGED <<build, phase, readOnly, room, buffered, dropped, cause>>
  /\ UNCHANGED vars

\* A file is created; zip and 7z read each entry under a cap of its own.
OpenFile ==
  /\ Ready("file")
  /\ IF Refused(ThisEntry.path) THEN Fail("mode") /\ UNCHANGED vars
     ELSE /\ disk' = With(ThisEntry.path,
                         Node("file", ThisEntry.inode, ThisEntry.writable, <<>>))
          /\ phase' = "copy"
          /\ units' = 0 /\ buffered' = 0
          /\ IF format = "tar" THEN UNCHANGED vars
             ELSE /\ total' = ThisEntry.size /\ state' = "copying"
                  /\ remaining' = limit /\ given' = 0 /\ copied' = 0
                  /\ UNCHANGED limit
          /\ UNCHANGED <<build, next, readOnly, room, dropped, cause>>

Grow(n) == disk' = [disk EXCEPT ![ThisEntry.path].size = @ + n]

\* n units reach the file, or the disk is full.
ToDisk(n) ==
  IF n <= room
  THEN /\ Grow(n) /\ room' = room - n
       /\ UNCHANGED <<phase, cause>>
  ELSE /\ Grow(room) /\ room' = 0
       /\ phase' = "failed" /\ cause' = "full"

\* Faulty ToBuffer: what the buffer held is forgotten by a large piece.
ToBufferSkips(n) ==
  IF buffered + n <= BufferUnits /\ n < BufferUnits
  THEN buffered' = buffered + n /\ UNCHANGED <<disk, room, phase, cause>>
  ELSE IF n < BufferUnits THEN buffered' = n /\ ToDisk(buffered)
  ELSE buffered' = 0 /\ ToDisk(n)

\* n units go into the BufWriter: it is emptied when they do not fit in it, and
\* a piece as large as the buffer passes it by.
ToBuffer(n) ==
  IF buffered + n <= BufferUnits /\ n < BufferUnits
  THEN buffered' = buffered + n /\ UNCHANGED <<disk, room, phase, cause>>
  ELSE IF n < BufferUnits THEN buffered' = n /\ ToDisk(buffered)
  ELSE buffered' = 0 /\ ToDisk(buffered + n)

\* A piece of the entry's data passes the cap and is written.
CopyPiece ==
  /\ phase = "copy"
  /\ ReadPiece
  /\ units + (copied' - copied) <= ThisEntry.size
  /\ units' = units + (copied' - copied)
  /\ IF format = "7z" THEN ToBuffer(copied' - copied)
     ELSE ToDisk(copied' - copied) /\ UNCHANGED buffered
  /\ UNCHANGED <<build, next, readOnly, dropped>>

\* The data is at its end.  What a 7z entry's BufWriter still holds is written
\* when it is dropped, where an error is ignored.
Close ==
  /\ phase = "copy" /\ units = ThisEntry.size
  /\ IF format = "tar" THEN UNCHANGED vars ELSE ReadEnd
  /\ LET written == Lesser(buffered, room)
     IN  /\ Grow(written)
         /\ room' = room - written
         /\ dropped' = (dropped \/ written < buffered)
  /\ buffered' = 0
  /\ phase' = "unpack" /\ next' = next + 1 /\ units' = 0
  /\ UNCHANGED <<build, readOnly, cause>>

\* The cap is reached, or the decoder fails, wherever the archive is read.
Reading ==
  IF format = "tar" /\ phase = "unpack" THEN units = 0
  ELSE phase = "copy" /\ (format = "tar" => units < ThisEntry.size)

CapOrDecoder ==
  /\ Reading
  /\ \/ Probe /\ Fail("cap")
     \/ DecoderFails /\ Fail("decoder")

\* The end of the archive: the modes of read-only directories are restored, one
\* by one, in the order they were noted.
EndOfArchive ==
  /\ phase = "unpack" /\ next > Len(archive)
  /\ format = "tar" => units = 1
  /\ phase' = "restore"
  /\ UNCHANGED <<build, next, disk, readOnly, room, units, buffered, dropped, cause, vars>>

\* Faulty Restore: the last directory noted is left as it is.
RestoreAllButOne ==
  /\ phase = "restore"
  /\ IF Len(readOnly) <= 1 THEN phase' = "ok" /\ UNCHANGED <<disk, readOnly>>
     ELSE /\ disk' = [disk EXCEPT ![Head(readOnly)].writable = FALSE]
          /\ readOnly' = Tail(readOnly)
          /\ UNCHANGED phase
  /\ UNCHANGED <<build, next, room, units, buffered, dropped, cause, vars>>

Restore ==
  /\ phase = "restore"
  /\ IF readOnly = <<>> THEN phase' = "ok" /\ UNCHANGED <<disk, readOnly>>
     ELSE /\ disk' = [disk EXCEPT ![Head(readOnly)].writable = FALSE]
          /\ readOnly' = Tail(readOnly)
          /\ UNCHANGED phase
  /\ UNCHANGED <<build, next, room, units, buffered, dropped, cause, vars>>

UnpackInit ==
  /\ limit \in Limits /\ remaining = limit
  /\ total = 0 /\ given = 0 /\ copied = 0 /\ state = "done"
  /\ tree \in Trees /\ format \in Formats
  /\ archive = <<>> /\ bare = <<>> /\ length = 0 /\ last = <<>> /\ walked = {} /\ inodes = <<>>
  /\ phase = "build" /\ next = 1
  /\ disk = <<>> /\ readOnly = <<>>
  /\ room \in Rooms
  /\ units = 0 /\ buffered = 0 /\ dropped = FALSE
  /\ cause = "none"

UnpackNext ==
  \/ \E p \in DOMAIN tree : Walk(p)
  \/ FinishBuild \/ Header \/ UnpackDir \/ UnpackSymlink \/ UnpackLink \/ OpenFile
  \/ CopyPiece \/ Close \/ CapOrDecoder \/ EndOfArchive \/ Restore

UnpackSpec == UnpackInit /\ [][UnpackNext]_<<unpackVars, vars>>

-----------------------------------------------------------------------------
(* Properties                                                              *)

\* Every variable has its type, and while an entry is copied every unit that
\* passed the cap is in its file or in the BufWriter.
UnpackTypeOK ==
  /\ phase \in {"build", "unpack", "copy", "restore", "ok", "failed"}
  /\ walked \subseteq DOMAIN tree
  /\ next \in 1..Len(archive) + 1
  /\ room \in Nat /\ buffered \in 0..BufferUnits
  /\ \A k \in DOMAIN readOnly : disk[readOnly[k]].kind = "dir"
  /\ phase = "copy" => disk[ThisEntry.path].size + buffered = units

\* What a format keeps of the tree.
Kept(p) == IF format = "7z" THEN Behind(p) ELSE p

KeepsMode(p) == format = "tar" \/ (format = "zip" /\ Kind(p) # "dir")

\* The files on the disk are the tree's: "Avoid compressing the output file into
\* itself" (tar.rs:170), "Treat unix hardlinks" (tar.rs:188), "restore the
\* original mode" (tar.rs:80).  A success, unless a BufWriter was dropped on a
\* full disk, has every path but the output's, with its kind, its contents, its
\* target and, where the format has them, its mode and its hard links.
SuccessIsFaithful ==
  phase = "ok" /\ ~dropped =>
    /\ DOMAIN disk = {p \in DOMAIN tree : ~IsOutput(p)}
    /\ \A p \in DOMAIN disk :
         /\ disk[p].kind = Kind(Kept(p))
         /\ disk[p].kind = "file" => disk[p].inode = tree[Kept(p)].inode
                                      /\ disk[p].size = tree[Kept(p)].size
         /\ disk[p].kind = "symlink" => disk[p].to = tree[p].to
         /\ disk[p].kind # "symlink" =>
              disk[p].writable = (KeepsMode(p) => tree[p].writable)
    /\ format = "tar" =>
         \A p, q \in DOMAIN disk :
           disk[p].kind = "file" /\ disk[q].kind = "file" =>
             (disk[p].id = disk[q].id <=> tree[p].inode = tree[q].inode)

\* "make it writeable so that we can create the files inside of it" (tar.rs:79):
\* whatever the order of the entries, unpacking fails for the decoder, the cap
\* or the disk, and never for the mode of a directory or a hard link that comes
\* before its target.  A tree of which an archive was made is not unpacked when
\* it has a hard link to a symbolic link (tar) or a symbolic link out of it (tar
\* and zip), and a 7z of a broken link is not built.
FailsOnlyForCause ==
  phase = "failed" =>
    \/ cause = "decoder"
    \/ cause = "cap" /\ state = "over"
    \/ cause = "full" /\ room = 0
    \/ /\ cause = "linkedSymlink" /\ format = "tar"
       /\ \E p \in DOMAIN tree : Kind(p) = "symlink" /\ HardLinked(p)
    \/ /\ cause = "escapingLink" /\ format \in {"tar", "zip"}
       /\ \E p \in DOMAIN tree : Escapes(p)
    \/ /\ cause = "brokenLink" /\ format = "7z"
       /\ \E p \in DOMAIN tree : Behind(p) \notin DOMAIN tree
=============================================================================
