-------------------------------- MODULE Vfs --------------------------------
(***************************************************************************)
(* The virtual file system of the WASM build (wasm/vfs.rs): a flat map     *)
(* from paths to nodes.  A path is a non-empty sequence of names; a node   *)
(* is a file, a directory or a symbolic link.                              *)
(***************************************************************************)
EXTENDS Naturals, SequencesExt

Dir == [kind |-> "dir"]
FileOf(data) == [kind |-> "file", data |-> data]
LinkTo(target) == [kind |-> "symlink", target |-> target]

\* write_file and write_symlink: whatever was at the path is replaced, and
\* nothing is stored for its parents.
Put(fs, path, node) ==
  [p \in DOMAIN fs \cup {path} |-> IF p = path THEN node ELSE fs[p]]

\* create_dir_all: every component that is not stored yet becomes a directory;
\* one that is stored keeps its node, a file included.
CreateDirAll(fs, path) ==
  [p \in DOMAIN fs \cup (Prefixes(path) \ {<<>>}) |->
    IF p \in DOMAIN fs THEN fs[p] ELSE Dir]

\* remove: the node and everything under it.
RemoveTree(fs, path) == RestrictDomain(fs, LAMBDA p : ~IsPrefix(path, p))

\* walk: the stored paths under a directory, itself included.
Walk(fs, dir) == {p \in DOMAIN fs : IsPrefix(dir, p)}

\* metadata_or_implicit_dir, as a set of at most one node: an ancestor of a
\* stored path counts as a directory.
Metadata(fs, path) ==
  IF path \in DOMAIN fs THEN {fs[path]}
  ELSE IF Walk(fs, path) # {} THEN {Dir} ELSE {}
=============================================================================
