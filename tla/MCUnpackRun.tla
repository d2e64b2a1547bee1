---------------------------- MODULE MCUnpackRun ----------------------------
(* Small trees: nested read-only directories, hard links in and outside them, *)
(* symbolic links (to a file, to a directory, broken, hard-linked, written as *)
(* a path out of the tree), files around the capacity of a buffer, and the    *)
(* output inside its own input.                                               *)
EXTENDS UnpackRun, TLC

D == <<"d">>
E == <<"d", "e">>
F == <<"d", "f">>
G == <<"d", "e", "g">>
H == <<"h">>
L == <<"l">>
TheOutput == <<"d", "out">>

Dir(writable, inode) == [kind |-> "dir", inode |-> inode, writable |-> writable]
File(size, inode) == [kind |-> "file", inode |-> inode, size |-> size, writable |-> TRUE]
ReadOnlyFile(size, inode) == [File(size, inode) EXCEPT !.writable = FALSE]
SymLink(to, inode) ==
  [kind |-> "symlink", inode |-> inode, to |-> to, writable |-> TRUE, escapes |-> FALSE]
LinkOut(to, inode) == [SymLink(to, inode) EXCEPT !.escapes = TRUE]

Nested == D :> Dir(FALSE, 1) @@ E :> Dir(FALSE, 2) @@ F :> ReadOnlyFile(3, 3)
            @@ G :> File(1, 4)
Linked == D :> Dir(TRUE, 1) @@ E :> Dir(FALSE, 2) @@ F :> File(2, 3)
            @@ G :> File(2, 3) @@ H :> File(2, 3)
Symbolic == D :> Dir(FALSE, 1) @@ E :> Dir(TRUE, 2) @@ F :> SymLink(H, 3)
              @@ G :> SymLink(D, 4) @@ H :> File(3, 5)
Broken == D :> Dir(TRUE, 1) @@ F :> SymLink(<<"nowhere">>, 3) @@ H :> File(0, 5)
SameLink == D :> Dir(TRUE, 1) @@ F :> SymLink(H, 3) @@ E :> SymLink(H, 3)
              @@ H :> File(1, 5)
Self == D :> Dir(TRUE, 1) @@ TheOutput :> File(2, 9) @@ E :> SymLink(TheOutput, 2)
          @@ F :> File(1, 3) @@ H :> File(2, 9)
\* One link leads out of the tree and one back into it; the other is plain.
Outward == D :> Dir(TRUE, 1) @@ E :> LinkOut(<<"nowhere">>, 2) @@ F :> LinkOut(H, 3)
             @@ L :> SymLink(H, 4) @@ H :> File(1, 5)

SomeTrees == {Nested, Linked, Symbolic, Broken, SameLink, Self, Outward}
=============================================================================
