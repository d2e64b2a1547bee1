----------------------------- MODULE MCWasmOps -----------------------------
(* Small trees and archives for WasmOps. *)
EXTENDS WasmOps

CONSTANTS d1, d2, nothing, far

Plainly(stem) == [stem |-> stem, exts |-> <<>>]
Named(stem, exts) == [stem |-> stem, exts |-> exts]

a == Plainly("a")
b == Plainly("b")
s == Plainly("s")
x == Plainly("x")
tarGz == Named("s", <<"tar", "gz">>)
tgzXz == Named("s", <<"tgz", "xz">>)
tarOnly == Named("s", <<"tar">>)
tgz == Named("s", <<"tgz">>)
zipped == Named("s", <<"zip">>)
sevenZ == Named("s", <<"7z">>)
gz == Named("x", <<"gz">>)
rared == Named("s", <<"rar">>)
gzTar == Named("x", <<"gz", "tar">>)

TheNames == <<a, b, s, tarGz, tgzXz, zipped, sevenZ, rared, x, gz, gzTar, tarOnly, tgz>>

\* Files of the host, of which two have the same last name.
HostTree ==
  (<<a, x>> :> FileOf(Plain(d1))) @@ (<<b, x>> :> FileOf(Plain(d2))) @@ (<<x>> :> FileOf(Plain(d1)))

\* An archive made elsewhere, with a directory and a link, and a member behind "./".
Foreign ==
  Archive("tar", << [path |-> <<a>>, node |-> Dir],
                    [path |-> <<a, b>>, node |-> LinkTo(far)],
                    [path |-> <<a, x>>, node |-> FileOf(Plain(d1))],
                    [path |-> <<CurDir, b>>, node |-> FileOf(Plain(d2))] >>)

\* The same in two layers, beside a tree where it would unpack.
ForeignTree ==
  (<<tgzXz>> :> FileOf([Foreign EXCEPT !.codecs = <<"gz", "xz">>]))
    @@ (<<tarGz>> :> FileOf([Foreign EXCEPT !.codecs = <<"gz">>]))
    @@ (<<s, a, b>> :> FileOf(Plain(d2)))

\* Archives of the other formats made elsewhere: a file before its directory and one
\* behind "./" in a rar, and paths only some of the readers accept.
Rar == Archive("rar", << [path |-> <<b, x>>, node |-> FileOf(Plain(d1))],
                         [path |-> <<a>>, node |-> Dir],
                         [path |-> <<CurDir, x>>, node |-> FileOf(Plain(d2))] >>)
Unsafe == << [path |-> <<ParentDir, x>>, node |-> FileOf(Plain(d1))],
             [path |-> <<CurDir, x>>, node |-> FileOf(Plain(d2))] >>
Dotted == << [path |-> <<CurDir, x>>, node |-> FileOf(Plain(d2))] >>

OtherTree ==
  (<<rared>> :> FileOf(Rar)) @@ (<<zipped>> :> FileOf(Archive("zip", Dotted)))
    @@ (<<sevenZ>> :> FileOf(Archive("7z", Unsafe)))

KnownEntries == {Foreign.entries, Rar.entries, Unsafe, Dotted}

SomeTrees == {HostTree, ForeignTree, OtherTree}

SomeInputs == {<<>>, <<<<x>>>>, <<<<a>>>>, <<<<a, x>>, <<b, x>>>>, <<<<s>>>>}

SomeHostFiles ==
  { << [path |-> <<x>>, node |-> FileOf(Plain(d1))] >>,
    << [path |-> <<a>>, node |-> Dir], [path |-> <<a, x>>, node |-> FileOf(Plain(d2))] >> }

SomeOutputs == {<<tarGz>>, <<tgzXz>>, <<zipped>>, <<sevenZ>>, <<gz>>, <<gzTar>>}

SomeArchives == {<<<<tgzXz>>>>, <<<<tarGz>>>>, <<<<zipped>>, <<sevenZ>>>>, <<<<gz>>>>, <<<<s>>>>,
                <<<<rared>>>>}

NoFlags == {<<>>}

SomeFlags == {<<>>, <<"zip">>}

SomeDirs == {<<>>, <<b>>}

\* At most one format around the archive or the first codec.
OneLayer == {<<tarGz>>, <<zipped>>, <<sevenZ>>, <<gz>>, <<gzTar>>}
=============================================================================
