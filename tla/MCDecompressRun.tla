--------------------------- MODULE MCDecompressRun ---------------------------
(* Small command lines for DecompressRun. *)
EXTENDS DecompressRun, TLC

TheNames == {"cwd", "out", "other", "a", "x", "a.zip", "a_1.zip"}

Named(name) == [name |-> name, suffix |-> <<>>]

cwd == Named("cwd")
out == Named("out")
other == Named("other")
a == Named("a")
x == Named("x")
zip == Named("a.zip")

CwdPath == <<cwd>>
DirPath == <<out>>

\* a.zip, other/a.zip and a/a_1.zip (or .gz): two inputs of one basename, and
\* one whose name is the first rename of theirs and which sits where they go.
Sources == <<<<cwd, zip>>, <<other, zip>>, <<cwd, a, Named("a_1.zip")>>>>
Stems == <<a, a, [a EXCEPT !.suffix = <<1>>]>>
Entries == <<<<x, a>>, <<x>>, <<x>>>>

Clean(sources) ==
  [p \in {CwdPath, <<other>>} \cup sources |->
     IF p \in sources THEN File({Prior}) ELSE Dir]

With(tree, dirs, files) ==
  [p \in DOMAIN tree \cup dirs \cup files |->
     IF p \in DOMAIN tree THEN tree[p] ELSE IF p \in dirs THEN Dir ELSE File({Prior})]

SourcesIn(n) == {Sources[i] : i \in 1..n}

\* Nothing in the way; the directory or the file a; a full --dir directory.
TwoTrees ==
  LET clean == Clean(SourcesIn(2))
  IN  {clean,
       With(clean, {Append(CwdPath, a)}, {<<cwd, a, x>>}),
       With(clean, {DirPath}, {Append(CwdPath, a), Append(DirPath, a)}),
       With(clean, {DirPath}, {Append(DirPath, x)})}

ThreeTrees ==
  {With(Clean(SourcesIn(3)), {Append(CwdPath, a)}, {})}

DiskTrees == <<{}, TwoTrees, ThreeTrees>>

Lines(n, modes, policies) ==
  [count : {n}, archives : SUBSET (1..n), mode : modes, policy : policies,
   remove : BOOLEAN, sandbox : BOOLEAN, threads : {2}]

\* Two inputs in every way; three in default mode, on two threads.
SomeLines ==
  Lines(2, {"default", "here", "dir"}, {"Ask", "AlwaysYes", "AlwaysNo"})
    \cup {c \in Lines(3, {"default"}, {"Ask"}) : c.sandbox}

\* Two inputs under --dir --no.
DirNoLines == Lines(2, {"dir"}, {"AlwaysNo"})
=============================================================================
