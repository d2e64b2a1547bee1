--------------------------- MODULE MCCompressRun ---------------------------
(* The command lines of CompressRun. *)
EXTENDS CompressRun

SomeLines ==
  [first : {"stream", "tar", "zip", "rar"}, encoders : {0, 1}, misplaced : {FALSE},
   inputs : {"file", "many"}, policy : {"yes", "no", "ask"}, sandboxed : BOOLEAN]
    \cup [first : {"tar"}, encoders : {1}, misplaced : BOOLEAN, inputs : {"none", "file"},
          policy : {"ask"}, sandboxed : {FALSE}]

\* One zip, written to the disk as it is.
ZipLines ==
  {line \in SomeLines : line.first = "zip" /\ line.encoders = 0}

SomeDisks == {{}, {0}, {0, 1}, {0, 2}}
=============================================================================
