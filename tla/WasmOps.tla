------------------------------ MODULE WasmOps ------------------------------
(***************************************************************************)
(* The operations of the WASM build (wasm/entry.rs): the host writes files *)
(* into the virtual file system, compresses them there or while they stay  *)
(* on its side, and decompresses, lists or reads archives.                 *)
(*                                                                         *)
(* A name is a stem and its known extensions.  The bytes of a file are     *)
(* what they encode: plain data or an archive's entries, and the codecs    *)
(* applied to it since, the last one outermost.  A result that may be an   *)
(* error is a set of at most one value.                                    *)
(***************************************************************************)
EXTENDS Vfs

CONSTANTS
  NameOrder,   \* every name, in the order of Path::cmp
  Data,        \* what plain files hold
  Empty,       \* the bytes of an empty file
  Trees,       \* the trees the host starts from
  Known,       \* the entries of the archives in them, and of those inside these
  Inputs,      \* the lists of paths it compresses
  HostFiles,   \* the lists of entries it compresses from its own side
  Outputs,     \* the paths it compresses to in the virtual file system
  Streamed,    \* the names of the archives it has streamed to itself
  Archives,    \* the lists of paths it decompresses
  Flags,       \* format arguments, as lists of extensions; <<>> for none
  OutputDirs,  \* output_dir arguments; <<>> for none
  MaxCalls     \* bound on the calls of one behaviour

Names == Range(NameOrder)
Paths == Seq(Names) \ {<<>>}

\* The path components "." and "..", which are no names.
CurDir == [stem |-> ".", exts |-> <<>>]
ParentDir == [stem |-> "..", exts |-> <<>>]

VARIABLES
  vfs,   \* the virtual file system
  host,  \* the archives streamed to the host: the name and the bytes
  last,  \* the call that returned last
  calls  \* how many calls returned

vars == <<vfs, host, last, calls>>

-----------------------------------------------------------------------------
(* Names and formats                                                       *)

\* slice_to_extension: the formats, the aliases of one, and those of a tar
\* archive in another.
ArchiveFormats == {"tar", "zip", "7z", "rar"}
Codecs == {"gz", "bz2", "bz3", "xz", "lzma", "lz", "lz4", "sz", "zst", "br"}
AliasOf == [cbt |-> "tar", cbz |-> "zip", epub |-> "zip", cb7 |-> "7z", cbr |-> "rar", bz |-> "bz2"]
TarIn == [tgz |-> "gz", tbz |-> "bz2", tbz2 |-> "bz2", tbz3 |-> "bz3", txz |-> "xz",
          tlzma |-> "lzma", tlz |-> "lz", tlz4 |-> "lz4", tsz |-> "sz", tzst |-> "zst"]

FormatNames == ArchiveFormats \cup Codecs
Extensions == FormatNames \cup DOMAIN AliasOf \cup DOMAIN TarIn

Formats(ext) ==
  IF ext \in DOMAIN TarIn THEN <<"tar", TarIn[ext]>>
  ELSE IF ext \in DOMAIN AliasOf THEN <<AliasOf[ext]>> ELSE <<ext>>

IsArchive(ext) == Formats(ext)[1] \in ArchiveFormats

Flatten(exts) == FlattenSeq([i \in DOMAIN exts |-> Formats(exts[i])])

\* extensions_from_path: an archive extension after another one is an error.
FromPath(path) ==
  LET exts == Last(path).exts
  IN  IF \E i \in DOMAIN exts : i > 1 /\ IsArchive(exts[i]) THEN {} ELSE {exts}

\* format_from_path_or_flag and split_first_compression_format.
Split(path, flag) ==
  {Flatten(exts) : exts \in (IF flag # <<>> THEN {flag} ELSE FromPath(path)) \ {<<>>}}

\* Path::with_extension("").
WithoutExtension(path) ==
  LET name == Last(path)
  IN  Append(Front(path),
             IF name.exts = <<>> THEN name ELSE [name EXCEPT !.exts = Front(@)])

-----------------------------------------------------------------------------
(* Bytes                                                                   *)

Plain(data) == [fmt |-> "plain", data |-> data, entries |-> <<>>, codecs |-> <<>>]
Archive(fmt, entries) ==
  [fmt |-> fmt, data |-> Empty, entries |-> entries, codecs |-> <<>>]

\* codecs::encode and codecs::decode with one format: the WASM build has no
\* zstd encoder, and nothing for bzip3.
Encode(f, c) ==
  IF f \in ArchiveFormats \cup {"zst", "bz3"} THEN {}
  ELSE {[c EXCEPT !.codecs = Append(@, f)]}
Decode(f, c) ==
  IF f # "bz3" /\ c.codecs # <<>> /\ Last(c.codecs) = f
  THEN {[c EXCEPT !.codecs = Front(@)]} ELSE {}

\* stream_encode::wrap_layer: bzip2 has no streaming encoder.
StreamEncode(f, c) == IF f = "bz2" THEN {} ELSE Encode(f, c)

Each(Op(_, _), f, cs) == UNION {Op(f, c) : c \in cs}

\* One layer: a codec as decoder, as encoder or as streaming encoder.
Layer(codec, f, cs) ==
  CASE codec = "decode" -> Each(Decode, f, cs)
    [] codec = "encode" -> Each(Encode, f, cs)
    [] codec = "stream" -> Each(StreamEncode, f, cs)

\* What was made of cs when the layers fs have been applied one by one.
Through(codec, cs, fs) ==
  LET after[k \in 0..Len(fs)] == IF k = 0 THEN cs ELSE Layer(codec, fs[k], after[k - 1])
  IN  after[Len(fs)]

\* The loop of decode_layers over formats.iter().rev().
DecodeLayers(cs, rest) == Through("decode", cs, Reverse(rest))

\* Faulty ChainReader: the layers are wrapped in the order they are named.
ChainReaderForward(cs, rest) ==
  LET reader[k \in 0..Len(rest)] == IF k = 0 THEN cs ELSE Layer("decode", rest[k], reader[k - 1])
  IN  reader[Len(rest)]

\* chain_input_reader and seekable_tar_reader: the decoder of the last layer
\* reads the input, and the one of each other layer what the next one gives.
ChainReader(cs, rest) ==
  LET reader[k \in 1..Len(rest) + 1] ==
        IF k > Len(rest) THEN cs ELSE Layer("decode", rest[k], reader[k + 1])
  IN  reader[1]

\* The loop of run_compress over rest.iter().rev().
EncodeLayers(cs, rest) == Through("encode", cs, Reverse(rest))

\* Faulty StreamLayers: the layers are wrapped from the first one.
StreamLayersForward(cs, rest) == Through("stream", cs, Reverse(rest))

\* run_compress_from: the layers are wrapped around the chunk sink from the
\* last one, so what is written passes through the first of them first.
StreamLayers(cs, rest) == Through("stream", cs, rest)

-----------------------------------------------------------------------------
(* Archives                                                                *)

\* A duplicate name is an error of the zip crate.
BuildZip(entries) ==
  IF IsInjective([i \in DOMAIN entries |-> <<entries[i].path, entries[i].node = Dir>>])
  THEN {Archive("zip", entries)} ELSE {}

\* VFile::data and Entry::data: a link has none.
DataOf(node) == IF node.kind = "file" THEN node.data ELSE Plain(Empty)

\* What 7z keeps of a node: a link becomes an empty file.
In7z(node) == IF node.kind = "symlink" THEN FileOf(DataOf(node)) ELSE node

Build7z(entries) ==
  {Archive("7z", [i \in DOMAIN entries |-> [entries[i] EXCEPT !.node = In7z(@)]])}

BuildTar(entries) == {Archive("tar", entries)}

Build(fmt, entries) ==
  CASE fmt = "tar" -> BuildTar(entries)
    [] fmt = "zip" -> BuildZip(entries)
    [] fmt = "7z"  -> Build7z(entries)
    [] fmt = "rar" -> {}

\* What an entry holds when it is read as bytes.
BytesOf(node) ==
  CASE node.kind = "file" -> node.data
    [] node.kind = "dir" -> Plain(Empty)
    [] node.kind = "symlink" -> Plain(node.target)

Position(name) == CHOOSE i \in DOMAIN NameOrder : NameOrder[i] = name

PathBefore(p, q) ==
  \/ IsStrictPrefix(p, q)
  \/ \E i \in DOMAIN p \cap DOMAIN q :
       /\ SubSeq(p, 1, i - 1) = SubSeq(q, 1, i - 1)
       /\ Position(p[i]) < Position(q[i])

\* Faulty Found: paths relative to the input itself.
FoundInside(fs, input) ==
  IF Metadata(fs, input) = {Dir}
  THEN {[path |-> SubSeq(p, Len(input) + 1, Len(p)), node |-> fs[p]] : p \in Walk(fs, input)}
  ELSE {[path |-> <<Last(input)>>, node |-> node] : node \in Metadata(fs, input)}

\* collect_input_entries for one input: paths relative to its parent.
Found(fs, input) ==
  IF Metadata(fs, input) = {Dir}
  THEN {[path |-> SubSeq(p, Len(input), Len(p)), node |-> fs[p]] : p \in Walk(fs, input)}
  ELSE {[path |-> <<Last(input)>>, node |-> node] : node \in Metadata(fs, input)}

\* sort_and_add_implicit_dirs: entries of the same path keep their order.
SortAndAddImplicitDirs(found) ==
  LET paths == {f.path : f \in found}
      parents == (UNION {Prefixes(p) : p \in paths}) \ ({<<>>} \cup paths)
      all == found \cup {[path |-> p, node |-> Dir, from |-> 0] : p \in parents}
      Before(e, f) == PathBefore(e.path, f.path) \/ (e.path = f.path /\ e.from < f.from)
      At(i) == CHOOSE e \in all : Cardinality({f \in all : Before(f, e)}) = i - 1
  IN  [i \in 1..Cardinality(all) |-> [path |-> At(i).path, node |-> At(i).node]]

\* collect_input_entries.
Collect(fs, inputs) ==
  IF \E i \in DOMAIN inputs : Metadata(fs, inputs[i]) = {} THEN {}
  ELSE {SortAndAddImplicitDirs(
          UNION {{[path |-> e.path, node |-> e.node, from |-> i] : e \in Found(fs, inputs[i])}
                 : i \in DOMAIN inputs})}

\* The members of an archive, or an error where the bytes are no such archive.
Members(fmt, c) == IF c.codecs = <<>> /\ c.fmt = fmt THEN {c.entries} ELSE {}

\* validate_entry_path: an archive made elsewhere may store a path behind "./",
\* which is dropped, or behind "../", which is refused.
Refused(path) == Head(path) = ParentDir
Normal(path) == IF Head(path) = CurDir THEN Tail(path) ELSE path

AllSafe(members) == \A i \in DOMAIN members : ~Refused(members[i].path)

Normalised(members) ==
  [i \in DOMAIN members |-> [path |-> Normal(members[i].path), node |-> members[i].node]]

\* add_implicit_dirs, after which the members of a rar archive are sorted.
WithImplicitDirs(members) ==
  SortAndAddImplicitDirs(
    {[path |-> members[i].path, node |-> members[i].node, from |-> i] : i \in DOMAIN members})

\* unpack_tar, unpack_zip, unpack_7z, unpack_rar: one unsafe path fails all.
Unpack(fmt, c) ==
  {IF fmt = "rar" THEN WithImplicitDirs(Normalised(es)) ELSE Normalised(es)
     : es \in {m \in Members(fmt, c) : AllSafe(m)}}

\* The path under which a member is listed: list_7z reports what is stored.
Shown(fmt, path) == IF fmt = "7z" THEN path ELSE Normal(path)

\* list_tar, list_zip, list_7z, list_rar, down to the paths.
ListMembers(fmt, c) ==
  {{Shown(fmt, e.path) : e \in Range(es)}
     : es \in {m \in Members(fmt, c) : fmt = "7z" \/ AllSafe(m)}}

\* The bytes of the first of the members at these places, or "entry not found".
First(members, places) ==
  {BytesOf(members[i].node) : i \in {j \in places : \A k \in places : j <= k}}

\* read_tar_matching and read_7z_entry_reader look for the stored path, zip for the
\* path it encloses, skipping the unsafe ones; read_rar_entry looks for a file among
\* what unpack_rar gives, in the order of the members.
Matches(fmt, e, path) ==
  CASE fmt \in {"tar", "7z"} -> e.path = path
    [] fmt = "zip" -> ~Refused(e.path) /\ Normal(e.path) = path
    [] fmt = "rar" -> e.node # Dir /\ Normal(e.path) = path

EntryBytes(fmt, members, path) ==
  IF fmt = "rar" /\ ~AllSafe(members) THEN {}
  ELSE First(members, {i \in DOMAIN members : Matches(fmt, members[i], path)})

\* pump_rar_entry emits every file stored under that very path, whatever the other
\* paths are; pump_tar_matching, pump_zip_entry and pump_7z_entry_reader look as the
\* readers do.
PumpBytes(fmt, members, path) ==
  IF fmt = "rar"
  THEN {BytesOf(members[i].node) : i \in {j \in DOMAIN members :
                                           members[j].node # Dir /\ members[j].path = path}}
  ELSE EntryBytes(fmt, members, path)

\* run_compress, up to the wrapping layers.
Innermost(first, entries) ==
  IF first \in ArchiveFormats THEN Build(first, entries)
  ELSE IF Len(entries) # 1 \/ entries[1].node.kind = "dir" THEN {}
  ELSE Encode(first, DataOf(entries[1].node))

-----------------------------------------------------------------------------
(* What the host has                                                       *)

\* Bytes, nodes, lists of entries and trees whose archives have their entries in
\* lists.
IsBytes(c, lists) ==
  /\ c = [fmt |-> c.fmt, data |-> c.data, entries |-> c.entries, codecs |-> c.codecs]
  /\ c.entries \in lists /\ c.codecs \in Seq(FormatNames)

IsNode(node, lists) ==
  \/ node = Dir
  \/ node.kind = "file" /\ node = FileOf(node.data) /\ IsBytes(node.data, lists)
  \/ node.kind = "symlink" /\ node = LinkTo(node.target)

\* The members of an archive may be stored behind "./" or "../".
IsMemberPath(path) ==
  path \in Paths \/ (Head(path) \in {CurDir, ParentDir} /\ Tail(path) \in Paths)

IsMembers(es, lists) ==
  /\ es \in Seq(Range(es))
  /\ \A i \in DOMAIN es :
       /\ es[i] = [path |-> es[i].path, node |-> es[i].node]
       /\ IsMemberPath(es[i].path) /\ IsNode(es[i].node, lists)

IsEntries(es, lists) ==
  IsMembers(es, lists) /\ \A i \in DOMAIN es : es[i].path \in Paths

IsTree(fs, lists) ==
  /\ fs = [p \in DOMAIN fs |-> fs[p]] /\ IsFiniteSet(DOMAIN fs)
  /\ \A p \in DOMAIN fs : p \in Paths /\ IsNode(fs[p], lists)

\* A name may lose its last extensions, and the host compresses no links.
ASSUME WasmOpsAssumption ==
  /\ MaxCalls \in Nat
  /\ NameOrder \in Seq(Names)
  /\ \A name \in Names :
       /\ name = [stem |-> name.stem, exts |-> name.exts] /\ name.exts \in Seq(Extensions)
       /\ \A k \in 0..Len(name.exts) : [name EXCEPT !.exts = SubSeq(@, 1, k)] \in Names
  /\ Outputs \cup Streamed \subseteq Paths /\ Inputs \cup Archives \subseteq Seq(Paths)
  /\ OutputDirs \subseteq Seq(Names) /\ Flags \subseteq Seq(Extensions)
  /\ CurDir \notin Names /\ ParentDir \notin Names
  /\ \A es \in Known : IsMembers(es, Known \cup {<<>>})
  /\ \A es \in HostFiles : IsEntries(es, Known \cup {<<>>})
  /\ \A es \in HostFiles : \A i \in DOMAIN es : es[i].node.kind # "symlink"
  /\ \A fs \in Trees : IsTree(fs, Known \cup {<<>>})

-----------------------------------------------------------------------------
(* Calls                                                                   *)

NoCall == [op |-> "none", ok |-> TRUE]

Init ==
  /\ vfs \in Trees
  /\ host = {}
  /\ last = NoCall
  /\ calls = 0

Return(call) ==
  /\ last' = call
  /\ calls' = calls + 1

\* vfs_write_file, with data of the host's or an archive streamed to it.
WriteFile(path, c) ==
  /\ vfs' = Put(vfs, path, FileOf(c))
  /\ Return(NoCall)
  /\ UNCHANGED host

VfsRemove(path) ==
  /\ vfs' = RemoveTree(vfs, path)
  /\ Return(NoCall)
  /\ UNCHANGED host

VfsClear ==
  /\ vfs' = <<>>
  /\ Return(NoCall)
  /\ UNCHANGED host

Compressed(op, formats, given, cs) ==
  [op |-> op, ok |-> cs # {}, formats |-> formats, given |-> given, bytes |-> cs]

\* run_compress.
RunCompress(inputs, output, flag) ==
  LET splits == IF inputs = <<>> THEN {} ELSE Split(output, flag)
  IN  /\ UNCHANGED host
      /\ \/ /\ splits = {} \/ Collect(vfs, inputs) = {}
            /\ Return([op |-> "compress", ok |-> FALSE])
            /\ UNCHANGED vfs
         \/ \E formats \in splits, entries \in Collect(vfs, inputs) :
              LET bytes == EncodeLayers(Innermost(Head(formats), entries), Tail(formats))
              IN  /\ Return(Compressed("compress", formats, entries, bytes))
                  /\ vfs' \in IF bytes = {} THEN {vfs}
                              ELSE {Put(vfs, output, FileOf(c)) : c \in bytes}

\* run_compress_from: tar and single files, streamed in chunks to the host.
RunCompressFrom(files, output, flag) ==
  \E formats \in Split(output, flag) :
    LET first == Head(formats)
        inner == CASE first \in {"zip", "7z", "rar"} -> {}
                   [] first = "tar" -> Build("tar", files)
                   [] OTHER -> IF Len(files) = 1 /\ files[1].node # Dir
                               THEN StreamEncode(first, files[1].node.data) ELSE {}
        bytes == StreamLayers(inner, Tail(formats))
    IN  /\ Return(Compressed("compress_from", formats, files, bytes))
        /\ host' \in IF bytes = {} THEN {host}
                     ELSE {{[name |-> output, data |-> c]} : c \in bytes}
        /\ UNCHANGED vfs

\* run_compress_to_sink: zip and 7z without layers, into a seekable file.
RunCompressToSink(files, output, flag) ==
  \E formats \in Split(output, flag) :
    LET bytes == IF Len(formats) = 1 /\ formats[1] \in {"zip", "7z"}
                 THEN Build(formats[1], files) ELSE {}
    IN  /\ Return(Compressed("compress_to_sink", formats, files, bytes))
        /\ host' \in IF bytes = {} THEN {host}
                     ELSE {{[name |-> output, data |-> c]} : c \in bytes}
        /\ UNCHANGED vfs

-----------------------------------------------------------------------------
(* run_decompress                                                          *)

Failed(st) == [fs |-> st.fs, outputs |-> st.outputs, ok |-> FALSE]

Written(st, path, node) ==
  [fs |-> Put(st.fs, path, node),
   outputs |-> st.outputs \cup {[path |-> path, kind |-> node.kind]}, ok |-> st.ok]

Created(st, path) ==
  [fs |-> CreateDirAll(st.fs, path),
   outputs |-> st.outputs \cup {[path |-> path, kind |-> "dir"]}, ok |-> st.ok]

\* write_output_file.
WriteOutput(st, overwrite, path, node) ==
  IF ~overwrite /\ path \in DOMAIN st.fs THEN Failed(st) ELSE Written(st, path, node)

\* Faulty WriteEntry: a link is written without looking at what is there.
WriteEntryLinksBlindly(st, root, overwrite, e) ==
  LET path == root \o e.path
  IN  CASE ~st.ok -> st
        [] st.ok /\ e.node.kind = "dir" -> Created(st, path)
        [] st.ok /\ e.node.kind = "symlink" -> Written(st, path, e.node)
        [] st.ok /\ e.node.kind = "file" -> WriteOutput(st, overwrite, path, e.node)

\* Faulty WriteEntry: a link is not added to the outputs.
WriteEntryForgetsLinks(st, root, overwrite, e) ==
  LET path == root \o e.path
      next == WriteOutput(st, overwrite, path, e.node)
  IN  CASE ~st.ok -> st
        [] st.ok /\ e.node.kind = "dir" -> Created(st, path)
        [] st.ok /\ e.node.kind = "symlink" -> [next EXCEPT !.outputs = st.outputs]
        [] st.ok /\ e.node.kind = "file" -> next

\* write_entries, for one entry.
WriteEntry(st, root, overwrite, e) ==
  LET path == root \o e.path
  IN  CASE ~st.ok -> st
        [] st.ok /\ e.node.kind = "dir" -> Created(st, path)
        [] st.ok /\ e.node.kind # "dir" -> WriteOutput(st, overwrite, path, e.node)

WriteEntries(st, root, overwrite, entries) ==
  LET after[k \in 0..Len(entries)] ==
        IF k = 0 THEN st ELSE WriteEntry(after[k - 1], root, overwrite, entries[k])
  IN  after[Len(entries)]

\* Where an archive without output_dir unpacks.
OutputRoot(path) ==
  IF FromPath(path) = {} THEN WithoutExtension(path)
  ELSE <<[Last(path) EXCEPT !.exts = <<>>]>>

\* read_input.
Input(fs, path) ==
  IF path \notin DOMAIN fs \/ fs[path] = Dir THEN {} ELSE {DataOf(fs[path])}

\* The tree st after one archive is decompressed into it.
DecompressOne(st, path, dir, overwrite, flag) ==
  LET splits == Split(path, flag)
      formats == CHOOSE f \in splits : TRUE
      first == Head(formats)
      decoded == DecodeLayers(Input(st.fs, path), Tail(formats))
      entries == UNION {Unpack(first, c) : c \in decoded}
      data == Each(Decode, first, decoded)
      root == IF dir # <<>> THEN dir ELSE OutputRoot(path)
      name == Last(WithoutExtension(path))
  IN  IF ~st.ok THEN st
      ELSE IF splits = {} THEN Failed(st)
      ELSE IF first \in ArchiveFormats
      THEN IF entries = {} THEN Failed(st)
           ELSE WriteEntries(st, root, overwrite, CHOOSE es \in entries : TRUE)
      ELSE IF data = {} THEN Failed(st)
      ELSE WriteOutput(st, overwrite, Append(dir, name), FileOf(CHOOSE c \in data : TRUE))

\* The tree st after all the archives of paths.
DecompressAll(st, paths, dir, overwrite, flag) ==
  LET after[k \in 0..Len(paths)] ==
        IF k = 0 THEN st ELSE DecompressOne(after[k - 1], paths[k], dir, overwrite, flag)
  IN  after[Len(paths)]

\* An error returns at once, and what was written before it stays written.
RunDecompress(paths, dir, overwrite, flag) ==
  LET start == [fs |-> vfs, outputs |-> {}, ok |-> TRUE]
      end == DecompressAll(start, paths, dir, overwrite, flag)
  IN  /\ vfs' = end.fs
      /\ Return([op |-> "decompress", ok |-> end.ok, overwrite |-> overwrite,
                 outputs |-> IF end.ok THEN end.outputs ELSE {}])
      /\ UNCHANGED host

-----------------------------------------------------------------------------
(* Reads                                                                   *)

\* What is read, and what is pumped, from the archive that cs holds, if any.
ReadFrom(first, cs, entry) ==
  UNION {EntryBytes(first, es, entry) : es \in Each(Members, first, cs)}

PumpFrom(first, cs, entry) ==
  UNION {PumpBytes(first, es, entry) : es \in Each(Members, first, cs)}

\* run_read_entry: the layers are decoded into memory.
ReadEntry(c, formats, entry) ==
  LET first == Head(formats)
      decoded == DecodeLayers({c}, Tail(formats))
  IN  IF first \in ArchiveFormats THEN ReadFrom(first, decoded, entry)
      ELSE Each(Decode, first, decoded)

\* run_stream_entry: tar and single files chain their decoders, an archive that
\* needs a seekable source is decoded first.
StreamEntry(c, formats, entry) ==
  LET first == Head(formats)
      chained == ChainReader({c}, Tail(formats))
      decoded == DecodeLayers({c}, Tail(formats))
  IN  IF first \in {"zip", "7z", "rar"} THEN PumpFrom(first, decoded, entry)
      ELSE IF first = "tar" THEN PumpFrom(first, chained, entry)
      ELSE Each(Decode, first, chained)

\* run_seekable_read_entry.
SeekableReadEntry(c, formats, entry) ==
  LET first == Head(formats)
  IN  CASE first = "tar" ->
             ReadFrom(first, ChainReader({c}, Tail(formats)), entry)
        [] first \in {"zip", "7z", "rar"} /\ Len(formats) = 1 ->
             ReadFrom(first, {c}, entry)
        [] OTHER -> {}

\* run_seekable_stream_entry.
SeekableStreamEntry(c, formats, entry) ==
  LET first == Head(formats)
  IN  CASE first = "tar" ->
             PumpFrom(first, ChainReader({c}, Tail(formats)), entry)
        [] first \in {"zip", "7z", "rar"} /\ Len(formats) = 1 ->
             PumpFrom(first, {c}, entry)
        [] OTHER -> {}

\* run_list, down to the paths; a single file is its own only entry, which is
\* read under any name.
List(c, formats) ==
  LET decoded == DecodeLayers({c}, Tail(formats))
  IN  IF Head(formats) \in ArchiveFormats
      THEN Each(ListMembers, Head(formats), decoded)
      ELSE {{<<>>} : data \in Each(Decode, Head(formats), decoded)}

\* run_seekable_list.
SeekableList(c, formats) ==
  LET first == Head(formats)
  IN  CASE first = "tar" -> Each(ListMembers, first, ChainReader({c}, Tail(formats)))
        [] first \in {"zip", "7z", "rar"} /\ Len(formats) = 1 -> Each(ListMembers, first, {c})
        [] OTHER -> {}

Next ==
  /\ calls < MaxCalls
  /\ \/ \E path \in Outputs \cup Streamed, c \in {Plain(d) : d \in Data} \cup {h.data : h \in host} :
          WriteFile(path, c)
     \/ \E path \in DOMAIN vfs : VfsRemove(path)
     \/ VfsClear
     \/ \E inputs \in Inputs, output \in Outputs, flag \in Flags :
          RunCompress(inputs, output, flag)
     \/ \E files \in HostFiles, output \in Streamed, flag \in Flags :
          RunCompressFrom(files, output, flag) \/ RunCompressToSink(files, output, flag)
     \/ \E paths \in Archives, dir \in OutputDirs, overwrite \in BOOLEAN, flag \in Flags :
          RunDecompress(paths, dir, overwrite, flag)

Spec == Init /\ [][Next]_vars

-----------------------------------------------------------------------------
(* Properties                                                              *)

\* Every stored path and every path put into an archive is a non-empty list of
\* names, and the host holds at most one archive.
TypeOK ==
  /\ \A p \in DOMAIN vfs : p \in Paths /\ vfs[p].kind \in {"file", "dir", "symlink"}
  /\ "given" \in DOMAIN last =>
       \A i \in DOMAIN last.given : last.given[i].path \in Paths
  /\ Cardinality(host) <= 1
  /\ calls \in 0..MaxCalls

\* An entry as the archive keeps it.
Kept(first, entry) == IF first = "7z" THEN In7z(entry.node) ELSE entry.node

\* The readers get from c what was given, in formats.  A link compressed by itself
\* has no data: an empty file comes back.
Recovers(formats, given, c) ==
  LET first == Head(formats)
      decoded == DecodeLayers({c}, Tail(formats))
  IN  IF first \in ArchiveFormats
      THEN \E es \in Each(Unpack, first, decoded) :
             \A i \in DOMAIN given : \E j \in DOMAIN es :
               es[j].path = given[i].path /\ es[j].node = Kept(first, given[i])
      ELSE Each(Decode, first, decoded) = {DataOf(given[1].node)}

\* "e.g. for "tar.gz.xz" this wraps xz, then gz" (entry.rs:1111): what a
\* compression returns decodes, in the order the readers use, to every entry it
\* was given.
RoundTrip ==
  "bytes" \in DOMAIN last => \A c \in last.bytes : Recovers(last.formats, last.given, c)

\* "pass overwrite = true to replace existing files" (entry.rs:1032): without it
\* no node that was there changes, whether the call succeeds or fails half way.
NeverOverwritesUnasked ==
  [][last'.op = "decompress" /\ ~last'.overwrite =>
       \A p \in DOMAIN vfs : p \in DOMAIN vfs' /\ vfs'[p] = vfs[p]]_vars

\* What a successful decompress changed is what it reports, with the kind it
\* reports, or a directory above a directory it reports.
ReportsWhatItWrote ==
  [][last'.op = "decompress" /\ last'.ok =>
       /\ \A p \in DOMAIN vfs' :
            (p \in DOMAIN vfs => vfs'[p] # vfs[p]) =>
              \E o \in last'.outputs :
                \/ o.path = p /\ o.kind = vfs'[p].kind
                \/ o.kind = "dir" /\ vfs'[p] = Dir /\ IsPrefix(p, o.path)
       /\ \A o \in last'.outputs : o.path \in DOMAIN vfs']_vars

\* An archive the host may read: a stored file under a name with formats, or
\* the archive it holds itself.
Readable ==
  {<<DataOf(vfs[p]), p>> : p \in {q \in DOMAIN vfs : vfs[q] # Dir}}
    \cup {<<h.data, h.name>> : h \in host}

\* Whether the members listed as entry are what the readers look for: in a tar or
\* rar archive stored under that very path, and in a rar archive, all of it safe, one
\* file.
Findable(fmt, members, entry) ==
  LET shown == {i \in DOMAIN members : Shown(fmt, members[i].path) = entry}
  IN  /\ fmt \in {"tar", "rar"} => \A i \in shown : members[i].path = entry
      /\ fmt = "rar" => /\ AllSafe(members)
                        /\ \E i \in shown : shown = {i} /\ members[i].node # Dir

\* However an archive is read - decoded in memory, streamed, or through a source
\* of the host (entry.rs:1092-1321) - the same entries are listed, a listed one has
\* the same bytes, and none is missed that is stored as it is listed; the seekable
\* calls decline wrapped archives and single files instead.
ReadersAgree ==
  \A r \in Readable : \A formats \in Split(r[2], <<>>) :
    LET first == Head(formats)
        seekable == first = "tar" \/ (first \in ArchiveFormats /\ Len(formats) = 1)
        OnSource(result) == IF seekable THEN result ELSE {}
        decoded == DecodeLayers({r[1]}, Tail(formats))
        listed == List(r[1], formats)
    IN  /\ SeekableList(r[1], formats) = OnSource(listed)
        /\ \A entry \in UNION listed :
             LET read == ReadEntry(r[1], formats, entry)
                 streamed == StreamEntry(r[1], formats, entry)
             IN  /\ SeekableReadEntry(r[1], formats, entry) = OnSource(read)
                 /\ SeekableStreamEntry(r[1], formats, entry) = OnSource(streamed)
                 /\ first # "rar" => streamed = read
                 /\ (\A es \in Each(Members, first, decoded) : Findable(first, es, entry))
                      => read # {} /\ streamed = read

=============================================================================
