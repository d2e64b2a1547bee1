---------------------------- MODULE WasmProofs ----------------------------
(***************************************************************************)
(* Proofs about WasmOps: its properties hold for every tree, every name    *)
(* and every sequence of calls.  Loops and layers are recursive functions; *)
(* what they compute is shown by induction over the natural numbers, in    *)
(* the form that a non-empty set of them has a least element.              *)
(***************************************************************************)
EXTENDS WasmOps, FiniteSetTheorems, SequenceTheorems, TLAPS

-----------------------------------------------------------------------------
(* Induction                                                               *)

\* A non-empty set of natural numbers has a least element: the finite sets 0..n
\* are well-founded under inclusion.
LEMMA Least ==
  ASSUME NEW T, T \subseteq Nat, T # {}
  PROVE  \E x \in T : \A y \in T : x <= y
<1> DEFINE R == StrictSubsetOrdering(Nat)
           F == {0..n : n \in T}
<1>1. IsWellFoundedOn(R, FiniteSubsetsOf(Nat)) BY FS_StrictSubsetOrderingWellFounded
<1>2. F \subseteq FiniteSubsetsOf(Nat)
  <2> SUFFICES ASSUME NEW n \in T PROVE 0..n \in FiniteSubsetsOf(Nat) OBVIOUS
  <2>1. n \in Nat /\ 0 \in Int /\ n \in Int OBVIOUS
  <2>2. IsFiniteSet(0..n) BY <2>1, FS_Interval
  <2> QED BY <2>1, <2>2 DEF FiniteSubsetsOf
<1>3. F # {} OBVIOUS
<1> HIDE DEF F, R
<1>4. PICK A \in F : \A B \in F : <<B, A>> \notin R BY <1>1, <1>2, <1>3, WFMin
<1>5. PICK x \in T : A = 0..x BY DEF F
<1>6. \A y \in T : x <= y
  <2> SUFFICES ASSUME NEW y \in T, y < x PROVE FALSE OBVIOUS
  <2>1. 0..y \in F /\ 0..y \in SUBSET Nat /\ 0..x \in SUBSET Nat BY DEF F
  <2>2. 0..y \subseteq 0..x /\ x \in 0..x /\ x \notin 0..y OBVIOUS
  <2>3. <<0..y, 0..x>> \in R BY <2>1, <2>2 DEF R, StrictSubsetOrdering
  <2> QED BY <1>4, <1>5, <2>1, <2>3
<1> QED BY <1>6

\* Induction up to n, over a set.
LEMMA Upwards ==
  ASSUME NEW n \in Nat, NEW S, S \subseteq 0..n, 0 \in S,
         \A k \in 1..n : k - 1 \in S => k \in S
  PROVE  S = 0..n
<1> SUFFICES ASSUME S # 0..n PROVE FALSE OBVIOUS
<1> DEFINE T == 0..n \ S
<1>1. T \subseteq Nat BY DEF T
<1>0. T # {}
  <2>1. PICK x \in 0..n : x \notin S OBVIOUS
  <2> QED BY <2>1 DEF T
<1> HIDE DEF T
<1>2. PICK k \in T : \A j \in T : k <= j BY <1>1, <1>0, Least
<1>3. k \in 0..n /\ k \notin S /\ k # 0 BY <1>2 DEF T
<1>4. k - 1 \in 0..n /\ k \in 1..n /\ ~(k <= k - 1) BY <1>3
<1>5. k - 1 \in S BY <1>2, <1>4 DEF T
<1> QED BY <1>3, <1>4, <1>5

-----------------------------------------------------------------------------
(* Layers                                                                  *)

\* The recursion behind Through defines a function.
LEMMA LayerSteps ==
  ASSUME NEW codec, NEW cs, NEW fs, Len(fs) \in Nat
  PROVE  \E after :
           /\ after = [k \in 0..Len(fs) |->
                         IF k = 0 THEN cs ELSE Layer(codec, fs[k], after[k - 1])]
           /\ Through(codec, cs, fs) = after[Len(fs)]
<1> DEFINE Up(n, g) == g = [k \in 0..n |-> IF k = 0 THEN cs ELSE Layer(codec, fs[k], g[k - 1])]
           S == {n \in 0..Len(fs) : \E g : Up(n, g)}
<1>1. 0 \in S
  <2>1. Up(0, [k \in 0..0 |-> cs]) OBVIOUS
  <2> HIDE DEF Up
  <2> QED BY <2>1
<1>2. ASSUME NEW n \in 1..Len(fs), n - 1 \in S PROVE n \in S
  <2>1. PICK g : Up(n - 1, g) BY <1>2
  <2> DEFINE h == [k \in 0..n |-> IF k = n THEN Layer(codec, fs[n], g[n - 1]) ELSE g[k]]
  <2>2. Up(n, h)
    <3>1. \A k \in 0..n - 1 : g[k] = IF k = 0 THEN cs ELSE Layer(codec, fs[k], g[k - 1])
      BY <2>1
    <3>2. h[0] = cs BY <3>1
    <3>3. \A k \in 1..n : h[k] = Layer(codec, fs[k], h[k - 1])
      <4> SUFFICES ASSUME NEW k \in 1..n PROVE h[k] = Layer(codec, fs[k], h[k - 1]) OBVIOUS
      <4>1. h[k - 1] = g[k - 1] OBVIOUS
      <4>2. h[k] = Layer(codec, fs[k], g[k - 1]) BY <3>1
      <4> QED BY <4>1, <4>2
    <3>4. h = [k \in 0..n |-> h[k]] OBVIOUS
    <3> HIDE DEF h
    <3>5. \A k \in 0..n : h[k] = IF k = 0 THEN cs ELSE Layer(codec, fs[k], h[k - 1])
      BY <3>2, <3>3
    <3> QED BY <3>4, <3>5
  <2> HIDE DEF h, Up
  <2> QED BY <2>2
<1> HIDE DEF S
<1>3. S = 0..Len(fs)
  <2>1. S \subseteq 0..Len(fs) BY DEF S
  <2> QED BY <1>1, <1>2, <2>1, Upwards
<1>4. \E g : Up(Len(fs), g) BY <1>3 DEF S
<1>5. Up(Len(fs), CHOOSE g : Up(Len(fs), g)) BY <1>4
<1>6. Through(codec, cs, fs) = (CHOOSE g : Up(Len(fs), g))[Len(fs)]
  BY DEF Through
<1> QED BY <1>5, <1>6

\* In particular for the decoders.
LEMMA DecodeSteps ==
  ASSUME NEW cs, NEW fs, Len(fs) \in Nat
  PROVE  \E after :
           /\ after = [k \in 0..Len(fs) |->
                         IF k = 0 THEN cs ELSE Layer("decode", fs[k], after[k - 1])]
           /\ Through("decode", cs, fs) = after[Len(fs)]
<1> DEFINE use == "decode"
<1> HIDE DEF use
<1>1. \E after :
        /\ after = [k \in 0..Len(fs) |->
                      IF k = 0 THEN cs ELSE Layer(use, fs[k], after[k - 1])]
        /\ Through(use, cs, fs) = after[Len(fs)]
  BY LayerSteps
<1> QED BY <1>1 DEF use

\* What a codec makes of bytes is bytes with the same entries,
LEMMA CodecTypes ==
  ASSUME NEW lists, NEW c, IsBytes(c, lists), NEW f \in FormatNames
  PROVE  /\ \A d \in Decode(f, c) : IsBytes(d, lists)
         /\ \A d \in Encode(f, c) : IsBytes(d, lists)
         /\ \A d \in StreamEncode(f, c) : IsBytes(d, lists)
<1>1. /\ c = [fmt |-> c.fmt, data |-> c.data, entries |-> c.entries, codecs |-> c.codecs]
      /\ c.entries \in lists /\ c.codecs \in Seq(FormatNames)
  BY DEF IsBytes
<1>2. ASSUME NEW s \in Seq(FormatNames) PROVE IsBytes([c EXCEPT !.codecs = s], lists)
  <2> DEFINE d == [c EXCEPT !.codecs = s]
  <2>1. /\ d = [fmt |-> c.fmt, data |-> c.data, entries |-> c.entries, codecs |-> s]
    BY <1>1
  <2> HIDE DEF d
  <2>2. IsBytes(d, lists) BY <2>1, <1>1 DEF IsBytes
  <2> QED BY <2>2 DEF d
<1>3. c.codecs # <<>> => Front(c.codecs) \in Seq(FormatNames) BY <1>1 DEF Front
<1>4. Append(c.codecs, f) \in Seq(FormatNames) BY <1>1
<1>5. \A d \in Decode(f, c) : IsBytes(d, lists) BY <1>2, <1>3 DEF Decode
<1>6. \A d \in Encode(f, c) : IsBytes(d, lists) BY <1>2, <1>4 DEF Encode
<1> QED BY <1>5, <1>6 DEF StreamEncode

\* and its decoder gives back what was encoded.
LEMMA DecodesEncoded ==
  ASSUME NEW lists, NEW c, IsBytes(c, lists), NEW f \in FormatNames, NEW d \in Encode(f, c)
  PROVE  Encode(f, c) = {d} /\ Decode(f, d) = {c}
<1>1. /\ c = [fmt |-> c.fmt, data |-> c.data, entries |-> c.entries, codecs |-> c.codecs]
      /\ c.codecs \in Seq(FormatNames)
  BY DEF IsBytes
<1>2. Encode(f, c) = {d} /\ d = [c EXCEPT !.codecs = Append(c.codecs, f)] BY DEF Encode
<1> DEFINE s == Append(c.codecs, f)
<1>3. d = [fmt |-> c.fmt, data |-> c.data, entries |-> c.entries, codecs |-> s] BY <1>1, <1>2
<1>4. s # <<>> /\ Last(s) = f /\ Front(s) = c.codecs
  <2>1. s \in Seq(FormatNames) /\ Len(s) = Len(c.codecs) + 1 /\ s[Len(s)] = f /\ s # <<>>
    BY <1>1, AppendProperties
  <2>2. Front(s) \in Seq(FormatNames) /\ Len(Front(s)) = Len(c.codecs) BY <1>1, <2>1 DEF Front
  <2>3. \A i \in 1..Len(c.codecs) : Front(s)[i] = c.codecs[i] BY <1>1, <2>1 DEF Front
  <2>4. Front(s) = c.codecs BY <1>1, <2>2, <2>3, SeqEqual
  <2> QED BY <2>1, <2>4 DEF Last
<1> HIDE DEF s
<1>5. d.codecs = s BY <1>3
<1>6. Decode(f, d) = {[d EXCEPT !.codecs = c.codecs]}
  <2>1. f # "bz3" BY DEF Encode
  <2> QED BY <1>4, <1>5, <2>1 DEF Decode
<1>7. [d EXCEPT !.codecs = c.codecs] = c BY <1>1, <1>3
<1> QED BY <1>2, <1>6, <1>7

\* Reverse gives a list of the same length, its last element first.
LEMMA ReverseFacts ==
  ASSUME NEW S, NEW s \in Seq(S)
  PROVE  /\ Reverse(s) \in Seq(S) /\ Len(Reverse(s)) = Len(s)
         /\ \A i \in 1..Len(s) : Reverse(s)[i] = s[Len(s) - i + 1]
<1> DEFINE e(i) == s[(Len(s) - i) + 1]
<1>1. Len(s) \in Nat /\ \A i \in 1..Len(s) : e(i) \in S OBVIOUS
<1>2. Reverse(s) = [i \in 1..Len(s) |-> e(i)] BY DEF Reverse
<1>3. [i \in 1..Len(s) |-> e(i)] \in [1..Len(s) -> S] BY <1>1
<1>4. Reverse(s) \in [1..Len(s) -> S] BY <1>2, <1>3
<1>5. Reverse(s) \in Seq(S) BY <1>1, <1>4, SeqDef
<1> QED BY <1>1, <1>2, <1>4, <1>5, LenProperties

\* What codecs are used for, and sets of bytes.
Uses == {"decode", "encode", "stream"}
AllBytes(cs, lists) == \A c \in cs : IsBytes(c, lists)

\* Bytes keep their type and their entries through a layer,
LEMMA LayerTypes ==
  ASSUME NEW lists, NEW cs, AllBytes(cs, lists), NEW f \in FormatNames, NEW codec \in Uses
  PROVE  AllBytes(Layer(codec, f, cs), lists)
<1>1. \A c \in cs : /\ \A d \in Decode(f, c) : IsBytes(d, lists)
                    /\ \A d \in Encode(f, c) : IsBytes(d, lists)
                    /\ \A d \in StreamEncode(f, c) : IsBytes(d, lists)
  BY CodecTypes DEF AllBytes
<1> QED BY <1>1 DEF AllBytes, Layer, Each, Uses

\* through any number of them,
LEMMA ThroughTypes ==
  ASSUME NEW lists, NEW cs, AllBytes(cs, lists), NEW fs \in Seq(FormatNames), NEW codec \in Uses
  PROVE  AllBytes(Through(codec, cs, fs), lists)
<1> DEFINE n == Len(fs)
<1>1. n \in Nat OBVIOUS
<1>2. PICK after :
        /\ after = [k \in 0..n |-> IF k = 0 THEN cs ELSE Layer(codec, fs[k], after[k - 1])]
        /\ Through(codec, cs, fs) = after[n]
  BY <1>1, LayerSteps
<1> DEFINE S == {k \in 0..n : AllBytes(after[k], lists)}
<1>3. /\ after[0] = cs
      /\ \A k \in 1..n : after[k] = Layer(codec, fs[k], after[k - 1]) /\ fs[k] \in FormatNames
  BY <1>1, <1>2
<1>4. 0 \in S BY <1>1, <1>3
<1>5. ASSUME NEW k \in 1..n, k - 1 \in S PROVE k \in S
  <2>1. k \in 0..n /\ AllBytes(after[k - 1], lists) BY <1>1, <1>5
  <2>2. AllBytes(Layer(codec, fs[k], after[k - 1]), lists) BY <1>3, <2>1, LayerTypes
  <2> QED BY <1>3, <2>1, <2>2
<1>6. S \subseteq 0..n OBVIOUS
<1> HIDE DEF S
<1>7. S = 0..n BY <1>1, <1>4, <1>5, <1>6, Upwards
<1>8. n \in S BY <1>1, <1>7
<1> QED BY <1>2, <1>8 DEF S

\* and so through those of a read and of a compression.
LEMMA LayersTypes ==
  ASSUME NEW lists, NEW cs, AllBytes(cs, lists), NEW rest \in Seq(FormatNames)
  PROVE  /\ AllBytes(DecodeLayers(cs, rest), lists) /\ AllBytes(EncodeLayers(cs, rest), lists)
         /\ AllBytes(StreamLayers(cs, rest), lists)
<1>1. Reverse(rest) \in Seq(FormatNames) BY ReverseFacts
<1> QED BY <1>1, ThroughTypes DEF DecodeLayers, EncodeLayers, StreamLayers, Uses

\* Reading through a chain of decoders gives what decoding layer by layer gives.
LEMMA ChainAgrees ==
  ASSUME NEW cs, NEW rest \in Seq(FormatNames)
  PROVE  ChainReader(cs, rest) = DecodeLayers(cs, rest)
<1> DEFINE fs == Reverse(rest)
           n == Len(rest)
<1>1. /\ fs \in Seq(FormatNames) /\ n \in Nat /\ Len(fs) = n
      /\ \A i \in 1..n : fs[i] = rest[n - i + 1]
  BY ReverseFacts
<1> HIDE DEF fs
<1>2. PICK after :
        /\ after = [k \in 0..n |-> IF k = 0 THEN cs ELSE Layer("decode", fs[k], after[k - 1])]
        /\ Through("decode", cs, fs) = after[n]
  <2>1. Len(fs) \in Nat BY <1>1
  <2>2. PICK after :
          /\ after = [k \in 0..Len(fs) |->
                        IF k = 0 THEN cs ELSE Layer("decode", fs[k], after[k - 1])]
          /\ Through("decode", cs, fs) = after[Len(fs)]
    BY <2>1, DecodeSteps, Zenon
  <2> QED BY <1>1, <2>2
<1>3. after[0] = cs /\ \A k \in 1..n : after[k] = Layer("decode", fs[k], after[k - 1])
  <2>1. n \in Nat BY <1>1
  <2> HIDE DEF n
  <2>2. \A k \in 0..n : after[k] = IF k = 0 THEN cs ELSE Layer("decode", fs[k], after[k - 1]) BY <1>2
  <2> QED BY <2>1, <2>2
<1> DEFINE Is(g) == g = [k \in 1..n + 1 |-> IF k > n THEN cs ELSE Layer("decode", rest[k], g[k + 1])]
           reader == [k \in 1..n + 1 |-> after[n + 1 - k]]
<1>4. Is(reader)
  <2>1. reader[n + 1] = cs BY <1>1, <1>3
  <2>2. \A k \in 1..n : reader[k] = Layer("decode", rest[k], reader[k + 1])
    <3> SUFFICES ASSUME NEW k \in 1..n PROVE reader[k] = Layer("decode", rest[k], reader[k + 1]) OBVIOUS
    <3> DEFINE j == n + 1 - k
    <3>1. /\ j \in 1..n /\ n - j + 1 = k /\ n + 1 - (k + 1) = j - 1
          /\ k \in 1..n + 1 /\ k + 1 \in 1..n + 1
      BY <1>1
    <3>2. reader[k] = after[j] /\ reader[k + 1] = after[j - 1] BY <3>1
    <3> HIDE DEF j, reader
    <3>3. after[j] = Layer("decode", fs[j], after[j - 1]) /\ fs[j] = rest[k] BY <1>1, <1>3, <3>1
    <3> QED BY <3>2, <3>3
  <2>3. reader = [k \in 1..n + 1 |-> reader[k]] OBVIOUS
  <2> HIDE DEF reader
  <2>4. \A k \in 1..n + 1 : reader[k] = IF k > n THEN cs ELSE Layer("decode", rest[k], reader[k + 1])
    BY <2>1, <2>2, <1>1
  <2> QED BY <2>3, <2>4
<1>5. ASSUME NEW g, Is(g) PROVE g[1] = after[n]
  <2> DEFINE S == {j \in 0..n : g[n + 1 - j] = after[j]}
  <2>1. g[n + 1] = cs /\ \A k \in 1..n : g[k] = Layer("decode", rest[k], g[k + 1]) BY <1>1, <1>5
  <2>2. 0 \in S BY <2>1, <1>1, <1>3
  <2>3. ASSUME NEW j \in 1..n, j - 1 \in S PROVE j \in S
    <3> DEFINE k == n + 1 - j
    <3>1. k \in 1..n /\ k + 1 = n + 1 - (j - 1) /\ n - j + 1 = k BY <1>1
    <3>2. g[k + 1] = after[j - 1] BY <2>3, <3>1
    <3> HIDE DEF k
    <3>3. g[k] = Layer("decode", rest[k], after[j - 1]) BY <2>1, <3>1, <3>2
    <3>4. after[j] = Layer("decode", rest[k], after[j - 1]) BY <1>1, <1>3, <3>1
    <3>5. g[n + 1 - j] = after[j] BY <3>3, <3>4 DEF k
    <3> QED BY <3>5
  <2>4. S \subseteq 0..n OBVIOUS
  <2> HIDE DEF S
  <2>5. S = 0..n BY <1>1, <2>2, <2>3, <2>4, Upwards
  <2>6. n \in S BY <1>1, <2>5
  <2> QED BY <2>6, <1>1 DEF S
<1>6. Is(CHOOSE g : Is(g)) BY <1>4
<1>7. ChainReader(cs, rest) = (CHOOSE g : Is(g))[1] BY DEF ChainReader
<1> QED BY <1>2, <1>5, <1>6, <1>7 DEF DecodeLayers, fs

Encoders == {"encode", "stream"}

\* Decoding undoes encoding, layer by layer, from the outside in.
LEMMA EncodeInverse ==
  ASSUME NEW lists, NEW c, IsBytes(c, lists), NEW fs \in Seq(FormatNames),
         NEW codec \in Encoders, NEW d \in Through(codec, {c}, fs)
  PROVE  DecodeLayers({d}, fs) = {c}
<1> DEFINE n == Len(fs)
           back == Reverse(fs)
<1>1. /\ n \in Nat /\ \A k \in 1..n : fs[k] \in FormatNames
      /\ back \in Seq(FormatNames) /\ Len(back) = n /\ \A j \in 1..n : back[j] = fs[n - j + 1]
  BY ReverseFacts
<1>2. PICK after : /\ after = [k \in 0..n |-> IF k = 0 THEN {c} ELSE Layer(codec, fs[k], after[k - 1])]
                   /\ Through(codec, {c}, fs) = after[n]
  <2>0. Len(fs) \in Nat BY <1>1
  <2> DEFINE use == codec
  <2> HIDE DEF use
  <2>1. \E after :
           /\ after = [k \in 0..Len(fs) |-> IF k = 0 THEN {c} ELSE Layer(use, fs[k], after[k - 1])]
           /\ Through(use, {c}, fs) = after[Len(fs)]
    BY <2>0, LayerSteps
  <2> QED BY <2>1 DEF use, n
<1> HIDE DEF n, back
<1>3. after[0] = {c} /\ \A k \in 1..n : after[k] = Layer(codec, fs[k], after[k - 1])
  <2>1. \A k \in 0..n : after[k] = IF k = 0 THEN {c} ELSE Layer(codec, fs[k], after[k - 1]) BY <1>2
  <2> QED BY <1>1, <2>1
<1>4. \A k \in 0..n : after[k] # {}
  <2> DEFINE T == {j \in 0..n : after[n - j] # {}}
  <2>1. 0 \in T BY <1>1, <1>2
  <2>2. ASSUME NEW j \in 1..n, j - 1 \in T PROVE j \in T
    <3> DEFINE k == n - j + 1
    <3>1. k \in 1..n /\ n - (j - 1) = k /\ k - 1 = n - j BY <1>1
    <3>2. after[k] # {} BY <2>2, <3>1
    <3> HIDE DEF k
    <3>3. after[k - 1] # {} BY <1>3, <3>1, <3>2 DEF Layer, Each, Encoders
    <3> QED BY <3>1, <3>3
  <2>3. T \subseteq 0..n OBVIOUS
  <2> HIDE DEF T
  <2>4. T = 0..n BY <1>1, <2>1, <2>2, <2>3, Upwards
  <2>5. ASSUME NEW k \in 0..n PROVE after[k] # {}
    <3>1. n - k \in T /\ n - (n - k) = k BY <1>1, <2>4
    <3> QED BY <3>1 DEF T
  <2> QED BY <2>5
<1>5. ASSUME NEW k \in 1..n, NEW x, IsBytes(x, lists), after[k - 1] = {x}
      PROVE  \E e : after[k] = {e} /\ IsBytes(e, lists) /\ Decode(fs[k], e) = {x}
  <2>0. k \in 0..n /\ after[k] # {}
    <3>1. n \in Nat BY <1>1
    <3>2. k \in 0..n BY <3>1
    <3> QED BY <3>2, <1>4
  <2>1. after[k] = Layer(codec, fs[k], {x}) BY <1>3, <1>5
  <2>2. Layer(codec, fs[k], {x}) = IF codec = "encode" THEN Encode(fs[k], x) ELSE StreamEncode(fs[k], x)
    BY DEF Layer, Each, Encoders
  <2>3. PICK e : e \in Encode(fs[k], x) /\ after[k] = Encode(fs[k], x)
    BY <2>0, <2>1, <2>2 DEF StreamEncode
  <2>4. Encode(fs[k], x) = {e} /\ Decode(fs[k], e) = {x} BY <1>1, <1>5, <2>3, DecodesEncoded
  <2>5. IsBytes(e, lists) BY <1>1, <1>5, <2>3, CodecTypes
  <2> QED BY <2>1, <2>3, <2>4, <2>5
<1>6. \A k \in 0..n : \E e : after[k] = {e} /\ IsBytes(e, lists)
  <2> DEFINE S == {k \in 0..n : \E e : after[k] = {e} /\ IsBytes(e, lists)}
  <2>1. 0 \in S
    <3>1. 0 \in 0..n BY <1>1
    <3>2. \E e : after[0] = {e} /\ IsBytes(e, lists) BY <1>3
    <3> QED BY <3>1, <3>2
  <2>2. ASSUME NEW k \in 1..n, k - 1 \in S PROVE k \in S BY <1>5, <2>2
  <2>3. S \subseteq 0..n OBVIOUS
  <2> HIDE DEF S
  <2>4. S = 0..n BY <1>1, <2>1, <2>2, <2>3, Upwards
  <2> QED BY <2>4 DEF S
<1>7. after[n] = {d}
  <2>1. n \in 0..n BY <1>1
  <2>2. PICK e : after[n] = {e} /\ IsBytes(e, lists) BY <1>6, <2>1
  <2> QED BY <1>2, <2>2
<1>8. PICK dec :
        /\ dec = [j \in 0..n |-> IF j = 0 THEN {d} ELSE Layer("decode", back[j], dec[j - 1])]
        /\ Through("decode", {d}, back) = dec[n]
  <2>1. Len(back) \in Nat BY <1>1
  <2>2. PICK dec :
          /\ dec = [j \in 0..Len(back) |->
                      IF j = 0 THEN {d} ELSE Layer("decode", back[j], dec[j - 1])]
          /\ Through("decode", {d}, back) = dec[Len(back)]
    BY <2>1, DecodeSteps, Zenon
  <2> QED BY <1>1, <2>2
<1>9. dec[0] = {d} /\ \A j \in 1..n : dec[j] = Layer("decode", back[j], dec[j - 1])
  <2>1. \A j \in 0..n : dec[j] = IF j = 0 THEN {d} ELSE Layer("decode", back[j], dec[j - 1]) BY <1>8
  <2> QED BY <1>1, <2>1
<1>10. dec[n] = {c}
  <2> DEFINE S == {j \in 0..n : dec[j] = after[n - j]}
  <2>0. 0 \in 0..n /\ n - 0 = n BY <1>1
  <2>1. 0 \in S BY <2>0, <1>7, <1>9
  <2>2. ASSUME NEW j \in 1..n, j - 1 \in S PROVE j \in S
    <3> DEFINE k == n - j + 1
    <3>1. k \in 1..n /\ n - (j - 1) = k /\ k - 1 = n - j /\ k - 1 \in 0..n BY <1>1
    <3>2. dec[j - 1] = after[k] BY <2>2, <3>1
    <3>3. back[j] = fs[k] BY <1>1
    <3> HIDE DEF k
    <3>4. PICK x : after[k - 1] = {x} /\ IsBytes(x, lists) BY <1>6, <3>1
    <3>5. PICK e : after[k] = {e} /\ IsBytes(e, lists) /\ Decode(fs[k], e) = {x}
      BY <1>5, <3>1, <3>4
    <3>6. Layer("decode", fs[k], {e}) = {x} BY <3>5 DEF Layer, Each
    <3>7. dec[j] = after[k - 1] BY <1>9, <3>2, <3>3, <3>4, <3>5, <3>6
    <3> QED BY <3>1, <3>7
  <2>3. S \subseteq 0..n OBVIOUS
  <2> HIDE DEF S
  <2>4. S = 0..n BY <1>1, <2>1, <2>2, <2>3, Upwards
  <2>5. n \in S /\ n - n = 0 BY <1>1, <2>4
  <2> QED BY <1>3, <2>5 DEF S
<1> QED BY <1>2, <1>7, <1>8, <1>10 DEF DecodeLayers, back

-----------------------------------------------------------------------------
(* Names and formats                                                       *)

\* A name is a stem and extensions, of which the last ones may be dropped.
LEMMA NamesTyped ==
  ASSUME NEW name \in Names
  PROVE  /\ name = [stem |-> name.stem, exts |-> name.exts] /\ name.exts \in Seq(Extensions)
         /\ \A k \in 0..Len(name.exts) :
              [name EXCEPT !.exts = SubSeq(name.exts, 1, k)] \in Names
  BY WasmOpsAssumption

\* A name without its last extension, or without any, is a name,
LEMMA Shorter ==
  ASSUME NEW name \in Names
  PROVE  /\ [name EXCEPT !.exts = <<>>] \in Names
         /\ name.exts # <<>> => [name EXCEPT !.exts = Front(name.exts)] \in Names
<1>1. name.exts \in Seq(Extensions) BY NamesTyped
<1>2. SubSeq(name.exts, 1, 0) = <<>> /\ 0 \in 0..Len(name.exts) BY <1>1, SubSeqEmpty
<1>3. name.exts # <<>> => Len(name.exts) - 1 \in 0..Len(name.exts) BY <1>1
<1> QED BY <1>2, <1>3, NamesTyped DEF Front

\* so what run_decompress makes of a path is a path.
LEMMA OutputNames ==
  ASSUME NEW path \in Paths
  PROVE  /\ Last(path) \in Names /\ WithoutExtension(path) \in Paths
         /\ Last(WithoutExtension(path)) \in Names /\ OutputRoot(path) \in Paths
<1>1. path \in Seq(Names) /\ Len(path) \in Nat \ {0} BY DEF Paths
<1>2. Last(path) \in Names BY <1>1 DEF Last
<1>3. Front(path) \in Seq(Names) BY <1>1 DEF Front
<1> DEFINE name == Last(path)
           short == IF name.exts = <<>> THEN name ELSE [name EXCEPT !.exts = Front(@)]
<1>4. short \in Names BY <1>2, Shorter
<1>5. WithoutExtension(path) = Append(Front(path), short) BY DEF WithoutExtension
<1> HIDE DEF short
<1>6. WithoutExtension(path) \in Paths BY <1>3, <1>4, <1>5 DEF Paths
<1>7. Last(WithoutExtension(path)) \in Names BY <1>3, <1>4, <1>5 DEF Last
<1>8. [Last(path) EXCEPT !.exts = <<>>] \in Names BY <1>2, Shorter
<1>9. <<[Last(path) EXCEPT !.exts = <<>>]>> \in Paths BY <1>8 DEF Paths
<1> QED BY <1>2, <1>6, <1>7, <1>9 DEF OutputRoot

\* One or two elements are a list that is not empty,
LEMMA OneOrTwo ==
  ASSUME NEW S
  PROVE  \A f, g \in S : <<f>> \in Seq(S) \ {<<>>} /\ <<f, g>> \in Seq(S) \ {<<>>}
  OBVIOUS

\* so slice_to_extension gives at least one format.
LEMMA FormatsTyped ==
  ASSUME NEW ext \in Extensions
  PROVE  Formats(ext) \in Seq(FormatNames) \ {<<>>}
<1>1. "tar" \in FormatNames BY DEF FormatNames, ArchiveFormats
<1>2. CASE ext \in DOMAIN TarIn
  <2>1. TarIn[ext] \in FormatNames BY <1>2 DEF TarIn, FormatNames, Codecs
  <2> QED BY <1>1, <1>2, <2>1, OneOrTwo DEF Formats
<1>3. CASE ext \notin DOMAIN TarIn /\ ext \in DOMAIN AliasOf
  <2>1. AliasOf[ext] \in FormatNames BY <1>3 DEF AliasOf, FormatNames, Codecs, ArchiveFormats
  <2> QED BY <1>3, <2>1, OneOrTwo DEF Formats
<1>4. CASE ext \notin DOMAIN TarIn /\ ext \notin DOMAIN AliasOf
  <2>1. ext \in FormatNames BY <1>4 DEF Extensions
  <2> QED BY <1>4, <2>1, OneOrTwo DEF Formats
<1> QED BY <1>2, <1>3, <1>4

\* Joining lists of formats that are not empty makes one.
LEMMA FlattenTypes ==
  ASSUME NEW seqs, Len(seqs) \in Nat \ {0},
         \A i \in 1..Len(seqs) : seqs[i] \in Seq(FormatNames) \ {<<>>}
  PROVE  FlattenSeq(seqs) \in Seq(FormatNames) \ {<<>>}
<1> DEFINE n == Len(seqs)
           Up(m, g) == g = [i \in 1..m |-> IF i = 1 THEN seqs[i] ELSE g[i - 1] \o seqs[i]]
           S == {m \in 0..n : \E g : Up(m, g)}
<1>0. n \in Nat /\ n # 0 OBVIOUS
<1>1. 0 \in S
  <2>1. Up(0, [k \in 1..0 |-> 0]) OBVIOUS
  <2> HIDE DEF Up, n
  <2> QED BY <2>1, <1>0
<1>2. ASSUME NEW m \in 1..n, m - 1 \in S PROVE m \in S
  <2>1. PICK g : Up(m - 1, g) BY <1>2
  <2> DEFINE h == [i \in 1..m |-> IF i # m THEN g[i] ELSE IF m = 1 THEN seqs[1] ELSE g[m - 1] \o seqs[m]]
  <2>2. \A i \in 1..m - 1 : g[i] = IF i = 1 THEN seqs[i] ELSE g[i - 1] \o seqs[i] BY <2>1
  <2>3. ASSUME NEW i \in 1..m PROVE h[i] = IF i = 1 THEN seqs[i] ELSE h[i - 1] \o seqs[i]
    <3>0. n \in Nat /\ m \in Nat BY <1>0
    <3> HIDE DEF n
    <3>1. CASE i = 1
      <4>1. h[i] = IF i # m THEN g[i] ELSE IF m = 1 THEN seqs[1] ELSE g[m - 1] \o seqs[m] OBVIOUS
      <4>2. i # m => i \in 1..m - 1 BY <3>0
      <4> HIDE DEF h
      <4> QED BY <3>1, <4>1, <4>2, <2>2
    <3>2. CASE i # 1
      <4>1. i - 1 \in 1..m /\ i - 1 # m BY <3>0, <3>2
      <4>2. h[i - 1] = g[i - 1] BY <4>1
      <4>3. h[i] = IF i # m THEN g[i] ELSE IF m = 1 THEN seqs[1] ELSE g[m - 1] \o seqs[m] OBVIOUS
      <4>4. i # m => i \in 1..m - 1 BY <3>0
      <4> HIDE DEF h
      <4> QED BY <3>2, <4>2, <4>3, <4>4, <2>2
    <3> QED BY <3>1, <3>2
  <2>4. h = [i \in 1..m |-> h[i]] OBVIOUS
  <2> HIDE DEF h, n
  <2>5. Up(m, h) BY <2>3, <2>4
  <2> HIDE DEF Up
  <2> QED BY <2>5
<1>3. S \subseteq 0..n OBVIOUS
<1> HIDE DEF S
<1>4. S = 0..n BY <1>0, <1>1, <1>2, <1>3, Upwards
<1>5. \E g : Up(n, g)
  <2> HIDE DEF n
  <2>1. n \in S BY <1>0, <1>4
  <2> QED BY <2>1 DEF S
<1> DEFINE flat == CHOOSE g : Up(n, g)
<1>6. Up(n, flat) BY <1>5
<1>7. FlattenSeq(seqs) = flat[n] BY DEF FlattenSeq
<1> HIDE DEF flat, n
<1>8. \A i \in 1..n : flat[i] = IF i = 1 THEN seqs[i] ELSE flat[i - 1] \o seqs[i] BY <1>6
<1> DEFINE T == {m \in 0..n : m # 0 => flat[m] \in Seq(FormatNames) \ {<<>>}}
<1>9. 0 \in T BY <1>0
<1>10. ASSUME NEW m \in 1..n, m - 1 \in T PROVE m \in T
  <2>1. m \in 0..n /\ m - 1 \in 0..n BY <1>0
  <2>2. seqs[m] \in Seq(FormatNames) \ {<<>>} BY DEF n
  <2>3. m # 1 => flat[m - 1] \in Seq(FormatNames) \ {<<>>} BY <1>10, <2>1
  <2>4. flat[m] = IF m = 1 THEN seqs[m] ELSE flat[m - 1] \o seqs[m] BY <1>8
  <2>5. \A s, t \in Seq(FormatNames) : t # <<>> => s \o t \in Seq(FormatNames) \ {<<>>} OBVIOUS
  <2>6. flat[m] \in Seq(FormatNames) \ {<<>>} BY <2>2, <2>3, <2>4, <2>5
  <2> QED BY <2>1, <2>6
<1>11. T \subseteq 0..n OBVIOUS
<1> HIDE DEF T
<1>12. T = 0..n BY <1>0, <1>9, <1>10, <1>11, Upwards
<1>13. n \in T /\ n # 0 BY <1>0, <1>12
<1> QED BY <1>7, <1>13 DEF T

\* A path or a flag gives one list of formats at most, never an empty one.
LEMMA SplitTypes ==
  ASSUME NEW path \in Paths, NEW flag \in Seq(Extensions)
  PROVE  /\ \A formats \in Split(path, flag) :
              /\ formats \in Seq(FormatNames) \ {<<>>}
              /\ Head(formats) \in FormatNames /\ Tail(formats) \in Seq(FormatNames)
         /\ \A f, g \in Split(path, flag) : f = g
<1>1. \A exts \in FromPath(path) : exts = Last(path).exts BY DEF FromPath
<1>2. Last(path).exts \in Seq(Extensions) BY OutputNames, NamesTyped
<1>3. ASSUME NEW exts \in Seq(Extensions), exts # <<>> PROVE Flatten(exts) \in Seq(FormatNames) \ {<<>>}
  <2> DEFINE seqs == [i \in DOMAIN exts |-> Formats(exts[i])]
  <2>1. Len(exts) \in Nat \ {0} /\ DOMAIN exts = 1..Len(exts) BY <1>3
  <2>2. Len(seqs) = Len(exts) BY <2>1
  <2>3. \A i \in 1..Len(exts) : seqs[i] \in Seq(FormatNames) \ {<<>>}
    <3> SUFFICES ASSUME NEW i \in 1..Len(exts) PROVE Formats(exts[i]) \in Seq(FormatNames) \ {<<>>}
      BY <2>1
    <3>1. exts[i] \in Extensions BY <1>3
    <3> QED BY <3>1, FormatsTyped
  <2> HIDE DEF seqs
  <2>4. FlattenSeq(seqs) \in Seq(FormatNames) \ {<<>>} BY <2>1, <2>2, <2>3, FlattenTypes
  <2> QED BY <2>4 DEF Flatten, seqs
<1>4. \A formats \in Split(path, flag) : \E exts \in Seq(Extensions) \ {<<>>} :
        formats = Flatten(exts) /\ exts = IF flag # <<>> THEN flag ELSE Last(path).exts
  BY <1>1, <1>2 DEF Split
<1>5. \A formats \in Split(path, flag) : formats \in Seq(FormatNames) \ {<<>>} BY <1>3, <1>4
<1>6. \A s \in Seq(FormatNames) \ {<<>>} : Head(s) \in FormatNames /\ Tail(s) \in Seq(FormatNames) OBVIOUS
<1> QED BY <1>4, <1>5, <1>6

-----------------------------------------------------------------------------
(* The order of an archive's entries                                       *)

\* A relation that orders the elements of S one after another.
Orders(R, S) ==
  /\ \A x \in S : <<x, x>> \notin R
  /\ \A x, y, z \in S : <<x, y>> \in R /\ <<y, z>> \in R => <<x, z>> \in R
  /\ \A x, y \in S : x = y \/ <<x, y>> \in R \/ <<y, x>> \in R

\* In a finite set so ordered there is, for every number below its size, an
\* element that many others come before.
LEMMA Ranks ==
  ASSUME NEW S, IsFiniteSet(S), NEW R, Orders(R, S)
  PROVE  \A i \in 1..Cardinality(S) :
           \E e \in S : Cardinality({f \in S : <<f, e>> \in R}) = i - 1
<1> DEFINE below(e) == {f \in S : <<f, e>> \in R}
           n == Cardinality(S)
<1>1. n \in Nat BY FS_CardinalityType
<1>2. ASSUME NEW e \in S
      PROVE  IsFiniteSet(below(e)) /\ Cardinality(below(e)) \in 0..n - 1
  <2>1. below(e) \in SUBSET S /\ e \notin below(e) BY DEF Orders
  <2> HIDE DEF below
  <2>2. IsFiniteSet(below(e)) /\ Cardinality(below(e)) <= n BY <2>1, FS_Subset
  <2>3. Cardinality(below(e)) # n BY <2>1, FS_Subset
  <2>4. Cardinality(below(e)) \in Nat BY <2>2, FS_CardinalityType
  <2> QED BY <1>1, <2>2, <2>3, <2>4
<1>3. ASSUME NEW e \in S, NEW f \in S, e # f PROVE Cardinality(below(e)) # Cardinality(below(f))
  <2>1. ASSUME NEW x \in S, NEW y \in S, <<x, y>> \in R
        PROVE  Cardinality(below(x)) # Cardinality(below(y))
    <3>1. below(x) \in SUBSET below(y) /\ x \in below(y) /\ x \notin below(x)
      BY <2>1 DEF Orders
    <3>2. IsFiniteSet(below(y)) BY <1>2
    <3> HIDE DEF below
    <3> QED BY <3>1, <3>2, FS_Subset
  <2> QED BY <1>3, <2>1 DEF Orders
<1> SUFFICES ASSUME NEW i \in 1..n, \A e \in S : Cardinality(below(e)) # i - 1 PROVE FALSE
  OBVIOUS
<1> HIDE DEF below, n
<1> DEFINE T == (0..n - 1) \ {i - 1}
           f == [e \in S |-> Cardinality(below(e))]
<1>4. IsFiniteSet(T) /\ Cardinality(T) < n
  <2>1. 0 \in Int /\ n - 1 \in Int /\ i - 1 \in 0..n - 1 BY <1>1
  <2>2. IsFiniteSet(0..n - 1) /\ Cardinality(0..n - 1) = n BY <1>1, <2>1, FS_Interval
  <2>3. IsFiniteSet(T) /\ Cardinality(T) = n - 1 BY <2>1, <2>2, FS_RemoveElement
  <2> QED BY <1>1, <2>3
<1>5. f \in [S -> T] BY <1>2
<1>6. \A x, y \in S : x # y => f[x] # f[y] BY <1>3
<1> HIDE DEF T, f
<1> QED BY <1>4, <1>5, <1>6, FS_PigeonHole DEF n

\* What a function makes of a finite set is finite.
LEMMA FiniteImage ==
  ASSUME NEW S, IsFiniteSet(S), NEW g
  PROVE  IsFiniteSet({g[x] : x \in S})
<1> DEFINE T == {g[x] : x \in S}
           f == [x \in S |-> g[x]]
<1>1. f \in [S -> T] /\ \A t \in T : \E x \in S : f[x] = t OBVIOUS
<1>2. f \in Surjection(S, T) BY <1>1 DEF Surjection
<1> HIDE DEF T, f
<1>3. IsFiniteSet(T) BY <1>2, FS_Surjection
<1> QED BY <1>3 DEF T

\* The names of NameOrder have positions of their own.
LEMMA Positions ==
  \A x, y \in Names : /\ Position(x) \in Nat
                      /\ Position(x) = Position(y) => x = y
<1> SUFFICES ASSUME NEW x \in Names
             PROVE  Position(x) \in Nat /\ NameOrder[Position(x)] = x
  OBVIOUS
<1>1. \E i \in DOMAIN NameOrder : NameOrder[i] = x BY DEF Names, Range
<1>2. Position(x) \in DOMAIN NameOrder /\ NameOrder[Position(x)] = x BY <1>1 DEF Position
<1>3. DOMAIN NameOrder \subseteq Nat BY WasmOpsAssumption
<1> QED BY <1>2, <1>3

\* Where two paths differ first, and the first of them comes before.
Differ(p, q, k) ==
  /\ k \in 1..Len(q) /\ k <= Len(p) + 1
  /\ \A j \in 1..k - 1 : p[j] = q[j]
  /\ k <= Len(p) => Position(p[k]) < Position(q[k])

\* A path comes before another where they first differ.
LEMMA BeforeDiffers ==
  ASSUME NEW p \in Paths, NEW q \in Paths
  PROVE  PathBefore(p, q) <=> \E k \in Nat : Differ(p, q, k)
<1>1. /\ p \in Seq(Names) /\ q \in Seq(Names) /\ Len(p) \in Nat /\ Len(q) \in Nat
      /\ DOMAIN p = 1..Len(p) /\ DOMAIN q = 1..Len(q)
  BY DEF Paths
<1>2. ASSUME NEW i \in 0..Len(p), i <= Len(q)
      PROVE  SubSeq(p, 1, i) = SubSeq(q, 1, i) <=> \A j \in 1..i : p[j] = q[j]
  <2>1. /\ SubSeq(p, 1, i) \in Seq(Names) /\ SubSeq(q, 1, i) \in Seq(Names)
        /\ Len(SubSeq(p, 1, i)) = i /\ Len(SubSeq(q, 1, i)) = i
        /\ \A j \in 1..i : SubSeq(p, 1, i)[j] = p[j] /\ SubSeq(q, 1, i)[j] = q[j]
    BY <1>1, <1>2
  <2> QED BY <2>1, SeqEqual
<1>3. IsStrictPrefix(p, q) => Differ(p, q, Len(p) + 1)
  <2> SUFFICES ASSUME IsStrictPrefix(p, q) PROVE Differ(p, q, Len(p) + 1) OBVIOUS
  <2>1. Len(p) <= Len(q) /\ SubSeq(p, 1, Len(p)) = SubSeq(q, 1, Len(p)) /\ p # q
    BY DEF IsStrictPrefix, IsPrefix
  <2>2. \A j \in 1..Len(p) : p[j] = q[j] BY <1>1, <1>2, <2>1
  <2>3. Len(p) # Len(q) BY <1>1, <2>1, <2>2, SeqEqual
  <2>4. /\ Len(p) + 1 \in 1..Len(q) /\ Len(p) + 1 <= Len(p) + 1 /\ ~(Len(p) + 1 <= Len(p))
        /\ (Len(p) + 1) - 1 = Len(p)
    <3> DEFINE m == Len(p)
               n == Len(q)
    <3>1. m \in Nat /\ n \in Nat /\ m <= n /\ m # n BY <1>1, <2>1, <2>3
    <3> HIDE DEF m, n
    <3>2. m + 1 \in 1..n /\ m + 1 <= m + 1 /\ ~(m + 1 <= m) /\ (m + 1) - 1 = m BY <3>1
    <3> QED BY <3>2 DEF m, n
  <2>5. \A j \in 1..(Len(p) + 1) - 1 : p[j] = q[j] BY <2>2, <2>4
  <2> QED BY <2>4, <2>5 DEF Differ
<1>4. ASSUME NEW k \in 1..Len(p), NEW kk \in 1..Len(q), k = kk
      PROVE  Differ(p, q, k) <=> /\ SubSeq(p, 1, k - 1) = SubSeq(q, 1, k - 1)
                                 /\ Position(p[k]) < Position(q[k])
  <2>1. k - 1 \in 0..Len(p) /\ k - 1 <= Len(q) BY <1>1, <1>4
  <2>2. SubSeq(p, 1, k - 1) = SubSeq(q, 1, k - 1) <=> \A j \in 1..k - 1 : p[j] = q[j]
    BY <1>2, <2>1
  <2> QED BY <1>1, <1>4, <2>2 DEF Differ
<1>5. PathBefore(p, q) => \E k \in Nat : Differ(p, q, k)
  <2> SUFFICES ASSUME PathBefore(p, q) PROVE \E k \in Nat : Differ(p, q, k) OBVIOUS
  <2>1. CASE IsStrictPrefix(p, q)
    <3>1. Len(p) + 1 \in Nat BY <1>1
    <3> QED BY <1>3, <2>1, <3>1
  <2>2. CASE \E i \in DOMAIN p \cap DOMAIN q :
               /\ SubSeq(p, 1, i - 1) = SubSeq(q, 1, i - 1)
               /\ Position(p[i]) < Position(q[i])
    <3>1. PICK i \in DOMAIN p \cap DOMAIN q :
               /\ SubSeq(p, 1, i - 1) = SubSeq(q, 1, i - 1)
               /\ Position(p[i]) < Position(q[i]) BY <2>2
    <3>2. i \in 1..Len(p) /\ i \in 1..Len(q) /\ i \in Nat BY <1>1
    <3> QED BY <1>4, <3>1, <3>2
  <2> QED BY <2>1, <2>2 DEF PathBefore
<1>6. ASSUME NEW k \in Nat, Differ(p, q, k) PROVE PathBefore(p, q)
  <2>0. /\ k \in 1..Len(q) /\ k <= Len(p) + 1 /\ \A j \in 1..k - 1 : p[j] = q[j] BY <1>6 DEF Differ
  <2>1. CASE k = Len(p) + 1
    <3>1. Len(p) <= Len(q) /\ \A j \in 1..Len(p) : p[j] = q[j] BY <1>1, <2>0, <2>1
    <3>2. SubSeq(p, 1, Len(p)) = SubSeq(q, 1, Len(p)) BY <1>1, <1>2, <3>1
    <3>3. p # q BY <1>1, <2>0, <2>1
    <3> QED BY <3>1, <3>2, <3>3 DEF PathBefore, IsStrictPrefix, IsPrefix
  <2>2. CASE k # Len(p) + 1
    <3>1. k \in 1..Len(p) /\ k \in 1..Len(q) BY <1>1, <2>0, <2>2
    <3>2. /\ SubSeq(p, 1, k - 1) = SubSeq(q, 1, k - 1) /\ Position(p[k]) < Position(q[k])
      BY <1>4, <1>6, <3>1
    <3>3. k \in DOMAIN p \cap DOMAIN q BY <1>1, <3>1
    <3> QED BY <3>2, <3>3 DEF PathBefore
  <2> QED BY <2>1, <2>2
<1> QED BY <1>5, <1>6

\* Path::cmp orders the paths.
LEMMA PathOrder ==
  /\ \A p \in Paths : ~PathBefore(p, p)
  /\ \A p, q, r \in Paths : PathBefore(p, q) /\ PathBefore(q, r) => PathBefore(p, r)
  /\ \A p, q \in Paths : p = q \/ PathBefore(p, q) \/ PathBefore(q, p)
<1>1. ASSUME NEW p \in Paths
      PROVE  /\ p \in Seq(Names) /\ Len(p) \in Nat
             /\ \A k \in 1..Len(p) : p[k] \in Names /\ Position(p[k]) \in Nat
  <2>1. p \in Seq(Names) BY DEF Paths
  <2> QED BY <2>1, Positions
<1>2. ASSUME NEW p \in Paths, PathBefore(p, p) PROVE FALSE
  <2>1. PICK k \in Nat : Differ(p, p, k) BY <1>2, BeforeDiffers
  <2>2. k \in 1..Len(p) /\ Position(p[k]) < Position(p[k]) BY <1>1, <2>1 DEF Differ
  <2> QED BY <1>1, <2>2
<1>3. ASSUME NEW p \in Paths, NEW q \in Paths, NEW r \in Paths,
             PathBefore(p, q), PathBefore(q, r)
      PROVE  PathBefore(p, r)
  <2>1. PICK k \in Nat : Differ(p, q, k) BY <1>3, BeforeDiffers
  <2>2. PICK m \in Nat : Differ(q, r, m) BY <1>3, BeforeDiffers
  <2>3. /\ k \in 1..Len(q) /\ k <= Len(p) + 1 /\ \A j \in 1..k - 1 : p[j] = q[j]
        /\ k <= Len(p) => Position(p[k]) < Position(q[k])
        /\ m \in 1..Len(r) /\ m <= Len(q) + 1 /\ \A j \in 1..m - 1 : q[j] = r[j]
        /\ m <= Len(q) => Position(q[m]) < Position(r[m])
    BY <2>1, <2>2 DEF Differ
  <2>4. Len(p) \in Nat /\ Len(q) \in Nat /\ Len(r) \in Nat BY <1>1
  <2>5. CASE k < m
    <3>1. k \in 1..Len(r) /\ k \in 1..m - 1 BY <2>3, <2>4, <2>5
    <3>2. q[k] = r[k] /\ \A j \in 1..k - 1 : p[j] = r[j] BY <2>3, <2>4, <2>5, <3>1
    <3>3. Differ(p, r, k) BY <2>3, <3>1, <3>2 DEF Differ
    <3> QED BY <3>3, BeforeDiffers
  <2>6. CASE m < k
    <3>1. m \in 1..Len(p) /\ m <= Len(q) /\ m \in 1..k - 1 /\ m <= Len(p) + 1 BY <2>3, <2>4, <2>6
    <3>2. p[m] = q[m] /\ \A j \in 1..m - 1 : p[j] = r[j] BY <2>3, <2>4, <2>6, <3>1
    <3>3. Position(p[m]) < Position(r[m]) BY <2>3, <3>1, <3>2
    <3>4. Differ(p, r, m) BY <2>3, <3>1, <3>2, <3>3 DEF Differ
    <3> QED BY <3>4, BeforeDiffers
  <2>7. CASE k = m
    <3>1. m <= Len(q) /\ k \in 1..Len(r) /\ \A j \in 1..k - 1 : p[j] = r[j] BY <2>3, <2>4, <2>7
    <3>2. Position(q[k]) < Position(r[k]) BY <2>3, <2>7, <3>1
    <3>3. ASSUME k <= Len(p) PROVE Position(p[k]) < Position(r[k])
      <4>1. k \in 1..Len(p) /\ k \in 1..Len(q) /\ k \in 1..Len(r) BY <2>3, <2>4, <3>1, <3>3
      <4>2. Position(p[k]) \in Nat /\ Position(q[k]) \in Nat /\ Position(r[k]) \in Nat BY <1>1, <4>1
      <4>3. Position(p[k]) < Position(q[k]) BY <2>3, <3>3
      <4> QED BY <3>2, <4>2, <4>3
    <3>4. Differ(p, r, k) BY <2>3, <3>1, <3>3 DEF Differ
    <3> QED BY <3>4, BeforeDiffers
  <2> QED BY <2>5, <2>6, <2>7
<1>4. ASSUME NEW p \in Paths, NEW q \in Paths, p # q PROVE PathBefore(p, q) \/ PathBefore(q, p)
  <2> DEFINE T == {k \in Nat : /\ k >= 1 /\ k <= Len(p) + 1 /\ k <= Len(q) + 1
                               /\ k = Len(p) + 1 \/ k = Len(q) + 1 \/ p[k] # q[k]}
  <2>1. Len(p) \in Nat /\ Len(q) \in Nat BY <1>1
  <2>2. T \subseteq Nat OBVIOUS
  <2>3. T # {}
    <3>1. CASE Len(p) <= Len(q)
      <4>1. Len(p) + 1 \in T BY <2>1, <3>1
      <4> QED BY <4>1
    <3>2. CASE Len(q) <= Len(p)
      <4>1. Len(q) + 1 \in T BY <2>1, <3>2
      <4> QED BY <4>1
    <3> QED BY <2>1, <3>1, <3>2
  <2> HIDE DEF T
  <2>4. PICK k \in T : \A j \in T : k <= j BY <2>2, <2>3, Least
  <2>5. /\ k \in Nat /\ k >= 1 /\ k <= Len(p) + 1 /\ k <= Len(q) + 1
        /\ k = Len(p) + 1 \/ k = Len(q) + 1 \/ p[k] # q[k]
    BY <2>4 DEF T
  <2>6. \A j \in 1..k - 1 : p[j] = q[j] /\ q[j] = p[j]
    <3> SUFFICES ASSUME NEW j \in 1..k - 1, p[j] # q[j] PROVE FALSE OBVIOUS
    <3>1. j \in T BY <2>1, <2>5 DEF T
    <3>2. k <= j BY <2>4, <3>1
    <3> QED BY <2>5, <3>2
  <2>7. CASE k = Len(p) + 1 /\ k = Len(q) + 1
    <3>1. Len(p) = Len(q) /\ \A j \in 1..Len(p) : p[j] = q[j] BY <2>1, <2>6, <2>7
    <3>2. p = q BY <1>1, <3>1, SeqEqual
    <3> QED BY <1>4, <3>2
  <2>8. CASE k = Len(p) + 1 /\ k # Len(q) + 1
    <3>1. k \in 1..Len(q) /\ ~(k <= Len(p)) BY <2>1, <2>5, <2>8
    <3>2. Differ(p, q, k) BY <2>5, <2>6, <3>1 DEF Differ
    <3> QED BY <2>5, <3>2, BeforeDiffers
  <2>9. CASE k # Len(p) + 1 /\ k = Len(q) + 1
    <3>1. k \in 1..Len(p) /\ ~(k <= Len(q)) BY <2>1, <2>5, <2>9
    <3>2. Differ(q, p, k) BY <2>5, <2>6, <3>1 DEF Differ
    <3> QED BY <2>5, <3>2, BeforeDiffers
  <2>10. CASE k # Len(p) + 1 /\ k # Len(q) + 1
    <3>1. k \in 1..Len(p) /\ k \in 1..Len(q) /\ p[k] # q[k] BY <2>1, <2>5, <2>10
    <3>2. p[k] \in Names /\ q[k] \in Names BY <1>1, <3>1
    <3>3. Position(p[k]) # Position(q[k]) /\ Position(p[k]) \in Nat /\ Position(q[k]) \in Nat
      BY <3>1, <3>2, Positions
    <3>4. Position(p[k]) < Position(q[k]) \/ Position(q[k]) < Position(p[k]) BY <3>3
    <3>5. CASE Position(p[k]) < Position(q[k])
      <4>1. Differ(p, q, k) BY <2>5, <2>6, <3>1, <3>5 DEF Differ
      <4> QED BY <2>5, <4>1, BeforeDiffers
    <3>6. CASE Position(q[k]) < Position(p[k])
      <4>1. Differ(q, p, k) BY <2>5, <2>6, <3>1, <3>6 DEF Differ
      <4> QED BY <2>5, <4>1, BeforeDiffers
    <3> QED BY <3>4, <3>5, <3>6
  <2> QED BY <2>7, <2>8, <2>9, <2>10
<1> QED BY <1>2, <1>3, <1>4

-----------------------------------------------------------------------------
(* Types of what is stored                                                 *)

\* What has its entries in some lists has them in more.
LEMMA MoreLists ==
  ASSUME NEW few, NEW lists, few \subseteq lists
  PROVE  /\ \A c : IsBytes(c, few) => IsBytes(c, lists)
         /\ \A node : IsNode(node, few) => IsNode(node, lists)
         /\ \A es : IsMembers(es, few) => IsMembers(es, lists)
         /\ \A es : IsEntries(es, few) => IsEntries(es, lists)
         /\ \A fs : IsTree(fs, few) => IsTree(fs, lists)
<1>1. \A c : IsBytes(c, few) => IsBytes(c, lists) BY DEF IsBytes
<1>2. \A node : IsNode(node, few) => IsNode(node, lists) BY <1>1 DEF IsNode
<1>3. \A es : IsMembers(es, few) => IsMembers(es, lists) BY <1>2 DEF IsMembers
<1>5. \A es : IsEntries(es, few) => IsEntries(es, lists) BY <1>3 DEF IsEntries
<1>4. \A fs : IsTree(fs, few) => IsTree(fs, lists) BY <1>2 DEF IsTree
<1> QED BY <1>1, <1>2, <1>3, <1>4, <1>5

\* A node is of one of three kinds, and its data is bytes.
LEMMA NodeFacts ==
  ASSUME NEW lists, <<>> \in lists, NEW node, IsNode(node, lists)
  PROVE  /\ node.kind \in {"file", "dir", "symlink"}
         /\ IsBytes(DataOf(node), lists)
         /\ node.kind = "dir" <=> node = Dir
         /\ node.kind = "file" => IsNode(FileOf(node.data), lists) /\ node = FileOf(node.data)
<1>1. IsBytes(Plain(Empty), lists)
  <2>1. <<>> \in Seq(FormatNames) BY EmptySeq
  <2> QED BY <2>1 DEF IsBytes, Plain
<1>2. CASE node = Dir
  <2>1. node.kind = "dir" BY <1>2 DEF Dir
  <2> QED BY <1>1, <1>2, <2>1 DEF DataOf
<1>3. CASE node.kind = "file" /\ node = FileOf(node.data) /\ IsBytes(node.data, lists)
  <2>1. node # Dir BY <1>3 DEF Dir
  <2>2. IsNode(FileOf(node.data), lists) BY <1>3 DEF IsNode
  <2> QED BY <1>3, <2>1, <2>2 DEF DataOf
<1>4. CASE node.kind = "symlink" /\ node = LinkTo(node.target)
  <2>1. node # Dir BY <1>4 DEF Dir
  <2> QED BY <1>1, <1>4, <2>1 DEF DataOf
<1> QED BY <1>2, <1>3, <1>4 DEF IsNode

\* Bytes are a file.
LEMMA FileTyped ==
  ASSUME NEW lists, NEW c, IsBytes(c, lists)
  PROVE  IsNode(FileOf(c), lists) /\ FileOf(c).kind = "file"
  BY DEF IsNode, FileOf

\* A list of names that is not empty is a path.
LEMMA IsAPath ==
  ASSUME NEW s \in Seq(Names), Len(s) # 0
  PROVE  s \in Paths
<1>1. s # <<>> OBVIOUS
<1> QED BY <1>1 DEF Paths

\* A path is stored as it is, and a member of an archive is unpacked under a path.
LEMMA NormalFacts ==
  /\ \A p \in Paths : ~Refused(p) /\ Normal(p) = p
  /\ \A p : IsMemberPath(p) /\ ~Refused(p) => Normal(p) \in Paths
<1>1. ASSUME NEW p \in Paths PROVE ~Refused(p) /\ Normal(p) = p
  <2>1. p \in Seq(Names) /\ p # <<>> BY DEF Paths
  <2>2. Head(p) \in Names BY <2>1
  <2>3. Head(p) # ParentDir /\ Head(p) # CurDir BY <2>2, WasmOpsAssumption
  <2> QED BY <2>3 DEF Refused, Normal
<1>2. ASSUME NEW p, IsMemberPath(p), ~Refused(p) PROVE Normal(p) \in Paths
  <2>1. CASE p \in Paths BY <1>1, <2>1
  <2>2. CASE Head(p) \in {CurDir, ParentDir} /\ Tail(p) \in Paths BY <1>2, <2>2 DEF Refused, Normal
  <2> QED BY <1>2, <2>1, <2>2 DEF IsMemberPath
<1> QED BY <1>1, <1>2

\* The prefixes of a path are paths, finitely many, and the path is one of them.
LEMMA PrefixFacts ==
  ASSUME NEW p \in Paths
  PROVE  /\ IsFiniteSet(Prefixes(p)) /\ p \in Prefixes(p)
         /\ \A q \in Prefixes(p) \ {<<>>} : q \in Paths /\ IsPrefix(q, p)
<1>1. p \in Seq(Names) /\ Len(p) \in Nat BY DEF Paths
<1>2. IsFiniteSet(Prefixes(p))
  <2> DEFINE g == [l \in 0..Len(p) |-> SubSeq(p, 1, l)]
  <2>1. IsFiniteSet(0..Len(p))
    <3>1. 0 \in Int /\ Len(p) \in Int BY <1>1
    <3> QED BY <3>1, FS_Interval
  <2>2. Prefixes(p) = {g[l] : l \in 0..Len(p)} BY DEF Prefixes
  <2> HIDE DEF g
  <2> QED BY <2>1, <2>2, FiniteImage
<1>3. p \in Prefixes(p)
  <2>1. SubSeq(p, 1, Len(p)) = p /\ Len(p) \in 0..Len(p) BY <1>1, SubSeqFull
  <2> QED BY <2>1 DEF Prefixes
<1>4. ASSUME NEW q \in Prefixes(p) \ {<<>>} PROVE q \in Paths /\ IsPrefix(q, p)
  <2>1. PICK l \in 0..Len(p) : q = SubSeq(p, 1, l) BY DEF Prefixes
  <2>2. q \in Seq(Names) /\ Len(q) = l /\ l <= Len(p) BY <1>1, <2>1, SubSeqProperties
  <2>3. SubSeq(q, 1, Len(q)) = q BY <2>2, SubSeqFull
  <2> QED BY <1>1, <2>1, <2>2, <2>3 DEF Paths, IsPrefix
<1> QED BY <1>2, <1>3, <1>4

\* Under a path are only longer ones, which have its names first.
LEMMA IsPrefixFacts ==
  ASSUME NEW p \in Paths, NEW q \in Paths, IsPrefix(p, q)
  PROVE  /\ p \in Seq(Names) /\ q \in Seq(Names) /\ Len(p) \in Nat \ {0} /\ Len(q) \in Nat \ {0}
         /\ Len(p) <= Len(q) /\ \A j \in 1..Len(p) : q[j] = p[j]
<1>1. p \in Seq(Names) /\ q \in Seq(Names) /\ Len(p) \in Nat \ {0} /\ Len(q) \in Nat \ {0}
  BY DEF Paths
<1>2. Len(p) <= Len(q) /\ SubSeq(p, 1, Len(p)) = SubSeq(q, 1, Len(p)) BY DEF IsPrefix
<1>3. \A j \in 1..Len(p) : SubSeq(p, 1, Len(p))[j] = p[j] /\ SubSeq(q, 1, Len(p))[j] = q[j]
  BY <1>1, <1>2
<1> QED BY <1>1, <1>2, <1>3

\* An entry that is found: its path and its node.
IsFoundIn(e, lists) ==
  e = [path |-> e.path, node |-> e.node] /\ e.path \in Paths /\ IsNode(e.node, lists)

\* What is stored under an input is found, each path once.
LEMMA FoundTypes ==
  ASSUME NEW lists, NEW fs, IsTree(fs, lists), NEW input \in Paths
  PROVE  /\ IsFiniteSet(Found(fs, input))
         /\ \A e \in Found(fs, input) : IsFoundIn(e, lists)
         /\ \A e, f \in Found(fs, input) : e.path = f.path => e = f
<1>1. /\ IsFiniteSet(DOMAIN fs)
      /\ \A p \in DOMAIN fs : p \in Paths /\ IsNode(fs[p], lists)
  BY DEF IsTree
<1>2. input \in Seq(Names) /\ Len(input) \in Nat \ {0} BY DEF Paths
<1>3. CASE Metadata(fs, input) = {Dir}
  <2> DEFINE g == [p \in Walk(fs, input) |->
                     [path |-> SubSeq(p, Len(input), Len(p)), node |-> fs[p]]]
  <2>1. Found(fs, input) = {g[p] : p \in Walk(fs, input)} BY <1>3 DEF Found
  <2>2. IsFiniteSet(Walk(fs, input))
    <3> DEFINE S == DOMAIN fs
               T == Walk(fs, input)
    <3>1. T \in SUBSET S BY DEF Walk
    <3>2. IsFiniteSet(S) BY <1>1
    <3> HIDE DEF S, T
    <3>3. IsFiniteSet(T) BY <3>1, <3>2, FS_Subset
    <3> QED BY <3>3 DEF T
  <2>3. ASSUME NEW p \in Walk(fs, input)
        PROVE  /\ p \in Paths /\ p \in Seq(Names) /\ Len(p) \in Nat /\ Len(input) <= Len(p)
               /\ \A j \in 1..Len(input) : p[j] = input[j]
               /\ IsNode(fs[p], lists)
    <3>1. p \in DOMAIN fs /\ IsPrefix(input, p) BY DEF Walk
    <3> QED BY <1>1, <3>1, IsPrefixFacts
  <2>4. ASSUME NEW p \in Walk(fs, input)
        PROVE  /\ g[p].path \in Paths /\ IsNode(g[p].node, lists)
               /\ g[p] = [path |-> g[p].path, node |-> g[p].node]
               /\ g[p].path = SubSeq(p, Len(input), Len(p))
    <3>1. SubSeq(p, Len(input), Len(p)) \in Seq(Names) /\ Len(SubSeq(p, Len(input), Len(p))) # 0
      <4> DEFINE m == Len(input)
      <4>1. m \in Nat \ {0} /\ Len(p) \in Nat /\ m <= Len(p) BY <1>2, <2>3
      <4>2. p \in Seq(Names) BY <2>3
      <4> HIDE DEF m
      <4>3. m \in Int /\ Len(p) \in Int /\ \A i \in m..Len(p) : p[i] \in Names BY <4>1, <4>2
      <4>4. SubSeq(p, m, Len(p)) \in Seq(Names) /\ Len(SubSeq(p, m, Len(p))) = Len(p) - m + 1
        BY <4>1, <4>3, SubSeqProperties
      <4> QED BY <4>1, <4>4 DEF m
    <3>2. SubSeq(p, Len(input), Len(p)) \in Paths BY <3>1, IsAPath
    <3> QED BY <2>3, <3>2
  <2>5. ASSUME NEW p \in Walk(fs, input), NEW q \in Walk(fs, input), g[p].path = g[q].path
        PROVE  p = q
    <3>1. SubSeq(p, Len(input), Len(p)) = SubSeq(q, Len(input), Len(q)) BY <2>4, <2>5
    <3> DEFINE m == Len(input)
               k == Len(p)
               n == Len(q)
    <3>2. m \in Nat \ {0} /\ k \in Nat /\ n \in Nat /\ m <= k /\ m <= n BY <1>2, <2>3
    <3>3. /\ Len(SubSeq(p, m, k)) = k - m + 1 /\ Len(SubSeq(q, m, n)) = n - m + 1
          /\ \A j \in 1..k - m + 1 : SubSeq(p, m, k)[j] = p[m + j - 1]
          /\ \A j \in 1..n - m + 1 : SubSeq(q, m, n)[j] = q[m + j - 1]
      BY <2>3, <3>2
    <3>4. p \in Seq(Names) /\ q \in Seq(Names) /\ \A j \in 1..m : p[j] = q[j] BY <2>3
    <3>5. SubSeq(p, m, k) = SubSeq(q, m, n) BY <3>1
    <3>6. k = n BY <3>2, <3>3, <3>5
    <3>7. ASSUME NEW j \in 1..k PROVE p[j] = q[j]
      <4>1. CASE j <= m
        <5> HIDE DEF m, k, n
        <5>1. j \in 1..m BY <3>2, <4>1
        <5> QED BY <3>4, <5>1
      <4>2. CASE ~(j <= m)
        <5> HIDE DEF m, k, n
        <5>1. j - m + 1 \in 1..k - m + 1 /\ j - m + 1 \in 1..n - m + 1 /\ m + (j - m + 1) - 1 = j
          BY <3>2, <3>6, <4>2, SMTT(30)
        <5>2. SubSeq(p, m, k)[j - m + 1] = p[j] /\ SubSeq(q, m, n)[j - m + 1] = q[j]
          BY <3>3, <5>1
        <5> QED BY <3>5, <5>2
      <4> QED BY <4>1, <4>2
    <3> QED BY <3>4, <3>6, <3>7, SeqEqual
  <2> HIDE DEF g
  <2>6. IsFiniteSet(Found(fs, input)) BY <2>1, <2>2, FiniteImage
  <2>7. \A e \in Found(fs, input) : IsFoundIn(e, lists) BY <2>1, <2>4 DEF IsFoundIn
  <2>8. \A e, f \in Found(fs, input) : e.path = f.path => e = f BY <2>1, <2>5
  <2> QED BY <2>6, <2>7, <2>8
<1>4. CASE Metadata(fs, input) # {Dir}
  <2>1. Found(fs, input) = {[path |-> <<Last(input)>>, node |-> node] : node \in Metadata(fs, input)}
    BY <1>4 DEF Found
  <2>2. Metadata(fs, input) = {} \/ (input \in DOMAIN fs /\ Metadata(fs, input) = {fs[input]})
    BY <1>4 DEF Metadata
  <2>3. <<Last(input)>> \in Paths
    <3>1. Last(input) \in Names BY OutputNames
    <3> QED BY <3>1 DEF Paths
  <2>4. IsFiniteSet(Found(fs, input))
    <3>1. Found(fs, input) = {} \/ Found(fs, input) = {[path |-> <<Last(input)>>, node |-> fs[input]]}
      BY <2>1, <2>2
    <3> QED BY <3>1, FS_EmptySet, FS_Singleton
  <2>5. ASSUME NEW e \in Found(fs, input)
        PROVE  e = [path |-> <<Last(input)>>, node |-> fs[input]] /\ input \in DOMAIN fs
    BY <2>1, <2>2
  <2> QED BY <1>1, <2>3, <2>4, <2>5 DEF IsFoundIn
<1> QED BY <1>3, <1>4

\* The entries found are sorted into a list of them and of directories.
LEMMA SortTypes ==
  ASSUME NEW lists, NEW found, IsFiniteSet(found),
         \A e \in found : /\ e = [path |-> e.path, node |-> e.node, from |-> e.from]
                          /\ e.path \in Paths /\ IsNode(e.node, lists) /\ e.from \in Nat \ {0},
         \A e, f \in found : e.path = f.path /\ e.from = f.from => e = f
  PROVE  IsEntries(SortAndAddImplicitDirs(found), lists)
<1> DEFINE paths == {f.path : f \in found}
           parents == (UNION {Prefixes(p) : p \in paths}) \ ({<<>>} \cup paths)
           implicit == {[path |-> p, node |-> Dir, from |-> 0] : p \in parents}
           all == found \cup implicit
           Before(e, f) == PathBefore(e.path, f.path) \/ (e.path = f.path /\ e.from < f.from)
           At(i) == CHOOSE e \in all : Cardinality({f \in all : Before(f, e)}) = i - 1
           R == {ef \in all \X all : Before(ef[1], ef[2])}
<1>1. SortAndAddImplicitDirs(found) =
        [i \in 1..Cardinality(all) |-> [path |-> At(i).path, node |-> At(i).node]]
  BY DEF SortAndAddImplicitDirs
<1>2. IsFiniteSet(paths)
  <2> DEFINE g == [f \in found |-> f.path]
  <2>1. paths = {g[f] : f \in found} OBVIOUS
  <2> HIDE DEF g, paths
  <2> QED BY <2>1, FiniteImage
<1>3. \A p \in paths : p \in Paths OBVIOUS
<1> HIDE DEF paths
<1>4. IsFiniteSet(parents)
  <2> DEFINE g == [p \in paths |-> Prefixes(p)]
             above == {g[p] : p \in paths}
  <2>1. IsFiniteSet(above)
    <3> HIDE DEF g
    <3> QED BY <1>2, FiniteImage
  <2>2. \A t \in above : IsFiniteSet(t) BY <1>3, PrefixFacts
  <2>3. parents \in SUBSET UNION above OBVIOUS
  <2> HIDE DEF above, parents
  <2>4. IsFiniteSet(UNION above) BY <2>1, <2>2, FS_UNION
  <2> QED BY <2>3, <2>4, FS_Subset
<1> DEFINE over == UNION {Prefixes(p) : p \in paths}
<1>0. parents = over \ ({<<>>} \cup paths) OBVIOUS
<1>5. ASSUME NEW p \in parents PROVE p \in Paths /\ p \notin paths
  <2>1. p \in over /\ p # <<>> /\ p \notin paths
    <3> HIDE DEF over, parents
    <3> QED BY <1>0
  <2>2. PICK q \in paths : p \in Prefixes(q) BY <2>1
  <2>3. p \in Prefixes(q) \ {<<>>} BY <2>1, <2>2
  <2> QED BY <1>3, <2>1, <2>3, PrefixFacts
<1> HIDE DEF parents
<1>6. IsFiniteSet(implicit)
  <2> DEFINE g == [p \in parents |-> [path |-> p, node |-> Dir, from |-> 0]]
  <2>1. implicit = {g[p] : p \in parents} OBVIOUS
  <2> HIDE DEF g, implicit
  <2> QED BY <1>4, <2>1, FiniteImage
<1>7. IsFiniteSet(all)
  <2> HIDE DEF implicit
  <2> QED BY <1>6, FS_Union
<1>8. ASSUME NEW e \in all PROVE e.path \in Paths /\ e.from \in Nat /\ IsNode(e.node, lists)
  BY <1>5 DEF IsNode
<1>9. ASSUME NEW e \in all, NEW f \in all, e.path = f.path, e.from = f.from PROVE e = f
  <2>1. CASE e \in found /\ f \in found BY <1>9, <2>1
  <2>2. CASE e \in implicit /\ f \in implicit BY <1>9, <2>2
  <2>3. CASE e \in found /\ f \in implicit
    <3>1. e.from # 0 /\ f.from = 0 BY <2>3
    <3> QED BY <1>9, <3>1
  <2>4. CASE e \in implicit /\ f \in found
    <3>1. f.from # 0 /\ e.from = 0 BY <2>4
    <3> QED BY <1>9, <3>1
  <2> QED BY <2>1, <2>2, <2>3, <2>4
<1> HIDE DEF all
<1>10. \A e, f \in all : <<e, f>> \in R <=> Before(e, f) OBVIOUS
<1>11. Orders(R, all)
  <2>1. ASSUME NEW x \in all PROVE ~Before(x, x) BY <1>8, PathOrder
  <2>2. ASSUME NEW x \in all, NEW y \in all, NEW z \in all, Before(x, y), Before(y, z)
        PROVE  Before(x, z)
    <3>1. /\ x.path \in Paths /\ y.path \in Paths /\ z.path \in Paths
          /\ x.from \in Nat /\ y.from \in Nat /\ z.from \in Nat
      BY <1>8
    <3>2. PathBefore(x.path, y.path) /\ PathBefore(y.path, z.path) => PathBefore(x.path, z.path)
      BY <3>1, PathOrder
    <3>3. x.from < y.from /\ y.from < z.from => x.from < z.from BY <3>1
    <3> QED BY <2>2, <3>2, <3>3
  <2>3. ASSUME NEW x \in all, NEW y \in all PROVE x = y \/ Before(x, y) \/ Before(y, x)
    <3>1. x.path = y.path \/ PathBefore(x.path, y.path) \/ PathBefore(y.path, x.path)
      BY <1>8, PathOrder
    <3>2. x.from = y.from \/ x.from < y.from \/ y.from < x.from BY <1>8
    <3> QED BY <1>9, <3>1, <3>2
  <2> HIDE DEF Before, R
  <2> QED BY <1>10, <2>1, <2>2, <2>3 DEF Orders
<1>12. ASSUME NEW i \in 1..Cardinality(all) PROVE At(i) \in all
  <2>1. \E e \in all : Cardinality({f \in all : <<f, e>> \in R}) = i - 1
    <3> HIDE DEF R
    <3> QED BY <1>7, <1>11, Ranks
  <2>2. \A e \in all : {f \in all : <<f, e>> \in R} = {f \in all : Before(f, e)} BY <1>10
  <2> HIDE DEF R, Before
  <2>3. \E e \in all : Cardinality({f \in all : Before(f, e)}) = i - 1 BY <2>1, <2>2
  <2> QED BY <2>3
<1> HIDE DEF At
<1> DEFINE n == Cardinality(all)
           es == [i \in 1..n |-> [path |-> At(i).path, node |-> At(i).node]]
<1>13. n \in Nat BY <1>7, FS_CardinalityType
<1> HIDE DEF n
<1>14. es \in Seq(Range(es))
  <2>1. es \in [1..n -> Range(es)] BY DEF Range
  <2> HIDE DEF es
  <2> QED BY <1>13, <2>1, SeqDef
<1>15. ASSUME NEW i \in DOMAIN es
       PROVE  /\ es[i] = [path |-> es[i].path, node |-> es[i].node]
              /\ es[i].path \in Paths /\ IsNode(es[i].node, lists)
  <2>1. At(i) \in all BY <1>12 DEF n
  <2>2. At(i).path \in Paths /\ IsNode(At(i).node, lists) BY <1>8, <2>1
  <2> QED BY <2>2
<1> HIDE DEF es
<1>16. IsEntries(es, lists) BY <1>14, <1>15 DEF IsEntries, IsMembers, IsMemberPath
<1> QED BY <1>1, <1>16 DEF es, n

\* So what a compression collects is a list of entries.
LEMMA CollectTypes ==
  ASSUME NEW lists, NEW fs, IsTree(fs, lists), NEW inputs \in Seq(Paths),
         NEW entries \in Collect(fs, inputs)
  PROVE  IsEntries(entries, lists)
<1> DEFINE part(i) == {[path |-> e.path, node |-> e.node, from |-> i] : e \in Found(fs, inputs[i])}
           found == UNION {part(i) : i \in DOMAIN inputs}
<1>1. entries = SortAndAddImplicitDirs(found) BY DEF Collect
<1>2. /\ DOMAIN inputs = 1..Len(inputs) /\ Len(inputs) \in Nat
      /\ \A i \in DOMAIN inputs : inputs[i] \in Paths /\ i \in Nat \ {0}
  OBVIOUS
<1>3. IsFiniteSet(found)
  <2>1. IsFiniteSet(DOMAIN inputs)
    <3>1. 1 \in Int /\ Len(inputs) \in Int BY <1>2
    <3> QED BY <1>2, <3>1, FS_Interval
  <2> DEFINE g == [i \in DOMAIN inputs |-> part(i)]
             parts == {g[i] : i \in DOMAIN inputs}
  <2>2. IsFiniteSet(parts)
    <3> HIDE DEF g
    <3> QED BY <2>1, FiniteImage
  <2>3. ASSUME NEW i \in DOMAIN inputs PROVE IsFiniteSet(part(i))
    <3> DEFINE h == [e \in Found(fs, inputs[i]) |-> [path |-> e.path, node |-> e.node, from |-> i]]
    <3>1. part(i) = {h[e] : e \in Found(fs, inputs[i])} OBVIOUS
    <3>2. IsFiniteSet(Found(fs, inputs[i])) BY <1>2, FoundTypes
    <3> HIDE DEF h, part
    <3> QED BY <3>1, <3>2, FiniteImage
  <2>4. found = UNION parts OBVIOUS
  <2>5. \A t \in parts : IsFiniteSet(t) BY <2>3
  <2> HIDE DEF parts, found
  <2> QED BY <2>2, <2>4, <2>5, FS_UNION
<1>4. ASSUME NEW e \in found
      PROVE  \E i \in DOMAIN inputs : \E f \in Found(fs, inputs[i]) :
               /\ e = [path |-> f.path, node |-> f.node, from |-> i]
               /\ f = [path |-> f.path, node |-> f.node] /\ f.path \in Paths /\ IsNode(f.node, lists)
  <2>1. PICK i \in DOMAIN inputs : \E f \in Found(fs, inputs[i]) :
           e = [path |-> f.path, node |-> f.node, from |-> i]
    OBVIOUS
  <2>2. PICK f \in Found(fs, inputs[i]) : e = [path |-> f.path, node |-> f.node, from |-> i]
    BY <2>1
  <2>3. IsFoundIn(f, lists) BY <1>2, FoundTypes
  <2> QED BY <2>2, <2>3 DEF IsFoundIn
<1> HIDE DEF found
<1>5. ASSUME NEW e \in found
      PROVE  /\ e = [path |-> e.path, node |-> e.node, from |-> e.from]
             /\ e.path \in Paths /\ IsNode(e.node, lists) /\ e.from \in Nat \ {0}
  BY <1>2, <1>4
<1>6. ASSUME NEW d \in found, NEW e \in found, d.path = e.path, d.from = e.from PROVE d = e
  <2>1. PICK i \in DOMAIN inputs : \E f \in Found(fs, inputs[i]) :
           d = [path |-> f.path, node |-> f.node, from |-> i]
    BY <1>4
  <2>2. PICK j \in DOMAIN inputs : \E g \in Found(fs, inputs[j]) :
           e = [path |-> g.path, node |-> g.node, from |-> j]
    BY <1>4
  <2>3. PICK f \in Found(fs, inputs[i]) : d = [path |-> f.path, node |-> f.node, from |-> i]
    BY <2>1
  <2>4. PICK g \in Found(fs, inputs[j]) : e = [path |-> g.path, node |-> g.node, from |-> j]
    BY <2>2
  <2>5. i = j /\ f.path = g.path BY <1>6, <2>3, <2>4
  <2>6. f = g BY <1>2, <2>5, FoundTypes
  <2> QED BY <2>3, <2>4, <2>5, <2>6
<1> QED BY <1>1, <1>3, <1>5, <1>6, SortTypes

-----------------------------------------------------------------------------
(* The virtual file system                                                 *)

\* write_file and write_symlink replace what is at the path, and no more;
LEMMA PutTypes ==
  ASSUME NEW lists, NEW fs, IsTree(fs, lists), NEW path \in Paths, NEW node, IsNode(node, lists)
  PROVE  /\ IsTree(Put(fs, path, node), lists)
         /\ DOMAIN Put(fs, path, node) = DOMAIN fs \cup {path}
         /\ Put(fs, path, node)[path] = node
         /\ \A p \in DOMAIN fs : p # path => Put(fs, path, node)[p] = fs[p]
<1> DEFINE put == Put(fs, path, node)
<1>1. /\ DOMAIN put = DOMAIN fs \cup {path}
      /\ \A p \in DOMAIN put : put[p] = IF p = path THEN node ELSE fs[p]
      /\ put = [p \in DOMAIN put |-> put[p]]
  BY DEF Put
<1> HIDE DEF put
<1>2. IsFiniteSet(DOMAIN put) BY <1>1, FS_AddElement DEF IsTree
<1>3. \A p \in DOMAIN put : p \in Paths /\ IsNode(put[p], lists) BY <1>1 DEF IsTree
<1>4. IsTree(put, lists) BY <1>1, <1>2, <1>3 DEF IsTree
<1> QED BY <1>1, <1>4 DEF put

\* create_dir_all keeps what there is;
LEMMA CreateDirAllTypes ==
  ASSUME NEW lists, NEW fs, IsTree(fs, lists), NEW path \in Paths
  PROVE  /\ IsTree(CreateDirAll(fs, path), lists)
         /\ DOMAIN fs \subseteq DOMAIN CreateDirAll(fs, path)
         /\ path \in DOMAIN CreateDirAll(fs, path)
         /\ \A p \in DOMAIN fs : CreateDirAll(fs, path)[p] = fs[p]
         /\ \A p \in DOMAIN CreateDirAll(fs, path) \ DOMAIN fs :
              CreateDirAll(fs, path)[p] = Dir /\ IsPrefix(p, path)
<1> DEFINE made == CreateDirAll(fs, path)
           dirs == Prefixes(path) \ {<<>>}
<1>1. /\ DOMAIN made = DOMAIN fs \cup dirs
      /\ \A p \in DOMAIN made : made[p] = IF p \in DOMAIN fs THEN fs[p] ELSE Dir
      /\ made = [p \in DOMAIN made |-> made[p]]
  BY DEF CreateDirAll
<1>2. IsFiniteSet(dirs)
  <2>1. dirs \in SUBSET Prefixes(path) OBVIOUS
  <2> HIDE DEF dirs
  <2> QED BY <2>1, PrefixFacts, FS_Subset
<1>3. \A p \in dirs : p \in Paths /\ IsPrefix(p, path) BY PrefixFacts
<1>4. path \in dirs BY PrefixFacts DEF Paths
<1> HIDE DEF dirs, made
<1>5. IsFiniteSet(DOMAIN made)
  <2>1. IsFiniteSet(DOMAIN fs) BY DEF IsTree
  <2>2. IsFiniteSet(DOMAIN fs \cup dirs) BY <1>2, <2>1, FS_Union
  <2> QED BY <1>1, <2>2
<1>6. \A p \in DOMAIN made : p \in Paths /\ IsNode(made[p], lists)
  <2>1. IsNode(Dir, lists) BY DEF IsNode
  <2> QED BY <1>1, <1>3, <2>1 DEF IsTree
<1>7. IsTree(made, lists) BY <1>1, <1>5, <1>6 DEF IsTree
<1> QED BY <1>1, <1>3, <1>4, <1>7 DEF made, dirs

\* and remove leaves the others as they were.
LEMMA RemoveTypes ==
  ASSUME NEW lists, NEW fs, IsTree(fs, lists), NEW path
  PROVE  IsTree(RemoveTree(fs, path), lists)
<1> DEFINE left == RemoveTree(fs, path)
<1>1. /\ DOMAIN left \in SUBSET DOMAIN fs
      /\ \A p \in DOMAIN left : left[p] = fs[p]
      /\ left = [p \in DOMAIN left |-> left[p]]
  BY DEF RemoveTree, RestrictDomain, Restrict
<1> HIDE DEF left
<1>2. IsFiniteSet(DOMAIN fs) /\ \A p \in DOMAIN fs : p \in Paths /\ IsNode(fs[p], lists)
  BY DEF IsTree
<1>3. IsFiniteSet(DOMAIN left) BY <1>1, <1>2, FS_Subset
<1>4. \A p \in DOMAIN left : p \in Paths /\ IsNode(left[p], lists) BY <1>1, <1>2
<1>5. IsTree(left, lists) BY <1>1, <1>3, <1>4 DEF IsTree
<1> QED BY <1>5 DEF left

-----------------------------------------------------------------------------
(* Decompression                                                           *)

\* A node that was not there before is reported, or above what is.
Reported(st, p) ==
  \E o \in st.outputs :
    \/ o.path = p /\ o.kind = st.fs[p].kind
    \/ o.kind = "dir" /\ st.fs[p] = Dir /\ IsPrefix(p, o.path)

\* What holds of a decompression under way, in a tree that was before.
Running(st, before, overwrite, lists) ==
  /\ st = [fs |-> st.fs, outputs |-> st.outputs, ok |-> st.ok] /\ st.ok \in BOOLEAN
  /\ IsTree(st.fs, lists)
  /\ \A p \in DOMAIN before : p \in DOMAIN st.fs /\ (~overwrite => st.fs[p] = before[p])
  /\ \A p \in DOMAIN st.fs : (p \in DOMAIN before => st.fs[p] # before[p]) => Reported(st, p)
  /\ \A o \in st.outputs : o.path \in DOMAIN st.fs

\* It goes on holding when it fails,
LEMMA FailedRuns ==
  ASSUME NEW lists, NEW before, NEW overwrite, NEW st, Running(st, before, overwrite, lists)
  PROVE  Running(Failed(st), before, overwrite, lists) /\ ~Failed(st).ok
<1> DEFINE failed == Failed(st)
<1>3. failed.fs = st.fs /\ failed.outputs = st.outputs /\ failed.ok = FALSE BY DEF Failed
<1>4. failed = [fs |-> failed.fs, outputs |-> failed.outputs, ok |-> failed.ok] BY DEF Failed
<1> HIDE DEF failed
<1>5. \A p : Reported(failed, p) <=> Reported(st, p) BY <1>3 DEF Reported
<1>6. Running(failed, before, overwrite, lists)
  <2>1. /\ IsTree(failed.fs, lists)
        /\ \A o \in failed.outputs : o.path \in DOMAIN failed.fs
        /\ \A p \in DOMAIN before :
             p \in DOMAIN failed.fs /\ (~overwrite => failed.fs[p] = before[p])
    BY <1>3 DEF Running
  <2>2. ASSUME NEW p \in DOMAIN failed.fs, p \in DOMAIN before => failed.fs[p] # before[p]
        PROVE  Reported(failed, p)
    BY <1>3, <1>5, <2>2 DEF Running
  <2> QED BY <1>3, <1>4, <2>1, <2>2 DEF Running
<1> QED BY <1>3, <1>6 DEF failed

\* when a node is written where none may be replaced unless it was asked for,
LEMMA WrittenRuns ==
  ASSUME NEW lists, NEW before, NEW overwrite, NEW st, Running(st, before, overwrite, lists),
         NEW path \in Paths, NEW node, IsNode(node, lists),
         overwrite \/ path \notin DOMAIN st.fs
  PROVE  Running(Written(st, path, node), before, overwrite, lists)
<1> DEFINE next == Written(st, path, node)
           o == [path |-> path, kind |-> node.kind]
<1>1. st.ok \in BOOLEAN /\ IsTree(st.fs, lists) BY DEF Running
<1>2. /\ next.fs = Put(st.fs, path, node) /\ next.outputs = st.outputs \cup {o}
      /\ next.ok = st.ok
      /\ next = [fs |-> next.fs, outputs |-> next.outputs, ok |-> next.ok]
  BY DEF Written
<1>3. o.path = path /\ o.kind = node.kind OBVIOUS
<1> HIDE DEF next, o
<1>4. /\ IsTree(next.fs, lists) /\ DOMAIN next.fs = DOMAIN st.fs \cup {path}
      /\ next.fs[path] = node
      /\ \A p \in DOMAIN st.fs : p # path => next.fs[p] = st.fs[p]
  BY <1>1, <1>2, PutTypes
<1>5. ASSUME NEW p \in DOMAIN before
      PROVE  p \in DOMAIN next.fs /\ (~overwrite => next.fs[p] = before[p])
  <2>1. p \in DOMAIN st.fs /\ (~overwrite => st.fs[p] = before[p]) BY DEF Running
  <2> QED BY <1>4, <2>1
<1>6. ASSUME NEW p \in DOMAIN next.fs, p \in DOMAIN before => next.fs[p] # before[p]
      PROVE  Reported(next, p)
  <2>1. CASE p = path
    <3>1. o \in next.outputs /\ o.path = p /\ o.kind = next.fs[p].kind BY <1>2, <1>3, <1>4, <2>1
    <3> QED BY <3>1 DEF Reported
  <2>2. CASE p # path
    <3>1. p \in DOMAIN st.fs /\ next.fs[p] = st.fs[p] BY <1>4, <2>2
    <3>2. Reported(st, p) BY <1>6, <3>1 DEF Running
    <3> QED BY <1>2, <3>1, <3>2 DEF Reported
  <2> QED BY <2>1, <2>2
<1>7. \A r \in next.outputs : r.path \in DOMAIN next.fs BY <1>2, <1>3, <1>4 DEF Running
<1>8. Running(next, before, overwrite, lists) BY <1>1, <1>2, <1>4, <1>5, <1>6, <1>7 DEF Running
<1> QED BY <1>8 DEF next

\* which write_output_file makes sure of,
LEMMA WriteOutputRuns ==
  ASSUME NEW lists, NEW before, NEW overwrite, NEW st, Running(st, before, overwrite, lists),
         NEW path \in Paths, NEW node, IsNode(node, lists)
  PROVE  Running(WriteOutput(st, overwrite, path, node), before, overwrite, lists)
  BY FailedRuns, WrittenRuns DEF WriteOutput

\* when a directory is created,
LEMMA DirRuns ==
  ASSUME NEW lists, NEW before, NEW overwrite, NEW st, Running(st, before, overwrite, lists),
         NEW path \in Paths
  PROVE  Running(Created(st, path), before, overwrite, lists)
<1> DEFINE o == [path |-> path, kind |-> "dir"]
           next == Created(st, path)
<1>1. st.ok \in BOOLEAN /\ IsTree(st.fs, lists) BY DEF Running
<1>2. /\ next.fs = CreateDirAll(st.fs, path) /\ next.outputs = st.outputs \cup {o}
      /\ next.ok = st.ok
      /\ next = [fs |-> next.fs, outputs |-> next.outputs, ok |-> next.ok]
  BY DEF Created
<1>3. o.path = path /\ o.kind = "dir" OBVIOUS
<1> HIDE DEF next, o
<1>4. /\ IsTree(next.fs, lists) /\ path \in DOMAIN next.fs /\ DOMAIN st.fs \subseteq DOMAIN next.fs
      /\ \A p \in DOMAIN st.fs : next.fs[p] = st.fs[p]
      /\ \A p \in DOMAIN next.fs \ DOMAIN st.fs : next.fs[p] = Dir /\ IsPrefix(p, path)
  <2> DEFINE made == CreateDirAll(st.fs, path)
  <2>1. /\ IsTree(made, lists) /\ DOMAIN st.fs \subseteq DOMAIN made
        /\ path \in DOMAIN made
        /\ \A p \in DOMAIN st.fs : made[p] = st.fs[p]
        /\ \A p \in DOMAIN made \ DOMAIN st.fs : made[p] = Dir /\ IsPrefix(p, path)
    <3>1. IsTree(st.fs, lists) BY <1>1
    <3>2. IsTree(made, lists) BY <3>1, CreateDirAllTypes
    <3>3. DOMAIN st.fs \subseteq DOMAIN made BY <3>1, CreateDirAllTypes
    <3>4. path \in DOMAIN made BY <3>1, CreateDirAllTypes
    <3>5. \A p \in DOMAIN st.fs : made[p] = st.fs[p] BY <3>1, CreateDirAllTypes
    <3>6. \A p \in DOMAIN made \ DOMAIN st.fs : made[p] = Dir /\ IsPrefix(p, path)
      BY <3>1, CreateDirAllTypes
    <3> QED BY <3>2, <3>3, <3>4, <3>5, <3>6
  <2>2. next.fs = made BY <1>2
  <2> HIDE DEF made
  <2> QED BY <2>1, <2>2
<1>5. ASSUME NEW p \in DOMAIN before
      PROVE  p \in DOMAIN next.fs /\ (~overwrite => next.fs[p] = before[p])
  <2>1. p \in DOMAIN st.fs /\ (~overwrite => st.fs[p] = before[p]) BY DEF Running
  <2> QED BY <1>4, <2>1
<1>6. ASSUME NEW p \in DOMAIN next.fs, p \in DOMAIN before => next.fs[p] # before[p]
      PROVE  Reported(next, p)
  <2>1. CASE p \notin DOMAIN st.fs
    <3>1. o \in next.outputs /\ o.kind = "dir" /\ next.fs[p] = Dir /\ IsPrefix(p, o.path)
      BY <1>2, <1>3, <1>4, <2>1
    <3> QED BY <3>1 DEF Reported
  <2>2. CASE p \in DOMAIN st.fs
    <3>1. next.fs[p] = st.fs[p] BY <1>4, <2>2
    <3>2. Reported(st, p) BY <1>6, <2>2, <3>1 DEF Running
    <3> QED BY <1>2, <3>1, <3>2 DEF Reported
  <2> QED BY <2>1, <2>2
<1>7. \A r \in next.outputs : r.path \in DOMAIN next.fs BY <1>2, <1>3, <1>4 DEF Running
<1>8. Running(next, before, overwrite, lists) BY <1>1, <1>2, <1>4, <1>5, <1>6, <1>7 DEF Running
<1> QED BY <1>8 DEF next, o

\* and so when an entry is written.
LEMMA WriteEntryRuns ==
  ASSUME NEW lists, <<>> \in lists, NEW before, NEW overwrite,
         NEW st, Running(st, before, overwrite, lists),
         NEW root \in Seq(Names), NEW e, e.path \in Paths, IsNode(e.node, lists)
  PROVE  Running(WriteEntry(st, root, overwrite, e), before, overwrite, lists)
<1> DEFINE path == root \o e.path
<1>1. path \in Paths
  <2>1. e.path \in Seq(Names) /\ Len(e.path) \in Nat \ {0} BY DEF Paths
  <2>2. path \in Seq(Names) /\ Len(path) = Len(root) + Len(e.path) /\ Len(root) \in Nat BY <2>1
  <2>3. Len(path) # 0
    <3> HIDE DEF path
    <3> QED BY <2>1, <2>2
  <2> HIDE DEF path
  <2> QED BY <2>2, <2>3, IsAPath
<1>2. st.ok \in BOOLEAN BY DEF Running
<1>3. WriteEntry(st, root, overwrite, e) =
        IF ~st.ok THEN st
        ELSE IF e.node.kind = "dir"
        THEN Created(st, path)
        ELSE WriteOutput(st, overwrite, path, e.node)
  BY <1>2 DEF WriteEntry
<1> HIDE DEF path
<1> QED BY <1>1, <1>3, DirRuns, WriteOutputRuns

\* The recursion behind WriteEntries defines a function,
LEMMA EntrySteps ==
  ASSUME NEW st, NEW root, NEW overwrite, NEW es, Len(es) \in Nat
  PROVE  \E after :
           /\ after = [k \in 0..Len(es) |->
                         IF k = 0 THEN st ELSE WriteEntry(after[k - 1], root, overwrite, es[k])]
           /\ WriteEntries(st, root, overwrite, es) = after[Len(es)]
<1> DEFINE Up(n, g) ==
             g = [k \in 0..n |-> IF k = 0 THEN st ELSE WriteEntry(g[k - 1], root, overwrite, es[k])]
           S == {n \in 0..Len(es) : \E g : Up(n, g)}
<1>1. 0 \in S
  <2>1. Up(0, [k \in 0..0 |-> st]) OBVIOUS
  <2> HIDE DEF Up
  <2> QED BY <2>1
<1>2. ASSUME NEW n \in 1..Len(es), n - 1 \in S PROVE n \in S
  <2>1. PICK g : Up(n - 1, g) BY <1>2
  <2> DEFINE h == [k \in 0..n |-> IF k = n THEN WriteEntry(g[n - 1], root, overwrite, es[n]) ELSE g[k]]
  <2>2. Up(n, h)
    <3>1. \A k \in 0..n - 1 : g[k] = IF k = 0 THEN st ELSE WriteEntry(g[k - 1], root, overwrite, es[k])
      BY <2>1
    <3>2. h[0] = st BY <3>1
    <3>3. \A k \in 1..n : h[k] = WriteEntry(h[k - 1], root, overwrite, es[k])
      <4> SUFFICES ASSUME NEW k \in 1..n PROVE h[k] = WriteEntry(h[k - 1], root, overwrite, es[k])
        OBVIOUS
      <4>1. h[k - 1] = g[k - 1] OBVIOUS
      <4>2. h[k] = WriteEntry(g[k - 1], root, overwrite, es[k]) BY <3>1
      <4> QED BY <4>1, <4>2
    <3>4. h = [k \in 0..n |-> h[k]] OBVIOUS
    <3> HIDE DEF h
    <3>5. \A k \in 0..n : h[k] = IF k = 0 THEN st ELSE WriteEntry(h[k - 1], root, overwrite, es[k])
      BY <3>2, <3>3
    <3> QED BY <3>4, <3>5
  <2> HIDE DEF h, Up
  <2> QED BY <2>2
<1> HIDE DEF S
<1>3. S = 0..Len(es)
  <2>1. S \subseteq 0..Len(es) BY DEF S
  <2> QED BY <1>1, <1>2, <2>1, Upwards
<1>4. \E g : Up(Len(es), g) BY <1>3 DEF S
<1>5. Up(Len(es), CHOOSE g : Up(Len(es), g)) BY <1>4
<1>6. WriteEntries(st, root, overwrite, es) = (CHOOSE g : Up(Len(es), g))[Len(es)]
  BY DEF WriteEntries
<1> QED BY <1>5, <1>6

\* so it goes on holding when all the entries of an archive are written.
LEMMA WriteEntriesRuns ==
  ASSUME NEW lists, <<>> \in lists, NEW before, NEW overwrite,
         NEW st, Running(st, before, overwrite, lists),
         NEW root \in Seq(Names), NEW es, IsEntries(es, lists)
  PROVE  Running(WriteEntries(st, root, overwrite, es), before, overwrite, lists)
<1> DEFINE n == Len(es)
<1>1. n \in Nat /\ \A k \in 1..n : es[k].path \in Paths /\ IsNode(es[k].node, lists)
  <2>1. es \in Seq(Range(es)) BY DEF IsEntries, IsMembers
  <2>2. n \in Nat /\ DOMAIN es = 1..n BY <2>1
  <2> QED BY <2>2 DEF IsEntries, IsMembers
<1>2. PICK after :
        /\ after = [k \in 0..n |->
                      IF k = 0 THEN st ELSE WriteEntry(after[k - 1], root, overwrite, es[k])]
        /\ WriteEntries(st, root, overwrite, es) = after[n]
  <2>1. Len(es) \in Nat BY <1>1
  <2>2. \E after :
           /\ after = [k \in 0..Len(es) |->
                         IF k = 0 THEN st ELSE WriteEntry(after[k - 1], root, overwrite, es[k])]
           /\ WriteEntries(st, root, overwrite, es) = after[Len(es)]
    BY ONLY <2>1, EntrySteps
  <2> QED BY <2>2
<1> DEFINE S == {k \in 0..n : Running(after[k], before, overwrite, lists)}
<1> HIDE DEF n
<1>3. after[0] = st /\ \A k \in 1..n : after[k] = WriteEntry(after[k - 1], root, overwrite, es[k])
  <2>1. \A k \in 0..n : after[k] = IF k = 0 THEN st ELSE WriteEntry(after[k - 1], root, overwrite, es[k])
    BY <1>2
  <2> QED BY <1>1, <2>1
<1>4. 0 \in S BY <1>1, <1>3
<1>5. ASSUME NEW k \in 1..n, k - 1 \in S PROVE k \in S
  <2>1. k \in 0..n /\ Running(after[k - 1], before, overwrite, lists) BY <1>1, <1>5
  <2>2. Running(WriteEntry(after[k - 1], root, overwrite, es[k]), before, overwrite, lists)
    BY <1>1, <2>1, WriteEntryRuns
  <2> QED BY <1>3, <2>1, <2>2
<1>6. S \subseteq 0..n OBVIOUS
<1> HIDE DEF S
<1>7. S = 0..n BY <1>1, <1>4, <1>5, <1>6, Upwards
<1>8. n \in S BY <1>1, <1>7
<1> QED BY <1>2, <1>8 DEF S

\* What is read from the tree is bytes,
LEMMA InputTypes ==
  ASSUME NEW lists, <<>> \in lists, NEW fs, IsTree(fs, lists), NEW path
  PROVE  AllBytes(Input(fs, path), lists)
<1>1. ASSUME path \in DOMAIN fs PROVE IsBytes(DataOf(fs[path]), lists)
  <2>1. IsNode(fs[path], lists) BY <1>1 DEF IsTree
  <2> QED BY <2>1, NodeFacts
<1> QED BY <1>1 DEF Input, AllBytes

\* What an archive holds is one of the lists of members,
LEMMA MembersTypes ==
  ASSUME NEW lists, NEW cs, AllBytes(cs, lists), NEW fmt
  PROVE  \A c \in cs : \A es \in Members(fmt, c) : es \in lists
  BY DEF AllBytes, IsBytes, Members

\* which become entries when their paths are checked.
LEMMA NormalisedTypes ==
  ASSUME NEW lists, NEW es, IsMembers(es, lists), AllSafe(es)
  PROVE  IsEntries(Normalised(es), lists)
<1> DEFINE kept == Normalised(es)
<1>1. DOMAIN es = 1..Len(es) /\ Len(es) \in Nat
  <2>1. es \in Seq(Range(es)) BY DEF IsMembers
  <2> QED BY <2>1
<1>2. ASSUME NEW i \in DOMAIN es
      PROVE  /\ kept[i] = [path |-> kept[i].path, node |-> kept[i].node]
             /\ kept[i].path \in Paths /\ IsNode(kept[i].node, lists)
  <2>1. IsMemberPath(es[i].path) /\ IsNode(es[i].node, lists) BY DEF IsMembers
  <2>2. ~Refused(es[i].path) BY DEF AllSafe
  <2>3. Normal(es[i].path) \in Paths BY <2>1, <2>2, NormalFacts
  <2>4. kept[i] = [path |-> Normal(es[i].path), node |-> es[i].node] BY DEF Normalised
  <2> QED BY <2>1, <2>3, <2>4
<1>3. DOMAIN kept = 1..Len(es) BY <1>1 DEF Normalised
<1>4. kept = [i \in 1..Len(es) |-> kept[i]] BY <1>3, <1>1 DEF Normalised
<1> HIDE DEF kept
<1>5. kept \in Seq(Range(kept))
  <2>1. kept \in [1..Len(es) -> Range(kept)] BY <1>3, <1>4 DEF Range
  <2> QED BY <1>1, <2>1, SeqDef
<1>6. IsEntries(kept, lists) BY <1>1, <1>2, <1>3, <1>5 DEF IsEntries, IsMembers, IsMemberPath
<1> QED BY <1>6 DEF kept

\* What is unpacked is a list of entries.
LEMMA UnpackedTypes ==
  ASSUME NEW lists, \A es \in lists : IsMembers(es, lists),
         NEW cs, AllBytes(cs, lists), NEW fmt, NEW c \in cs, NEW out \in Unpack(fmt, c)
  PROVE  IsEntries(out, lists)
<1>1. PICK es \in Members(fmt, c) :
        /\ AllSafe(es)
        /\ out = IF fmt = "rar" THEN WithImplicitDirs(Normalised(es)) ELSE Normalised(es)
  BY DEF Unpack
<1>2. IsMembers(es, lists) BY <1>1, MembersTypes
<1> DEFINE ns == Normalised(es)
<1>3. IsEntries(ns, lists) BY <1>1, <1>2, NormalisedTypes
<1> HIDE DEF ns
<1>4. IsEntries(WithImplicitDirs(ns), lists)
  <2> DEFINE g == [i \in DOMAIN ns |-> [path |-> ns[i].path, node |-> ns[i].node, from |-> i]]
             found == {g[i] : i \in DOMAIN ns}
  <2>1. DOMAIN ns = 1..Len(ns) /\ Len(ns) \in Nat
    <3>1. ns \in Seq(Range(ns)) BY <1>3 DEF IsEntries, IsMembers
    <3> QED BY <3>1
  <2>2. WithImplicitDirs(ns) = SortAndAddImplicitDirs(found) BY DEF WithImplicitDirs
  <2>3. IsFiniteSet(found)
    <3>1. IsFiniteSet(DOMAIN ns)
      <4>1. 1 \in Int /\ Len(ns) \in Int BY <2>1
      <4> QED BY <2>1, <4>1, FS_Interval
    <3> HIDE DEF g
    <3> QED BY <3>1, FiniteImage
  <2>4. \A i \in DOMAIN ns : /\ i \in Nat \ {0} /\ ns[i].path \in Paths
                             /\ IsNode(ns[i].node, lists)
    BY <1>3, <2>1 DEF IsEntries, IsMembers
  <2>5. \A e \in found : \E i \in DOMAIN ns :
          e = [path |-> ns[i].path, node |-> ns[i].node, from |-> i]
    OBVIOUS
  <2> HIDE DEF found, g
  <2>6. ASSUME NEW e \in found
        PROVE  /\ e = [path |-> e.path, node |-> e.node, from |-> e.from]
               /\ e.path \in Paths /\ IsNode(e.node, lists) /\ e.from \in Nat \ {0}
    <3>1. PICK i \in DOMAIN ns : e = [path |-> ns[i].path, node |-> ns[i].node, from |-> i]
      BY <2>5
    <3> QED BY <2>4, <3>1
  <2>7. ASSUME NEW e \in found, NEW f \in found, e.from = f.from PROVE e = f
    <3>1. PICK i \in DOMAIN ns : e = [path |-> ns[i].path, node |-> ns[i].node, from |-> i]
      BY <2>5
    <3>2. PICK j \in DOMAIN ns : f = [path |-> ns[j].path, node |-> ns[j].node, from |-> j]
      BY <2>5
    <3> QED BY <2>7, <3>1, <3>2
  <2>8. IsEntries(SortAndAddImplicitDirs(found), lists) BY <2>3, <2>6, <2>7, SortTypes
  <2> QED BY <2>2, <2>8
<1> QED BY <1>1, <1>3, <1>4 DEF ns

\* It goes on holding when an archive is decompressed.
LEMMA DecompressOneRuns ==
  ASSUME NEW lists, <<>> \in lists, \A es \in lists : IsMembers(es, lists),
         NEW before, NEW overwrite, NEW st, Running(st, before, overwrite, lists),
         NEW path \in Paths, NEW dir \in Seq(Names), NEW flag \in Seq(Extensions)
  PROVE  Running(DecompressOne(st, path, dir, overwrite, flag), before, overwrite, lists)
<1> DEFINE splits == Split(path, flag)
           formats == CHOOSE f \in splits : TRUE
           first == Head(formats)
           decoded == DecodeLayers(Input(st.fs, path), Tail(formats))
           entries == UNION {Unpack(first, c) : c \in decoded}
           data == Each(Decode, first, decoded)
           root == IF dir # <<>> THEN dir ELSE OutputRoot(path)
           name == Last(WithoutExtension(path))
           es == CHOOSE e \in entries : TRUE
           c == CHOOSE d \in data : TRUE
<1>1. DecompressOne(st, path, dir, overwrite, flag) =
        IF ~st.ok THEN st
        ELSE IF splits = {} THEN Failed(st)
        ELSE IF first \in ArchiveFormats
        THEN IF entries = {} THEN Failed(st) ELSE WriteEntries(st, root, overwrite, es)
        ELSE IF data = {} THEN Failed(st)
        ELSE WriteOutput(st, overwrite, Append(dir, name), FileOf(c))
  BY DEF DecompressOne
<1>2. IsTree(st.fs, lists) BY DEF Running
<1>3. splits # {} => first \in FormatNames /\ Tail(formats) \in Seq(FormatNames)
  BY SplitTypes
<1>4. splits # {} => AllBytes(decoded, lists) BY <1>2, <1>3, InputTypes, LayersTypes
<1>5. splits # {} /\ entries # {} => IsEntries(es, lists)
  <2> SUFFICES ASSUME splits # {}, entries # {} PROVE IsEntries(es, lists) OBVIOUS
  <2>1. AllBytes(decoded, lists) BY <1>4
  <2>2. es \in entries OBVIOUS
  <2>3. PICK x \in decoded : es \in Unpack(first, x) BY <2>2
  <2> HIDE DEF es, decoded, first
  <2> QED BY <2>1, <2>3, UnpackedTypes
<1>6. splits # {} /\ data # {} => IsNode(FileOf(c), lists)
  <2> SUFFICES ASSUME splits # {}, data # {} PROVE IsNode(FileOf(c), lists) OBVIOUS
  <2>1. AllBytes(decoded, lists) /\ first \in FormatNames BY <1>3, <1>4
  <2>2. c \in data OBVIOUS
  <2>3. PICK x \in decoded : c \in Decode(first, x) BY <2>2 DEF Each
  <2> HIDE DEF c, decoded, first
  <2>4. IsBytes(c, lists) BY <2>1, <2>3, CodecTypes DEF AllBytes
  <2> QED BY <2>4, FileTyped
<1>7. root \in Seq(Names) BY OutputNames DEF Paths
<1>8. Append(dir, name) \in Paths
  <2>1. name \in Names BY OutputNames
  <2> HIDE DEF name
  <2>2. Append(dir, name) \in Seq(Names) /\ Len(Append(dir, name)) # 0 BY <2>1
  <2> QED BY <2>2, IsAPath
<1>9. Running(Failed(st), before, overwrite, lists) BY FailedRuns
<1> HIDE DEF splits, first, formats, decoded, entries, data, root, name, es, c
<1>10. splits # {} /\ entries # {} =>
         Running(WriteEntries(st, root, overwrite, es), before, overwrite, lists)
  BY <1>5, <1>7, WriteEntriesRuns
<1>11. splits # {} /\ data # {} =>
         Running(WriteOutput(st, overwrite, Append(dir, name), FileOf(c)), before, overwrite, lists)
  BY <1>6, <1>8, WriteOutputRuns
<1> QED BY <1>1, <1>9, <1>10, <1>11

\* The trees after each archive of a call.
AreSteps(after, n, st, paths, dir, overwrite, flag) ==
  after = [k \in 0..n |-> IF k = 0 THEN st
                          ELSE DecompressOne(after[k - 1], paths[k], dir, overwrite, flag)]

\* The recursion behind DecompressAll defines a function,
LEMMA ArchiveSteps ==
  ASSUME NEW st, NEW paths, NEW dir, NEW overwrite, NEW flag, Len(paths) \in Nat
  PROVE  \E after : /\ AreSteps(after, Len(paths), st, paths, dir, overwrite, flag)
                    /\ DecompressAll(st, paths, dir, overwrite, flag) = after[Len(paths)]
<1> DEFINE Up(n, g) ==
             g = [k \in 0..n |-> IF k = 0 THEN st
                                 ELSE DecompressOne(g[k - 1], paths[k], dir, overwrite, flag)]
           S == {n \in 0..Len(paths) : \E g : Up(n, g)}
<1>1. 0 \in S
  <2>1. Up(0, [k \in 0..0 |-> st]) OBVIOUS
  <2> HIDE DEF Up
  <2> QED BY <2>1
<1>2. ASSUME NEW n \in 1..Len(paths), n - 1 \in S PROVE n \in S
  <2>1. PICK g : Up(n - 1, g) BY <1>2
  <2> DEFINE h == [k \in 0..n |-> IF k = n THEN DecompressOne(g[n - 1], paths[n], dir, overwrite, flag)
                                  ELSE g[k]]
  <2>2. Up(n, h)
    <3>1. \A k \in 0..n - 1 :
            g[k] = IF k = 0 THEN st ELSE DecompressOne(g[k - 1], paths[k], dir, overwrite, flag)
      BY <2>1
    <3>2. h[0] = st BY <3>1
    <3>3. \A k \in 1..n : h[k] = DecompressOne(h[k - 1], paths[k], dir, overwrite, flag)
      <4> SUFFICES ASSUME NEW k \in 1..n
                   PROVE  h[k] = DecompressOne(h[k - 1], paths[k], dir, overwrite, flag)
        OBVIOUS
      <4>1. h[k - 1] = g[k - 1] OBVIOUS
      <4>2. h[k] = DecompressOne(g[k - 1], paths[k], dir, overwrite, flag) BY <3>1
      <4> QED BY <4>1, <4>2
    <3>4. h = [k \in 0..n |-> h[k]] OBVIOUS
    <3> HIDE DEF h
    <3>5. \A k \in 0..n :
            h[k] = IF k = 0 THEN st ELSE DecompressOne(h[k - 1], paths[k], dir, overwrite, flag)
      BY <3>2, <3>3
    <3> QED BY <3>4, <3>5
  <2> HIDE DEF h, Up
  <2> QED BY <2>2
<1> HIDE DEF S
<1>3. S = 0..Len(paths)
  <2>1. S \subseteq 0..Len(paths) BY DEF S
  <2> QED BY <1>1, <1>2, <2>1, Upwards
<1>4. \E g : Up(Len(paths), g) BY <1>3 DEF S
<1>5. Up(Len(paths), CHOOSE g : Up(Len(paths), g)) BY <1>4
<1>6. DecompressAll(st, paths, dir, overwrite, flag) = (CHOOSE g : Up(Len(paths), g))[Len(paths)]
  BY DEF DecompressAll
<1> QED BY <1>5, <1>6 DEF AreSteps

\* so it goes on holding when all the archives of a call are decompressed.
LEMMA DecompressAllRuns ==
  ASSUME NEW lists, <<>> \in lists, \A es \in lists : IsMembers(es, lists),
         NEW before, NEW overwrite, NEW st, Running(st, before, overwrite, lists),
         NEW paths \in Seq(Paths), NEW dir \in Seq(Names), NEW flag \in Seq(Extensions)
  PROVE  Running(DecompressAll(st, paths, dir, overwrite, flag), before, overwrite, lists)
<1> DEFINE n == Len(paths)
<1>1. n \in Nat /\ \A k \in 1..n : paths[k] \in Paths OBVIOUS
<1>2. PICK after :
        /\ AreSteps(after, n, st, paths, dir, overwrite, flag)
        /\ DecompressAll(st, paths, dir, overwrite, flag) = after[n]
  BY <1>1, ArchiveSteps
<1> DEFINE S == {k \in 0..n : Running(after[k], before, overwrite, lists)}
<1> HIDE DEF n
<1>3. /\ after[0] = st
      /\ \A k \in 1..n : after[k] = DecompressOne(after[k - 1], paths[k], dir, overwrite, flag)
  <2>1. \A k \in 0..n :
          after[k] = IF k = 0 THEN st ELSE DecompressOne(after[k - 1], paths[k], dir, overwrite, flag)
    BY <1>2 DEF AreSteps
  <2> QED BY <1>1, <2>1
<1>4. 0 \in S BY <1>1, <1>3
<1>5. ASSUME NEW k \in 1..n, k - 1 \in S PROVE k \in S
  <2>1. k \in 0..n /\ Running(after[k - 1], before, overwrite, lists) BY <1>1, <1>5
  <2>2. Running(DecompressOne(after[k - 1], paths[k], dir, overwrite, flag), before, overwrite, lists)
    BY <1>1, <2>1, DecompressOneRuns
  <2> QED BY <1>3, <2>1, <2>2
<1>6. S \subseteq 0..n OBVIOUS
<1> HIDE DEF S
<1>7. S = 0..n BY <1>1, <1>4, <1>5, <1>6, Upwards
<1>8. n \in S BY <1>1, <1>7
<1> QED BY <1>2, <1>8 DEF S

\* A call starts with nothing written.
LEMMA StartRuns ==
  ASSUME NEW lists, NEW fs, IsTree(fs, lists), NEW overwrite
  PROVE  Running([fs |-> fs, outputs |-> {}, ok |-> TRUE], fs, overwrite, lists)
  BY DEF Running

-----------------------------------------------------------------------------
(* Compression                                                             *)

\* Lists of entries that have the entries of the archives among them.
Closed(lists) ==
  /\ Known \cup {<<>>} \subseteq lists
  /\ \A es \in lists : IsMembers(es, lists)

\* An archive that is built has its entries in lists.
LEMMA BuildTypes ==
  ASSUME NEW lists, Closed(lists), NEW es, IsEntries(es, lists)
  PROVE  \E more : /\ lists \subseteq more /\ Closed(more)
                   /\ \A fmt \in ArchiveFormats : AllBytes(Build(fmt, es), more)
<1> DEFINE kept == [i \in DOMAIN es |-> [es[i] EXCEPT !.node = In7z(@)]]
           more == lists \cup {es, kept}
<1>1. es \in Seq(Range(es)) /\ DOMAIN es = 1..Len(es) /\ Len(es) \in Nat BY DEF IsEntries, IsMembers
<1>2. ASSUME NEW i \in DOMAIN es
      PROVE  /\ kept[i] = [path |-> es[i].path, node |-> In7z(es[i].node)]
             /\ es[i].path \in Paths /\ IsNode(In7z(es[i].node), lists)
  <2>1. /\ es[i] = [path |-> es[i].path, node |-> es[i].node]
        /\ es[i].path \in Paths /\ IsNode(es[i].node, lists)
    BY DEF IsEntries, IsMembers
  <2>2. <<>> \in lists BY DEF Closed
  <2>3. IsBytes(DataOf(es[i].node), lists) BY <2>1, <2>2, NodeFacts
  <2>4. IsNode(In7z(es[i].node), lists) BY <2>1, <2>3, FileTyped DEF In7z
  <2> QED BY <2>1, <2>4
<1>3. IsEntries(kept, lists)
  <2>1. kept \in Seq(Range(kept))
    <3>1. kept \in [1..Len(es) -> Range(kept)] BY <1>1 DEF Range
    <3> HIDE DEF kept
    <3> QED BY <1>1, <3>1, SeqDef
  <2>2. DOMAIN kept = DOMAIN es OBVIOUS
  <2> HIDE DEF kept
  <2> QED BY <1>2, <2>1, <2>2 DEF IsEntries, IsMembers, IsMemberPath
<1> HIDE DEF kept
<1>4. lists \subseteq more /\ es \in more /\ kept \in more OBVIOUS
<1>5. Closed(more)
  <2>1. \A x : IsMembers(x, lists) => IsMembers(x, more) BY <1>4, MoreLists
  <2>2. IsMembers(es, lists) /\ IsMembers(kept, lists) BY <1>3 DEF IsEntries
  <2> QED BY <2>1, <2>2 DEF Closed
<1>6. \A fmt, x : x \in more => IsBytes(Archive(fmt, x), more)
  <2>1. <<>> \in Seq(FormatNames) BY EmptySeq
  <2> HIDE DEF more
  <2> QED BY <2>1 DEF IsBytes, Archive
<1>7. \A fmt \in ArchiveFormats : AllBytes(Build(fmt, es), more)
  <2>1. Build7z(es) = {Archive("7z", kept)} BY DEF Build7z, kept
  <2> HIDE DEF more
  <2> HIDE DEF kept
  <2>2. AllBytes(BuildTar(es), more) BY <1>4, <1>6 DEF AllBytes, BuildTar
  <2>3. AllBytes(BuildZip(es), more) BY <1>4, <1>6 DEF AllBytes, BuildZip
  <2>4. AllBytes(Build7z(es), more) BY <1>4, <1>6, <2>1 DEF AllBytes
  <2>5. AllBytes({}, more) BY DEF AllBytes
  <2> QED BY <2>2, <2>3, <2>4, <2>5 DEF Build, ArchiveFormats
<1> QED BY <1>4, <1>5, <1>7

\* What run_compress puts in an output is bytes.
LEMMA CompressedTypes ==
  ASSUME NEW lists, Closed(lists), NEW es, IsEntries(es, lists),
         NEW first \in FormatNames, NEW rest \in Seq(FormatNames)
  PROVE  \E more : /\ lists \subseteq more /\ Closed(more)
                   /\ AllBytes(EncodeLayers(Innermost(first, es), rest), more)
<1>1. PICK more : /\ lists \subseteq more /\ Closed(more)
                  /\ \A fmt \in ArchiveFormats : AllBytes(Build(fmt, es), more)
  BY BuildTypes
<1>2. AllBytes(Innermost(first, es), more)
  <2>1. CASE first \in ArchiveFormats BY <1>1, <2>1 DEF Innermost
  <2>2. CASE first \notin ArchiveFormats
    <3>1. CASE Len(es) # 1 \/ es[1].node.kind = "dir" BY <2>2, <3>1 DEF Innermost, AllBytes
    <3>2. CASE ~(Len(es) # 1 \/ es[1].node.kind = "dir")
      <4>1. Innermost(first, es) = Encode(first, DataOf(es[1].node)) BY <2>2, <3>2 DEF Innermost
      <4>2. IsNode(es[1].node, lists) /\ <<>> \in lists
        <5>1. 1 \in DOMAIN es
          <6>1. es \in Seq(Range(es)) /\ Len(es) = 1 BY <3>2 DEF IsEntries, IsMembers
          <6> QED BY <6>1
        <5> QED BY <5>1 DEF IsEntries, IsMembers, Closed
      <4>3. IsBytes(DataOf(es[1].node), lists) BY <4>2, NodeFacts
      <4>4. IsBytes(DataOf(es[1].node), more) BY <1>1, <4>3, MoreLists
      <4> QED BY <4>1, <4>4, CodecTypes DEF AllBytes
    <3> QED BY <3>1, <3>2
  <2> QED BY <2>1, <2>2
<1> QED BY <1>1, <1>2, LayersTypes

\* What the host gets from its own files is bytes: they are no links.
LEMMA StreamedTypes ==
  ASSUME NEW lists, Closed(lists), NEW files \in HostFiles
  PROVE  /\ IsEntries(files, lists)
         /\ \A f \in FormatNames : Len(files) = 1 /\ files[1].node # Dir =>
              /\ files[1].node = FileOf(files[1].node.data)
              /\ IsBytes(files[1].node.data, lists)
              /\ DataOf(files[1].node) = files[1].node.data
<1>1. IsEntries(files, lists)
  <2>1. IsEntries(files, Known \cup {<<>>}) BY WasmOpsAssumption
  <2> QED BY <2>1, MoreLists DEF Closed
<1>2. ASSUME Len(files) = 1, files[1].node # Dir
      PROVE  /\ files[1].node = FileOf(files[1].node.data)
             /\ IsBytes(files[1].node.data, lists)
             /\ DataOf(files[1].node) = files[1].node.data
  <2>1. 1 \in DOMAIN files
    <3>1. files \in Seq(Range(files)) BY <1>1 DEF IsEntries, IsMembers
    <3> QED BY <3>1, <1>2
  <2>2. IsNode(files[1].node, lists) BY <1>1, <2>1 DEF IsEntries, IsMembers
  <2>3. files[1].node.kind # "symlink" BY <2>1, WasmOpsAssumption
  <2> QED BY <1>2, <2>2, <2>3 DEF IsNode, DataOf
<1> QED BY <1>1, <1>2

-----------------------------------------------------------------------------
(* The invariant                                                           *)

\* All that is stored, and all that the host holds, is typed.
Stored(lists) ==
  /\ Closed(lists) /\ IsTree(vfs, lists)
  /\ \A h \in host : IsBytes(h.data, lists) /\ h.name \in Paths

GivenPaths ==
  "given" \in DOMAIN last =>
    \A i \in DOMAIN last.given : last.given[i].path \in Paths

WasmInv ==
  /\ \E lists : Stored(lists)
  /\ GivenPaths
  /\ host = {} \/ \E h : host = {h}
  /\ calls \in 0..MaxCalls

\* Initially
LEMMA InitTyped == Init => WasmInv
<1> SUFFICES ASSUME Init PROVE WasmInv OBVIOUS
<1>1. Closed(Known \cup {<<>>})
  <2>1. IsMembers(<<>>, Known \cup {<<>>})
    <3>1. <<>> \in Seq(Range(<<>>)) /\ DOMAIN <<>> = {} BY EmptySeq
    <3> QED BY <3>1 DEF IsEntries, IsMembers
  <2> QED BY <2>1, WasmOpsAssumption DEF Closed
<1>2. Stored(Known \cup {<<>>}) BY <1>1, WasmOpsAssumption DEF Init, Stored
<1>3. GivenPaths BY DEF Init, NoCall, GivenPaths
<1>4. calls \in 0..MaxCalls BY WasmOpsAssumption DEF Init
<1> QED BY <1>2, <1>3, <1>4 DEF WasmInv, Init

\* A list of entries has paths.
LEMMA EntriesHavePaths ==
  ASSUME NEW lists, NEW es, IsEntries(es, lists)
  PROVE  \A i \in DOMAIN es : es[i].path \in Paths
  BY DEF IsEntries, IsMembers

\* Each call keeps what is stored typed: one that writes a file,
LEMMA WriteFileTypes ==
  ASSUME WasmInv,
         NEW path \in Outputs \cup Streamed,
         NEW c \in {Plain(d) : d \in Data} \cup {h.data : h \in host},
         WriteFile(path, c)
  PROVE  (\E lists : Stored(lists)') /\ GivenPaths' /\ host' = host
<1>1. PICK lists : Stored(lists) BY DEF WasmInv
<1>2. IsBytes(c, lists)
  <2>1. \A d : IsBytes(Plain(d), lists)
    <3>1. <<>> \in Seq(FormatNames) BY EmptySeq
    <3> QED BY <1>1, <3>1 DEF IsBytes, Plain, Stored, Closed
  <2> QED BY <1>1, <2>1 DEF Stored
<1>3. path \in Paths BY WasmOpsAssumption
<1>4. IsTree(Put(vfs, path, FileOf(c)), lists) BY <1>1, <1>2, <1>3, FileTyped, PutTypes DEF Stored
<1>5. Stored(lists)' BY <1>1, <1>4 DEF Stored, WriteFile
<1>6. GivenPaths' BY DEF GivenPaths, WriteFile, Return, NoCall
<1> QED BY <1>5, <1>6 DEF WriteFile

\* removes one or all of them,
LEMMA RemoveCallTypes ==
  ASSUME WasmInv, VfsClear \/ \E path \in DOMAIN vfs : VfsRemove(path)
  PROVE  (\E lists : Stored(lists)') /\ GivenPaths' /\ host' = host
<1>1. PICK lists : Stored(lists) BY DEF WasmInv
<1>2. IsTree(vfs', lists)
  <2>1. CASE VfsClear
    <3>1. vfs' = <<>> BY <2>1 DEF VfsClear
    <3>2. DOMAIN vfs' = {} /\ vfs' = [p \in DOMAIN vfs' |-> vfs'[p]] BY <3>1
    <3> QED BY <3>2, FS_EmptySet DEF IsTree
  <2>2. CASE \E path \in DOMAIN vfs : VfsRemove(path)
    BY <1>1, <2>2, RemoveTypes DEF VfsRemove, Stored
  <2> QED BY <2>1, <2>2
<1>3. host' = host /\ last' = NoCall BY DEF VfsClear, VfsRemove, Return
<1>4. Stored(lists)' BY <1>1, <1>2, <1>3 DEF Stored
<1>5. GivenPaths' BY <1>3 DEF GivenPaths, NoCall
<1> QED BY <1>3, <1>4, <1>5

\* compresses in the virtual file system,
LEMMA RunCompressTypes ==
  ASSUME WasmInv,
         NEW inputs \in Inputs, NEW output \in Outputs, NEW flag \in Flags,
         RunCompress(inputs, output, flag)
  PROVE  (\E lists : Stored(lists)') /\ GivenPaths' /\ host' = host
<1>1. PICK lists : Stored(lists) BY DEF WasmInv
<1>2. inputs \in Seq(Paths) /\ output \in Paths /\ flag \in Seq(Extensions) BY WasmOpsAssumption
<1>3. host' = host BY DEF RunCompress
<1>4. CASE vfs' = vfs /\ last' = [op |-> "compress", ok |-> FALSE]
  <2>1. Stored(lists)' BY <1>1, <1>3, <1>4 DEF Stored
  <2>2. GivenPaths' BY <1>4 DEF GivenPaths
  <2> QED BY <1>3, <2>1, <2>2
<1>5. ASSUME NEW formats \in Split(output, flag), NEW entries \in Collect(vfs, inputs),
             NEW bytes, bytes = EncodeLayers(Innermost(Head(formats), entries), Tail(formats)),
             last' = Compressed("compress", formats, entries, bytes),
             vfs' \in IF bytes = {} THEN {vfs} ELSE {Put(vfs, output, FileOf(c)) : c \in bytes}
      PROVE  (\E more : Stored(more)') /\ GivenPaths'
  <2>1. IsEntries(entries, lists) BY <1>1, <1>2, CollectTypes DEF Stored
  <2>2. Head(formats) \in FormatNames /\ Tail(formats) \in Seq(FormatNames) BY <1>2, SplitTypes
  <2>3. Closed(lists) BY <1>1 DEF Stored
  <2>4. PICK more : lists \subseteq more /\ Closed(more) /\ AllBytes(bytes, more)
    BY <1>5, <2>1, <2>2, <2>3, CompressedTypes
  <2>5. IsTree(vfs, more) /\ \A h \in host : IsBytes(h.data, more) /\ h.name \in Paths
    BY <1>1, <2>4, MoreLists DEF Stored
  <2>6. IsTree(vfs', more)
    <3>1. CASE vfs' = vfs BY <2>5, <3>1
    <3>2. CASE \E c \in bytes : vfs' = Put(vfs, output, FileOf(c))
      <4>1. PICK c \in bytes : vfs' = Put(vfs, output, FileOf(c)) BY <3>2
      <4>2. IsNode(FileOf(c), more) BY <2>4, FileTyped DEF AllBytes
      <4> QED BY <1>2, <2>5, <4>1, <4>2, PutTypes
    <3> QED BY <1>5, <3>1, <3>2
  <2>7. Stored(more)' BY <1>3, <2>4, <2>5, <2>6 DEF Stored
  <2>8. GivenPaths'
    <3>1. last'.given = entries BY <1>5 DEF Compressed
    <3> QED BY <2>1, <3>1, EntriesHavePaths DEF GivenPaths
  <2> QED BY <2>7, <2>8
<1> QED BY <1>3, <1>4, <1>5 DEF RunCompress, Return

\* streams an archive of the host's files to it,
LEMMA ReturnsToHost ==
  ASSUME NEW lists, Stored(lists), NEW more, lists \subseteq more, Closed(more),
         NEW op, NEW formats, NEW files \in HostFiles, NEW output \in Streamed,
         NEW bytes, AllBytes(bytes, more),
         last' = Compressed(op, formats, files, bytes),
         host' \in IF bytes = {} THEN {host} ELSE {{[name |-> output, data |-> c]} : c \in bytes},
         vfs' = vfs
  PROVE  Stored(more)' /\ GivenPaths' /\ (host' = host \/ \E h : host' = {h})
<1>1. Closed(lists) BY DEF Stored
<1>2. \A i \in DOMAIN files : files[i].path \in Paths BY <1>1, StreamedTypes, EntriesHavePaths
<1>3. GivenPaths'
  <2>1. last'.given = files BY DEF Compressed
  <2> QED BY <1>2, <2>1 DEF GivenPaths
<1>4. IsTree(vfs', more) BY MoreLists DEF Stored
<1>5. CASE host' = host
  <2>1. \A h \in host' : IsBytes(h.data, more) /\ h.name \in Paths BY <1>5, MoreLists DEF Stored
  <2> QED BY <1>3, <1>4, <1>5, <2>1 DEF Stored
<1>6. CASE \E c \in bytes : host' = {[name |-> output, data |-> c]}
  <2>1. output \in Paths BY WasmOpsAssumption
  <2>2. \A h \in host' : IsBytes(h.data, more) /\ h.name \in Paths BY <1>6, <2>1 DEF AllBytes
  <2> QED BY <1>3, <1>4, <1>6, <2>2 DEF Stored
<1> QED BY <1>5, <1>6

\* in chunks
LEMMA RunCompressFromTypes ==
  ASSUME WasmInv,
         NEW files \in HostFiles, NEW output \in Streamed, NEW flag \in Flags,
         RunCompressFrom(files, output, flag)
  PROVE  (\E lists : Stored(lists)') /\ GivenPaths' /\ (host' = host \/ \E h : host' = {h})
<1>1. PICK lists : Stored(lists) BY DEF WasmInv
<1>2. output \in Paths /\ flag \in Seq(Extensions) BY WasmOpsAssumption
<1> DEFINE inner(first) ==
             CASE first \in {"zip", "7z", "rar"} -> {}
               [] first = "tar" -> Build("tar", files)
               [] OTHER -> IF Len(files) = 1 /\ files[1].node # Dir
                           THEN StreamEncode(first, files[1].node.data) ELSE {}
<1>3. PICK formats \in Split(output, flag) :
        \E bytes : /\ bytes = StreamLayers(inner(Head(formats)), Tail(formats))
                   /\ last' = Compressed("compress_from", formats, files, bytes)
                   /\ host' \in IF bytes = {} THEN {host}
                                ELSE {{[name |-> output, data |-> c]} : c \in bytes}
                   /\ vfs' = vfs
  BY DEF RunCompressFrom, Return
<1>4. Closed(lists) BY <1>1 DEF Stored
<1>5. IsEntries(files, lists) BY <1>4, StreamedTypes
<1>6. PICK more : /\ lists \subseteq more /\ Closed(more)
                  /\ \A fmt \in ArchiveFormats : AllBytes(Build(fmt, files), more)
  BY <1>4, <1>5, BuildTypes
<1>7. Head(formats) \in FormatNames /\ Tail(formats) \in Seq(FormatNames) BY <1>2, SplitTypes
<1>8. AllBytes(inner(Head(formats)), more)
  <2> DEFINE first == Head(formats)
  <2>0. inner(first) = CASE first \in {"zip", "7z", "rar"} -> {}
                         [] first = "tar" -> Build("tar", files)
                         [] OTHER -> IF Len(files) = 1 /\ files[1].node # Dir
                                     THEN StreamEncode(first, files[1].node.data) ELSE {}
    OBVIOUS
  <2>1. AllBytes({}, more) BY DEF AllBytes
  <2>2. AllBytes(Build("tar", files), more) BY <1>6 DEF ArchiveFormats
  <2>3. ASSUME Len(files) = 1, files[1].node # Dir
        PROVE  AllBytes(StreamEncode(first, files[1].node.data), more)
    <3>1. IsBytes(files[1].node.data, lists) BY <1>4, <1>7, <2>3, StreamedTypes
    <3>2. IsBytes(files[1].node.data, more) BY <1>6, <3>1, MoreLists
    <3> QED BY <1>7, <3>2, CodecTypes DEF AllBytes
  <2>4. \/ inner(first) = {} \/ inner(first) = Build("tar", files)
        \/ /\ Len(files) = 1 /\ files[1].node # Dir
           /\ inner(first) = StreamEncode(first, files[1].node.data)
    BY <2>0
  <2> HIDE DEF inner
  <2>5. AllBytes(inner(first), more) BY <2>1, <2>2, <2>3, <2>4
  <2> QED BY <2>5
<1>9. AllBytes(StreamLayers(inner(Head(formats)), Tail(formats)), more)
  <2> HIDE DEF inner
  <2> QED BY <1>7, <1>8, LayersTypes
<1> QED BY <1>1, <1>3, <1>6, <1>9, ReturnsToHost

\* or into a file,
LEMMA RunCompressToSinkTypes ==
  ASSUME WasmInv,
         NEW files \in HostFiles, NEW output \in Streamed, NEW flag \in Flags,
         RunCompressToSink(files, output, flag)
  PROVE  (\E lists : Stored(lists)') /\ GivenPaths' /\ (host' = host \/ \E h : host' = {h})
<1>1. PICK lists : Stored(lists) BY DEF WasmInv
<1>2. PICK formats \in Split(output, flag) :
        \E bytes : /\ bytes = IF Len(formats) = 1 /\ formats[1] \in {"zip", "7z"}
                              THEN Build(formats[1], files) ELSE {}
                   /\ last' = Compressed("compress_to_sink", formats, files, bytes)
                   /\ host' \in IF bytes = {} THEN {host}
                                ELSE {{[name |-> output, data |-> c]} : c \in bytes}
                   /\ vfs' = vfs
  BY DEF RunCompressToSink, Return
<1>3. Closed(lists) BY <1>1 DEF Stored
<1>4. IsEntries(files, lists) BY <1>3, StreamedTypes
<1>5. PICK more : /\ lists \subseteq more /\ Closed(more)
                  /\ \A fmt \in ArchiveFormats : AllBytes(Build(fmt, files), more)
  BY <1>3, <1>4, BuildTypes
<1>6. AllBytes(IF Len(formats) = 1 /\ formats[1] \in {"zip", "7z"}
               THEN Build(formats[1], files) ELSE {}, more)
  <2>1. AllBytes({}, more) BY DEF AllBytes
  <2>2. {"zip", "7z"} \subseteq ArchiveFormats BY DEF ArchiveFormats
  <2> QED BY <1>5, <2>1, <2>2
<1> QED BY <1>1, <1>2, <1>5, <1>6, ReturnsToHost

\* What a call that decompresses leaves is what DecompressAll gives,
LEMMA RunDecompressFacts ==
  ASSUME NEW lists, Stored(lists),
         NEW paths \in Archives, NEW dir \in OutputDirs, NEW overwrite \in BOOLEAN, NEW flag \in Flags,
         RunDecompress(paths, dir, overwrite, flag)
  PROVE  \E end : /\ Running(end, vfs, overwrite, lists) /\ vfs' = end.fs /\ host' = host
                  /\ last' = [op |-> "decompress", ok |-> end.ok, overwrite |-> overwrite,
                              outputs |-> IF end.ok THEN end.outputs ELSE {}]
<1> DEFINE start == [fs |-> vfs, outputs |-> {}, ok |-> TRUE]
           end == DecompressAll(start, paths, dir, overwrite, flag)
<1>1. /\ paths \in Seq(Paths) /\ dir \in Seq(Names) /\ flag \in Seq(Extensions)
  BY WasmOpsAssumption
<1>2. IsTree(vfs, lists) /\ <<>> \in lists /\ \A es \in lists : IsMembers(es, lists)
  BY DEF Stored, Closed
<1>3. Running(start, vfs, overwrite, lists) BY <1>2, StartRuns
<1>4. /\ vfs' = end.fs /\ host' = host
      /\ last' = [op |-> "decompress", ok |-> end.ok, overwrite |-> overwrite,
                  outputs |-> IF end.ok THEN end.outputs ELSE {}]
  BY DEF RunDecompress, Return
<1> HIDE DEF start
<1>5. Running(end, vfs, overwrite, lists) BY <1>1, <1>2, <1>3, DecompressAllRuns
<1> HIDE DEF end
<1> QED BY <1>4, <1>5

\* so it keeps what is stored typed, too.
LEMMA RunDecompressTypes ==
  ASSUME WasmInv,
         NEW paths \in Archives, NEW dir \in OutputDirs, NEW overwrite \in BOOLEAN, NEW flag \in Flags,
         RunDecompress(paths, dir, overwrite, flag)
  PROVE  (\E lists : Stored(lists)') /\ GivenPaths' /\ host' = host
<1>1. PICK lists : Stored(lists) BY DEF WasmInv
<1>2. PICK end : /\ Running(end, vfs, overwrite, lists) /\ vfs' = end.fs /\ host' = host
                 /\ last' = [op |-> "decompress", ok |-> end.ok, overwrite |-> overwrite,
                             outputs |-> IF end.ok THEN end.outputs ELSE {}]
  BY <1>1, RunDecompressFacts
<1>3. Stored(lists)' BY <1>1, <1>2 DEF Stored, Running
<1>4. GivenPaths'
  <2>1. DOMAIN last' = {"op", "ok", "overwrite", "outputs"} BY <1>2
  <2> QED BY <2>1 DEF GivenPaths
<1> QED BY <1>2, <1>3, <1>4

\* A call that decompresses keeps what it may not replace, and reports the rest.
LEMMA RunDecompressKeeps ==
  ASSUME WasmInv,
         NEW paths \in Archives, NEW dir \in OutputDirs, NEW overwrite \in BOOLEAN, NEW flag \in Flags,
         RunDecompress(paths, dir, overwrite, flag)
  PROVE  /\ ~last'.overwrite => \A p \in DOMAIN vfs : p \in DOMAIN vfs' /\ vfs'[p] = vfs[p]
         /\ last'.ok =>
              /\ \A p \in DOMAIN vfs' :
                   (p \in DOMAIN vfs => vfs'[p] # vfs[p]) =>
                     \E o \in last'.outputs :
                       \/ o.path = p /\ o.kind = vfs'[p].kind
                       \/ o.kind = "dir" /\ vfs'[p] = Dir /\ IsPrefix(p, o.path)
              /\ \A o \in last'.outputs : o.path \in DOMAIN vfs'
<1>1. PICK lists : Stored(lists) BY DEF WasmInv
<1>2. PICK end : /\ Running(end, vfs, overwrite, lists) /\ vfs' = end.fs /\ host' = host
                 /\ last' = [op |-> "decompress", ok |-> end.ok, overwrite |-> overwrite,
                             outputs |-> IF end.ok THEN end.outputs ELSE {}]
  BY <1>1, RunDecompressFacts
<1>3. /\ last'.overwrite = overwrite /\ last'.ok = end.ok
      /\ last'.outputs = IF end.ok THEN end.outputs ELSE {}
  BY <1>2
<1>4. end.ok \in BOOLEAN BY <1>2 DEF Running
<1>5. ~overwrite => \A p \in DOMAIN vfs : p \in DOMAIN vfs' /\ vfs'[p] = vfs[p]
  BY <1>2 DEF Running
<1>6. ASSUME end.ok
      PROVE  /\ \A p \in DOMAIN vfs' :
                  (p \in DOMAIN vfs => vfs'[p] # vfs[p]) =>
                    \E o \in last'.outputs :
                      \/ o.path = p /\ o.kind = vfs'[p].kind
                      \/ o.kind = "dir" /\ vfs'[p] = Dir /\ IsPrefix(p, o.path)
             /\ \A o \in last'.outputs : o.path \in DOMAIN vfs'
  <2>1. last'.outputs = end.outputs BY <1>3, <1>6
  <2>2. \A p \in DOMAIN end.fs : (p \in DOMAIN vfs => end.fs[p] # vfs[p]) => Reported(end, p)
    BY <1>2 DEF Running
  <2>3. \A o \in end.outputs : o.path \in DOMAIN end.fs BY <1>2 DEF Running
  <2> QED BY <1>2, <2>1, <2>2, <2>3 DEF Reported
<1> QED BY <1>3, <1>5, <1>6

\* Of the other calls none is a decompression.
LEMMA OtherCalls ==
  ASSUME Next, last'.op = "decompress"
  PROVE  \E paths \in Archives : \E dir \in OutputDirs : \E overwrite \in BOOLEAN : \E flag \in Flags :
           RunDecompress(paths, dir, overwrite, flag)
<1>1. ASSUME NEW path, NEW c, WriteFile(path, c) PROVE FALSE BY <1>1 DEF WriteFile, Return, NoCall
<1>2. ASSUME VfsClear \/ \E path \in DOMAIN vfs : VfsRemove(path) PROVE FALSE
  BY <1>2 DEF VfsClear, VfsRemove, Return, NoCall
<1>3. ASSUME NEW inputs, NEW output, NEW flag, RunCompress(inputs, output, flag) PROVE FALSE
  BY <1>3 DEF RunCompress, Return, Compressed
<1>4. ASSUME NEW files, NEW output, NEW flag, RunCompressFrom(files, output, flag) PROVE FALSE
  BY <1>4 DEF RunCompressFrom, Return, Compressed
<1>5. ASSUME NEW files, NEW output, NEW flag, RunCompressToSink(files, output, flag) PROVE FALSE
  BY <1>5 DEF RunCompressToSink, Return, Compressed
<1> QED BY <1>1, <1>2, <1>3, <1>4, <1>5 DEF Next

\* The invariant is inductive.
LEMMA NextTyped == WasmInv /\ [Next]_vars => WasmInv'
<1> SUFFICES ASSUME WasmInv, [Next]_vars PROVE WasmInv' OBVIOUS
<1>1. CASE UNCHANGED vars
  <2>1. PICK lists : Stored(lists) BY DEF WasmInv
  <2>2. Stored(lists)' BY <1>1, <2>1 DEF Stored, vars
  <2>3. GivenPaths' /\ calls' \in 0..MaxCalls /\ (host' = {} \/ \E h : host' = {h})
    BY <1>1 DEF WasmInv, GivenPaths, vars
  <2> QED BY <2>2, <2>3 DEF WasmInv
<1>2. CASE Next
  <2>1. calls' \in 0..MaxCalls
    <3>1. calls < MaxCalls /\ calls' = calls + 1
      BY <1>2 DEF Next, WriteFile, VfsRemove, VfsClear, RunCompress, RunCompressFrom,
                  RunCompressToSink, RunDecompress, Return
    <3> QED BY <3>1, WasmOpsAssumption DEF WasmInv
  <2>2. (\E lists : Stored(lists)') /\ GivenPaths' /\ (host' = host \/ \E h : host' = {h})
    <3>1. ASSUME NEW path \in Outputs \cup Streamed,
                 NEW c \in {Plain(d) : d \in Data} \cup {h.data : h \in host}, WriteFile(path, c)
          PROVE  (\E lists : Stored(lists)') /\ GivenPaths' /\ host' = host
      BY <3>1, WriteFileTypes
    <3>2. ASSUME VfsClear \/ \E path \in DOMAIN vfs : VfsRemove(path)
          PROVE  (\E lists : Stored(lists)') /\ GivenPaths' /\ host' = host
      BY <3>2, RemoveCallTypes
    <3>3. ASSUME NEW inputs \in Inputs, NEW output \in Outputs, NEW flag \in Flags,
                 RunCompress(inputs, output, flag)
          PROVE  (\E lists : Stored(lists)') /\ GivenPaths' /\ host' = host
      BY <3>3, RunCompressTypes
    <3>4. ASSUME NEW files \in HostFiles, NEW output \in Streamed, NEW flag \in Flags,
                 RunCompressFrom(files, output, flag) \/ RunCompressToSink(files, output, flag)
          PROVE  (\E lists : Stored(lists)') /\ GivenPaths' /\ (host' = host \/ \E h : host' = {h})
      BY <3>4, RunCompressFromTypes, RunCompressToSinkTypes
    <3>5. ASSUME NEW paths \in Archives, NEW dir \in OutputDirs, NEW overwrite \in BOOLEAN,
                 NEW flag \in Flags, RunDecompress(paths, dir, overwrite, flag)
          PROVE  (\E lists : Stored(lists)') /\ GivenPaths' /\ host' = host
      BY <3>5, RunDecompressTypes
    <3> QED BY <1>2, <3>1, <3>2, <3>3, <3>4, <3>5 DEF Next
  <2>3. host' = {} \/ \E h : host' = {h} BY <2>2 DEF WasmInv
  <2> QED BY <2>1, <2>2, <2>3 DEF WasmInv
<1> QED BY <1>1, <1>2

\* Every name that is stored is typed, and every archive has the entries of one that
\* was built, at every moment of every behaviour.
THEOREM WasmInvAlways == Spec => []WasmInv
<1>1. WasmInv /\ [Next]_vars => WasmInv' BY NextTyped
<1> QED BY <1>1, InitTyped, PTL DEF Spec

\* The paths in the virtual file system and in archives are lists of names.
THEOREM WasmTypeCorrect == Spec => []TypeOK
<1>1. WasmInv => TypeOK
  <2> SUFFICES ASSUME WasmInv PROVE TypeOK OBVIOUS
  <2>1. PICK lists : Stored(lists) BY DEF WasmInv
  <2>2. \A p \in DOMAIN vfs : p \in Paths /\ vfs[p].kind \in {"file", "dir", "symlink"}
    <3> SUFFICES ASSUME NEW p \in DOMAIN vfs
                 PROVE  p \in Paths /\ vfs[p].kind \in {"file", "dir", "symlink"}
      OBVIOUS
    <3>1. p \in Paths /\ IsNode(vfs[p], lists) /\ <<>> \in lists
      BY <2>1 DEF Stored, IsTree, Closed
    <3> QED BY <3>1, NodeFacts
  <2>3. Cardinality(host) <= 1
    <3>1. CASE host = {} BY <3>1, FS_EmptySet
    <3>2. ASSUME NEW h, host = {h} PROVE Cardinality(host) <= 1
      <4>1. Cardinality({h}) = 1 BY FS_Singleton
      <4> QED BY <3>2, <4>1
    <3> QED BY <3>1, <3>2 DEF WasmInv
  <2> QED BY <2>2, <2>3 DEF WasmInv, TypeOK, GivenPaths
<1> QED BY <1>1, WasmInvAlways, PTL

\* Decompression replaces nothing it was not asked to, also when it fails.
THEOREM OverwriteCorrect == Spec => NeverOverwritesUnasked
<1>1. ASSUME WasmInv, [Next]_vars
      PROVE  [last'.op = "decompress" /\ ~last'.overwrite =>
                \A p \in DOMAIN vfs : p \in DOMAIN vfs' /\ vfs'[p] = vfs[p]]_vars
  <2>1. CASE UNCHANGED vars BY <2>1
  <2>2. CASE Next BY <1>1, <2>2, OtherCalls, RunDecompressKeeps
  <2> QED BY <1>1, <2>1, <2>2
<1> QED BY <1>1, WasmInvAlways, PTL DEF Spec, NeverOverwritesUnasked

\* A successful decompression reports all that it changed, and nothing else.
THEOREM ReportCorrect == Spec => ReportsWhatItWrote
<1> DEFINE Reports ==
      last'.op = "decompress" /\ last'.ok =>
       /\ \A p \in DOMAIN vfs' :
            (p \in DOMAIN vfs => vfs'[p] # vfs[p]) =>
              \E o \in last'.outputs :
                \/ o.path = p /\ o.kind = vfs'[p].kind
                \/ o.kind = "dir" /\ vfs'[p] = Dir /\ IsPrefix(p, o.path)
       /\ \A o \in last'.outputs : o.path \in DOMAIN vfs'
<1>1. ASSUME WasmInv, [Next]_vars PROVE [Reports]_vars
  <2>1. CASE UNCHANGED vars BY <2>1
  <2>2. CASE Next /\ last'.op = "decompress" /\ last'.ok
    <3>1. PICK paths \in Archives : \E dir \in OutputDirs : \E overwrite \in BOOLEAN : \E flag \in Flags :
             RunDecompress(paths, dir, overwrite, flag)
      BY <2>2, OtherCalls
    <3>2. PICK dir \in OutputDirs : \E overwrite \in BOOLEAN : \E flag \in Flags :
             RunDecompress(paths, dir, overwrite, flag)
      BY <3>1
    <3>3. PICK overwrite \in BOOLEAN : \E flag \in Flags : RunDecompress(paths, dir, overwrite, flag)
      BY <3>2
    <3>4. PICK flag \in Flags : RunDecompress(paths, dir, overwrite, flag) BY <3>3
    <3>5. Reports BY <1>1, <2>2, <3>4, RunDecompressKeeps
    <3> QED BY <3>5
  <2> QED BY <1>1, <2>1, <2>2
<1> QED BY <1>1, WasmInvAlways, PTL DEF Spec, ReportsWhatItWrote

-----------------------------------------------------------------------------
(* Reads                                                                   *)

\* Without layers the bytes are what is decoded.
LEMMA DecodeNothing ==
  ASSUME NEW c PROVE DecodeLayers({c}, <<>>) = {c}
<1> DEFINE none == <<>>
<1>1. none \in Seq(FormatNames) /\ Len(none) = 0 BY EmptySeq
<1> HIDE DEF none
<1>2. Reverse(none) \in Seq(FormatNames) /\ Len(Reverse(none)) = 0 BY <1>1, ReverseFacts
<1>3. Len(Reverse(none)) \in Nat BY <1>2
<1>4. PICK after :
        /\ after = [k \in 0..Len(Reverse(none)) |->
                      IF k = 0 THEN {c} ELSE Layer("decode", Reverse(none)[k], after[k - 1])]
        /\ Through("decode", {c}, Reverse(none)) = after[Len(Reverse(none))]
  BY <1>3, DecodeSteps, Zenon
<1>5. after[0] = {c} BY <1>2, <1>4
<1>6. DecodeLayers({c}, none) = {c} BY <1>2, <1>4, <1>5 DEF DecodeLayers
<1> QED BY <1>6 DEF none

\* The first of some places is one of them, and the only one if there is no other.
LEMMA FirstFacts ==
  ASSUME NEW es, NEW places, places \subseteq Nat
  PROVE  /\ places # {} => First(es, places) # {}
         /\ \A k \in Nat : places = {k} => First(es, places) = {BytesOf(es[k].node)}
<1>1. ASSUME places # {} PROVE First(es, places) # {}
  <2>1. \E x \in places : \A y \in places : x <= y BY <1>1, Least
  <2> QED BY <2>1 DEF First
<1>2. ASSUME NEW k \in Nat, places = {k} PROVE First(es, places) = {BytesOf(es[k].node)}
  <2>1. {j \in places : \A i \in places : j <= i} = {k} BY <1>2
  <2> QED BY <2>1 DEF First
<1> QED BY <1>1, <1>2

\* A member that is listed and stored as it is listed is found, by both readers alike.
LEMMA ListedFound ==
  ASSUME NEW lists, NEW es, IsMembers(es, lists), NEW fmt \in ArchiveFormats,
         fmt = "7z" \/ AllSafe(es), NEW i \in DOMAIN es,
         NEW entry, entry = Shown(fmt, es[i].path), Findable(fmt, es, entry)
  PROVE  EntryBytes(fmt, es, entry) # {} /\ PumpBytes(fmt, es, entry) = EntryBytes(fmt, es, entry)
<1> DEFINE places == {j \in DOMAIN es : Matches(fmt, es[j], entry)}
           shown == {j \in DOMAIN es : Shown(fmt, es[j].path) = entry}
<1>1. DOMAIN es = 1..Len(es) /\ Len(es) \in Nat
  <2>1. es \in Seq(Range(es)) BY DEF IsMembers
  <2> QED BY <2>1
<1>2. places \subseteq Nat BY <1>1
<1>3. i \in shown OBVIOUS
<1>4. IsMemberPath(es[i].path) BY DEF IsMembers
<1>5. CASE fmt = "rar"
  <2>1. PICK k \in shown : shown = {k} /\ es[k].node # Dir BY <1>5 DEF Findable
  <2>2. k = i /\ es[i].path = entry BY <1>3, <1>5, <2>1 DEF Findable
  <2>3. AllSafe(es) BY <1>5
  <2>4. entry = Normal(es[i].path) BY <1>5 DEF Shown
  <2>5. Normal(entry) = entry BY <2>2, <2>4
  <2>6. \A j \in DOMAIN es : Shown(fmt, es[j].path) = Normal(es[j].path) BY <1>5 DEF Shown
  <2>7. \A j \in DOMAIN es : Matches(fmt, es[j], entry) <=> es[j].node # Dir /\ Normal(es[j].path) = entry
    BY <1>5 DEF Matches
  <2>8. places = {i} BY <2>1, <2>2, <2>4, <2>6, <2>7
  <2>9. {j \in DOMAIN es : es[j].node # Dir /\ es[j].path = entry} = {i}
    BY <2>1, <2>2, <2>5, <2>6
  <2>10. i \in Nat BY <1>1
  <2>11. First(es, places) = {BytesOf(es[i].node)} BY <1>2, <2>8, <2>10, FirstFacts
  <2>12. EntryBytes(fmt, es, entry) = First(es, places) BY <2>3 DEF EntryBytes
  <2>13. PumpBytes(fmt, es, entry) = {BytesOf(es[i].node)} BY <1>5, <2>9 DEF PumpBytes
  <2> QED BY <2>11, <2>12, <2>13
<1>6. CASE fmt # "rar"
  <2>1. i \in places
    <3>1. CASE fmt = "7z" BY <3>1 DEF Matches, Shown
    <3>2. CASE fmt = "tar"
      <4>1. es[i].path = entry BY <1>3, <3>2 DEF Findable
      <4> QED BY <3>2, <4>1 DEF Matches
    <3>3. CASE fmt = "zip"
      <4>1. ~Refused(es[i].path) BY <3>3 DEF AllSafe
      <4>2. Normal(es[i].path) = entry BY <3>3 DEF Shown
      <4> QED BY <3>3, <4>1, <4>2 DEF Matches
    <3> QED BY <1>6, <3>1, <3>2, <3>3 DEF ArchiveFormats
  <2>2. First(es, places) # {} BY <1>2, <2>1, FirstFacts
  <2>3. EntryBytes(fmt, es, entry) = First(es, places) BY <1>6 DEF EntryBytes
  <2>4. PumpBytes(fmt, es, entry) = EntryBytes(fmt, es, entry) BY <1>6 DEF PumpBytes
  <2> QED BY <2>2, <2>3, <2>4
<1> QED BY <1>5, <1>6

\* What ReadersAgree asks of the bytes c read in formats.
AgreesOn(c, formats) ==
  LET first == Head(formats)
      seekable == first = "tar" \/ (first \in ArchiveFormats /\ Len(formats) = 1)
      OnSource(result) == IF seekable THEN result ELSE {}
      decoded == DecodeLayers({c}, Tail(formats))
      listed == List(c, formats)
  IN  /\ SeekableList(c, formats) = OnSource(listed)
      /\ \A entry \in UNION listed :
           LET read == ReadEntry(c, formats, entry)
               streamed == StreamEntry(c, formats, entry)
           IN  /\ SeekableReadEntry(c, formats, entry) = OnSource(read)
               /\ SeekableStreamEntry(c, formats, entry) = OnSource(streamed)
               /\ first # "rar" => streamed = read
               /\ (\A es \in Each(Members, first, decoded) : Findable(first, es, entry))
                    => read # {} /\ streamed = read

\* All ways to read bytes under a name agree.
LEMMA ReadsAgree ==
  ASSUME NEW lists, \A es \in lists : IsMembers(es, lists), NEW c, IsBytes(c, lists),
         NEW formats \in Seq(FormatNames) \ {<<>>},
         Head(formats) \in FormatNames, Tail(formats) \in Seq(FormatNames)
  PROVE  AgreesOn(c, formats)
<1> DEFINE first == Head(formats)
           decoded == DecodeLayers({c}, Tail(formats))
           seekable == first = "tar" \/ (first \in ArchiveFormats /\ Len(formats) = 1)
           OnSource(result) == IF seekable THEN result ELSE {}
           archives == Each(Members, first, decoded)
           Reads(entry) == UNION {EntryBytes(first, es, entry) : es \in archives}
           Pumps(entry) == UNION {PumpBytes(first, es, entry) : es \in archives}
           Single == Each(Decode, first, decoded)
           listed == Each(ListMembers, first, decoded)
<1>1. ChainReader({c}, Tail(formats)) = decoded BY ChainAgrees
<1>2. AllBytes(decoded, lists)
  <2>1. AllBytes({c}, lists) BY DEF AllBytes
  <2> QED BY <2>1, LayersTypes
<1>3. Len(formats) = 1 => decoded = {c}
  <2> SUFFICES ASSUME Len(formats) = 1 PROVE decoded = {c} OBVIOUS
  <2>1. Len(Tail(formats)) = 0 BY HeadTailProperties
  <2>2. Tail(formats) = <<>> BY <2>1, EmptySeq
  <2> QED BY <2>2, DecodeNothing
<1>4. first \in ArchiveFormats <=> first = "tar" \/ first \in {"zip", "7z", "rar"}
  BY DEF ArchiveFormats
<1>5. /\ List(c, formats) = IF first \in ArchiveFormats THEN listed ELSE {{<<>>} : data \in Single}
      /\ SeekableList(c, formats) = OnSource(List(c, formats))
  <2>1. List(c, formats) = IF first \in ArchiveFormats THEN listed ELSE {{<<>>} : data \in Single}
    BY DEF List
  <2>2. SeekableList(c, formats) =
          IF first = "tar" THEN listed
          ELSE IF first \in {"zip", "7z", "rar"} /\ Len(formats) = 1
          THEN Each(ListMembers, first, {c}) ELSE {}
    BY <1>1 DEF SeekableList
  <2> HIDE DEF first, decoded, Single
  <2> QED BY <1>3, <1>4, <2>1, <2>2
<1>6. ASSUME NEW entry
      PROVE  /\ ReadEntry(c, formats, entry) =
                  IF first \in ArchiveFormats THEN Reads(entry) ELSE Single
             /\ StreamEntry(c, formats, entry) =
                  IF first \in ArchiveFormats THEN Pumps(entry) ELSE Single
             /\ SeekableReadEntry(c, formats, entry) = OnSource(ReadEntry(c, formats, entry))
             /\ SeekableStreamEntry(c, formats, entry) = OnSource(StreamEntry(c, formats, entry))
  <2>1. ReadEntry(c, formats, entry) = IF first \in ArchiveFormats THEN Reads(entry) ELSE Single
    BY DEF ReadEntry, ReadFrom
  <2>2. StreamEntry(c, formats, entry) =
          IF first \in {"zip", "7z", "rar"} THEN Pumps(entry)
          ELSE IF first = "tar" THEN Pumps(entry) ELSE Single
    BY <1>1 DEF StreamEntry, PumpFrom
  <2>3. SeekableReadEntry(c, formats, entry) =
          IF first = "tar" THEN Reads(entry)
          ELSE IF first \in {"zip", "7z", "rar"} /\ Len(formats) = 1
          THEN UNION {EntryBytes(first, es, entry) : es \in Each(Members, first, {c})} ELSE {}
    BY <1>1 DEF SeekableReadEntry, ReadFrom
  <2>4. SeekableStreamEntry(c, formats, entry) =
          IF first = "tar" THEN Pumps(entry)
          ELSE IF first \in {"zip", "7z", "rar"} /\ Len(formats) = 1
          THEN UNION {PumpBytes(first, es, entry) : es \in Each(Members, first, {c})} ELSE {}
    BY <1>1 DEF SeekableStreamEntry, PumpFrom
  <2> HIDE DEF first, decoded, Single
  <2> QED BY <1>3, <1>4, <2>1, <2>2, <2>3, <2>4
<1>7. \A es \in archives : es \in lists /\ IsMembers(es, lists)
  <2> SUFFICES ASSUME NEW es \in archives PROVE es \in lists /\ IsMembers(es, lists) OBVIOUS
  <2> HIDE DEF decoded, first
  <2>1. PICK x \in decoded : es \in Members(first, x) BY DEF Each
  <2> QED BY <1>2, <2>1, MembersTypes
<1>8. \A entry : first # "rar" => Pumps(entry) = Reads(entry)
  <2> HIDE DEF archives, first
  <2> QED BY DEF PumpBytes
<1>9. ASSUME NEW entry \in UNION listed, first \in ArchiveFormats,
             \A es \in archives : Findable(first, es, entry)
      PROVE  Reads(entry) # {} /\ Pumps(entry) = Reads(entry)
  <2> HIDE DEF decoded, first
  <2>1. PICK names \in listed : entry \in names OBVIOUS
  <2>2. PICK x \in decoded : names \in ListMembers(first, x) BY <2>1 DEF Each
  <2>3. PICK es \in Members(first, x) :
          (first = "7z" \/ AllSafe(es)) /\ names = {Shown(first, e.path) : e \in Range(es)}
    BY <2>2 DEF ListMembers
  <2>4. PICK i \in DOMAIN es : entry = Shown(first, es[i].path) BY <2>1, <2>3 DEF Range
  <2>5. es \in archives BY <2>2, <2>3 DEF Each
  <2>6. IsMembers(es, lists) /\ Findable(first, es, entry) BY <1>7, <1>9, <2>5
  <2>7. EntryBytes(first, es, entry) # {} BY <1>9, <2>3, <2>4, <2>6, ListedFound
  <2> HIDE DEF listed
  <2>8. Reads(entry) # {}
    <3> HIDE DEF archives
    <3> QED BY <2>5, <2>7
  <2>9. Pumps(entry) = Reads(entry)
    <3>1. CASE first # "rar" BY <1>8, <3>1
    <3>2. CASE first = "rar"
      <4>1. ASSUME NEW fs \in archives PROVE PumpBytes(first, fs, entry) = EntryBytes(first, fs, entry)
        <5>1. IsMembers(fs, lists) /\ Findable(first, fs, entry) BY <1>7, <1>9
        <5>2. PICK j \in DOMAIN fs : Shown(first, fs[j].path) = entry BY <3>2, <5>1 DEF Findable
        <5>3. AllSafe(fs) BY <3>2, <5>1 DEF Findable
        <5> QED BY <1>9, <5>1, <5>2, <5>3, ListedFound
      <4> HIDE DEF archives
      <4> QED BY <4>1
    <3> QED BY <3>1, <3>2
  <2> QED BY <2>8, <2>9
<1>10. \A entry \in UNION {{<<>>} : data \in Single} : Single # {} OBVIOUS
<1> HIDE DEF Reads, Pumps, Single, listed, archives
<1>11. ASSUME NEW entry \in UNION List(c, formats)
       PROVE  LET read == ReadEntry(c, formats, entry)
                  streamed == StreamEntry(c, formats, entry)
              IN  /\ SeekableReadEntry(c, formats, entry) = OnSource(read)
                  /\ SeekableStreamEntry(c, formats, entry) = OnSource(streamed)
                  /\ first # "rar" => streamed = read
                  /\ (\A es \in archives : Findable(first, es, entry)) => read # {} /\ streamed = read
  <2> HIDE DEF first, decoded
  <2>1. CASE first \in ArchiveFormats
    <3>1. entry \in UNION listed BY <1>5, <1>11, <2>1
    <3>2. ReadEntry(c, formats, entry) = Reads(entry) /\ StreamEntry(c, formats, entry) = Pumps(entry)
      BY <1>6, <2>1
    <3> QED BY <1>6, <1>8, <1>9, <2>1, <3>1, <3>2
  <2>2. CASE first \notin ArchiveFormats
    <3>1. ReadEntry(c, formats, entry) = Single /\ StreamEntry(c, formats, entry) = Single
      BY <1>6, <2>2
    <3>2. Single # {} BY <1>5, <1>10, <1>11, <2>2
    <3> QED BY <1>6, <3>1, <3>2
  <2> QED BY <2>1, <2>2
<1> QED BY <1>5, <1>11 DEF AgreesOn, archives, first, decoded

\* Whatever the host may read, the same entries are listed, and one that is stored as
\* it is listed gives the same bytes, however it is read.
THEOREM ReadsCorrect == Spec => []ReadersAgree
<1>1. WasmInv => ReadersAgree
  <2> SUFFICES ASSUME WasmInv, NEW r \in Readable, NEW formats \in Split(r[2], <<>>)
               PROVE  AgreesOn(r[1], formats)
    BY DEF ReadersAgree, AgreesOn
  <2>1. PICK lists : Stored(lists) BY DEF WasmInv
  <2>2. IsBytes(r[1], lists) /\ r[2] \in Paths
    <3>1. CASE \E p \in DOMAIN vfs : r = <<DataOf(vfs[p]), p>>
      <4>1. PICK p \in DOMAIN vfs : r = <<DataOf(vfs[p]), p>> BY <3>1
      <4>2. p \in Paths /\ IsNode(vfs[p], lists) /\ <<>> \in lists
        BY <2>1 DEF Stored, IsTree, Closed
      <4>3. IsBytes(DataOf(vfs[p]), lists) BY <4>2, NodeFacts
      <4> QED BY <4>1, <4>2, <4>3
    <3>2. CASE \E h \in host : r = <<h.data, h.name>> BY <2>1, <3>2 DEF Stored
    <3> QED BY <3>1, <3>2 DEF Readable
  <2>3. /\ Head(formats) \in FormatNames /\ Tail(formats) \in Seq(FormatNames)
        /\ formats \in Seq(FormatNames) \ {<<>>}
    <3>1. <<>> \in Seq(Extensions) BY EmptySeq
    <3> QED BY <2>2, <3>1, SplitTypes
  <2>4. \A es \in lists : IsMembers(es, lists) BY <2>1 DEF Stored, Closed
  <2> QED BY <2>2, <2>3, <2>4, ReadsAgree
<1> QED BY <1>1, WasmInvAlways, PTL

-----------------------------------------------------------------------------
(* Round trips                                                             *)

\* No codec makes anything out of nothing.
LEMMA ThroughNothing ==
  ASSUME NEW fs \in Seq(FormatNames), NEW codec \in Uses
  PROVE  Through(codec, {}, fs) = {}
<1> DEFINE n == Len(fs)
<1>1. n \in Nat OBVIOUS
<1>2. PICK after : /\ after = [k \in 0..n |-> IF k = 0 THEN {} ELSE Layer(codec, fs[k], after[k - 1])]
                   /\ Through(codec, {}, fs) = after[n]
  BY <1>1, LayerSteps
<1> DEFINE S == {k \in 0..n : after[k] = {}}
<1>3. after[0] = {} /\ \A k \in 1..n : after[k] = Layer(codec, fs[k], after[k - 1])
  <2> HIDE DEF n
  <2>1. \A k \in 0..n : after[k] = IF k = 0 THEN {} ELSE Layer(codec, fs[k], after[k - 1]) BY <1>2
  <2> QED BY <1>1, <2>1
<1>4. 0 \in S BY <1>1, <1>3
<1>5. ASSUME NEW k \in 1..n, k - 1 \in S PROVE k \in S
  <2>1. k \in 0..n /\ after[k - 1] = {} BY <1>1, <1>5
  <2>2. Layer(codec, fs[k], {}) = {} BY DEF Layer, Each, Uses
  <2> QED BY <1>3, <2>1, <2>2
<1>6. S \subseteq 0..n OBVIOUS
<1> HIDE DEF S
<1>7. S = 0..n BY <1>1, <1>4, <1>5, <1>6, Upwards
<1>8. n \in S BY <1>1, <1>7
<1> QED BY <1>2, <1>8 DEF S

\* What the innermost step makes is read back as what was given to it.
ReadBack(first, given, x) ==
  IF first \in ArchiveFormats
  THEN \E es \in Unpack(first, x) :
         \A i \in DOMAIN given : \E j \in DOMAIN es :
           es[j].path = given[i].path /\ es[j].node = Kept(first, given[i])
  ELSE Decode(first, x) = {DataOf(given[1].node)}

\* That holds of archives
LEMMA BuildReadBack ==
  ASSUME NEW lists, Closed(lists), NEW es, IsEntries(es, lists),
         NEW fmt \in ArchiveFormats, NEW x \in Build(fmt, es)
  PROVE  Build(fmt, es) = {x} /\ ReadBack(fmt, es, x) /\ \E more : IsBytes(x, more)
<1> DEFINE kept == [i \in DOMAIN es |-> [es[i] EXCEPT !.node = In7z(@)]]
           out == IF fmt = "7z" THEN kept ELSE es
<1>1. ASSUME NEW i \in DOMAIN es
      PROVE  kept[i].path = es[i].path /\ kept[i].node = In7z(es[i].node)
  <2>1. es[i] = [path |-> es[i].path, node |-> es[i].node] BY DEF IsEntries, IsMembers
  <2> QED BY <2>1
<1>2. DOMAIN kept = DOMAIN es OBVIOUS
<1>3. Build(fmt, es) \subseteq {Archive(fmt, out)}
  BY DEF Build, BuildTar, BuildZip, Build7z, ArchiveFormats
<1> HIDE DEF kept
<1>4. x = Archive(fmt, out) BY <1>3
<1>5. Build(fmt, es) = {x} BY <1>3, <1>4
<1>10. DOMAIN out = DOMAIN es /\ \A i \in DOMAIN es : out[i].path = es[i].path /\ out[i].path \in Paths
  BY <1>1, <1>2 DEF IsEntries
<1>6. Unpack(fmt, x) = {Normalised(out)}
  <2>1. fmt # "rar" BY DEF Build
  <2>2. Members(fmt, x) = {out} BY <1>4 DEF Members, Archive
  <2>3. AllSafe(out) BY <1>10, NormalFacts DEF AllSafe
  <2> HIDE DEF out
  <2> QED BY <2>1, <2>2, <2>3 DEF Unpack
<1>7. \A i \in DOMAIN es :
        /\ i \in DOMAIN Normalised(out) /\ Normalised(out)[i].path = es[i].path
        /\ Normalised(out)[i].node = Kept(fmt, es[i])
  <2>1. \A i \in DOMAIN es : out[i].node = Kept(fmt, es[i]) BY <1>1, <1>2 DEF Kept
  <2> HIDE DEF out
  <2>2. \A i \in DOMAIN es : Normal(out[i].path) = es[i].path BY <1>10, NormalFacts
  <2> QED BY <1>10, <2>1, <2>2 DEF Normalised
<1> HIDE DEF out
<1>8. ReadBack(fmt, es, x) BY <1>6, <1>7 DEF ReadBack
<1>9. IsBytes(x, {out})
  <2>1. <<>> \in Seq(FormatNames) BY EmptySeq
  <2> QED BY <1>4, <2>1 DEF IsBytes, Archive
<1> QED BY <1>5, <1>8, <1>9

\* and of single files.
LEMMA EncodeReadBack ==
  ASSUME NEW lists, NEW es, IsBytes(DataOf(es[1].node), lists),
         NEW first \in FormatNames, first \notin ArchiveFormats,
         NEW x \in Encode(first, DataOf(es[1].node))
  PROVE  /\ Encode(first, DataOf(es[1].node)) = {x}
         /\ ReadBack(first, es, x) /\ \E more : IsBytes(x, more)
<1>1. Encode(first, DataOf(es[1].node)) = {x} /\ Decode(first, x) = {DataOf(es[1].node)}
  BY DecodesEncoded
<1>2. IsBytes(x, lists) BY CodecTypes
<1> QED BY <1>1, <1>2 DEF ReadBack

\* What the layers make of it is decoded back to it.
LEMMA WrappedReadBack ==
  ASSUME NEW given, NEW formats, Tail(formats) \in Seq(FormatNames),
         NEW inner,
         \A x \in inner : /\ inner = {x} /\ ReadBack(Head(formats), given, x)
                          /\ \E more : IsBytes(x, more),
         NEW codec \in Encoders, NEW c \in Through(codec, inner, Tail(formats))
  PROVE  Recovers(formats, given, c)
<1> DEFINE first == Head(formats)
           rest == Tail(formats)
<1>1. inner # {}
  <2>1. codec \in Uses BY DEF Uses, Encoders
  <2> QED BY <2>1, ThroughNothing
<1>2. PICK x \in inner : TRUE BY <1>1
<1>3. inner = {x} /\ ReadBack(first, given, x) BY <1>2
<1>4. PICK more : IsBytes(x, more) BY <1>2
<1>5. DecodeLayers({c}, rest) = {x}
  <2>1. c \in Through(codec, {x}, rest) BY <1>3
  <2> HIDE DEF rest
  <2> QED BY <1>4, <2>1, EncodeInverse DEF rest
<1>6. Each(Unpack, first, {x}) = Unpack(first, x) /\ Each(Decode, first, {x}) = Decode(first, x)
  BY DEF Each
<1> DEFINE unpacked == Each(Unpack, first, DecodeLayers({c}, rest))
           data == Each(Decode, first, DecodeLayers({c}, rest))
<1>7. unpacked = Unpack(first, x) /\ data = Decode(first, x) BY <1>5, <1>6
<1>8. Recovers(formats, given, c) <=>
        IF first \in ArchiveFormats
        THEN \E es \in unpacked : \A i \in DOMAIN given : \E j \in DOMAIN es :
               es[j].path = given[i].path /\ es[j].node = Kept(first, given[i])
        ELSE data = {DataOf(given[1].node)}
  BY DEF Recovers
<1> HIDE DEF unpacked, data, first
<1> QED BY <1>3, <1>7, <1>8 DEF ReadBack

\* Where a path or a flag names two formats at most, in the virtual file system.
TwoFormats ==
  \A path \in Outputs : \A flag \in Flags : \A formats \in Split(path, flag) : Len(formats) <= 2

\* What is compressed there with one layer at most decodes to what was given.
LEMMA RunCompressRecovers ==
  ASSUME WasmInv, TwoFormats,
         NEW inputs \in Inputs, NEW output \in Outputs, NEW flag \in Flags,
         RunCompress(inputs, output, flag)
  PROVE  RoundTrip'
<1>1. PICK lists : Stored(lists) BY DEF WasmInv
<1>2. inputs \in Seq(Paths) /\ output \in Paths /\ flag \in Seq(Extensions) BY WasmOpsAssumption
<1>3. CASE last' = [op |-> "compress", ok |-> FALSE] BY <1>3 DEF RoundTrip
<1>4. ASSUME NEW formats \in Split(output, flag), NEW entries \in Collect(vfs, inputs),
             NEW bytes, bytes = EncodeLayers(Innermost(Head(formats), entries), Tail(formats)),
             last' = Compressed("compress", formats, entries, bytes)
      PROVE  RoundTrip'
  <2> DEFINE first == Head(formats)
             rest == Tail(formats)
             inner == Innermost(first, entries)
  <2>1. IsEntries(entries, lists) /\ Closed(lists) BY <1>1, <1>2, CollectTypes DEF Stored
  <2>2. first \in FormatNames /\ rest \in Seq(FormatNames) /\ formats \in Seq(FormatNames) \ {<<>>}
    BY <1>2, SplitTypes
  <2>3. Reverse(rest) = rest
    <3>1. Len(formats) <= 2 BY DEF TwoFormats
    <3>2. Len(rest) \in Nat /\ Len(rest) <= 1 BY <2>2, <3>1
    <3> HIDE DEF rest
    <3>3. /\ Reverse(rest) \in Seq(FormatNames) /\ Len(Reverse(rest)) = Len(rest)
          /\ \A i \in 1..Len(rest) : Reverse(rest)[i] = rest[Len(rest) - i + 1]
      BY <2>2, ReverseFacts
    <3>4. \A i \in 1..Len(rest) : Len(rest) - i + 1 = i BY <3>2
    <3> QED BY <2>2, <3>3, <3>4, SeqEqual
  <2>4. \A x \in inner : inner = {x} /\ ReadBack(first, entries, x) /\ \E more : IsBytes(x, more)
    <3> SUFFICES ASSUME NEW x \in inner
                 PROVE  inner = {x} /\ ReadBack(first, entries, x) /\ \E more : IsBytes(x, more)
      OBVIOUS
    <3>1. CASE first \in ArchiveFormats
      <4>1. inner = Build(first, entries) BY <3>1 DEF Innermost
      <4> HIDE DEF inner, first
      <4> QED BY <2>1, <3>1, <4>1, BuildReadBack
    <3>2. CASE first \notin ArchiveFormats
      <4>1. Len(entries) = 1 /\ inner = Encode(first, DataOf(entries[1].node))
        BY <3>2 DEF Innermost
      <4>2. IsNode(entries[1].node, lists) /\ <<>> \in lists
        <5>1. 1 \in DOMAIN entries
          <6>1. entries \in Seq(Range(entries)) BY <2>1 DEF IsEntries, IsMembers
          <6> QED BY <4>1, <6>1
        <5> QED BY <2>1, <5>1 DEF IsEntries, IsMembers, Closed
      <4>3. IsBytes(DataOf(entries[1].node), lists) BY <4>2, NodeFacts
      <4> HIDE DEF inner, first
      <4> QED BY <2>2, <3>2, <4>1, <4>3, EncodeReadBack
    <3> QED BY <3>1, <3>2
  <2>5. bytes = Through("encode", inner, rest) BY <1>4, <2>3 DEF EncodeLayers
  <2>6. ASSUME NEW c \in bytes PROVE Recovers(formats, entries, c)
    <3> DEFINE codec == "encode"
    <3>1. codec \in Encoders BY DEF Encoders
    <3>2. c \in Through(codec, inner, Tail(formats)) BY <2>5
    <3> HIDE DEF codec, inner
    <3> QED BY <2>2, <2>4, <3>1, <3>2, WrappedReadBack
  <2>7. last'.bytes = bytes /\ last'.formats = formats /\ last'.given = entries
    BY <1>4 DEF Compressed
  <2> HIDE DEF inner
  <2> QED BY <2>6, <2>7 DEF RoundTrip
<1> QED BY <1>3, <1>4 DEF RunCompress, Return

\* Streamed archives decode to what was given, whatever their formats.
LEMMA RunCompressFromRecovers ==
  ASSUME WasmInv,
         NEW files \in HostFiles, NEW output \in Streamed, NEW flag \in Flags,
         RunCompressFrom(files, output, flag)
  PROVE  RoundTrip'
<1>1. PICK lists : Stored(lists) BY DEF WasmInv
<1>2. output \in Paths /\ flag \in Seq(Extensions) BY WasmOpsAssumption
<1> DEFINE inner(first) ==
             CASE first \in {"zip", "7z", "rar"} -> {}
               [] first = "tar" -> Build("tar", files)
               [] OTHER -> IF Len(files) = 1 /\ files[1].node # Dir
                           THEN StreamEncode(first, files[1].node.data) ELSE {}
<1>3. PICK formats \in Split(output, flag) :
        last' = Compressed("compress_from", formats, files,
                           StreamLayers(inner(Head(formats)), Tail(formats)))
  BY DEF RunCompressFrom, Return
<1>4. Closed(lists) BY <1>1 DEF Stored
<1>5. IsEntries(files, lists) BY <1>4, StreamedTypes
<1>6. Head(formats) \in FormatNames /\ Tail(formats) \in Seq(FormatNames) BY <1>2, SplitTypes
<1> DEFINE first == Head(formats)
           made == inner(first)
<1>7. \/ made = {}
      \/ first = "tar" /\ made = Build(first, files)
      \/ /\ first \notin ArchiveFormats /\ Len(files) = 1 /\ files[1].node # Dir
         /\ made = StreamEncode(first, files[1].node.data)
  <2>1. made = CASE first \in {"zip", "7z", "rar"} -> {}
                 [] first = "tar" -> Build("tar", files)
                 [] OTHER -> IF Len(files) = 1 /\ files[1].node # Dir
                             THEN StreamEncode(first, files[1].node.data) ELSE {}
    OBVIOUS
  <2> HIDE DEF made, first
  <2>2. CASE first \in {"zip", "7z", "rar"} BY <2>1, <2>2
  <2>3. CASE first = "tar" BY <2>1, <2>3
  <2>4. CASE first \notin {"zip", "7z", "rar"} /\ first # "tar"
    <3>1. first \notin ArchiveFormats BY <2>4 DEF ArchiveFormats
    <3>2. made = IF Len(files) = 1 /\ files[1].node # Dir
                 THEN StreamEncode(first, files[1].node.data) ELSE {}
      BY <2>1, <2>4
    <3> QED BY <3>1, <3>2
  <2> QED BY <2>2, <2>3, <2>4
<1>8. first = "tar" => first \in ArchiveFormats BY DEF ArchiveFormats
<1> HIDE DEF made
<1>9. ASSUME NEW x \in made
      PROVE  made = {x} /\ ReadBack(first, files, x) /\ \E more : IsBytes(x, more)
  <2>1. CASE first = "tar" /\ made = Build(first, files)
    <3> HIDE DEF first
    <3> QED BY <1>4, <1>5, <1>8, <2>1, BuildReadBack
  <2>2. CASE /\ first \notin ArchiveFormats /\ Len(files) = 1 /\ files[1].node # Dir
             /\ made = StreamEncode(first, files[1].node.data)
    <3>1. IsBytes(files[1].node.data, lists) /\ DataOf(files[1].node) = files[1].node.data
      BY <1>4, <1>6, <2>2, StreamedTypes
    <3>2. made = Encode(first, DataOf(files[1].node)) BY <1>9, <2>2, <3>1 DEF StreamEncode
    <3>3. first \in FormatNames BY <1>6
    <3> HIDE DEF first
    <3> QED BY <2>2, <3>1, <3>2, <3>3, EncodeReadBack
  <2> QED BY <1>7, <1>9, <2>1, <2>2
<1>10. last'.formats = formats /\ last'.given = files /\ last'.bytes = StreamLayers(made, Tail(formats))
  BY <1>3 DEF Compressed, made
<1>11. ASSUME NEW c \in last'.bytes PROVE Recovers(formats, files, c)
  <2> DEFINE codec == "stream"
  <2>1. codec \in Encoders BY DEF Encoders
  <2>2. c \in Through(codec, made, Tail(formats)) BY <1>10, <1>11 DEF StreamLayers
  <2> HIDE DEF codec
  <2> QED BY <1>6, <1>9, <2>1, <2>2, WrappedReadBack
<1> QED BY <1>10, <1>11 DEF RoundTrip

\* Nor is there any layer around an archive written into a file.
LEMMA RunCompressToSinkRecovers ==
  ASSUME WasmInv,
         NEW files \in HostFiles, NEW output \in Streamed, NEW flag \in Flags,
         RunCompressToSink(files, output, flag)
  PROVE  RoundTrip'
<1>1. PICK lists : Stored(lists) BY DEF WasmInv
<1>2. output \in Paths /\ flag \in Seq(Extensions) BY WasmOpsAssumption
<1>3. PICK formats \in Split(output, flag) :
        last' = Compressed("compress_to_sink", formats, files,
                           IF Len(formats) = 1 /\ formats[1] \in {"zip", "7z"}
                           THEN Build(formats[1], files) ELSE {})
  BY DEF RunCompressToSink, Return
<1>4. IsEntries(files, lists) /\ Closed(lists) BY <1>1, StreamedTypes DEF Stored
<1>5. /\ Head(formats) \in FormatNames /\ Tail(formats) \in Seq(FormatNames)
      /\ formats \in Seq(FormatNames) \ {<<>>}
  BY <1>2, SplitTypes
<1> DEFINE first == Head(formats)
           made == IF Len(formats) = 1 /\ formats[1] \in {"zip", "7z"}
                   THEN Build(formats[1], files) ELSE {}
<1>6. last'.formats = formats /\ last'.given = files /\ last'.bytes = made
  BY <1>3 DEF Compressed
<1>7. ASSUME NEW c \in made PROVE Recovers(formats, files, c)
  <2>1. /\ Len(formats) = 1 /\ formats[1] \in {"zip", "7z"} /\ c \in Build(formats[1], files)
    BY <1>7
  <2>2. first = formats[1] /\ Tail(formats) = <<>>
    <3>1. Len(formats) = 1 /\ formats \in Seq(FormatNames) BY <1>5, <2>1
    <3>2. Tail(formats) \in Seq(FormatNames) /\ Len(Tail(formats)) = 0
      BY <1>5, <3>1, HeadTailProperties
    <3>3. Tail(formats) = <<>> BY <3>2, EmptySeq
    <3>4. Head(formats) = formats[1] BY <3>1
    <3> QED BY <3>3, <3>4
  <2>3. first \in ArchiveFormats BY <2>1, <2>2 DEF ArchiveFormats
  <2> HIDE DEF made, first
  <2>4. Build(first, files) = {c} /\ ReadBack(first, files, c) /\ \E more : IsBytes(c, more)
    BY <1>4, <2>1, <2>2, <2>3, BuildReadBack
  <2>5. DecodeLayers({c}, <<>>) = {c} BY DecodeNothing
  <2>6. Each(Unpack, first, {c}) = Unpack(first, c) BY DEF Each
  <2>7. DecodeLayers({c}, Tail(formats)) = {c} BY <2>2, <2>5
  <2> QED BY <2>3, <2>4, <2>6, <2>7 DEF Recovers, ReadBack, first
<1> HIDE DEF made
<1> QED BY <1>6, <1>7 DEF RoundTrip

\* What a compression returns, or streams to the host, is read back as what it was
\* given: in the virtual file system, when its name or flag has two formats at most
\* (with more, the order of the layers is wrong); on the host's side, always.
THEOREM RoundTripCorrect ==
  ASSUME TwoFormats PROVE Spec => []RoundTrip
<1>1. Init => RoundTrip BY DEF Init, NoCall, RoundTrip
<1>2. WasmInv /\ RoundTrip /\ [Next]_vars => RoundTrip'
  <2> SUFFICES ASSUME WasmInv, RoundTrip, [Next]_vars PROVE RoundTrip' OBVIOUS
  <2>1. CASE UNCHANGED vars BY <2>1 DEF RoundTrip, vars
  <2>2. CASE Next
    <3>1. ASSUME last' = NoCall PROVE RoundTrip' BY <3>1 DEF RoundTrip, NoCall
    <3>2. ASSUME NEW path, NEW c, WriteFile(path, c) PROVE RoundTrip'
      BY <3>1, <3>2 DEF WriteFile, Return
    <3>3. ASSUME VfsClear \/ \E path \in DOMAIN vfs : VfsRemove(path) PROVE RoundTrip'
      BY <3>1, <3>3 DEF VfsClear, VfsRemove, Return
    <3>4. ASSUME NEW paths, NEW dir, NEW overwrite, NEW flag, RunDecompress(paths, dir, overwrite, flag)
          PROVE  RoundTrip'
      <4>1. DOMAIN last' = {"op", "ok", "overwrite", "outputs"} BY <3>4 DEF RunDecompress, Return
      <4> QED BY <4>1 DEF RoundTrip
    <3> QED BY <2>2, <3>2, <3>3, <3>4, RunCompressRecovers, RunCompressFromRecovers,
               RunCompressToSinkRecovers DEF Next
  <2> QED BY <2>1, <2>2
<1> QED BY <1>1, <1>2, WasmInvAlways, PTL DEF Spec
=============================================================================
