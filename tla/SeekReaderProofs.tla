-------------------------- MODULE SeekReaderProofs --------------------------
(***************************************************************************)
(* Proofs about SeekReader for every source, buffer size, read length and  *)
(* seek.  What a reader delivers is right until a read strays; that none   *)
(* does is proved of sources that fit a usize and of parsers whose reads   *)
(* are shorter than the buffer.                                            *)
(***************************************************************************)
EXTENDS SeekReader, TLAPS, SequenceTheorems

\* A remainder that does nothing.
LEMMA SmallRemainder ==
  ASSUME NEW a \in Nat, NEW m \in Nat \ {0}, a < m
  PROVE  a % m = a
  BY SMT

\* What Bytes returns, and a piece of it.
LEMMA BytesFacts ==
  ASSUME NEW from \in Nat, NEW n \in Nat
  PROVE  /\ Bytes(from, n) \in Seq(Nat)
         /\ Len(Bytes(from, n)) = n
         /\ \A k \in 1..n : Bytes(from, n)[k] = from + k - 1
  BY DEF Bytes

\* A piece of a run of bytes is a run of bytes.
LEMMA BytesPiece ==
  ASSUME NEW from \in Nat, NEW n \in Nat, NEW a \in Nat, NEW c \in Nat, a + c <= n
  PROVE  SubSeq(Bytes(from, n), a + 1, a + c) = Bytes(from + a, c)
  BY DEF Bytes

\* So is a beginning of it.
LEMMA BytesPrefix ==
  ASSUME NEW from \in Nat, NEW n \in Nat, NEW c \in Nat, c <= n
  PROVE  SubSeq(Bytes(from, n), 1, c) = Bytes(from, c)
  BY DEF Bytes

-----------------------------------------------------------------------------

\* Nothing ahead of the position has been pulled but what is in the buffer,
\* and the buffer, never longer than BufferSize, never starts after the position.
AheadIsBuffered ==
  /\ bufStart <= pos
  /\ Len(buf) <= BufferSize
  /\ \A b \in pulled : b < pos \/ b < bufStart + Len(buf)

Inv == TypeOK /\ BufferIsSource /\ DeliversThePosition /\ RequestsInside /\ AheadIsBuffered

\* What a step that reads n bytes at the position does to the variables.
LEMMA DeliverFacts ==
  ASSUME TypeOK, NEW n \in Nat, pos + n <= Size, Deliver(Bytes(pos, n))
  PROVE  /\ got' = Bytes(pos, n)
         /\ got' \in Seq(Nat)
         /\ pos' = pos + n
         /\ pos' \in Nat /\ pos' <= Size
         /\ lastEnd' \in Nat
         /\ DeliversThePosition'
<1> DEFINE bytes == Bytes(pos, n)
<1>1. pos \in Nat /\ Size \in Nat BY SeekReaderAssumption DEF TypeOK
<1>2. bytes \in Seq(Nat) /\ Len(bytes) = n BY <1>1, BytesFacts
<1>3. got' = bytes /\ pos' = pos + Len(bytes) BY DEF Deliver
<1>4. lastEnd' = IF bytes = <<>> THEN lastEnd ELSE pos + Len(bytes) BY DEF Deliver
<1> HIDE DEF bytes
<1>6. lastEnd' \in Nat BY <1>1, <1>2, <1>4 DEF TypeOK
<1>8. pos' = pos + n BY <1>2, <1>3
<1>9. pos' \in Nat /\ pos' <= Size BY <1>1, <1>8 DEF TypeOK
<1>10. pos' - Len(got') = pos BY <1>1, <1>2, <1>3
<1>11. Len(got') = n BY <1>2, <1>3
<1>12. DeliversThePosition' BY <1>3, <1>10, <1>11 DEF DeliversThePosition, bytes
<1> QED BY <1>2, <1>3, <1>6, <1>8, <1>9, <1>12 DEF bytes

\* A read that is not served from the buffer is past its end.
LEMMA NotInBuffer ==
  ASSUME Inv, ~InBuffer
  PROVE  bufStart + Len(buf) <= pos
<1> DEFINE far == pos - bufStart
<1>1. /\ pos \in Nat /\ bufStart \in Nat /\ far \in Nat /\ Len(buf) \in Nat
      /\ Len(buf) <= BufferSize /\ BufferSize \in Nat /\ UsizeValues \in Nat \ {0}
      /\ BufferSize < UsizeValues
  BY SeekReaderAssumption DEF Inv, TypeOK, AheadIsBuffered
<1>2. CASE far < UsizeValues
  <2>1. Off = far BY <1>1, <1>2, SmallRemainder DEF Off
  <2> QED BY <1>1, <2>1 DEF InBuffer
<1>3. CASE ~(far < UsizeValues) BY <1>1, <1>3
<1> QED BY <1>2, <1>3

\* A buffered read delivers some of the buffer's bytes, and unless it strays
\* those of the source at the position.
LEMMA BufferedFacts ==
  ASSUME Inv, NEW len \in Nat, ReadBuffered(len)
  PROVE  /\ got' \in Seq(Nat) /\ Len(got') \in 1..len
         /\ pos' = pos + Len(got') /\ lastEnd' = pos'
         /\ ~strayed' => \E n \in Nat \ {0} :
              pos + n <= bufStart + Len(buf) /\ Deliver(Bytes(pos, n))
<1> DEFINE o == Off
           m == Least(len, Len(buf) - o)
           piece == SubSeq(buf, o + 1, o + m)
<1>1. /\ pos \in Nat /\ bufStart \in Nat /\ Size \in Nat /\ len > 0 /\ bufStart <= pos
      /\ buf \in Seq(Nat) /\ Len(buf) \in Nat /\ UsizeValues \in Nat \ {0}
      /\ pos - bufStart \in Nat /\ BufferSize \in Nat \ {0} /\ 2 * BufferSize <= UsizeValues
  BY SeekReaderAssumption DEF Inv, TypeOK, AheadIsBuffered, ReadBuffered
<1>2. o \in Nat /\ o < Len(buf) BY <1>1 DEF ReadBuffered, InBuffer, Off
<1>3. Deliver(piece) BY DEF ReadBuffered
<1> HIDE DEF o
<1>4. m \in Nat \ {0} /\ m <= len /\ o + m <= Len(buf) BY <1>1, <1>2 DEF Least
<1> HIDE DEF m
<1>5. piece \in Seq(Nat) /\ Len(piece) = m BY <1>1, <1>2, <1>4
<1>6. got' = piece /\ pos' = pos + Len(piece) /\ lastEnd' = pos + Len(piece)
  BY <1>3, <1>4, <1>5 DEF Deliver
<1>7. ASSUME ~strayed' PROVE pos + m <= bufStart + Len(buf) /\ Deliver(Bytes(pos, m))
  <2>0. strayed' = (strayed \/ pos - bufStart >= UsizeValues) BY DEF ReadBuffered
  <2>1. ~(pos - bufStart >= UsizeValues) BY <1>7, <2>0, Zenon
  <2>2. o = pos - bufStart
    <3> DEFINE far == pos - bufStart
    <3>1. far \in Nat /\ far < UsizeValues BY <1>1, <2>1
    <3> HIDE DEF far
    <3>2. far % UsizeValues = far BY <1>1, <3>1, SmallRemainder
    <3> QED BY <3>2 DEF o, Off, far
  <2>3. buf = Bytes(bufStart, Len(buf)) BY DEF Inv, BufferIsSource
  <2>4. \A a, c \in Nat : a + c <= Len(buf) =>
          SubSeq(Bytes(bufStart, Len(buf)), a + 1, a + c) = Bytes(bufStart + a, c)
    BY <1>1, BytesPiece
  <2>5. piece = Bytes(bufStart + o, m) BY <1>2, <1>4, <2>3, <2>4
  <2>6. bufStart + o = pos BY <1>1, <2>2
  <2>7. Deliver(Bytes(pos, m)) BY <1>3, <2>5, <2>6
  <2>8. pos + m <= bufStart + Len(buf)
    <3> DEFINE held == Len(buf)
    <3>1. held \in Nat /\ o + m <= held BY <1>1, <1>4
    <3> HIDE DEF held
    <3>2. pos + m <= bufStart + held BY <1>1, <1>2, <1>4, <2>6, <3>1
    <3> QED BY <3>2 DEF held
  <2> QED BY <2>7, <2>8
<1>8. Len(got') \in 1..len BY <1>1, <1>4, <1>5, <1>6
<1> QED BY <1>4, <1>5, <1>6, <1>7, <1>8

\* What refill pulls, and that the read delivers the beginning of it.
LEMMA RefillFacts ==
  ASSUME Inv, NEW len \in Nat, ReadRefill(len)
  PROVE  \E n, m \in Nat :
           /\ n <= m
           /\ m <= BufferSize
           /\ pos + m <= Size
           /\ (Honest => n # 0)
           /\ buf' = Bytes(pos, m)
           /\ bufStart' = pos
           /\ Deliver(Bytes(pos, n))
           /\ Pull(Bytes(pos, m))
<1> DEFINE want == Least(BufferSize, Size - pos)
<1>1. pos \in Nat /\ Size \in Nat /\ pos < Size /\ len > 0 /\ BufferSize \in Nat \ {0}
  BY SeekReaderAssumption DEF Inv, TypeOK, ReadRefill
<1>2. PICK bytes \in Replies(pos, want) :
        /\ buf' = bytes
        /\ bufStart' = pos
        /\ Deliver(SubSeq(bytes, 1, Least(len, Len(bytes))))
        /\ Pull(bytes)
  BY DEF ReadRefill
<1>3. want \in Nat \ {0} /\ pos + want <= Size /\ want <= BufferSize BY <1>1 DEF Least
<1> HIDE DEF want
<1>4. PICK m \in 0..want : bytes = Bytes(pos, m) /\ (Honest => m = want)
  BY <1>2, <1>3 DEF Replies
<1> DEFINE n == Least(len, m)
<1>5. Len(bytes) = m BY <1>1, <1>3, <1>4, BytesFacts
<1>6. n \in Nat /\ n <= m /\ m \in Nat BY <1>1, <1>3 DEF Least
<1>7. SubSeq(Bytes(pos, m), 1, n) = Bytes(pos, n)
  <2> HIDE DEF n
  <2> QED BY <1>1, <1>6, BytesPrefix
<1>8. Deliver(Bytes(pos, n)) BY <1>2, <1>4, <1>5, <1>7
<1>9. Honest => n # 0 BY <1>1, <1>3, <1>4 DEF Least
<1> QED BY <1>1, <1>2, <1>3, <1>4, <1>6, <1>8, <1>9

\* The same for a cold read.
LEMMA ColdFacts ==
  ASSUME Inv, NEW len \in Nat, ReadCold(len)
  PROVE  \E n \in Nat :
           /\ pos + n <= Size
           /\ (Honest => n # 0)
           /\ Deliver(Bytes(pos, n))
           /\ Pull(Bytes(pos, n))
<1> DEFINE want == Least(len, Size - pos)
<1>1. pos \in Nat /\ Size \in Nat /\ pos < Size /\ len > 0
  BY SeekReaderAssumption DEF Inv, TypeOK, ReadCold
<1>2. PICK bytes \in Replies(pos, want) : Deliver(bytes) /\ Pull(bytes)
  BY DEF ReadCold
<1>3. want \in Nat \ {0} /\ pos + want <= Size BY <1>1 DEF Least
<1> HIDE DEF want
<1>4. PICK m \in 0..want : bytes = Bytes(pos, m) /\ (Honest => m = want)
  BY <1>2, <1>3 DEF Replies
<1> QED BY <1>1, <1>2, <1>3, <1>4

-----------------------------------------------------------------------------
(* The invariant                                                           *)

\* The invariant holds at first.
LEMMA InvInit == Init => Inv
<1> SUFFICES ASSUME Init PROVE Inv OBVIOUS
<1>1. TypeOK
  <2>1. <<>> \in Seq(Nat) /\ 0 \in 0..Size /\ 0 <= Size BY SeekReaderAssumption
  <2>2. pos <= Size BY <2>1 DEF Init
  <2>3. pos <= Size \/ strayed BY <2>2, Zenon
  <2>4. strayed \in BOOLEAN /\ pulled \subseteq Nat BY DEF Init
  <2>5. pos \in Nat /\ bufStart \in 0..Size /\ lastEnd \in Nat BY <2>1 DEF Init
  <2>6. buf \in Seq(Nat) /\ got \in Seq(Nat) /\ call \in Seq(Nat) BY <2>1 DEF Init
  <2> QED BY <2>3, <2>4, <2>5, <2>6 DEF TypeOK
<1>2. BufferIsSource
  <2>1. Bytes(0, 0) = <<>> BY DEF Bytes
  <2> QED BY <2>1, SeekReaderAssumption DEF Init, BufferIsSource
<1>3. DeliversThePosition /\ RequestsInside BY DEF Init, DeliversThePosition, RequestsInside
<1>4. AheadIsBuffered
  <2>1. Len(buf) = 0 BY DEF Init
  <2> QED BY <2>1, SeekReaderAssumption DEF Init, AheadIsBuffered
<1> QED BY <1>1, <1>2, <1>3, <1>4 DEF Inv

\* An operation that delivers nothing and moves nothing.
LEMMA NoMoveKeepsInv ==
  ASSUME Inv, UNCHANGED <<reader, history>>, got' = <<>>,
         call' = <<>> \/ (call' \in Seq(Nat) /\ RequestsInside')
  PROVE  Inv'
<1>1. TypeOK'
  <2>2. got' \in Seq(Nat) /\ call' \in Seq(Nat)
    <3>1. <<>> \in Seq(Nat) OBVIOUS
    <3> QED BY <3>1
  <2> QED BY <2>2 DEF Inv, TypeOK, reader, history
<1>2. BufferIsSource' BY DEF Inv, BufferIsSource, reader
<1>3. DeliversThePosition' BY DEF DeliversThePosition
<1>4. RequestsInside' BY DEF RequestsInside
<1>5. AheadIsBuffered' BY DEF Inv, AheadIsBuffered, reader, history
<1> QED BY <1>1, <1>2, <1>3, <1>4, <1>5 DEF Inv

\* A read served from the buffer keeps it,
LEMMA BufferedKeepsInv ==
  ASSUME Inv, NEW len \in Nat, ReadBuffered(len)
  PROVE  Inv'
<1>1. /\ got' \in Seq(Nat) /\ Len(got') \in Nat /\ pos' = pos + Len(got') /\ lastEnd' = pos'
  BY BufferedFacts
<1>2. /\ call' = <<>> /\ UNCHANGED <<buf, bufStart, pulled>>
      /\ strayed' = (strayed \/ pos - bufStart >= UsizeValues)
  BY DEF ReadBuffered
<1>3. pos \in Nat /\ bufStart \in Nat /\ Len(buf) \in Nat /\ Size \in Nat /\ pulled \subseteq Nat
  BY SeekReaderAssumption DEF Inv, TypeOK
<1>4. ASSUME ~strayed' PROVE pos' <= Size /\ DeliversThePosition'
  <2>1. PICK n \in Nat \ {0} : pos + n <= bufStart + Len(buf) /\ Deliver(Bytes(pos, n))
    BY <1>4, BufferedFacts
  <2>2. pos + n <= Size BY <1>3, <2>1 DEF Inv, BufferIsSource
  <2> QED BY <2>1, <2>2, DeliverFacts DEF Inv
<1>5. pos' \in Nat /\ lastEnd' \in Nat BY <1>1, <1>3
<1>6. TypeOK'
  <2>1. strayed' \in BOOLEAN BY <1>2, Zenon
  <2>2. pos' <= Size \/ strayed' BY <1>4
  <2> QED BY <1>1, <1>2, <1>5, <2>1, <2>2 DEF Inv, TypeOK
<1>7. BufferIsSource' BY <1>2 DEF Inv, BufferIsSource
<1>8. RequestsInside' BY <1>2 DEF RequestsInside
<1>9. AheadIsBuffered' BY <1>1, <1>2, <1>3 DEF Inv, AheadIsBuffered
<1>10. DeliversThePosition' BY <1>4 DEF DeliversThePosition
<1> QED BY <1>6, <1>7, <1>8, <1>9, <1>10 DEF Inv

\* a read that fills the buffer again,
LEMMA RefillKeepsInv ==
  ASSUME Inv, NEW len \in Nat, ReadRefill(len)
  PROVE  Inv'
<1>1. PICK n, m \in Nat :
        /\ n <= m /\ m <= BufferSize /\ pos + m <= Size
        /\ buf' = Bytes(pos, m) /\ bufStart' = pos
        /\ Deliver(Bytes(pos, n)) /\ Pull(Bytes(pos, m))
  BY RefillFacts
<1>2. /\ pos \in Nat /\ pos < Size /\ Size \in Nat /\ BufferSize \in Nat \ {0}
      /\ bufStart \in Nat /\ Len(buf) \in Nat /\ pulled \subseteq Nat
  BY SeekReaderAssumption DEF Inv, TypeOK, ReadRefill
<1>3. /\ got' \in Seq(Nat) /\ pos' = pos + n /\ pos' \in Nat /\ pos' <= Size
      /\ lastEnd' \in Nat /\ DeliversThePosition'
  BY <1>1, <1>2, DeliverFacts DEF Inv
<1>4. buf' \in Seq(Nat) /\ Len(buf') = m /\ \A k \in 1..m : Bytes(pos, m)[k] = pos + k - 1
  BY <1>1, <1>2, BytesFacts
<1>5. call' = <<pos, Least(BufferSize, Size - pos)>> BY DEF ReadRefill
<1>6. pulled' = pulled \cup {pos + k - 1 : k \in 1..m} /\ strayed' = strayed
  <2>1. /\ pulled' = pulled \cup {Bytes(pos, m)[k] : k \in DOMAIN Bytes(pos, m)}
        /\ strayed' = strayed
    BY <1>1 DEF Pull
  <2>2. DOMAIN Bytes(pos, m) = 1..m BY DEF Bytes
  <2> QED BY <1>4, <2>1, <2>2
<1>7. TypeOK'
  <2>1. call' \in Seq(Nat) BY <1>2, <1>5 DEF Least
  <2>2. pulled' \subseteq Nat
    <3>1. \A k \in 1..m : pos + k - 1 \in Nat BY <1>2
    <3> QED BY <1>2, <1>6, <3>1
  <2>3. strayed' \in BOOLEAN /\ bufStart' \in 0..Size BY <1>1, <1>2, <1>6 DEF Inv, TypeOK
  <2> QED BY <1>3, <1>4, <2>1, <2>2, <2>3 DEF TypeOK
<1>8. BufferIsSource' BY <1>1, <1>4 DEF BufferIsSource, Bytes
<1>9. RequestsInside' BY <1>2, <1>5 DEF RequestsInside, Least
<1>10. AheadIsBuffered'
  <2>1. bufStart' <= pos' BY <1>1, <1>2, <1>3
  <2>2. ASSUME NEW b \in pulled' PROVE b < pos' \/ b < bufStart' + Len(buf')
    <3>1. CASE b \in pulled
      <4>1. b < pos \/ b < bufStart + Len(buf) BY <3>1 DEF Inv, AheadIsBuffered
      <4>2. bufStart + Len(buf) <= pos
        BY <1>2, NotInBuffer DEF ReadRefill
      <4> QED BY <1>1, <1>2, <1>3, <3>1, <4>1, <4>2
    <3>2. CASE b \in {pos + k - 1 : k \in 1..m} BY <1>1, <1>2, <1>4, <3>2
    <3> QED BY <1>6, <2>2, <3>1, <3>2
  <2>3. Len(buf') <= BufferSize BY <1>1, <1>4
  <2> QED BY <2>1, <2>2, <2>3 DEF AheadIsBuffered
<1> QED BY <1>3, <1>7, <1>8, <1>9, <1>10 DEF Inv

\* a read past the buffer, straight from JavaScript,
LEMMA ColdKeepsInv ==
  ASSUME Inv, NEW len \in Nat, ReadCold(len)
  PROVE  Inv'
<1>1. PICK n \in Nat : pos + n <= Size /\ Deliver(Bytes(pos, n)) /\ Pull(Bytes(pos, n))
  BY ColdFacts
<1>2. /\ pos \in Nat /\ pos < Size /\ Size \in Nat /\ len > 0
      /\ bufStart \in Nat /\ Len(buf) \in Nat /\ pulled \subseteq Nat
  BY SeekReaderAssumption DEF Inv, TypeOK, ReadCold
<1>3. /\ got' \in Seq(Nat) /\ pos' = pos + n /\ pos' \in Nat /\ pos' <= Size
      /\ lastEnd' \in Nat /\ DeliversThePosition'
  BY <1>1, <1>2, DeliverFacts DEF Inv
<1>4. call' = <<pos, Least(len, Size - pos)>> /\ UNCHANGED <<buf, bufStart>> BY DEF ReadCold
<1>5. pulled' = pulled \cup {pos + k - 1 : k \in 1..n} /\ strayed' = strayed
  <2>1. /\ pulled' = pulled \cup {Bytes(pos, n)[k] : k \in DOMAIN Bytes(pos, n)}
        /\ strayed' = strayed
    BY <1>1 DEF Pull
  <2>2. DOMAIN Bytes(pos, n) = 1..n BY DEF Bytes
  <2>3. \A k \in 1..n : Bytes(pos, n)[k] = pos + k - 1 BY <1>2, BytesFacts
  <2> QED BY <2>1, <2>2, <2>3
<1>6. TypeOK'
  <2>1. call' \in Seq(Nat) BY <1>2, <1>4 DEF Least
  <2>2. pulled' \subseteq Nat
    <3>1. \A k \in 1..n : pos + k - 1 \in Nat BY <1>2
    <3> QED BY <1>2, <1>5, <3>1
  <2> QED BY <1>3, <1>4, <1>5, <2>1, <2>2 DEF Inv, TypeOK
<1>7. BufferIsSource' BY <1>4 DEF Inv, BufferIsSource
<1>8. RequestsInside' BY <1>2, <1>4 DEF RequestsInside, Least
<1>9. AheadIsBuffered' BY <1>2, <1>3, <1>4, <1>5 DEF Inv, AheadIsBuffered
<1> QED BY <1>3, <1>6, <1>7, <1>8, <1>9 DEF Inv

\* a seek, which drops the buffer when it leaves it,
LEMMA SeekKeepsInv ==
  ASSUME Inv, NEW whence \in Whence, NEW delta \in Int, Seek(whence, delta)
  PROVE  Inv'
<1> DEFINE to == Base(whence) + delta
           there == Least(to, Size)
<1>1. /\ pos \in Nat /\ Size \in Nat /\ bufStart \in Nat
      /\ Len(buf) \in Nat /\ buf \in Seq(Nat)
  BY SeekReaderAssumption DEF Inv, TypeOK
<1>2. to \in Int BY <1>1 DEF Whence, Base
<1>3. got' = <<>> /\ call' = <<>> BY DEF Seek
<1>4. CASE to < 0
  <2>1. UNCHANGED <<reader, history>> BY <1>4 DEF Seek
  <2> QED BY <1>3, <2>1, NoMoveKeepsInv
<1>5. CASE ~(to < 0)
  <2>1. /\ pos' = there
        /\ IF there < bufStart \/ there - bufStart > Len(buf)
           THEN buf' = <<>> /\ bufStart' = 0
           ELSE UNCHANGED <<buf, bufStart>>
        /\ pulled' = {}
        /\ UNCHANGED <<lastEnd, strayed>>
    BY <1>5 DEF Seek
  <2>2. there \in 0..Size BY <1>1, <1>2, <1>5 DEF Least
  <2> HIDE DEF there, to
  <2>3. TypeOK'
    <3>2. got' \in Seq(Nat) /\ call' \in Seq(Nat)
      <4>1. <<>> \in Seq(Nat) OBVIOUS
      <4> QED BY <1>3, <4>1
    <3>3. pulled' \subseteq Nat BY <2>1
    <3>4. buf' \in Seq(Nat) /\ bufStart' \in 0..Size
      <4>1. <<>> \in Seq(Nat) /\ 0 \in 0..Size BY <1>1
      <4>2. buf \in Seq(Nat) /\ bufStart \in 0..Size BY DEF Inv, TypeOK
      <4> QED BY <2>1, <4>1, <4>2
    <3>5. /\ pos' \in Nat /\ pos' <= Size /\ lastEnd' \in Nat /\ strayed' \in BOOLEAN
      BY <1>1, <2>1, <2>2 DEF Inv, TypeOK
    <3> QED BY <3>2, <3>3, <3>4, <3>5 DEF TypeOK
  <2>4. BufferIsSource'
    <3>1. CASE buf' = <<>> /\ bufStart' = 0
      <4>1. Bytes(0, 0) = <<>> BY DEF Bytes
      <4> QED BY <1>1, <3>1, <4>1 DEF BufferIsSource
    <3>2. CASE UNCHANGED <<buf, bufStart>> BY <3>2 DEF Inv, BufferIsSource
    <3> QED BY <2>1, <3>1, <3>2
  <2>5. DeliversThePosition' /\ RequestsInside' BY <1>3 DEF DeliversThePosition, RequestsInside
  <2>6. AheadIsBuffered'
    <3>1. Len(buf') <= BufferSize
      <4>1. CASE buf' = <<>>
        <5>1. Len(buf') = 0 BY <4>1
        <5> QED BY <5>1, SeekReaderAssumption
      <4>2. CASE buf' = buf BY <4>2 DEF Inv, AheadIsBuffered
      <4> QED BY <2>1, <4>1, <4>2
    <3>2. bufStart' <= pos' BY <1>1, <2>1, <2>2
    <3> QED BY <2>1, <3>1, <3>2 DEF AheadIsBuffered
  <2> QED BY <2>3, <2>4, <2>5, <2>6 DEF Inv
<1> QED BY <1>4, <1>5

\* and a read that fails.
LEMMA FailureKeepsInv ==
  ASSUME Inv, NEW len \in Nat, ReadNothing(len) \/ ReadFails(len)
  PROVE  Inv'
<1>1. CASE ReadNothing(len)
  BY <1>1, NoMoveKeepsInv DEF ReadNothing
<1>2. CASE ReadFails(len)
  <2>1. /\ pos \in Nat /\ pos < Size /\ Size \in Nat /\ len > 0 /\ BufferSize \in Nat \ {0}
    BY <1>2, SeekReaderAssumption DEF Inv, TypeOK, ReadFails
  <2>2. PICK want \in Nat \ {0} : pos + want <= Size /\ call' = <<pos, want>>
    <3> DEFINE asked == IF Sequential(len) THEN BufferSize ELSE len
    <3>1. asked \in Nat \ {0} BY <2>1
    <3>2. call' = <<pos, Least(asked, Size - pos)>> BY <1>2 DEF ReadFails
    <3> HIDE DEF asked
    <3>3. Least(asked, Size - pos) \in Nat \ {0} /\ pos + Least(asked, Size - pos) <= Size
      BY <2>1, <3>1 DEF Least
    <3> QED BY <3>2, <3>3
  <2>3. call' \in Seq(Nat) BY <2>1, <2>2
  <2>4. RequestsInside' BY <2>1, <2>2 DEF RequestsInside
  <2> QED BY <1>2, <2>3, <2>4, NoMoveKeepsInv DEF ReadFails
<1> QED BY <1>1, <1>2

\* So does every read, whatever its length and whatever way it takes.
LEMMA ReadKeepsInv ==
  ASSUME Inv, NEW len \in Nat, Read(len)
  PROVE  Inv'
<1>1. CASE ReadNothing(len) \/ ReadFails(len) BY <1>1, FailureKeepsInv
<1>2. CASE ReadBuffered(len) BY <1>2, BufferedKeepsInv
<1>3. CASE ReadRefill(len) BY <1>3, RefillKeepsInv
<1>4. CASE ReadCold(len) BY <1>4, ColdKeepsInv
<1> QED BY <1>1, <1>2, <1>3, <1>4 DEF Read

\* Every step keeps the invariant.
LEMMA InvInductive ==
  ASSUME Inv, [Next]_vars
  PROVE  Inv'
<1>1. ASSUME NEW len \in Lengths, Read(len) PROVE Inv'
  BY <1>1, ReadKeepsInv, SeekReaderAssumption
<1>2. ASSUME NEW whence \in Whence, NEW delta \in Deltas, Seek(whence, delta) PROVE Inv'
  BY <1>2, SeekKeepsInv, SeekReaderAssumption
<1>3. CASE UNCHANGED vars
  BY <1>3
  DEF Inv, TypeOK, BufferIsSource, DeliversThePosition, RequestsInside, AheadIsBuffered, vars,
      reader, history
<1> QED BY <1>1, <1>2, <1>3 DEF Next

-----------------------------------------------------------------------------
(* What a read or a seek does, seen from outside                           *)

\* A step asks for bytes that were not pulled since the last seek.
AsksFresh == call' # <<>> => \A k \in 1..call'[2] : call'[1] + k - 1 \notin pulled

\* A call of readAt starts behind everything that was pulled.
LEMMA ReadAsksFresh ==
  ASSUME Inv, NEW len \in Nat, Read(len)
  PROVE  AsksFresh
<1>1. pos \in Nat /\ bufStart \in Nat /\ Len(buf) \in Nat BY DEF Inv, TypeOK
<1>2. ASSUME NEW want, call' = <<pos, want>>, pos < Size, ~InBuffer
      PROVE  AsksFresh
  <2>1. bufStart + Len(buf) <= pos BY <1>2, NotInBuffer
  <2>2. \A b \in pulled : b < pos BY <1>1, <2>1 DEF Inv, TypeOK, AheadIsBuffered
  <2>3. call'[1] = pos BY <1>2
  <2>4. \A k \in 1..call'[2] : pos + k - 1 \notin pulled
    <3> SUFFICES ASSUME NEW k \in 1..call'[2], pos + k - 1 \in pulled PROVE FALSE OBVIOUS
    <3>1. k \in Int /\ k >= 1 OBVIOUS
    <3>2. pos + k - 1 < pos BY <2>2
    <3> QED BY <1>1, <3>1, <3>2
  <2> QED BY <2>3, <2>4 DEF AsksFresh
<1>3. CASE ReadNothing(len) BY <1>3 DEF ReadNothing, AsksFresh
<1>4. CASE ReadBuffered(len) BY <1>4 DEF ReadBuffered, AsksFresh
<1>5. CASE ReadRefill(len) BY <1>2, <1>5 DEF ReadRefill
<1>6. CASE ReadCold(len) BY <1>2, <1>6 DEF ReadCold
<1>7. CASE ReadFails(len) BY <1>2, <1>7 DEF ReadFails
<1> QED BY <1>3, <1>4, <1>5, <1>6, <1>7 DEF Read

\* A read is a read of the plain file, unless it strays.
LEMMA ReadOfFile ==
  ASSUME Inv, NEW len \in Nat, Read(len)
  PROVE  File!FileNext
<1>1. pos \in Nat /\ Size \in Nat
  BY SeekReaderAssumption DEF Inv, TypeOK
<1>2. ASSUME NEW n \in Nat, pos + n <= Size, n = 0 => ~Honest, Deliver(Bytes(pos, n))
      PROVE  File!ReadBytes
  <2>1. n \in 0..(Size - pos) BY <1>1, <1>2
  <2>2. got' = Bytes(pos, n) /\ pos' = pos + n BY <1>2, DeliverFacts DEF Inv
  <2>3. Bytes(pos, n) = File!Range(pos, n) BY DEF Bytes, File!Range
  <2> QED BY <1>2, <2>1, <2>2, <2>3 DEF File!ReadBytes
<1>3. CASE ReadNothing(len) \/ ReadFails(len)
  BY <1>3 DEF ReadNothing, ReadFails, reader, File!FileNext, File!NoBytes
<1>4. CASE ReadBuffered(len)
  <2>1. CASE strayed' BY <2>1 DEF File!FileNext
  <2>2. CASE ~strayed'
    <3>1. PICK n \in Nat \ {0} : pos + n <= bufStart + Len(buf) /\ Deliver(Bytes(pos, n))
      BY <1>4, <2>2, BufferedFacts
    <3>2. pos + n <= Size
      BY <1>1, <3>1, SeekReaderAssumption DEF Inv, TypeOK, BufferIsSource
    <3> QED BY <1>2, <3>1, <3>2 DEF File!FileNext
  <2> QED BY <2>1, <2>2
<1>5. CASE ReadRefill(len)
  <2>1. PICK n, m \in Nat : n <= m /\ pos + m <= Size /\ (Honest => n # 0) /\ Deliver(Bytes(pos, n))
    BY <1>5, RefillFacts
  <2>2. pos + n <= Size BY <1>1, <2>1
  <2> QED BY <1>2, <2>1, <2>2 DEF File!FileNext
<1>6. CASE ReadCold(len)
  <2>1. PICK n \in Nat : pos + n <= Size /\ (Honest => n # 0) /\ Deliver(Bytes(pos, n))
    BY <1>6, ColdFacts
  <2> QED BY <1>2, <2>1 DEF File!FileNext
<1> QED BY <1>3, <1>4, <1>5, <1>6 DEF Read

\* A seek is a seek of the plain file, and asks JavaScript for nothing.
LEMMA SeekOfFile ==
  ASSUME Inv, NEW whence \in Whence, NEW delta \in Int, Seek(whence, delta)
  PROVE  File!FileNext /\ AsksFresh
<1>1. pos \in Nat /\ Size \in Nat
  BY SeekReaderAssumption DEF Inv, TypeOK
<1>2. got' = <<>> /\ call' = <<>> BY DEF Seek
<1>3. pos' = pos \/ pos' \in 0..Size
  <2>1. Base(whence) + delta \in Int BY <1>1 DEF Whence, Base
  <2> QED BY <1>1, <2>1 DEF Seek, reader, Least
<1> QED BY <1>2, <1>3 DEF File!FileNext, File!NoBytes, File!SeekTo, AsksFresh

-----------------------------------------------------------------------------
(* Which reads never stray                                                 *)

\* A parser with short reads stays close to the buffer it has: behind its end
\* it is right after a cold read, which the next read continues.
Near ==
  \/ buf = <<>>
  \/ pos <= bufStart + Len(buf)
  \/ pos = lastEnd /\ pos - bufStart < 2 * BufferSize

Calm == ~strayed /\ (Size <= UsizeValues \/ Near)

\* A read of a calm reader does not stray, and a short one stays near.
LEMMA ReadStaysCalm ==
  ASSUME Inv, Calm, NEW len \in Nat, Size <= UsizeValues \/ len < BufferSize, Read(len)
  PROVE  Calm'
<1>1. /\ pos \in Nat /\ Size \in Nat /\ bufStart \in Nat /\ Len(buf) \in Nat /\ lastEnd \in Nat
      /\ bufStart <= pos /\ Len(buf) <= BufferSize /\ BufferSize \in Nat \ {0}
      /\ UsizeValues \in Nat /\ 2 * BufferSize <= UsizeValues /\ strayed = FALSE
      /\ buf \in Seq(Nat)
  BY SeekReaderAssumption DEF Inv, TypeOK, AheadIsBuffered, Calm
<1>2. CASE ReadNothing(len) \/ ReadFails(len)
  BY <1>2 DEF ReadNothing, ReadFails, reader, history, Calm, Near
<1>3. CASE ReadBuffered(len)
  <2>1. buf # <<>> /\ pos < Size /\ pos - bufStart \in Nat
    BY <1>1, <1>3 DEF ReadBuffered, InBuffer, Off
  <2>2. pos - bufStart < UsizeValues BY <1>1, <2>1 DEF Calm, Near
  <2>3. strayed' = (strayed \/ pos - bufStart >= UsizeValues) /\ UNCHANGED <<buf, bufStart>>
    BY <1>3 DEF ReadBuffered
  <2>4. ~(pos - bufStart >= UsizeValues) BY <1>1, <2>2
  <2>5. strayed' = FALSE BY <1>1, <2>3, <2>4
  <2>6. PICK n \in Nat \ {0} : pos + n <= bufStart + Len(buf) /\ Deliver(Bytes(pos, n))
    BY <1>3, <2>5, BufferedFacts
  <2>7. pos' = pos + n
    <3>1. pos + n <= Size BY <1>1, <2>6 DEF Inv, BufferIsSource
    <3> QED BY <2>6, <3>1, DeliverFacts DEF Inv
  <2>8. Near' BY <2>3, <2>6, <2>7 DEF Near
  <2> QED BY <2>5, <2>8 DEF Calm
<1>4. CASE ReadRefill(len)
  <2>1. PICK n, m \in Nat :
          /\ n <= m /\ pos + m <= Size /\ buf' = Bytes(pos, m) /\ bufStart' = pos
          /\ Deliver(Bytes(pos, n)) /\ Pull(Bytes(pos, m))
    BY <1>4, RefillFacts
  <2>2. pos + n <= Size BY <1>1, <2>1
  <2>3. pos' = pos + n /\ Len(buf') = m BY <1>1, <2>1, <2>2, DeliverFacts, BytesFacts DEF Inv
  <2>4. Near' BY <1>1, <2>1, <2>3 DEF Near
  <2>5. strayed' = FALSE BY <1>1, <2>1 DEF Pull
  <2> QED BY <2>4, <2>5 DEF Calm
<1>5. CASE ReadCold(len)
  <2>1. PICK bytes \in Replies(pos, Least(len, Size - pos)) : Deliver(bytes) /\ Pull(bytes)
    BY <1>5 DEF ReadCold
  <2>2. strayed' = FALSE BY <1>1, <2>1 DEF Pull
  <2>3. ASSUME len < BufferSize, Near PROVE Near'
    <3> DEFINE want == Least(len, Size - pos)
    <3>1. want \in Nat /\ want < BufferSize BY <1>1, <1>5, <2>3 DEF Least, ReadCold
    <3> HIDE DEF want
    <3>2. PICK n \in 0..want : bytes = Bytes(pos, n)
      BY <2>1, <3>1 DEF Replies, want
    <3>3. n \in Nat /\ n < BufferSize BY <1>1, <3>1, <3>2
    <3>4. Len(bytes) = n BY <1>1, <3>2, <3>3, BytesFacts
    <3>5. pos' = pos + n /\ (n # 0 => lastEnd' = pos') /\ (n = 0 => lastEnd' = lastEnd)
      <4>1. bytes = <<>> <=> n = 0
        <5>1. bytes \in Seq(Nat) BY <1>1, <3>2, <3>3, BytesFacts
        <5> QED BY <3>4, <5>1, EmptySeq
      <4> QED BY <2>1, <3>4, <4>1 DEF Deliver
    <3>6. UNCHANGED <<buf, bufStart>> BY <1>5 DEF ReadCold
    <3>7. pos # lastEnd BY <1>5, <2>3 DEF ReadCold, Sequential
    <3>8. buf = <<>> \/ pos <= bufStart + Len(buf) BY <2>3, <3>7 DEF Near
    <3>9. CASE buf = <<>> BY <3>6, <3>9 DEF Near
    <3>10. CASE pos <= bufStart + Len(buf) /\ n = 0
      <4>1. pos' = pos BY <1>1, <3>5, <3>10
      <4> QED BY <3>6, <3>10, <4>1 DEF Near
    <3>11. CASE pos <= bufStart + Len(buf) /\ n # 0
      <4>1. pos' - bufStart < 2 * BufferSize BY <1>1, <3>3, <3>5, <3>11
      <4> QED BY <3>5, <3>6, <3>11, <4>1 DEF Near
    <3> QED BY <3>8, <3>9, <3>10, <3>11
  <2>4. CASE Size <= UsizeValues BY <2>2, <2>4 DEF Calm
  <2>5. CASE ~(Size <= UsizeValues) BY <2>2, <2>3, <2>5 DEF Calm
  <2> QED BY <2>4, <2>5
<1> QED BY <1>2, <1>3, <1>4, <1>5 DEF Read

\* Nor does a seek, which keeps no buffer it leaves.
LEMMA SeekStaysCalm ==
  ASSUME Inv, Calm, NEW whence \in Whence, NEW delta \in Int, Seek(whence, delta)
  PROVE  Calm'
<1> DEFINE to == Base(whence) + delta
           there == Least(to, Size)
<1>1. pos \in Nat /\ Size \in Nat /\ bufStart \in Nat /\ Len(buf) \in Nat
  BY SeekReaderAssumption DEF Inv, TypeOK
<1>2. to \in Int BY <1>1 DEF Whence, Base
<1>3. CASE to < 0
  <2>1. UNCHANGED <<reader, history>> BY <1>3 DEF Seek
  <2> QED BY <2>1 DEF Calm, Near, reader, history
<1>4. CASE ~(to < 0)
  <2>1. /\ pos' = there /\ strayed' = strayed
        /\ IF there < bufStart \/ there - bufStart > Len(buf)
           THEN buf' = <<>> /\ bufStart' = 0
           ELSE UNCHANGED <<buf, bufStart>>
    BY <1>4 DEF Seek
  <2>2. there \in Nat BY <1>1, <1>2, <1>4 DEF Least
  <2> HIDE DEF there, to
  <2>3. Near' BY <1>1, <2>1, <2>2 DEF Near
  <2> QED BY <2>1, <2>3 DEF Calm
<1> QED BY <1>3, <1>4

-----------------------------------------------------------------------------
(* Theorems                                                                *)

\* The invariant holds in every reachable state of a reader.
THEOREM InvAlways == Spec => []Inv
<1>1. Init => Inv BY InvInit
<1>2. Inv /\ [Next]_vars => Inv' BY InvInductive
<1> QED BY <1>1, <1>2, PTL DEF Spec

\* Every variable of the reader keeps its type, and until a read strays its
\* position stays inside the source.
THEOREM ReaderTypeCorrect == Spec => []TypeOK
<1>1. Inv => TypeOK BY DEF Inv
<1> QED BY <1>1, InvAlways, PTL

\* The read-ahead buffer always is the piece of the source that starts at
\* buf_start.
THEOREM BufferCorrect == Spec => []BufferIsSource
<1>1. Inv => BufferIsSource BY DEF Inv
<1> QED BY <1>1, InvAlways, PTL

\* Until one strays, every read delivers the bytes at the position the parser is
\* at (NeverStrays says when none does).
THEOREM DeliveryCorrect == Spec => []DeliversThePosition
<1>1. Inv => DeliversThePosition BY DEF Inv
<1> QED BY <1>1, InvAlways, PTL

\* readAt is only asked for bytes the source has.
THEOREM RequestsCorrect == Spec => []RequestsInside
<1>1. Inv => RequestsInside BY DEF Inv
<1> QED BY <1>1, InvAlways, PTL

\* Between two seeks no byte crosses from JavaScript twice.
THEOREM PullsOnce == Spec => PulledOnce
<1>1. Inv /\ [Next]_vars => [AsksFresh]_vars
  <2>1. ASSUME Inv, NEW len \in Lengths, Read(len) PROVE AsksFresh
    BY <2>1, ReadAsksFresh, SeekReaderAssumption
  <2>2. ASSUME Inv, NEW whence \in Whence, NEW delta \in Deltas, Seek(whence, delta)
        PROVE  AsksFresh
    BY <2>2, SeekOfFile, SeekReaderAssumption
  <2> QED BY <2>1, <2>2 DEF Next
<1> QED BY <1>1, InvAlways, PTL DEF Spec, PulledOnce, AsksFresh

\* Until a read strays, the buffered reader is a plain file over the source.
THEOREM ReaderImplementsFile == Spec => ImplementsFile
<1>1. Init => File!FileInit BY DEF Init, File!FileInit
<1>2. Inv /\ [Next]_vars => [File!FileNext]_<<pos, got>>
  <2>1. ASSUME Inv, NEW len \in Lengths, Read(len) PROVE File!FileNext
    BY <2>1, ReadOfFile, SeekReaderAssumption
  <2>2. ASSUME Inv, NEW whence \in Whence, NEW delta \in Deltas, Seek(whence, delta)
        PROVE  File!FileNext
    BY <2>2, SeekOfFile, SeekReaderAssumption
  <2>3. CASE UNCHANGED vars BY <2>3 DEF vars, reader
  <2> QED BY <2>1, <2>2, <2>3 DEF Next
<1> QED BY <1>1, <1>2, InvAlways, PTL DEF Spec, ImplementsFile, File!FileSpec

\* No read strays, and so everything above holds without that proviso, when the
\* source fits a usize (4 GiB in wasm) or when every read is shorter than the
\* buffer.  It does not hold of longer reads of a longer source.
THEOREM NeverStrays ==
  ASSUME Size <= UsizeValues \/ \A len \in Lengths : len < BufferSize
  PROVE  Spec => []~strayed
<1>1. Init => Calm BY DEF Init, Calm, Near
<1>2. Inv /\ Calm /\ [Next]_vars => Calm'
  <2> SUFFICES ASSUME Inv, Calm, [Next]_vars PROVE Calm' OBVIOUS
  <2>1. ASSUME NEW len \in Lengths, Read(len) PROVE Calm'
    BY <2>1, ReadStaysCalm, SeekReaderAssumption
  <2>2. ASSUME NEW whence \in Whence, NEW delta \in Deltas, Seek(whence, delta) PROVE Calm'
    BY <2>2, SeekStaysCalm, SeekReaderAssumption
  <2>3. CASE UNCHANGED vars BY <2>3 DEF vars, reader, history, Calm, Near
  <2> QED BY <2>1, <2>2, <2>3 DEF Next
<1>3. Calm => ~strayed BY DEF Calm
<1> QED BY <1>1, <1>2, <1>3, InvAlways, PTL DEF Spec
=============================================================================
