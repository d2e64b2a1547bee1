--------------------------- MODULE CompressProofs ---------------------------
(***************************************************************************)
(* Proofs about CompressRun: its invariants hold for every set of command  *)
(* lines, every disk and every way the chain of encoders holds data back.  *)
(***************************************************************************)
EXTENDS CompressRun, TLAPS

\* The steps at which the output file is open.
Open == {"sandbox", "wrap", "copy", "drop", "cleanup"}

\* The output is a file of this run, until the run removes it, and its path was
\* free when it was chosen.
Output ==
  /\ pc \in {"check", "create", "resolve"} => ~agreed /\ ~raced /\ out = NoPath
  /\ pc \in {"check", "create", "resolve", "open", "sandbox", "wrap", "copy"} =>
       result = "none"
  /\ pc = "open" => out \in Paths /\ (disk[out] = "other" => raced)
  /\ pc \in {"drop", "cleanup"} => result # "none"
  /\ pc \in Open => out \in Paths /\ disk[out] = "output"
  /\ result = "true" => out \in Paths /\ disk[out] = "output"
  /\ out \in prior => out = 0 /\ agreed
  /\ out \in others => (out = 0 /\ agreed) \/ raced

\* Every unit is somewhere: what was fed is held or written, unless the disk
\* refused it, and after the chain is dropped nothing is held.
Units ==
  /\ pc \in {"check", "create", "resolve", "open", "sandbox", "wrap"} =>
       fed = 0 /\ held = 0 /\ written = 0
  /\ pc = "copy" => held <= Held /\ written + held = fed
  /\ pc = "drop" => written + held <= Input
  /\ pc = "drop" /\ result = "true" =>
       /\ written + held = Input
       /\ (cl.first = "tar" /\ cl.encoders = 0) => held = 0
  /\ pc \in {"cleanup", "done"} /\ result = "true" =>
       (space > 0 \/ (cl.first = "tar" /\ cl.encoders = 0) => written = Total)

IInv == TypeOK /\ PriorFilesSurvive /\ Output /\ Units /\ PartialIsTold

\* A chain has a whole number of trailers.
LEMMA TrailersNat == cl \in CommandLines => Trailers \in Nat /\ Total \in Nat
BY CompressAssumption DEF Trailers, Total

\* A plain tar has no trailer.
LEMMA PlainTar == cl.first = "tar" /\ cl.encoders = 0 => Trailers = 0
BY DEF Trailers

\* The invariant holds at first.
LEMMA InitIInv == Init => IInv
<1> SUFFICES ASSUME Init PROVE IInv OBVIOUS
<1> USE CompressAssumption DEF Init
<1>1. TypeOK
  <2>1. 0 \in 0..Total BY TrailersNat
  <2>2. disk \in [Paths -> {"none", "prior", "other", "output"}] OBVIOUS
  <2>3. space \in Nat /\ 0 \in 0..Input /\ 0 \in 0..(Held + 1) OBVIOUS
  <2> QED BY <2>1, <2>2, <2>3 DEF TypeOK
<1>2. PriorFilesSurvive BY DEF PriorFilesSurvive, Paths
<1>3. Output
  <2>1. out \notin Paths BY DEF NoPath, Paths
  <2>2. prior \subseteq Paths BY DEF Paths
  <2> QED BY <2>1, <2>2 DEF Output, Open
<1>4. Units BY DEF Units
<1>5. PartialIsTold BY DEF PartialIsTold
<1> QED BY <1>1, <1>2, <1>3, <1>4, <1>5 DEF IInv

\* The steps before compress_files open the output and leave the units alone.
LEMMA OpenSteps ==
  IInv /\ (Check \/ CreateNew \/ Resolve \/ CreateFile \/ ApplySandbox) => IInv'
<1> SUFFICES ASSUME IInv, Check \/ CreateNew \/ Resolve \/ CreateFile \/ ApplySandbox
             PROVE  IInv'
  OBVIOUS
<1> USE CompressAssumption DEF IInv
<1>1. /\ prior \subseteq Paths /\ others \subseteq Paths
      /\ 0 \in Paths /\ NoPath \notin Paths
  BY DEF TypeOK, Paths, NoPath
<1>2. Trailers' = Trailers /\ Total' = Total
  BY DEF Check, CreateNew, Resolve, CreateFile, ApplySandbox, Trailers, Total
<1>3. UNCHANGED <<cl, prior, others, raced, chain, result, told>>
  BY DEF Check, CreateNew, Resolve, CreateFile, ApplySandbox, world
<1>4. disk \in [Paths -> {"none", "prior", "other", "output"}] BY DEF TypeOK
<1>5. TypeOK'
  <2>1. disk' \in [Paths -> {"none", "prior", "other", "output"}]
    BY <1>1, <1>4 DEF Check, CreateNew, Resolve, CreateFile, ApplySandbox, file
  <2>2. out' \in Paths \cup {NoPath} /\ agreed' \in BOOLEAN
    BY <1>1 DEF TypeOK, Check, CreateNew, Resolve, CreateFile, ApplySandbox, file, Free
  <2>3. sandbox' \in BOOLEAN /\ pc' \in {"create", "resolve", "open", "sandbox", "wrap",
                                         "done", "failed"}
    BY DEF TypeOK, Check, CreateNew, Resolve, CreateFile, ApplySandbox, Go
  <2> QED BY <1>2, <1>3, <2>1, <2>2, <2>3 DEF TypeOK, chain
<1>6. \A p \in Paths :
        p \in prior \cup others /\ disk[p] = "none" /\ p # out => (p = 0 /\ agreed)
  BY DEF PriorFilesSurvive
<1>7. \/ UNCHANGED <<disk, out, agreed>>
      \/ /\ pc \in {"create", "resolve"} /\ agreed' = agreed
         /\ \E p \in Paths \ (prior \cup others) :
              out' = p /\ (disk' = disk \/ disk' = [disk EXCEPT ![p] = "output"])
      \/ /\ pc = "resolve" /\ agreed'
         /\ \/ disk' = [disk EXCEPT ![0] = "none"] /\ out' = 0
            \/ disk' = disk /\ out' = out
      \/ pc = "open" /\ disk' = [disk EXCEPT ![out] = "output"] /\ UNCHANGED <<out, agreed>>
  <2>1. CASE Check BY <2>1 DEF Check, file
  <2>2. CASE CreateNew
    <3>1. disk[0] = "none" => 0 \notin prior \cup others
      BY <2>2, <1>1 DEF CreateNew, Output, PriorFilesSurvive
    <3> QED BY <2>2, <3>1, <1>1 DEF CreateNew
  <2>3. CASE Resolve
    <3>1. ~agreed /\ ~raced BY <2>3 DEF Resolve, Output
    <3>2. \A p \in Free : p \in Paths \ (prior \cup others)
      BY <3>1 DEF Free, PriorFilesSurvive
    <3> QED BY <2>3, <3>2 DEF Resolve, file
  <2>4. CASE CreateFile BY <2>4 DEF CreateFile
  <2>5. CASE ApplySandbox BY <2>5 DEF ApplySandbox, file
  <2> QED BY <2>1, <2>2, <2>3, <2>4, <2>5
<1>8. PriorFilesSurvive'
  <2>1. pc \in {"create", "resolve"} => ~agreed /\ ~raced BY DEF Output
  <2>2. pc = "open" => out \in Paths BY DEF Output
  <2>3. out \in prior => out = 0 /\ agreed BY DEF Output
  <2>4. out \in others => (out = 0 /\ agreed) \/ raced BY DEF Output
  <2>5. CASE UNCHANGED <<disk, out, agreed>>
    BY <2>5, <1>3 DEF PriorFilesSurvive
  <2>6. CASE /\ pc \in {"create", "resolve"} /\ agreed' = agreed
             /\ \E p \in Paths \ (prior \cup others) :
                  out' = p /\ (disk' = disk \/ disk' = [disk EXCEPT ![p] = "output"])
    BY <2>6, <2>1, <1>1, <1>3, <1>4 DEF PriorFilesSurvive
  <2>7. CASE /\ pc = "resolve" /\ agreed'
             /\ \/ disk' = [disk EXCEPT ![0] = "none"] /\ out' = 0
                \/ disk' = disk /\ out' = out
    BY <2>7, <2>1, <1>1, <1>3, <1>4 DEF PriorFilesSurvive
  <2>8. CASE pc = "open" /\ disk' = [disk EXCEPT ![out] = "output"] /\ UNCHANGED <<out, agreed>>
    BY <2>8, <2>2, <2>3, <2>4, <1>1, <1>3, <1>4 DEF PriorFilesSurvive
  <2> QED BY <1>7, <2>5, <2>6, <2>7, <2>8
<1>9. Output'
  <2>1. /\ out' \in prior' => out' = 0 /\ agreed'
        /\ out' \in others' => (out' = 0 /\ agreed') \/ raced'
    BY <1>3, <1>7 DEF Output
  <2>2. pc' \in Open => out' \in Paths /\ disk'[out'] = "output"
    <3>1. CASE Check BY <3>1 DEF Open, Check, Go
    <3>2. CASE CreateNew BY <3>2, <1>1, <1>4 DEF Open, CreateNew, Go
    <3>3. CASE Resolve BY <3>3 DEF Open, Resolve, Go
    <3>4. CASE CreateFile BY <3>4, <1>4 DEF Output, Open, CreateFile, Go
    <3>5. CASE ApplySandbox BY <3>5 DEF Output, Open, ApplySandbox, Go, file
    <3> QED BY <3>1, <3>2, <3>3, <3>4, <3>5
  <2>3. pc' = "open" => out' \in Paths /\ (disk'[out'] = "other" => raced')
    BY <1>1, <1>4 DEF Output, Check, CreateNew, Resolve, CreateFile, ApplySandbox, Go, Free, file
  <2>4. result' = result /\ result = "none"
    BY <1>3 DEF Output, Check, CreateNew, Resolve, CreateFile, ApplySandbox
  <2>5. pc' \in {"check", "create", "resolve"} => ~agreed' /\ ~raced' /\ out' = NoPath
    BY <1>3 DEF Output, Check, CreateNew, Resolve, CreateFile, ApplySandbox, Go, file
  <2>6. pc' \notin {"drop", "cleanup"}
    BY DEF Check, CreateNew, Resolve, CreateFile, ApplySandbox, Go
  <2> QED BY <2>1, <2>2, <2>3, <2>4, <2>5, <2>6 DEF Output
<1>10. Units'
  BY <1>2, <1>3 DEF Output, Units, Check, CreateNew, Resolve, CreateFile, ApplySandbox, Go, chain
<1>11. PartialIsTold'
  BY <1>3 DEF Output, PartialIsTold, Check, CreateNew, Resolve, CreateFile, ApplySandbox, Go
<1> QED BY <1>5, <1>8, <1>9, <1>10, <1>11

\* Another process takes a free path, never the open output.
LEMMA OtherStep == IInv /\ OtherCreates => IInv'
<1> SUFFICES ASSUME IInv, OtherCreates PROVE IInv' OBVIOUS
<1> USE CompressAssumption DEF IInv
<1>1. PICK q \in Contested \ others :
        /\ disk[q] = "none"
        /\ disk' = [disk EXCEPT ![q] = "other"]
        /\ others' = others \cup {q}
        /\ raced' = (raced \/ (pc = "open" /\ q = out))
  BY DEF OtherCreates
<1>2. UNCHANGED <<cl, prior, out, agreed, chain, sandbox, result, told, pc>> /\ ~Ended
  BY DEF OtherCreates
<1>3. Trailers' = Trailers /\ Total' = Total BY <1>2 DEF Trailers, Total
<1>4. q \in Paths /\ NoPath \notin Paths BY DEF Paths, NoPath
<1>5. disk \in [Paths -> {"none", "prior", "other", "output"}] /\ prior \subseteq Paths
      /\ others \subseteq Paths
  BY DEF TypeOK, Paths
<1>6. TypeOK' BY <1>1, <1>2, <1>3, <1>4, <1>5 DEF TypeOK, chain
<1>7. PriorFilesSurvive' BY <1>1, <1>2, <1>4, <1>5 DEF PriorFilesSurvive
<1>8. Output'
  <2>1. pc \in Open => q # out BY <1>1 DEF Output
  <2>2. pc \in {"check", "create", "resolve", "open"} \cup Open
    BY <1>2 DEF TypeOK, Ended, Open
  <2>3. pc \in {"check", "create", "resolve"} => out = NoPath BY DEF Output
  <2>4. out \in others' => (out = 0 /\ agreed) \/ raced'
    BY <1>1, <1>4, <2>1, <2>2, <2>3 DEF Output
  <2> QED BY <1>1, <1>2, <1>4, <1>5, <2>1, <2>4 DEF Output
<1>9. Units' BY <1>2, <1>3 DEF Units, chain
<1>10. PartialIsTold' BY <1>2 DEF PartialIsTold, Ended
<1> QED BY <1>6, <1>7, <1>8, <1>9, <1>10

\* compress_files and the drop of the chain move units and leave the disk alone.
LEMMA ChainSteps ==
  IInv /\ (Wrap \/ Copy \/ InputFails \/ EndOfInput \/ Drop) => IInv'
<1> SUFFICES ASSUME IInv, Wrap \/ Copy \/ InputFails \/ EndOfInput \/ Drop PROVE IInv' OBVIOUS
<1> USE CompressAssumption DEF IInv
<1>1. Trailers \in Nat /\ Total = Input + Trailers BY TrailersNat DEF TypeOK, Total
<1>2. Trailers' = Trailers /\ Total' = Total
  BY DEF Wrap, Copy, InputFails, EndOfInput, Drop, Trailers, Total
<1>3. /\ fed \in Nat /\ held \in Nat /\ written \in Nat /\ space \in Nat
      /\ fed <= Input /\ held <= Held + 1 /\ written <= Total
  BY <1>1 DEF TypeOK
<1>4. UNCHANGED <<cl, world, file, sandbox, told>> /\ pc' \in {"copy", "drop", "cleanup"}
  BY DEF Wrap, Copy, InputFails, EndOfInput, Drop, Returns, Go
<1>5. result' \in {"none", "true", "false", "error"}
  BY DEF Wrap, Copy, InputFails, EndOfInput, Drop, Returns, TypeOK
<1>6. /\ fed' \in 0..Input /\ held' \in 0..(Held + 1) /\ written' \in 0..Total
      /\ space' \in Nat /\ Units'
  <2>1. CASE Wrap
    BY <2>1, <1>1, <1>2, <1>3, <1>4 DEF Wrap, Returns, Go, chain, Units
  <2>2. CASE Copy
    <3>1. PICK n \in 0..(held + 1) :
            /\ held + 1 - n <= Held
            /\ written' = written + Least(n, space)
            /\ space' = space - Least(n, space)
            /\ IF n <= space
               THEN held' = held + 1 - n /\ fed' = fed + 1 /\ UNCHANGED <<result, pc>>
               ELSE held' = held + 1 - space /\ fed' = fed /\ Returns("error")
      BY <2>2 DEF Copy
    <3>2. pc = "copy" /\ fed < Input /\ written + held = fed BY <2>2 DEF Copy, Units
    <3>3. CASE n <= space
      BY <3>1, <3>2, <3>3, <1>1, <1>2, <1>3 DEF Least, Units
    <3>4. CASE ~(n <= space)
      BY <3>1, <3>2, <3>4, <1>1, <1>2, <1>3 DEF Least, Units, Returns, Go
    <3> QED BY <3>3, <3>4
  <2>3. CASE InputFails
    BY <2>3, <1>1, <1>2, <1>3 DEF InputFails, Returns, Go, chain, Units
  <2>4. CASE EndOfInput
    <3>1. PICK n \in 0..held :
            /\ written' = written + Least(n, space)
            /\ space' = space - Least(n, space)
            /\ held' = held - Least(n, space)
            /\ Returns(IF n <= space THEN "true" ELSE "error")
            /\ cl.first = "tar" /\ cl.encoders = 0 => n = held
      BY <2>4, <1>3 DEF EndOfInput
    <3>2. pc = "copy" /\ fed = Input /\ fed' = fed /\ cl' = cl /\ written + held = fed
      BY <2>4 DEF EndOfInput, Units
    <3>3. CASE n <= space
      BY <3>1, <3>2, <3>3, <1>1, <1>2, <1>3 DEF Least, Units, Returns, Go
    <3>4. CASE ~(n <= space)
      BY <3>1, <3>2, <3>4, <1>1, <1>2, <1>3 DEF Least, Units, Returns, Go
    <3> QED BY <3>3, <3>4
  <2>5. CASE Drop
    <3>1. /\ written' = written + Least(held + Trailers, space)
          /\ space' = space - Least(held + Trailers, space)
          /\ held' = 0 /\ fed' = fed /\ cl' = cl /\ result' = result
          /\ pc = "drop" /\ pc' = "cleanup"
      BY <2>5 DEF Drop, Go
    <3>2. cl.first = "tar" /\ cl.encoders = 0 => Trailers = 0 BY PlainTar
    <3> QED BY <3>1, <3>2, <1>1, <1>2, <1>3 DEF Least, Units
  <2> QED BY <2>1, <2>2, <2>3, <2>4, <2>5
<1>7. TypeOK' BY <1>2, <1>4, <1>5, <1>6 DEF TypeOK, file, world
<1>8. Output'
  BY <1>4 DEF Output, Open, file, world, Wrap, Copy, InputFails, EndOfInput, Drop, Returns, Go
<1>9. PriorFilesSurvive' BY <1>4 DEF PriorFilesSurvive, file, world
<1>10. PartialIsTold' BY <1>4 DEF PartialIsTold
<1> QED BY <1>6, <1>7, <1>8, <1>9, <1>10

\* Cleaning up removes the run's own file or tells of it.
LEMMA CleanUpStep == IInv /\ CleanUp => IInv'
<1> SUFFICES ASSUME IInv, CleanUp PROVE IInv' OBVIOUS
<1> USE CompressAssumption DEF IInv
<1>1. Trailers' = Trailers /\ Total' = Total BY DEF CleanUp, Trailers, Total
<1>2. TypeOK' BY <1>1 DEF TypeOK, CleanUp, Go, chain, world
<1>3. PriorFilesSurvive'
  <2>1. /\ out \in prior => out = 0 /\ agreed
        /\ out \in others => (out = 0 /\ agreed) \/ raced
    BY DEF Output
  <2>2. disk' = disk \/ disk' = [disk EXCEPT ![out] = "none"] BY DEF CleanUp
  <2>3. UNCHANGED <<prior, others, raced, out, agreed>> BY DEF CleanUp, world
  <2>4. disk \in [Paths -> {"none", "prior", "other", "output"}]
        /\ prior \subseteq Paths /\ others \subseteq Paths
    BY DEF TypeOK, Paths
  <2> QED BY <2>1, <2>2, <2>3, <2>4 DEF PriorFilesSurvive
<1>4. Output' BY DEF TypeOK, Output, Open, CleanUp, Go, world
<1>5. Units' BY <1>1 DEF Units, CleanUp, Go, chain
<1>6. PartialIsTold' BY DEF TypeOK, Output, Open, PartialIsTold, CleanUp, Go
<1> QED BY <1>2, <1>3, <1>4, <1>5, <1>6

\* Every step, of the run or of the other process, keeps the invariant.
LEMMA NextIInv == IInv /\ [Next]_vars => IInv'
<1> SUFFICES ASSUME IInv, [Next]_vars PROVE IInv' OBVIOUS
<1>1. CASE Check \/ CreateNew \/ Resolve \/ CreateFile \/ ApplySandbox BY <1>1, OpenSteps
<1>2. CASE Wrap \/ Copy \/ InputFails \/ EndOfInput \/ Drop BY <1>2, ChainSteps
<1>3. CASE CleanUp BY <1>3, CleanUpStep
<1>4. CASE OtherCreates BY <1>4, OtherStep
<1>5. CASE UNCHANGED vars
  <2>1. UNCHANGED <<cl, prior, others, raced, disk, out, agreed, fed, held, written, space,
                    sandbox, result, told, pc>>
    BY <1>5 DEF vars, world, file, chain
  <2>2. Trailers' = Trailers /\ Total' = Total BY <2>1 DEF Trailers, Total
  <2> QED BY <2>1, <2>2 DEF IInv, TypeOK, PriorFilesSurvive, Output, Units, PartialIsTold
<1> QED BY <1>1, <1>2, <1>3, <1>4, <1>5 DEF Next, Step, Terminated

\* The inductive invariant holds of every run of ouch compress.
THEOREM CompressInvariant == Spec => []IInv
BY InitIInv, NextIInv, PTL DEF Spec

\* The run's state keeps its type; no more is written than the input and a
\* trailer for each encoder.
THEOREM CompressTypeCorrect == Spec => []TypeOK
<1>1. IInv => TypeOK BY DEF IInv
<1> QED BY <1>1, CompressInvariant, PTL

\* "keep both files": no path but an overwritten output loses what it held.
THEOREM PriorCorrect == Spec => []PriorFilesSurvive
<1>1. IInv => PriorFilesSurvive BY DEF IInv
<1> QED BY <1>1, CompressInvariant, PTL

\* Success on a disk that took everything means a whole output.
THEOREM SuccessCorrect == Spec => []SuccessIsWhole
<1>1. IInv => SuccessIsWhole BY DEF IInv, Output, Units, SuccessIsWhole
<1> QED BY <1>1, CompressInvariant, PTL

\* A failed run leaves no output behind without telling where it is.
THEOREM PartialCorrect == Spec => []PartialIsTold
<1>1. IInv => PartialIsTold BY DEF IInv
<1> QED BY <1>1, CompressInvariant, PTL
=============================================================================
