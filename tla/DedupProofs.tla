---------------------------- MODULE DedupProofs ----------------------------
(***************************************************************************)
(* Theorems about DedupWrapper, for any tasks, archives and interleaving.  *)
(***************************************************************************)
EXTENDS DedupWrapper, TLAPS

-----------------------------------------------------------------------------
(* Type correctness                                                        *)

\* Leaving with an error keeps the types.
LEMMA FailTyped ==
  ASSUME TypeOK, NEW t \in Tasks, Fail(t)
  PROVE  TypeOK'
  BY DEF Fail, Goto, TypeOK, Stopped

\* Every step keeps the types.
LEMMA TypeStep == TypeOK /\ [Next]_vars => TypeOK'
<1> SUFFICES ASSUME TypeOK, [Next]_vars PROVE TypeOK'
  OBVIOUS
<1> USE DedupAssumption
<1>0. ASSUME NEW t \in Tasks, NEW e \in Entries, MakeParent(t, e) PROVE TypeOK'
  <2>1. todo' \in [Tasks -> SUBSET (Entries \X {"none", "inner", "promoted"})]
    BY <1>0 DEF MakeParent, TypeOK
  <2>2. inner' \in BOOLEAN
    <3>1. inner' = inner \/ inner' = (inner \/ e \notin AtRoot)
      BY <1>0 DEF MakeParent
    <3>2. QED
      BY <3>1, Zenon DEF TypeOK
  <2>3. QED
    BY <1>0, <2>1, <2>2 DEF MakeParent, Goto, TypeOK, Stopped
<1>1. ASSUME NEW t \in Tasks, NEW e \in Entries, Create(t, e) PROVE TypeOK'
  BY <1>1 DEF Create, Goto, TypeOK, Stopped
<1>2. ASSUME NEW t \in Tasks, Inspect(t) PROVE TypeOK'
  BY <1>2 DEF Inspect, Goto, TypeOK, Stopped
<1>3. ASSUME NEW t \in Tasks, List(t) PROVE TypeOK'
  <2>1. CASE inner
    <3>1. {<<e, place[e]>> : e \in Inside} \subseteq Entries \X {"none", "inner", "promoted"}
      BY DEF Inside, In
    <3>2. QED
      BY <1>3, <2>1, <3>1 DEF List, Goto, TypeOK, Stopped
  <2>2. CASE ~inner
    BY <1>3, <2>2, FailTyped DEF List
  <2>3. QED
    BY <2>1, <2>2
<1>4. ASSUME NEW t \in Tasks, NEW e \in Entries, Move(t, e) PROVE TypeOK'
  BY <1>4, FailTyped DEF Move, TypeOK
<1>5. ASSUME NEW t \in Tasks, RemoveInner(t) PROVE TypeOK'
  BY <1>5, FailTyped DEF RemoveInner, Goto, TypeOK, Stopped
<1>6. ASSUME NEW t \in Tasks, Promote(t) PROVE TypeOK'
  <2>1. CASE Fail(t)
    BY <2>1, FailTyped
  <2>2. CASE ~Fail(t)
    <3>1. PICK e \in staged[t] :
            /\ place' = [place EXCEPT ![e] = IF e \in Files THEN "top" ELSE "promoted"]
            /\ inner' = (e \notin Files)
            /\ staged' = [staged EXCEPT ![t] = {}]
            /\ pc' = [pc EXCEPT ![t] = "ok"]
            /\ UNCHANGED <<sharing, held, todo>>
      BY <1>6, <2>2 DEF Promote, Goto
    <3>2. inner' \in BOOLEAN
      BY <3>1, Zenon
    <3>3. QED
      BY <3>1, <3>2 DEF TypeOK, Stopped
  <2>3. QED
    BY <2>1, <2>2
<1>7. CASE UNCHANGED vars
  BY <1>7 DEF vars, TypeOK
<1>8. sharing \subseteq Tasks
  BY DEF TypeOK
<1>9. QED
  BY <1>0, <1>1, <1>2, <1>3, <1>4, <1>5, <1>6, <1>7, <1>8 DEF Next, Step, Finished

\* The state of the wrapper and of every task keeps its type.
THEOREM DedupTypeCorrect == Spec => []TypeOK
<1>1. Init => TypeOK
  BY DedupAssumption DEF Init, TypeOK
<1>2. QED
  BY <1>1, TypeStep, PTL DEF Spec

-----------------------------------------------------------------------------
(* What tasks know                                                         *)

\* What a task has seen was unpacked, and one entry at most is named like the
\* wrapper.
Seen ==
  /\ \A a, b \in held \cap SameName : a = b
  /\ \A e \in held : Of[e] \in sharing
  /\ \A e \in Entries : place[e] # "none" => e \in held
  /\ \A t \in Tasks : staged[t] \subseteq held
  /\ \A t \in Tasks : \A e \in Entries : \A where : <<e, where>> \in todo[t] => e \in held

\* Every step keeps it: a task acts on what it has seen.
LEMMA SeenStep == TypeOK /\ Seen /\ [Next]_vars => Seen'
<1> SUFFICES ASSUME TypeOK, Seen, [Next]_vars PROVE Seen'
  OBVIOUS
<1>0. ASSUME NEW t \in Tasks, Fail(t) PROVE Seen'
  BY <1>0 DEF Fail, Seen, TypeOK
<1>1. ASSUME NEW t \in Tasks, NEW e \in Entries, MakeParent(t, e) PROVE Seen'
  BY <1>1 DEF MakeParent, Seen, TypeOK
<1>2. ASSUME NEW t \in Tasks, NEW e \in Entries, Create(t, e) PROVE Seen'
  BY <1>2 DEF Create, Seen, TypeOK
<1>3. ASSUME NEW t \in Tasks, Inspect(t) PROVE Seen'
  BY <1>3 DEF Inspect, Seen
<1>4. ASSUME NEW t \in Tasks, List(t) PROVE Seen'
  <2>1. Inside \subseteq held
    BY DEF Inside, In, Seen
  <2>2. CASE inner
    <3>1. /\ todo' = [todo EXCEPT ![t] = {<<e, place[e]>> : e \in Inside}]
          /\ UNCHANGED <<sharing, held, place, staged>>
      BY <1>4, <2>2 DEF List
    <3>2. \A e \in Entries : \A where : <<e, where>> \in todo'[t] => e \in held
      BY <2>1, <3>1 DEF TypeOK
    <3>3. QED
      BY <3>1, <3>2 DEF Seen, TypeOK
  <2>3. CASE ~inner
    BY <1>0, <1>4, <2>3 DEF List
  <2>4. QED
    BY <2>2, <2>3
<1>5. ASSUME NEW t \in Tasks, NEW e \in Entries, Move(t, e) PROVE Seen'
  BY <1>0, <1>5 DEF Move, Seen, TypeOK
<1>6. ASSUME NEW t \in Tasks, RemoveInner(t) PROVE Seen'
  BY <1>0, <1>6 DEF RemoveInner, Seen
<1>7. ASSUME NEW t \in Tasks, Promote(t) PROVE Seen'
  BY <1>0, <1>7 DEF Promote, Seen, TypeOK
<1>8. CASE UNCHANGED vars
  BY <1>8 DEF vars, Seen
<1>9. sharing \subseteq Tasks
  BY DEF TypeOK
<1>10. QED
  BY <1>1, <1>2, <1>3, <1>4, <1>5, <1>6, <1>7, <1>8, <1>9 DEF Next, Step, Finished

-----------------------------------------------------------------------------
(* A task alone in its wrapper                                             *)

\* What the wrapper of a lone task looks like at each label, when everything in
\* it can be moved: the task's view never goes stale and no step of it fails.
Shape(t) ==
  /\ pc[t] \notin {"unpack", "create"} => \A e \in held : place[e] # "none"
  /\ pc[t] \in {"unpack", "create"} =>
       /\ \A e \in AtRoot : place[e] \in {"none", "top"}
       /\ \A e \in Entries \ AtRoot : place[e] \in {"none", "inner"}
       /\ In("inner") # {} => inner
       /\ staged[t] = {}
  /\ pc[t] = "create" =>
       \A e \in Entries : <<e, "none">> \in todo[t] => e \in held /\ (e \in AtRoot \/ inner)
  /\ pc[t] = "list" =>
       /\ inner
       /\ \A e \in Entries : place[e] \in {"none", "inner"}
       /\ staged[t] = {}
  /\ pc[t] = "move" =>
       /\ inner
       /\ \A e \in Entries : \A where : <<e, where>> \in todo[t] <=> place[e] = "inner" /\ where = "inner"
       /\ In("promoted") = {}
       /\ staged[t] = In("staged")
       /\ In("lost") = {}
  /\ pc[t] = "promote" =>
       /\ ~inner
       /\ In("inner") = {}
       /\ In("promoted") = {}
       /\ staged[t] = In("staged")
       /\ In("lost") = {}
  /\ pc[t] = "ok" =>
       /\ held \cap AtRoot = {} => (inner <=> In("promoted") # {}) /\ In("inner") = {}
       /\ In("staged") = {}
       /\ In("lost") = {}
  /\ pc[t] \notin {"failed", "error"}

Solo == held \cap Unmovable = {} => \A t \in Tasks : sharing = {t} => Shape(t)

\* Every step of a lone task leads from one shape to the next.
LEMMA SoloStep == TypeOK /\ Seen /\ Solo /\ [Next]_vars => Solo'
<1> SUFFICES ASSUME TypeOK, Seen, Solo, [Next]_vars PROVE Solo'
  OBVIOUS
<1>k. held' = held /\ sharing' = sharing
  BY DEF Next, Step, MakeParent, Create, Inspect, List, Fail, Move, RemoveInner, Promote,
         Finished, vars
<1> SUFFICES ASSUME held \cap Unmovable = {}, NEW t \in Tasks, sharing = {t}
             PROVE  Shape(t)'
  BY <1>k DEF Solo
<1> USE DedupAssumption
<1>s. Shape(t)
  BY DEF Solo
<1>o. \A a, b \in held \cap SameName : a = b
  BY DEF Seen
<1>0. ASSUME NEW e \in Entries, MakeParent(t, e) PROVE Shape(t)'
  <2>1. /\ pc[t] = "unpack" /\ e \in held
        /\ \A x \in AtRoot : place[x] \in {"none", "top"}
        /\ \A x \in Entries \ AtRoot : place[x] \in {"none", "inner"}
        /\ In("inner") # {} => inner
        /\ staged[t] = {}
    BY <1>0, <1>s DEF MakeParent, Shape
  <2>2. ~Blocked
    BY <2>1 DEF Blocked, In
  <2>3. /\ todo' = [todo EXCEPT ![t] = {<<e, "none">>}]
        /\ inner' = (inner \/ e \notin AtRoot)
        /\ pc' = [pc EXCEPT ![t] = "create"]
        /\ UNCHANGED <<sharing, held, place, staged>>
    BY <1>0, <2>2 DEF MakeParent, Goto
  <2>4. pc'[t] = "create" /\ todo'[t] = {<<e, "none">>} /\ In("inner")' = In("inner")
    BY <2>3 DEF TypeOK, In
  <2>5. QED
    BY <2>1, <2>3, <2>4 DEF Shape
<1>1. ASSUME NEW e \in Entries, Create(t, e) PROVE Shape(t)'
  <2>1. /\ pc[t] = "create" /\ e \in held /\ (e \in AtRoot \/ inner)
        /\ \A x \in AtRoot : place[x] \in {"none", "top"}
        /\ \A x \in Entries \ AtRoot : place[x] \in {"none", "inner"}
        /\ In("inner") # {} => inner
        /\ staged[t] = {}
    BY <1>1, <1>s DEF Create, Shape
  <2>2. /\ place' = [place EXCEPT ![e] = IF e \in AtRoot THEN "top" ELSE "inner"]
        /\ pc' = [pc EXCEPT ![t] = "unpack"]
        /\ UNCHANGED <<sharing, held, inner, staged>>
    BY <1>1, <2>1 DEF Create, Goto
  <2>3. pc'[t] = "unpack"
    BY <2>2 DEF TypeOK
  <2>4. /\ \A x \in AtRoot : place'[x] \in {"none", "top"}
        /\ \A x \in Entries \ AtRoot : place'[x] \in {"none", "inner"}
    BY <2>1, <2>2 DEF TypeOK
  <2>5. In("inner")' # {} => inner
    BY <2>1, <2>2 DEF TypeOK, In
  <2>6. QED
    BY <2>1, <2>2, <2>3, <2>4, <2>5 DEF Shape
<1>2. ASSUME Inspect(t) PROVE Shape(t)'
  <2>1. \A e \in held : place[e] # "none"
    BY <1>2 DEF Inspect, Seen
  <2>2. pc' = [pc EXCEPT ![t] = IF inner /\ In("top") \cup In("staged") = {} THEN "list" ELSE "ok"]
        /\ pc[t] = "unpack" /\ UNCHANGED <<sharing, held, place, inner, todo, staged>>
    BY <1>2 DEF Inspect, Goto
  <2>3. CASE inner /\ In("top") \cup In("staged") = {}
    <3>1. pc'[t] = "list"
      BY <2>2, <2>3 DEF TypeOK
    <3>2. \A e \in Entries : place[e] \in {"none", "inner"}
      BY <2>2, <2>3, <1>s DEF Shape, In
    <3>3. QED
      BY <1>s, <2>1, <2>2, <2>3, <3>1, <3>2 DEF Shape
  <2>4. CASE ~(inner /\ In("top") \cup In("staged") = {})
    <3>1. pc'[t] = "ok"
      BY <2>2, <2>4 DEF TypeOK
    <3>2. In("staged") = {} /\ In("lost") = {} /\ In("promoted") = {}
      BY <2>2, <1>s DEF Shape, In
    <3>3. held \cap AtRoot = {} => ~inner /\ In("inner") = {}
      BY <2>2, <2>4, <1>s DEF Shape, In, Seen
    <3>4. QED
      BY <2>1, <2>2, <3>1, <3>2, <3>3 DEF Shape, In
  <2>5. QED
    BY <2>3, <2>4
<1>3. ASSUME List(t) PROVE Shape(t)'
  <2>1. inner
    BY <1>3, <1>s DEF List, Shape
  <2>2. /\ pc[t] = "list" /\ pc' = [pc EXCEPT ![t] = "move"]
        /\ todo' = [todo EXCEPT ![t] = {<<e, place[e]>> : e \in Inside}]
        /\ UNCHANGED <<sharing, held, place, inner, staged>>
    BY <1>3, <2>1 DEF List, Goto
  <2>3. \A e \in Entries : place[e] \in {"none", "inner"}
    BY <1>s, <2>2 DEF Shape
  <2>4. pc'[t] = "move" /\ todo'[t] = {<<e, place[e]>> : e \in Inside}
    BY <2>2 DEF TypeOK
  <2>5. /\ In("staged") = {} /\ In("lost") = {} /\ In("promoted") = {} /\ staged[t] = {}
        /\ \A e \in Entries : e \in Inside <=> place[e] = "inner"
    BY <1>s, <2>2, <2>3 DEF Shape, In, Inside
  <2>6. \A e \in Entries : \A where :
          <<e, where>> \in todo'[t] <=> place[e] = "inner" /\ where = "inner"
    BY <2>4, <2>5 DEF Inside, In
  <2>7. \A e \in held : place[e] # "none"
    BY <1>s, <2>2 DEF Shape
  <2>8. QED
    BY <2>1, <2>2, <2>4, <2>5, <2>6, <2>7 DEF Shape, In
<1>4. ASSUME NEW e \in Entries, Move(t, e) PROVE Shape(t)'
  <2>1. /\ pc[t] = "move" /\ inner /\ In("promoted") = {}
        /\ \A x \in Entries : \A where :
             <<x, where>> \in todo[t] <=> place[x] = "inner" /\ where = "inner"
        /\ staged[t] = In("staged") /\ In("lost") = {}
    BY <1>4, <1>s DEF Move, Shape
  <2>2. place[e] = "inner" /\ <<e, "inner">> \in todo[t] /\ e \in held /\ e \notin Unmovable
    BY <1>4, <2>1 DEF Move, Seen
  <2>3. /\ todo' = [todo EXCEPT ![t] = @ \ {<<e, "inner">>}]
        /\ IF e \in SameName
           THEN place' = [place EXCEPT ![e] = "staged"] /\ staged' = [staged EXCEPT ![t] = {e}]
           ELSE place' = [place EXCEPT ![e] = "top"] /\ UNCHANGED staged
        /\ UNCHANGED <<sharing, held, inner, pc>>
    BY <1>4, <2>1, <2>2 DEF Move
  <2>4. place'[e] # "inner" /\ \A x \in Entries : x # e => place'[x] = place[x]
    BY <2>3 DEF TypeOK
  <2>5. \A x \in Entries : \A where :
          <<x, where>> \in todo'[t] <=> place'[x] = "inner" /\ where = "inner"
    BY <2>1, <2>3, <2>4 DEF TypeOK
  <2>6. \A x \in held : place'[x] # "none"
    BY <1>s, <2>1, <2>3 DEF Shape, TypeOK
  <2>7. In("lost")' = {} /\ In("promoted")' = {}
    BY <2>1, <2>3 DEF In, TypeOK
  <2>8. staged'[t] = In("staged")'
    <3>1. CASE e \in SameName
      <4>1. staged[t] = {}
        BY <2>1, <2>2, <3>1, <1>o DEF In, TypeOK, Seen
      <4>2. QED
        BY <2>1, <2>3, <3>1, <4>1 DEF In, TypeOK
    <3>2. CASE e \notin SameName
      BY <2>1, <2>2, <2>3, <3>2 DEF In, TypeOK
    <3>3. QED
      BY <3>1, <3>2
  <2>9. pc'[t] = "move" /\ inner'
    BY <2>1, <2>3
  <2>10. QED
    BY <2>3, <2>5, <2>6, <2>7, <2>8, <2>9 DEF Shape
<1>5. ASSUME RemoveInner(t) PROVE Shape(t)'
  <2>1. /\ pc[t] = "move" /\ inner /\ In("promoted") = {} /\ todo[t] = {}
        /\ \A x \in Entries : \A where :
             <<x, where>> \in todo[t] <=> place[x] = "inner" /\ where = "inner"
        /\ staged[t] = In("staged") /\ In("lost") = {}
    BY <1>5, <1>s DEF RemoveInner, Shape
  <2>2. In("inner") = {} /\ Inside = {}
    BY <2>1 DEF In, Inside
  <2>3. /\ inner' = FALSE
        /\ pc' = [pc EXCEPT ![t] = IF staged[t] = {} THEN "ok" ELSE "promote"]
        /\ UNCHANGED <<sharing, held, place, todo, staged>>
    BY <1>5, <2>1, <2>2 DEF RemoveInner, Goto
  <2>4. pc'[t] = (IF staged[t] = {} THEN "ok" ELSE "promote")
    BY <2>3 DEF TypeOK
  <2>5. \A x \in held : place[x] # "none"
    BY <1>s, <2>1 DEF Shape
  <2>6. QED
    BY <2>1, <2>2, <2>3, <2>4, <2>5 DEF Shape, In
<1>6. ASSUME Promote(t) PROVE Shape(t)'
  <2>1. /\ pc[t] = "promote" /\ ~inner /\ In("inner") = {} /\ In("promoted") = {}
        /\ staged[t] = In("staged") /\ In("lost") = {}
    BY <1>6, <1>s DEF Promote, Shape
  <2>2. Inside = {}
    BY <2>1 DEF Inside
  <2>3. PICK e \in staged[t] :
          /\ place' = [place EXCEPT ![e] = IF e \in Files THEN "top" ELSE "promoted"]
          /\ inner' = (e \notin Files)
          /\ pc' = [pc EXCEPT ![t] = "ok"]
          /\ UNCHANGED <<sharing, held, todo>>
    BY <1>6, <2>1, <2>2 DEF Promote, Goto
  <2>4. pc'[t] = "ok"
    BY <2>3 DEF TypeOK
  <2>5. staged[t] = {e}
    BY <1>o DEF Seen, TypeOK
  <2>6. In("staged")' = {} /\ In("lost")' = {} /\ In("inner")' = {}
    BY <2>1, <2>3, <2>5 DEF In, TypeOK
  <2>7. inner' <=> In("promoted")' # {}
    BY <2>1, <2>3, <2>5 DEF In, TypeOK
  <2>8. \A x \in held : place'[x] # "none"
    BY <1>s, <2>1, <2>3 DEF Shape, TypeOK
  <2>9. QED
    BY <2>3, <2>4, <2>6, <2>7, <2>8 DEF Shape
<1>7. CASE UNCHANGED vars
  BY <1>7, <1>s DEF vars, Shape, In
<1>8. QED
  BY <1>0, <1>1, <1>2, <1>3, <1>4, <1>5, <1>6, <1>7 DEF Next, Step, Finished

\* The facts the next two theorems share.
LEMMA SoloCorrect == Spec => [](TypeOK /\ Seen /\ Solo)
<1>1. Init => Seen /\ Solo
  BY DedupAssumption DEF Init, Seen, Solo, Shape, In
<1>2. QED
  BY <1>1, DedupTypeCorrect, SeenStep, SoloStep, PTL DEF Spec

-----------------------------------------------------------------------------

\* A task alone in its wrapper flattens it completely and without an error.
THEOREM FlattenedCorrect == Spec => []Flattened
<1>1. TypeOK /\ Seen /\ Solo => Flattened
  <2> SUFFICES ASSUME TypeOK, Seen, Solo, Alone, held \cap Unmovable = {}, NEW t \in sharing
               PROVE  /\ pc[t] \notin {"failed", "error"}
                      /\ pc[t] = "ok" /\ held \cap AtRoot = {} =>
                           /\ inner <=> In("promoted") # {}
                           /\ \A e \in held : place[e] \in {"top", "promoted"}
    BY DEF Flattened
  <2>1. t \in Tasks /\ Shape(t)
    BY DEF Alone, Solo, TypeOK
  <2>2. held \subseteq Entries
    BY DEF TypeOK
  <2>3. QED
    BY <2>1, <2>2 DEF Shape, In, TypeOK
<1>2. QED
  BY <1>1, SoloCorrect, PTL

\* The first two conjuncts of NothingLost, which need no more than the types.
LostByFailing ==
  /\ In("lost") \subseteq SameName \cap Files
  /\ In("lost") # {} => \E t \in sharing : pc[t] = "error"

\* Only a failing task deletes anything, and what it deletes is what it staged.
LEMMA LostStep == TypeOK /\ LostByFailing /\ [Next]_vars => LostByFailing'
<1> SUFFICES ASSUME TypeOK, LostByFailing, [Next]_vars PROVE LostByFailing'
  OBVIOUS
<1>1. ASSUME NEW t \in sharing, Fail(t) PROVE LostByFailing'
  <2>1. pc'[t] = "error" /\ sharing' = sharing
    BY <1>1 DEF Fail, Goto, TypeOK
  <2>2. In("lost")' \subseteq In("lost") \cup (staged[t] \cap Files)
    BY <1>1 DEF Fail, In
  <2>3. staged[t] \subseteq SameName
    BY DEF TypeOK
  <2>4. QED
    BY <2>1, <2>2, <2>3 DEF LostByFailing
<1>2. ASSUME NEW t \in sharing, Step(t), ~Fail(t) PROVE LostByFailing'
  <2>1. In("lost")' \subseteq In("lost")
    BY <1>2 DEF Step, MakeParent, Create, Inspect, List, Move, RemoveInner, Promote, In, TypeOK
  <2>2. pc[t] # "error"
    BY <1>2 DEF Step, MakeParent, Create, Inspect, List, Move, RemoveInner, Promote
  <2>3. sharing' = sharing /\ \A u \in Tasks : u # t => pc'[u] = pc[u]
    BY <1>2 DEF Step, MakeParent, Create, Inspect, List, Move, RemoveInner, Promote, Goto, TypeOK
  <2>4. QED
    BY <2>1, <2>2, <2>3 DEF LostByFailing, TypeOK
<1>3. CASE UNCHANGED vars
  BY <1>3 DEF vars, LostByFailing, In
<1>4. QED
  BY <1>1, <1>2, <1>3 DEF Next, Finished

\* However many tasks share a wrapper and however they interleave, the one thing
\* that can be lost is the file a task that fails holds under a temporary name,
\* and a task alone in its wrapper loses nothing.
THEOREM NothingLostCorrect == Spec => []NothingLost
<1>1. Init => LostByFailing
  BY DEF Init, LostByFailing, In
<1>2. TypeOK /\ Solo /\ LostByFailing => NothingLost
  BY DEF LostByFailing, NothingLost, Solo, Shape, Alone
<1>3. QED
  BY <1>1, <1>2, LostStep, SoloCorrect, PTL DEF Spec
=============================================================================
