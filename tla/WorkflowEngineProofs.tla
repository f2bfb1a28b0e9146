------------------------ MODULE WorkflowEngineProofs ------------------------
(***************************************************************************)
(* What holds of WorkflowEngine for every workflow definition.             *)
(*                                                                         *)
(* The addresses first: where a stage may run, and what is around it.      *)
(* Then the stack of frames, each the frame of the stage that the one      *)
(* before is at.  TreeInv ties the stack to the record: a stage is written *)
(* as running exactly while it has a frame or is the leaf in flight.  From *)
(* it follow the first theorems, which are at the end of each part.        *)
(*                                                                         *)
(* The rest is about resumption.  ResumeInv says that the record is in the *)
(* order of the items and that the frames lead to where the run was        *)
(* resumed; SlotInv, that every slot an item sees was written in that very *)
(* item; OnTheWay, that no frame is before the resume point.               *)
(***************************************************************************)
EXTENDS WorkflowEngine, Recursion, SequenceTheorems, FiniteSetTheorems, TLAPS

\* Induction over a well-founded relation, for the members of a set.
LEMMA FoundedInduction ==
  ASSUME NEW S, NEW R, NEW P, Founded(R, S),
         \A x \in S : (\A y \in S : <<y, x>> \in R => y \in P) => x \in P
  PROVE  S \subseteq P
<1> SUFFICES ASSUME S \ P # {} PROVE FALSE
  OBVIOUS
<1>1. PICK x \in S \ P : \A y \in S \ P : <<y, x>> \notin R
  BY DEF Founded
<1> QED BY <1>1

\* The stage that has this one in its body, and the root has none.
LEMMA Owners ==
  /\ \A s \in Stages \ {Root} :
       Owner[s] \in Stages /\ \E i \in DOMAIN Body(Owner[s]) : Body(Owner[s])[i] = s
  /\ \A o \in Stages : \A i \in DOMAIN Body(o) :
       Body(o)[i] \in Stages \ {Root} /\ Owner[Body(o)[i]] = o
  /\ \A o \in Stages : \A i, k \in DOMAIN Body(o) : Body(o)[i] = Body(o)[k] => i = k
<1>1. \A o \in Stages : Body(o) \in Seq(Stages)
  BY DefAssumption DEF Stages, Body, StageRecord
<1>2. \A s \in Stages \ {Root} :
        \E o \in Stages : \E i \in DOMAIN Body(o) :
          /\ Body(o)[i] = s
          /\ \A q \in Stages : \A k \in DOMAIN Body(q) : Body(q)[k] = s => q = o /\ k = i
  BY BodiesAssumption DEF Stages, Body
<1>3. PICK top \in Stages : \A o \in Stages : \A i \in DOMAIN Body(o) : Body(o)[i] # top
  <2>1. Stages # {} /\ Stages \in SUBSET DOMAIN Def
    BY DefAssumption DEF Stages
  <2> QED BY <2>1, NestingAssumption DEF Stages, Body
<1>4. top = Root
  BY <1>2, <1>3
<1>5. \A o \in Stages : \A i \in DOMAIN Body(o) : Body(o)[i] \in Stages \ {Root}
  BY <1>1, <1>3, <1>4
<1>6. \A s \in Stages \ {Root} :
        Owner[s] \in Stages /\ \E i \in DOMAIN Body(Owner[s]) : Body(Owner[s])[i] = s
  BY <1>2 DEF Owner
<1>7. ASSUME NEW o \in Stages, NEW i \in DOMAIN Body(o) PROVE Owner[Body(o)[i]] = o
  BY <1>2, <1>5, <1>6
<1> QED BY <1>2, <1>5, <1>6, <1>7

\* What a stage is directly within.
Within == {p \in Stages \X Stages : p[2] # Root /\ p[1] = Owner[p[2]]}

\* What a stage is within is closer to the workflow itself, so induction over it is sound.
LEMMA Nested == Founded(Within, Stages) /\ \A s \in Stages \ {Root} : <<Owner[s], s>> \in Within
<1>1. ASSUME NEW U \in SUBSET Stages, U # {}
      PROVE  \E x \in U : \A y \in U : <<y, x>> \notin Within
  <2>1. PICK x \in U : \A o \in U : \A i \in DOMAIN Body(o) : Body(o)[i] # x
    BY <1>1, NestingAssumption DEF Stages, Body
  <2>2. \A y \in U : <<y, x>> \notin Within
    BY <2>1, Owners DEF Within
  <2> QED BY <2>2
<1> QED BY <1>1, Owners DEF Founded, Within

\* The item numbers within a loop of so many items.
Inside(places, items) == {Append(p, i) : p \in places, i \in 1 .. items}

PlacesFrom(g, s) ==
  IF s = Root THEN {<<>>}
  ELSE IF Def[Owner[s]].type = "loop" THEN Inside(g[Owner[s]], Def[Owner[s]].items)
       ELSE g[Owner[s]]

\* The item numbers within a loop are sequences of numbers.
LEMMA InsideTyped ==
  ASSUME NEW P \in SUBSET Seq(Nat), NEW n \in Nat
  PROVE  Inside(P, n) \in SUBSET Seq(Nat)
<1>1. ASSUME NEW p \in P, NEW i \in 1 .. n PROVE Append(p, i) \in Seq(Nat)
  <2>1. p \in Seq(Nat) /\ i \in Nat
    OBVIOUS
  <2> QED BY <2>1
<1> QED BY <1>1 DEF Inside

\* Places is what its definition says, at every stage.
LEMMA PlacesRecursion ==
  /\ Places \in [Stages -> SUBSET Seq(Nat)]
  /\ \A s \in Stages : Places[s] = PlacesFrom(Places, s)
<1> DEFINE T == SUBSET Seq(Nat)
           F == [s \in Stages |-> [g \in [Stages -> T] |-> PlacesFrom(g, s)]]
<1>1. ASSUME NEW s \in Stages, NEW g \in [Stages -> T] PROVE PlacesFrom(g, s) \in T
  <2>1. CASE s = Root
    <3>1. <<>> \in Seq(Nat)
      OBVIOUS
    <3> QED BY <2>1, <3>1 DEF PlacesFrom
  <2>2. CASE s # Root
    <3>1. g[Owner[s]] \in SUBSET Seq(Nat)
      BY <2>2, Owners
    <3>2. Def[Owner[s]].items \in Nat
      BY <2>2, Owners, DefAssumption DEF Stages, StageRecord
    <3>3. Inside(g[Owner[s]], Def[Owner[s]].items) \in SUBSET Seq(Nat)
      BY <3>1, <3>2, InsideTyped
    <3> QED BY <2>2, <3>1, <3>3 DEF PlacesFrom
  <2> QED BY <2>1, <2>2
<1>2. F \in [Stages -> [[Stages -> T] -> T]]
  BY <1>1
<1>3. LooksBelow(F, Within, Stages, T)
  <2>1. ASSUME NEW s \in Stages, NEW g \in [Stages -> T], NEW h \in [Stages -> T],
               \A y \in Stages : <<y, s>> \in Within => g[y] = h[y]
        PROVE  F[s][g] = F[s][h]
    <3>1. s # Root => g[Owner[s]] = h[Owner[s]]
      BY <2>1, Owners, Nested
    <3>2. PlacesFrom(g, s) = PlacesFrom(h, s)
      BY <3>1 DEF PlacesFrom
    <3> QED BY <3>2
  <2> HIDE DEF F, T
  <2> QED BY <2>1 DEF LooksBelow
<1>4. T # {}
  OBVIOUS
<1>5. Solvable(F, Stages, T)
  <2> HIDE DEF F, T
  <2> QED BY <1>2, <1>3, <1>4, Nested, RecursionExists
<1>6. PICK f \in [Stages -> T] : \A s \in Stages : f[s] = F[s][f]
  <2> HIDE DEF F, T
  <2> QED BY <1>5 DEF Solvable
<1>7. f = [s \in Stages |-> PlacesFrom(f, s)]
  BY <1>6
<1>8. Places = CHOOSE c : c = [s \in Stages |-> PlacesFrom(c, s)]
  BY DEF Places, PlacesFrom, Inside
<1>9. Places = [s \in Stages |-> PlacesFrom(Places, s)]
  <2> HIDE DEF T, F
  <2> QED BY <1>7, <1>8
<1>10. \A s \in Stages : Places[s] = PlacesFrom(Places, s)
  BY <1>9
<1>11. Stages \subseteq {s \in Stages : Places[s] \in T}
  <2> DEFINE Good == {s \in Stages : Places[s] \in T}
  <2>1. ASSUME NEW s \in Stages, \A y \in Stages : <<y, s>> \in Within => y \in Good
        PROVE  s \in Good
    <3> DEFINE g == [y \in Stages |-> IF y \in Good THEN Places[y] ELSE {}]
    <3>1. g \in [Stages -> T]
      BY <1>4
    <3>2. s # Root => g[Owner[s]] = Places[Owner[s]]
      BY <2>1, Owners, Nested
    <3>3. PlacesFrom(g, s) = PlacesFrom(Places, s)
      <4> HIDE DEF g, Good
      <4> QED BY <3>2 DEF PlacesFrom
    <3> HIDE DEF g, T
    <3> QED BY <1>1, <1>10, <3>1, <3>3
  <2>3. Stages \subseteq Good
    <3> HIDE DEF Good
    <3> QED BY <2>1, Nested, FoundedInduction
  <2> QED BY <2>3
<1> QED BY <1>9, <1>10, <1>11

\* So is Around.
LEMMA AroundRecursion ==
  \A s \in Stages : /\ Around[s] = IF s = Root THEN {} ELSE {s} \cup Around[Owner[s]]
                    /\ Around[s] \subseteq Stages
<1> DEFINE T == SUBSET Stages
           Value(g, s) == IF s = Root THEN {} ELSE {s} \cup g[Owner[s]]
           F == [s \in Stages |-> [g \in [Stages -> T] |-> Value(g, s)]]
<1>1. ASSUME NEW s \in Stages, NEW g \in [Stages -> T] PROVE Value(g, s) \in T
  BY Owners
<1>2. F \in [Stages -> [[Stages -> T] -> T]]
  BY <1>1
<1>3. LooksBelow(F, Within, Stages, T)
  <2>1. ASSUME NEW s \in Stages, NEW g \in [Stages -> T], NEW h \in [Stages -> T],
               \A y \in Stages : <<y, s>> \in Within => g[y] = h[y]
        PROVE  F[s][g] = F[s][h]
    <3>1. s # Root => g[Owner[s]] = h[Owner[s]]
      BY <2>1, Owners, Nested
    <3> QED BY <3>1
  <2> HIDE DEF F, T
  <2> QED BY <2>1 DEF LooksBelow
<1>4. T # {}
  OBVIOUS
<1>5. Solvable(F, Stages, T)
  <2> HIDE DEF F, T
  <2> QED BY <1>2, <1>3, <1>4, Nested, RecursionExists
<1>6. PICK f \in [Stages -> T] : \A s \in Stages : f[s] = F[s][f]
  <2> HIDE DEF F, T
  <2> QED BY <1>5 DEF Solvable
<1>7. f = [s \in Stages |-> Value(f, s)]
  BY <1>6
<1>8. Around = CHOOSE c : c = [s \in Stages |-> Value(c, s)]
  BY DEF Around
<1>9. Around = [s \in Stages |-> Value(Around, s)]
  <2> HIDE DEF T, F
  <2> QED BY <1>7, <1>8
<1>10. \A s \in Stages : Around[s] = Value(Around, s)
  BY <1>9
<1>11. Stages \subseteq {s \in Stages : Around[s] \in T}
  <2> DEFINE Good == {s \in Stages : Around[s] \in T}
  <2>1. ASSUME NEW s \in Stages, \A y \in Stages : <<y, s>> \in Within => y \in Good
        PROVE  s \in Good
    <3>1. s # Root => Around[Owner[s]] \in SUBSET Stages
      BY <2>1, Owners, Nested
    <3> QED BY <1>10, <3>1
  <2>3. Stages \subseteq Good
    <3> HIDE DEF Good
    <3> QED BY <2>1, Nested, FoundedInduction
  <2> QED BY <2>3
<1> QED BY <1>10, <1>11

\* The numbers of a stage begin with those of the stages around it, of which all runs of
\* one stage have as many.
LEMMA Depth == \A s \in Stages : \A p, q \in Places[s] : Len(p) = Len(q)
<1> DEFINE Good == {s \in Stages : \A p, q \in Places[s] : Len(p) = Len(q)}
<1>1. ASSUME NEW s \in Stages, \A y \in Stages : <<y, s>> \in Within => y \in Good
      PROVE  s \in Good
  <2>1. CASE s = Root
    BY <2>1, PlacesRecursion DEF PlacesFrom
  <2>2. CASE s # Root
    <3>1. /\ Owner[s] \in Stages /\ Places[Owner[s]] \in SUBSET Seq(Nat)
          /\ \A p, q \in Places[Owner[s]] : Len(p) = Len(q)
      BY <1>1, <2>2, Owners, Nested, PlacesRecursion
    <3>2. Places[s] = Places[Owner[s]] \/ Places[s] = Inside(Places[Owner[s]], Def[Owner[s]].items)
      BY <2>2, PlacesRecursion DEF PlacesFrom
    <3>3. \A p \in Places[Owner[s]] : \A i : Len(Append(p, i)) = Len(p) + 1
      BY <3>1
    <3> QED BY <3>1, <3>2, <3>3 DEF Inside
  <2> QED BY <2>1, <2>2
<1>2. Stages \subseteq Good
  <2> HIDE DEF Good
  <2> QED BY <1>1, Nested, FoundedInduction
<1> QED BY <1>2

\* The stages around a stage: outwards up to the workflow's own list, never itself again.
LEMMA Outwards ==
  \A s \in Stages : \A t \in Around[s] :
    t \in Stages \ {Root} /\ (Owner[t] # Root => Owner[t] \in Around[s])
<1> DEFINE Good == {s \in Stages : \A t \in Around[s] :
                      t \in Stages \ {Root} /\ (Owner[t] # Root => Owner[t] \in Around[s])}
<1>1. ASSUME NEW s \in Stages, \A y \in Stages : <<y, s>> \in Within => y \in Good
      PROVE  s \in Good
  <2>1. CASE s = Root
    BY <2>1, AroundRecursion
  <2>2. CASE s # Root
    <3>1. Owner[s] \in Stages /\ Owner[s] \in Good
      BY <1>1, <2>2, Owners, Nested
    <3>2. Around[s] = {s} \cup Around[Owner[s]]
      BY <2>2, AroundRecursion
    <3>3. Owner[s] # Root => Owner[s] \in Around[Owner[s]]
      BY <3>1, AroundRecursion
    <3> QED BY <2>2, <3>1, <3>2, <3>3
  <2> QED BY <2>1, <2>2
<1>2. Stages \subseteq Good
  <2> HIDE DEF Good
  <2> QED BY <1>1, Nested, FoundedInduction
<1> QED BY <1>2

\* A stage is not around the stage it is within.
LEMMA NotAroundItself == \A s \in Stages \ {Root} : s \in Around[s] /\ s \notin Around[Owner[s]]
<1> DEFINE Good == {s \in Stages : s # Root => s \notin Around[Owner[s]]}
<1>1. ASSUME NEW s \in Stages, \A y \in Stages : <<y, s>> \in Within => y \in Good
      PROVE  s \in Good
  <2> SUFFICES ASSUME s # Root, s \in Around[Owner[s]] PROVE FALSE
    OBVIOUS
  <2> DEFINE o == Owner[s]
  <2>1. o \in Stages /\ o \in Good
    BY <1>1, Owners, Nested
  <2>2. o # Root /\ Around[o] = {o} \cup Around[Owner[o]]
    BY <2>1, AroundRecursion
  <2>3. o \notin Around[Owner[o]] /\ Owner[o] \in Stages
    BY <2>1, <2>2, Owners
  <2>4. CASE s = o
    <3>1. Owner[o] = o
      BY <2>4
    <3> QED BY <2>2, <2>3, <3>1
  <2>5. CASE s \in Around[Owner[o]]
    <3>1. o \in Around[Owner[o]]
      BY <2>2, <2>3, <2>5, Outwards
    <3> QED BY <2>3, <3>1
  <2> QED BY <2>2, <2>4, <2>5
<1>2. Stages \subseteq Good
  <2> HIDE DEF Good
  <2> QED BY <1>1, Nested, FoundedInduction
<1> QED BY <1>2, AroundRecursion

\* Appending leaves the numbers before it as they are.
LEMMA AppendPrefix ==
  ASSUME NEW p \in Seq(Nat), NEW i \in Nat, NEW k \in 0 .. Len(p)
  PROVE  /\ Append(p, i) \in Seq(Nat) /\ Len(Append(p, i)) = Len(p) + 1
         /\ Append(p, i)[Len(p) + 1] = i
         /\ SubSeq(Append(p, i), 1, k) = SubSeq(p, 1, k)
         /\ SubSeq(p, 1, Len(p)) = p
<1>1. Append(p, i) \in Seq(Nat) /\ Len(Append(p, i)) = Len(p) + 1 /\ Append(p, i)[Len(p) + 1] = i
  OBVIOUS
<1>2. SubSeq(p, 1, Len(p)) = p
  OBVIOUS
<1> DEFINE a == SubSeq(Append(p, i), 1, k)
           b == SubSeq(p, 1, k)
<1>3. /\ a \in Seq(Nat) /\ b \in Seq(Nat) /\ Len(a) = Len(b)
      /\ \A x \in 1 .. Len(a) : a[x] = b[x]
  OBVIOUS
<1>4. a = b
  <2> HIDE DEF a, b
  <2> QED BY <1>3, SeqEqual
<1> QED BY <1>1, <1>2, <1>4

\* What runs within runs under the same numbers, or one more.
LEMMA PlacesWithin ==
  \A o \in Stages : \A i \in DOMAIN Body(o) :
    Places[Body(o)[i]] = IF Def[o].type = "loop" THEN Inside(Places[o], Def[o].items) ELSE Places[o]
BY Owners, PlacesRecursion DEF PlacesFrom

\* A prefix of a prefix is one.
LEMMA PrefixOfPrefix ==
  ASSUME NEW s \in Seq(Nat), NEW k \in 0 .. Len(s), NEW l \in 0 .. k
  PROVE  SubSeq(SubSeq(s, 1, k), 1, l) = SubSeq(s, 1, l)
<1> DEFINE x == SubSeq(SubSeq(s, 1, k), 1, l)
           y == SubSeq(s, 1, l)
<1>1. Len(s) \in Nat /\ k \in Nat /\ l \in Nat /\ k <= Len(s) /\ l <= k
  OBVIOUS
<1>2. /\ SubSeq(s, 1, k) \in Seq(Nat) /\ Len(SubSeq(s, 1, k)) = k
      /\ \A j \in 1 .. k : SubSeq(s, 1, k)[j] = s[j]
  BY <1>1
<1>3. x \in Seq(Nat) /\ Len(x) = l /\ \A j \in 1 .. l : x[j] = s[j]
  BY <1>1, <1>2
<1>4. y \in Seq(Nat) /\ Len(y) = l /\ \A j \in 1 .. l : y[j] = s[j]
  BY <1>1
<1> HIDE DEF x, y
<1>5. x = y
  BY <1>3, <1>4, SeqEqual
<1> QED BY <1>5 DEF x, y

\* A place begins with a place of every stage around.
LEMMA PlacesAround ==
  \A s \in Stages : \A t \in Around[s] : \A p \in Places[s] :
    \E k \in 0 .. Len(p) : SubSeq(p, 1, k) \in Places[t] /\ \A q \in Places[t] : Len(q) = k
<1> DEFINE Fits(s) == \A t \in Around[s] : \A p \in Places[s] :
                        \E k \in 0 .. Len(p) :
                          SubSeq(p, 1, k) \in Places[t] /\ \A q \in Places[t] : Len(q) = k
           Good == {s \in Stages : Fits(s)}
<1>1. ASSUME NEW s \in Stages, \A y \in Stages : <<y, s>> \in Within => y \in Good
      PROVE  s \in Good
  <2> SUFFICES ASSUME NEW t \in Around[s], NEW p \in Places[s]
               PROVE  \E k \in 0 .. Len(p) : SubSeq(p, 1, k) \in Places[t]
                                             /\ \A q \in Places[t] : Len(q) = k
    OBVIOUS
  <2>1. t \in Stages \ {Root} /\ p \in Seq(Nat) /\ Len(p) \in 0 .. Len(p) /\ SubSeq(p, 1, Len(p)) = p
    <3>1. p \in Seq(Nat)
      BY PlacesRecursion
    <3> QED BY <3>1, Outwards
  <2>2. CASE t = s
    <3>1. SubSeq(p, 1, Len(p)) \in Places[t]
      BY <2>1, <2>2
    <3>2. \A q \in Places[t] : Len(q) = Len(p)
      BY <2>1, <2>2, Depth
    <3> QED BY <2>1, <3>1, <3>2
  <2>3. CASE t # s
    <3>1. s # Root /\ t \in Around[Owner[s]]
      BY <2>3, AroundRecursion
    <3>2. Owner[s] \in Stages /\ Fits(Owner[s])
      BY <1>1, <3>1, Owners, Nested
    <3>3. CASE p \in Places[Owner[s]]
      BY <3>1, <3>2, <3>3
    <3>4. CASE p \in Inside(Places[Owner[s]], Def[Owner[s]].items)
      <4>1. PICK r \in Places[Owner[s]], i \in 1 .. Def[Owner[s]].items : p = Append(r, i)
        BY <3>4 DEF Inside
      <4>2. PICK k \in 0 .. Len(r) : SubSeq(r, 1, k) \in Places[t] /\ \A q \in Places[t] : Len(q) = k
        BY <3>1, <3>2, <4>1
      <4>3. r \in Seq(Nat) /\ i \in Nat
        BY <3>2, <4>1, PlacesRecursion
      <4>4. Len(p) = Len(r) + 1 /\ Len(r) \in Nat /\ SubSeq(p, 1, k) = SubSeq(r, 1, k)
        BY <4>1, <4>2, <4>3, AppendPrefix
      <4>5. k \in 0 .. Len(p)
        BY <4>2, <4>4
      <4>6. SubSeq(p, 1, k) \in Places[t]
        BY <4>2, <4>4
      <4> QED BY <4>2, <4>5, <4>6
    <3> QED BY <3>1, <3>3, <3>4, PlacesRecursion DEF PlacesFrom
  <2> QED BY <2>2, <2>3
<1>2. Stages \subseteq Good
  <2> HIDE DEF Good
  <2> QED BY <1>1, Nested, FoundedInduction
<1> QED BY <1>2

-----------------------------------------------------------------------------

\* The fields of an address.
LEMMA NodeFields == \A s, p : Node(s, p).stage = s /\ Node(s, p).items = p
BY DEF Node

\* The addresses of stages, and those of loop items, which are none.
LEMMA StageNode ==
  /\ \A s \in Stages \ {Root} : \A p \in Places[s] : Node(s, p) \in StageNodes
  /\ \A n \in StageNodes : /\ n.stage \in Stages \ {Root} /\ n.items \in Places[n.stage]
                           /\ n = Node(n.stage, n.items) /\ n.items \in Seq(Nat)
<1>1. \A s \in Stages \ {Root} : \A p \in Places[s] : Node(s, p) \in StageNodes
  BY DEF StageNodes
<1>2. ASSUME NEW n \in StageNodes
      PROVE  /\ n.stage \in Stages \ {Root} /\ n.items \in Places[n.stage]
             /\ n = Node(n.stage, n.items) /\ n.items \in Seq(Nat)
  <2>1. PICK s \in Stages \ {Root} : \E p \in Places[s] : n = Node(s, p)
    BY DEF StageNodes
  <2> QED BY <2>1, NodeFields, PlacesRecursion
<1> QED BY <1>1, <1>2

\* The addresses of the items of a loop.
LEMMA LoopItem ==
  /\ \A s \in Stages : \A p \in Places[s] : \A i \in 1 .. Def[s].items :
       Def[s].type = "loop" => Node(s, Append(p, i)) \in ItemNodes
  /\ \A n \in ItemNodes :
       /\ n.stage \in Stages \ {Root} /\ Def[n.stage].type = "loop"
       /\ \E p \in Places[n.stage], i \in 1 .. Def[n.stage].items : n = Node(n.stage, Append(p, i))
  /\ ItemNodes \cap StageNodes = {}
<1>1. ASSUME NEW s \in Stages, NEW p \in Places[s], NEW i \in 1 .. Def[s].items, Def[s].type = "loop"
      PROVE  Node(s, Append(p, i)) \in ItemNodes
  BY <1>1 DEF ItemNodes, ItemsOf
<1>2. ASSUME NEW n \in ItemNodes
      PROVE  /\ n.stage \in Stages \ {Root} /\ Def[n.stage].type = "loop"
             /\ \E p \in Places[n.stage], i \in 1 .. Def[n.stage].items :
                  n = Node(n.stage, Append(p, i))
  <2>1. PICK s \in Stages : Def[s].type = "loop" /\ n \in ItemsOf(s)
    BY DEF ItemNodes
  <2>2. n.stage = s
    BY <2>1, NodeFields DEF ItemsOf
  <2>3. s # Root
    BY <2>1, DefAssumption
  <2> QED BY <2>1, <2>2, <2>3 DEF ItemsOf
<1>3. ASSUME NEW n \in ItemNodes, n \in StageNodes PROVE FALSE
  <2>1. PICK p \in Places[n.stage], i \in 1 .. Def[n.stage].items : n = Node(n.stage, Append(p, i))
    BY <1>2
  <2>2. /\ n.items = Append(p, i) /\ n.stage \in Stages
        /\ p \in Seq(Nat) /\ n.items \in Places[n.stage]
    <3>1. n.stage \in Stages /\ n.items \in Places[n.stage]
      BY <1>3, StageNode
    <3>2. n.items = Append(p, i)
      BY <2>1, NodeFields
    <3> QED BY <3>1, <3>2, PlacesRecursion
  <2>3. Len(n.items) = Len(p) + 1 /\ Len(p) \in Nat
    BY <2>2
  <2>4. Len(n.items) = Len(p)
    BY <2>2, Depth
  <2> QED BY <2>3, <2>4
<1> QED BY <1>1, <1>2, <1>3

RootNode == Node(Root, <<>>)

\* The workflow itself, and the absence of an address, are not among the addresses.
LEMMA NoSuchNode == NoNode \notin Nodes /\ RootNode \notin Nodes /\ <<>> \in Places[Root] /\ Root \in Stages
<1>1. \A n \in Nodes : n.stage \in Stages \ {Root}
  BY StageNode, LoopItem DEF Nodes
<1>2. "none" \notin Stages /\ Root \in Stages
  BY NamesAssumption, DefAssumption DEF Stages
<1>3. <<>> \in Places[Root]
  BY <1>2, PlacesRecursion DEF PlacesFrom
<1> QED BY <1>1, <1>2, <1>3, NodeFields DEF NoNode, RootNode

\* The stage in whose body a stage around another one lies is the next one outwards.
LEMMA Inwards ==
  \A s \in Stages : \A t \in Stages :
    (t \in Around[s] /\ t # s) \/ (t = Root /\ s # Root) => \E c \in Around[s] : Owner[c] = t
<1> DEFINE Good == {s \in Stages : \A t \in Stages :
             (t \in Around[s] /\ t # s) \/ (t = Root /\ s # Root) => \E c \in Around[s] : Owner[c] = t}
<1>1. ASSUME NEW s \in Stages, \A y \in Stages : <<y, s>> \in Within => y \in Good
      PROVE  s \in Good
  <2> SUFFICES ASSUME NEW t \in Stages, (t \in Around[s] /\ t # s) \/ (t = Root /\ s # Root)
               PROVE  \E c \in Around[s] : Owner[c] = t
    OBVIOUS
  <2>1. s # Root /\ Owner[s] \in Stages /\ Owner[s] \in Good /\ Around[s] = {s} \cup Around[Owner[s]]
    BY <1>1, Owners, Nested, AroundRecursion
  <2>2. CASE Owner[s] = t
    BY <2>1, <2>2
  <2>3. CASE Owner[s] # t
    <3>1. (t \in Around[Owner[s]] /\ t # Owner[s]) \/ (t = Root /\ Owner[s] # Root)
      BY <2>1, <2>3
    <3>2. \E c \in Around[Owner[s]] : Owner[c] = t
      BY <2>1, <3>1
    <3> QED BY <2>1, <3>2
  <2> QED BY <2>2, <2>3
<1>2. Stages \subseteq Good
  <2> HIDE DEF Good
  <2> QED BY <1>1, Nested, FoundedInduction
<1> QED BY <1>2

\* What the definition gives of a stage.
LEMMA StageFields ==
  \A s \in Stages : /\ Def[s].type \in Types /\ Def[s].items \in Nat /\ Def[s].attempts \in Nat \ {0}
                    /\ Body(s) \in Seq(Stages)
                    /\ Def[s].out \in Stages \cup {"none"}
BY DefAssumption DEF Stages, StageRecord, Body

\* A node is one of its stage, or of an item of it.
LEMMA Places1 ==
  ASSUME NEW a \in Nodes
  PROVE  /\ a.stage \in Stages \ {Root} /\ a.items \in Seq(Nat) /\ a = Node(a.stage, a.items)
         /\ \E p \in Places[a.stage] :
              /\ p \in Seq(Nat)
              /\ \A k \in 0 .. Len(p) : SubSeq(a.items, 1, k) = SubSeq(p, 1, k)
              /\ \/ a.items = p /\ a \in StageNodes
                 \/ /\ a \in ItemNodes /\ Def[a.stage].type = "loop"
                    /\ \E i \in 1 .. Def[a.stage].items : a.items = Append(p, i)
<1>1. CASE a \in StageNodes
  BY <1>1, StageNode
<1>2. CASE a \in ItemNodes
  <2>1. PICK p \in Places[a.stage], i \in 1 .. Def[a.stage].items : a = Node(a.stage, Append(p, i))
    BY <1>2, LoopItem
  <2>2. a.stage \in Stages \ {Root} /\ Def[a.stage].type = "loop"
    BY <1>2, LoopItem
  <2>3. a.items = Append(p, i) /\ p \in Seq(Nat) /\ i \in Nat
    <3>1. a.items = Append(p, i)
      BY <2>1, NodeFields
    <3> QED BY <2>2, <3>1, PlacesRecursion, StageFields
  <2>4. a.items \in Seq(Nat) /\ \A k \in 0 .. Len(p) : SubSeq(a.items, 1, k) = SubSeq(p, 1, k)
    BY <2>3, AppendPrefix
  <2> QED BY <1>2, <2>1, <2>2, <2>3, <2>4
<1> QED BY <1>1, <1>2 DEF Nodes

\* The path down to an address, and an address is on its own.
LEMMA AboveIs ==
  ASSUME NEW n \in Nodes, NEW m
  PROVE  m \in Above[n] <=> /\ m \in Nodes /\ m.stage \in Around[n.stage]
                            /\ Len(m.items) <= Len(n.items)
                            /\ m.items = SubSeq(n.items, 1, Len(m.items))
BY DEF Above

\* An address is on its own path.
LEMMA AboveSelf == \A n \in Nodes : n \in Above[n]
<1> TAKE n \in Nodes
<1>1. n.stage \in Around[n.stage] /\ n.items \in Seq(Nat)
  BY Places1, NotAroundItself
<1>2. SubSeq(n.items, 1, Len(n.items)) = n.items /\ Len(n.items) <= Len(n.items)
  BY <1>1
<1> QED BY <1>1, <1>2, AboveIs

\* The number of the place within the k-th item of a loop; of another stage, its own.
Under(o, p, k) == IF Def[o].type = "loop" THEN Append(p, k) ELSE p

\* A stage that runs in the body of another is enclosed by it, and by what encloses it.
LEMMA Child ==
  ASSUME NEW o \in Stages, NEW i \in DOMAIN Body(o), NEW p \in Places[o], NEW k \in Nat,
         Def[o].type = "loop" => k \in 1 .. Def[o].items
  PROVE  LET n == Node(Body(o)[i], Under(o, p, k)) IN
         /\ n \in StageNodes
         /\ \A m \in StageNodes : m \in Above[n] <=> m = n \/ (o # Root /\ m \in Above[Node(o, p)])
         /\ o # Root => Node(o, p) \in StageNodes /\ n \notin Above[Node(o, p)]
<1> DEFINE s == Body(o)[i]
           q == Under(o, p, k)
           n == Node(s, q)
<1>1. s \in Stages \ {Root} /\ Owner[s] = o /\ Around[s] = {s} \cup Around[o] /\ s \notin Around[o]
  <2>1. s \in Stages \ {Root} /\ Owner[s] = o
    BY Owners
  <2> HIDE DEF s
  <2> QED BY <2>1, AroundRecursion, NotAroundItself
<1>2. q \in Places[s]
  <2>1. CASE Def[o].type = "loop"
    <3>1. q = Append(p, k) /\ k \in 1 .. Def[o].items
      BY <2>1 DEF Under
    <3>2. Places[s] = Inside(Places[o], Def[o].items)
      BY <2>1, PlacesWithin
    <3> HIDE DEF s, q
    <3> QED BY <3>1, <3>2, SMTT(30) DEF Inside
  <2>2. CASE Def[o].type # "loop"
    BY <2>2, PlacesWithin DEF Under
  <2> QED BY <2>1, <2>2
<1>3. p \in Seq(Nat) /\ q \in Seq(Nat) /\ \A x \in 0 .. Len(p) : SubSeq(q, 1, x) = SubSeq(p, 1, x)
  <2>1. p \in Seq(Nat)
    BY PlacesRecursion
  <2> QED BY <2>1, AppendPrefix DEF Under
<1> HIDE DEF s, q
<1>4. n \in StageNodes /\ n \in Nodes /\ n.stage = s /\ n.items = q
  BY <1>1, <1>2, StageNode, NodeFields DEF Nodes
<1>5. ASSUME o # Root
      PROVE  Node(o, p) \in StageNodes /\ Node(o, p) \in Nodes
  BY <1>5, StageNode DEF Nodes
<1>6. ASSUME o # Root PROVE n \notin Above[Node(o, p)]
  BY <1>1, <1>4, <1>5, <1>6, AboveIs, NodeFields
<1>7. ASSUME NEW m \in StageNodes
      PROVE  m \in Above[n] <=> m = n \/ (o # Root /\ m \in Above[Node(o, p)])
  <2>1. /\ m \in Nodes /\ m.stage \in Stages \ {Root} /\ m.items \in Places[m.stage]
        /\ m = Node(m.stage, m.items) /\ m.items \in Seq(Nat)
    BY StageNode DEF Nodes
  <2>2. CASE m.stage = s
    <3>1. Len(m.items) = Len(q)
      BY <1>1, <1>2, <2>1, <2>2, Depth
    <3>2. SubSeq(q, 1, Len(q)) = q
      BY <1>3
    <3>3. m \in Above[n] => m = n
      BY <1>4, <2>1, <2>2, <3>1, <3>2, AboveIs
    <3>4. o # Root => m \notin Above[Node(o, p)]
      BY <1>1, <1>5, <2>2, AboveIs, NodeFields
    <3> QED BY <1>4, <3>3, <3>4, AboveSelf
  <2>3. CASE m.stage \in Around[o]
    <3>1. o # Root
      BY <2>3, AroundRecursion
    <3>2. Len(m.items) \in 0 .. Len(p)
      BY <2>1, <2>3, PlacesAround
    <3>3. m.stage \in Around[s] /\ m # n
      BY <1>1, <1>4, <2>3
    <3>4. Len(p) <= Len(q) /\ Len(p) \in Nat /\ Len(q) \in Nat
      BY <1>3, AppendPrefix DEF q, Under
    <3>5. m \in Above[n] <=> m.items = SubSeq(q, 1, Len(m.items))
      BY <1>4, <2>1, <3>2, <3>3, <3>4, AboveIs, SMTT(30)
    <3>6. m \in Above[Node(o, p)] <=> m.items = SubSeq(p, 1, Len(m.items))
      BY <1>5, <2>1, <2>3, <3>1, <3>2, AboveIs, NodeFields, SMTT(30)
    <3> QED BY <1>3, <3>1, <3>2, <3>3, <3>5, <3>6
  <2>4. CASE m.stage \notin Around[s]
    <3>1. m \notin Above[n] /\ m # n
      BY <1>1, <1>4, <2>4, AboveIs
    <3>2. o # Root => m \notin Above[Node(o, p)]
      BY <1>1, <1>5, <2>4, AboveIs, NodeFields
    <3> QED BY <3>1, <3>2
  <2> QED BY <1>1, <2>2, <2>3, <2>4
<1> QED BY <1>4, <1>5, <1>6, <1>7 DEF s, q

\* Below a loop: the item a node is in, and if it is not the item itself, a stage of it.
LEMMA Descent ==
  ASSUME NEW m \in StageNodes, Def[m.stage].type = "loop", NEW a \in Nodes, m \in Above[a], a # m
  PROVE  LET t == a.items[Len(m.items) + 1]
             item == Node(m.stage, Append(m.items, t)) IN
         /\ t \in 1 .. Def[m.stage].items /\ item \in Above[a]
         /\ a # item => \E i \in DOMAIN Body(m.stage) :
                          Node(Body(m.stage)[i], item.items) \in Above[a] \cap StageNodes
<1> DEFINE t == a.items[Len(m.items) + 1]
           item == Node(m.stage, Append(m.items, t))
<1>1. PICK p \in Places[a.stage] :
        /\ p \in Seq(Nat)
        /\ \A k \in 0 .. Len(p) : SubSeq(a.items, 1, k) = SubSeq(p, 1, k)
        /\ \/ a.items = p /\ a \in StageNodes
           \/ /\ a \in ItemNodes /\ Def[a.stage].type = "loop"
              /\ \E i \in 1 .. Def[a.stage].items : a.items = Append(p, i)
  BY Places1
<1>2. a.stage \in Stages \ {Root} /\ a.items \in Seq(Nat) /\ a = Node(a.stage, a.items)
  BY Places1
<1>3. /\ m.stage \in Stages \ {Root} /\ m.items \in Places[m.stage] /\ m.items \in Seq(Nat)
      /\ m = Node(m.stage, m.items) /\ m \in Nodes
  BY StageNode DEF Nodes
<1>4. /\ m.stage \in Around[a.stage] /\ Len(m.items) <= Len(a.items)
      /\ m.items = SubSeq(a.items, 1, Len(m.items))
  BY AboveIs
<1>5. CASE a.stage = m.stage
  <2>1. Len(m.items) = Len(p) /\ Len(p) \in Nat
    BY <1>1, <1>2, <1>3, <1>5, Depth
  <2>2. SubSeq(a.items, 1, Len(p)) = SubSeq(p, 1, Len(p)) /\ SubSeq(p, 1, Len(p)) = p
    BY <1>1, <2>1
  <2>3. m.items = p
    BY <1>4, <2>1, <2>2
  <2>4. a.items # p
    BY <1>2, <1>3, <1>5, <2>3
  <2>5. PICK i \in 1 .. Def[a.stage].items : a.items = Append(p, i)
    BY <1>1, <2>4
  <2>6. t = i
    BY <1>1, <2>3, <2>5
  <2>7. item = a
    BY <1>2, <1>5, <2>3, <2>5, <2>6
  <2> QED BY <1>5, <2>5, <2>6, <2>7, AboveSelf
<1>6. CASE a.stage # m.stage
  <2>1. PICK c \in Around[a.stage] : Owner[c] = m.stage
    BY <1>2, <1>3, <1>4, <1>6, Inwards
  <2>2. c \in Stages \ {Root} /\ \E i \in DOMAIN Body(m.stage) : Body(m.stage)[i] = c
    BY <1>2, <2>1, Outwards, Owners
  <2>3. PICK k \in 0 .. Len(p) : SubSeq(p, 1, k) \in Places[c] /\ \A q \in Places[c] : Len(q) = k
    BY <1>2, <2>1, PlacesAround
  <2>4. Places[c] = Inside(Places[m.stage], Def[m.stage].items)
    BY <2>2, <1>3, PlacesWithin
  <2>5. PICK r \in Places[m.stage], i \in 1 .. Def[m.stage].items : SubSeq(p, 1, k) = Append(r, i)
    BY <2>3, <2>4 DEF Inside
  <2>6. r \in Seq(Nat) /\ i \in Nat /\ Len(r) = Len(m.items)
    BY <1>3, <2>5, Depth, PlacesRecursion
  <2>7. /\ Len(SubSeq(p, 1, k)) = k /\ k = Len(r) + 1 /\ Len(r) \in Nat /\ k \in Nat
        /\ SubSeq(p, 1, k)[k] = i /\ SubSeq(p, 1, k)[k] = p[k]
    BY <1>1, <2>3, <2>5, <2>6
  <2>8. SubSeq(a.items, 1, k) = SubSeq(p, 1, k)
    BY <1>1, <2>3
  <2>9. Len(p) <= Len(a.items) /\ k <= Len(a.items) /\ Len(a.items) \in Nat
    <3>1. a.items = p \/ \E x \in Nat : a.items = Append(p, x)
      BY <1>1
    <3>2. \A x \in Nat : Len(Append(p, x)) = Len(p) + 1
      BY <1>1
    <3>3. Len(p) \in Nat
      BY <1>1
    <3> QED BY <2>3, <3>1, <3>2, <3>3
  <2>10. SubSeq(a.items, 1, k)[k] = a.items[k]
    BY <1>2, <2>7, <2>9
  <2>11. t = i
    BY <2>6, <2>7, <2>8, <2>10
  <2>12. m.items = r
    <3>1. SubSeq(Append(r, i), 1, Len(r)) = SubSeq(r, 1, Len(r)) /\ SubSeq(r, 1, Len(r)) = r
      BY <2>6, <2>7, AppendPrefix
    <3>2. k \in 0 .. Len(a.items) /\ Len(r) \in 0 .. k
      BY <2>7, <2>9
    <3>3. SubSeq(SubSeq(a.items, 1, k), 1, Len(r)) = SubSeq(a.items, 1, Len(r))
      BY <1>2, <3>2, PrefixOfPrefix
    <3> QED BY <1>4, <2>5, <2>6, <2>8, <3>1, <3>3
<2>13. item.items = SubSeq(a.items, 1, k) /\ Len(item.items) = k /\ item.stage = m.stage
    <3>1. item.items = Append(m.items, t) /\ item.stage = m.stage
      BY NodeFields
    <3> HIDE DEF item, t
    <3> QED BY <2>5, <2>7, <2>8, <2>11, <2>12, <3>1
  <2>14. item \in Nodes
    BY <1>3, <2>5, <2>11, <2>12, LoopItem DEF Nodes
  <2>15. item \in Above[a]
    BY <1>4, <2>9, <2>13, <2>14, AboveIs
  <2>16. Node(c, item.items) \in StageNodes
    BY <2>2, <2>3, <2>8, <2>13, StageNode
  <2>17. Node(c, item.items) \in Above[a]
    <3> DEFINE n == Node(c, item.items)
    <3>1. n \in Nodes /\ n.stage = c /\ n.items = SubSeq(a.items, 1, k) /\ Len(n.items) = k
      BY <2>13, <2>16, NodeFields DEF Nodes
    <3> HIDE DEF n
    <3>2. n \in Above[a]
      BY <2>1, <2>9, <3>1, AboveIs
    <3> QED BY <3>2 DEF n
  <2> QED BY <2>2, <2>5, <2>11, <2>15, <2>16, <2>17
<1> QED BY <1>5, <1>6

\* Every node is within a stage of the workflow's own list.
LEMMA TopOf ==
  ASSUME NEW a \in Nodes
  PROVE  \E i \in DOMAIN Body(Root) : Node(Body(Root)[i], <<>>) \in Above[a] \cap StageNodes
<1>1. a.stage \in Stages \ {Root} /\ a.items \in Seq(Nat)
  BY Places1
<1>2. PICK c \in Around[a.stage] : Owner[c] = Root
  BY <1>1, NoSuchNode, Inwards
<1>3. c \in Stages \ {Root} /\ \E i \in DOMAIN Body(Root) : Body(Root)[i] = c
  BY <1>1, <1>2, Outwards, Owners
<1>4. <<>> \in Places[c]
  BY <1>3, DefAssumption, PlacesWithin, NoSuchNode
<1>5. Node(c, <<>>) \in StageNodes /\ Node(c, <<>>) \in Nodes
  BY <1>3, <1>4, StageNode DEF Nodes
<1>6. Len(<<>>) <= Len(a.items) /\ <<>> = SubSeq(a.items, 1, Len(<<>>))
  BY <1>1
<1>7. Node(c, <<>>) \in Above[a]
  <2> DEFINE n == Node(c, <<>>)
  <2>1. n \in Nodes /\ n.stage = c /\ n.items = <<>>
    BY <1>5, NodeFields
  <2> HIDE DEF n
  <2>2. n \in Above[a]
    BY <1>2, <1>6, <2>1, AboveIs
  <2> QED BY <2>2 DEF n
<1> QED BY <1>3, <1>5, <1>7

-----------------------------------------------------------------------------
(* The stack of frames *)

FrameRecord == [node : StageNodes \cup {RootNode}, at : Nat \ {0}, item : Nat, attempt : Nat,
                target : Nat, cursor : Nodes \cup {NoNode}]

OfLoop(f) == Def[f.node.stage].type = "loop"
Runs(f) == f.attempt > 0 /\ f.at <= Len(Body(f.node.stage))
CurOf(f) == Node(Body(f.node.stage)[f.at], Under(f.node.stage, f.node.items, f.item))

\* Where the resumption has still to go: below the target item of the loop, and the stage
\* that is dispatched on the way is around it.
Follows(f) ==
  /\ f.cursor # NoNode /\ OfLoop(f) =>
       /\ f.target \in 1 .. Def[f.node.stage].items
       /\ \E i \in DOMAIN Body(f.node.stage) :
            Node(Body(f.node.stage)[i], Append(f.node.items, f.target)) \in Above[f.cursor]
  /\ f.cursor # NoNode /\ (OfLoop(f) => f.item = f.target /\ f.attempt = 1) =>
       f.at <= Len(Body(f.node.stage)) /\ CurOf(f) \in Above[f.cursor]

FrameOK(f) ==
  /\ f \in FrameRecord
  /\ Def[f.node.stage].type \in {"loop", "workflow"}
  /\ f.at <= Len(Body(f.node.stage)) + 1
  /\ f.attempt <= Def[f.node.stage].attempts
  /\ IF OfLoop(f) THEN /\ f.item \in 1 .. Def[f.node.stage].items + 1
                       /\ f.attempt > 0 => f.item <= Def[f.node.stage].items
     ELSE f.attempt = 1
  /\ Follows(f)

\* The outermost frame is the workflow's, each of the others the one of a stage that the
\* frame before it is at.
Stacked(fs) ==
  /\ fs \in Seq(FrameRecord) /\ Len(fs) > 0 /\ fs[1].node = RootNode
  /\ \A i \in 1 .. Len(fs) : FrameOK(fs[i])
  /\ \A i \in 1 .. Len(fs) - 1 : Runs(fs[i]) /\ fs[i + 1].node = CurOf(fs[i])

Encl(fs) == {fs[j].node : j \in 2 .. Len(fs)}

\* The stage of a frame; only the outermost is the frame of the workflow itself.
LEMMA FrameNode ==
  ASSUME NEW f, FrameOK(f)
  PROVE  /\ f.node.stage \in Stages /\ f.node.items \in Places[f.node.stage]
         /\ f.node = Node(f.node.stage, f.node.items)
         /\ f.node = RootNode <=> f.node.stage = Root
         /\ f.node # RootNode => f.node \in StageNodes
         /\ OfLoop(f) => f.node \in StageNodes
<1>1. f.node \in StageNodes \cup {RootNode}
  BY DEF FrameOK, FrameRecord
<1>2. CASE f.node = RootNode
  BY <1>2, NoSuchNode, NodeFields, DefAssumption DEF RootNode, OfLoop
<1>3. CASE f.node \in StageNodes
  BY <1>3, StageNode, NodeFields DEF RootNode
<1> QED BY <1>1, <1>2, <1>3

\* The stage a frame is at runs within the stage of the frame.
LEMMA CurNode ==
  ASSUME NEW f, FrameOK(f), Runs(f)
  PROVE  /\ CurOf(f) \in StageNodes
         /\ CurOf(f).stage = Body(f.node.stage)[f.at]
         /\ f.at \in DOMAIN Body(f.node.stage)
         /\ \A m \in StageNodes :
              m \in Above[CurOf(f)] <=> m = CurOf(f) \/ (f.node # RootNode /\ m \in Above[f.node])
         /\ f.node # RootNode => CurOf(f) \notin Above[f.node]
<1> DEFINE o == f.node.stage
           p == f.node.items
           k == f.item
           i == f.at
<1>1. o \in Stages /\ p \in Places[o] /\ f.node = Node(o, p) /\ (f.node = RootNode <=> o = Root)
  BY FrameNode
<1>2. f \in FrameRecord /\ f.at <= Len(Body(o)) /\ Body(o) \in Seq(Stages)
  BY <1>1, StageFields DEF FrameOK, Runs
<1>3. i \in DOMAIN Body(o) /\ k \in Nat
  BY <1>2 DEF FrameRecord
<1>4. Def[o].type = "loop" => k \in 1 .. Def[o].items
  <2>1. Def[o].items \in Nat
    BY <1>1, StageFields
  <2> QED BY <1>3, <2>1 DEF FrameOK, OfLoop, Runs
<1>5. CurOf(f) = Node(Body(o)[i], Under(o, p, k))
  BY DEF CurOf
<1> HIDE DEF o, p, k, i
<1>6. /\ CurOf(f) \in StageNodes
      /\ \A m \in StageNodes :
           m \in Above[CurOf(f)] <=> m = CurOf(f) \/ (o # Root /\ m \in Above[Node(o, p)])
      /\ o # Root => CurOf(f) \notin Above[Node(o, p)]
  BY <1>1, <1>3, <1>4, <1>5, Child
<1>7. CurOf(f).stage = Body(o)[i]
  BY <1>5, NodeFields
<1> QED BY <1>1, <1>3, <1>6, <1>7 DEF o, i

\* The stages around that of a frame are those of the frames below it.
LEMMA Chain ==
  ASSUME NEW fs, Stacked(fs)
  PROVE  \A i \in 2 .. Len(fs) :
           /\ fs[i].node \in StageNodes
           /\ \A m \in StageNodes : m \in Above[fs[i].node] <=> \E j \in 2 .. i : m = fs[j].node
           /\ \A j \in 2 .. i - 1 : fs[j].node # fs[i].node
<1> DEFINE Linked(i) ==
             /\ fs[i].node \in StageNodes
             /\ \A m \in StageNodes : m \in Above[fs[i].node] <=> \E j \in 2 .. i : m = fs[j].node
             /\ \A j \in 2 .. i - 1 : fs[j].node # fs[i].node
           S == 2 .. Len(fs)
           Good == {i \in S : Linked(i)}
<1>1. Len(fs) \in Nat /\ S \in SUBSET Nat
  BY DEF Stacked
<1>2. ASSUME NEW i \in S, \A y \in S : y < i => y \in Good
      PROVE  i \in Good
  <2> DEFINE f == fs[i - 1]
  <2>1. FrameOK(f) /\ Runs(f) /\ fs[i].node = CurOf(f) /\ i - 1 \in 1 .. Len(fs) - 1
    <3>1. i - 1 \in 1 .. Len(fs) /\ i - 1 \in 1 .. Len(fs) - 1 /\ (i - 1) + 1 = i
      BY <1>1
    <3> QED BY <3>1 DEF Stacked
  <2>2. /\ fs[i].node \in StageNodes
        /\ \A m \in StageNodes :
             m \in Above[fs[i].node] <=> m = fs[i].node \/ (f.node # RootNode /\ m \in Above[f.node])
        /\ f.node # RootNode => fs[i].node \notin Above[f.node]
    BY <2>1, CurNode
  <2>3. CASE i = 2
    <3>1. f.node = RootNode
      BY <2>3 DEF Stacked
    <3> QED BY <2>2, <2>3, <3>1
  <2>4. CASE i # 2
    <3>1. i - 1 \in S /\ i - 1 < i
      BY <1>1, <2>4
    <3>2. Linked(i - 1)
      BY <1>2, <3>1
    <3>3. f.node # RootNode
      BY <3>2, NoSuchNode DEF Nodes
    <3>4. \A m \in StageNodes : m \in Above[f.node] <=> \E j \in 2 .. i - 1 : m = fs[j].node
      BY <3>2
    <3>5. \A j \in 2 .. i - 1 : fs[j].node \in StageNodes
      <4>1. ASSUME NEW j \in 2 .. i - 1 PROVE j \in S /\ j < i
        BY <1>1
      <4> QED BY <1>2, <4>1
    <3>6. \A j \in 2 .. i - 1 : fs[j].node # fs[i].node
      BY <2>2, <3>3, <3>4, <3>5
    <3>7. \A j : j \in 2 .. i <=> j \in 2 .. i - 1 \/ j = i
      BY <1>1
    <3>8. \A m \in StageNodes : m \in Above[fs[i].node] <=> \E j \in 2 .. i : m = fs[j].node
      BY <2>2, <3>3, <3>4, <3>7
    <3> QED BY <2>2, <3>6, <3>8
  <2> QED BY <2>3, <2>4
<1>3. S \subseteq Good
  <2> HIDE DEF Good, S
  <2> QED BY <1>1, <1>2, InductionUp
<1> QED BY <1>3

\* What runs, seen from the innermost frame.
LEMMA TopOfStack ==
  ASSUME NEW fs, Stacked(fs)
  PROVE  LET f == fs[Len(fs)] IN
         /\ Len(fs) \in Nat \ {0} /\ FrameOK(f) /\ Encl(fs) \in SUBSET StageNodes
         /\ f.node = RootNode <=> Len(fs) = 1
         /\ OfLoop(f) => Len(fs) > 1
         /\ Len(fs) = 1 => Encl(fs) = {}
         /\ Len(fs) > 1 => /\ f.node \in Encl(fs) /\ f.node \in StageNodes
                           /\ \A m \in StageNodes : m \in Above[f.node] <=> m \in Encl(fs)
         /\ Runs(f) => /\ CurOf(f) \in StageNodes \ Encl(fs)
                       /\ \A m \in StageNodes :
                            m \in Above[CurOf(f)] <=> m = CurOf(f) \/ m \in Encl(fs)
<1> DEFINE f == fs[Len(fs)]
<1>1. Len(fs) \in Nat \ {0} /\ Len(fs) \in 1 .. Len(fs) /\ FrameOK(f) /\ fs[1].node = RootNode
  <2>1. Len(fs) \in Nat \ {0} /\ Len(fs) \in 1 .. Len(fs)
    BY DEF Stacked
  <2> QED BY <2>1 DEF Stacked
<1>2. \A j \in 2 .. Len(fs) : fs[j].node \in StageNodes
  BY Chain
<1>3. Encl(fs) \in SUBSET StageNodes
  BY <1>2 DEF Encl
<1>4. Len(fs) = 1 => Encl(fs) = {}
  BY DEF Encl
<1>5. ASSUME Len(fs) > 1
      PROVE  /\ f.node \in Encl(fs) /\ f.node \in StageNodes /\ f.node # RootNode
             /\ \A m \in StageNodes : m \in Above[f.node] <=> m \in Encl(fs)
  <2>1. Len(fs) \in 2 .. Len(fs)
    BY <1>1, <1>5
  <2>2. \A m \in StageNodes : m \in Above[f.node] <=> \E j \in 2 .. Len(fs) : m = fs[j].node
    BY <2>1, Chain
  <2> QED BY <1>2, <2>1, <2>2, NoSuchNode DEF Encl, Nodes
<1>6. Len(fs) = 1 \/ Len(fs) > 1
  <2>1. \A n \in Nat \ {0} : n = 1 \/ n > 1
    OBVIOUS
  <2> QED BY <1>1, <2>1
<1>7. f.node = RootNode <=> Len(fs) = 1
  BY <1>1, <1>5, <1>6
<1>8. OfLoop(f) => Len(fs) > 1
  BY <1>1, <1>6, <1>7, FrameNode, NoSuchNode DEF Nodes
<1>9. ASSUME Runs(f)
      PROVE  /\ CurOf(f) \in StageNodes \ Encl(fs)
             /\ \A m \in StageNodes : m \in Above[CurOf(f)] <=> m = CurOf(f) \/ m \in Encl(fs)
  <2>1. /\ CurOf(f) \in StageNodes
        /\ \A m \in StageNodes :
             m \in Above[CurOf(f)] <=> m = CurOf(f) \/ (f.node # RootNode /\ m \in Above[f.node])
        /\ f.node # RootNode => CurOf(f) \notin Above[f.node]
    BY <1>1, <1>9, CurNode
  <2> HIDE DEF f
  <2>2. CASE Len(fs) = 1
    BY <1>4, <1>7, <2>1, <2>2
  <2>3. CASE Len(fs) > 1
    BY <1>5, <2>1, <2>3
  <2> QED BY <1>6, <2>2, <2>3
<1> QED BY <1>1, <1>3, <1>4, <1>5, <1>7, <1>8, <1>9

\* The innermost frame changes, not its stage.
LEMMA PutFrame ==
  ASSUME NEW fs, Stacked(fs), NEW f, FrameOK(f), f.node = fs[Len(fs)].node
  PROVE  LET gs == [fs EXCEPT ![Len(fs)] = f] IN
         Stacked(gs) /\ Encl(gs) = Encl(fs) /\ Len(gs) = Len(fs) /\ gs[Len(gs)] = f
<1> DEFINE gs == [fs EXCEPT ![Len(fs)] = f]
<1>1. fs \in Seq(FrameRecord) /\ f \in FrameRecord /\ Len(fs) \in Nat \ {0}
  BY DEF Stacked, FrameOK
<1>2. /\ gs \in Seq(FrameRecord) /\ Len(gs) = Len(fs) /\ gs[Len(fs)] = f
      /\ \A i \in 1 .. Len(fs) : i # Len(fs) => gs[i] = fs[i]
  BY <1>1
<1>3. \A i \in 1 .. Len(fs) : gs[i].node = fs[i].node
  BY <1>2
<1> HIDE DEF gs
<1>4. Encl(gs) = Encl(fs)
  <2>1. \A i \in 2 .. Len(fs) : i \in 1 .. Len(fs)
    BY <1>1
  <2> QED BY <1>2, <1>3, <2>1 DEF Encl
<1>5. gs[1].node = RootNode
  BY <1>1, <1>3 DEF Stacked
<1>6. \A i \in 1 .. Len(gs) : FrameOK(gs[i])
  BY <1>2 DEF Stacked
<1>7. ASSUME NEW i \in 1 .. Len(gs) - 1 PROVE Runs(gs[i]) /\ gs[i + 1].node = CurOf(gs[i])
  <2>1. /\ i \in 1 .. Len(fs) - 1 /\ i \in 1 .. Len(fs) /\ i # Len(fs) /\ i + 1 \in 1 .. Len(fs)
    BY <1>1, <1>2
  <2> QED BY <1>2, <1>3, <2>1 DEF Stacked
<1>8. Stacked(gs)
  BY <1>1, <1>2, <1>5, <1>6, <1>7 DEF Stacked
<1> QED BY <1>2, <1>4, <1>8 DEF gs

\* The stage the innermost frame is at gets a frame of its own.
LEMMA PushFrame ==
  ASSUME NEW fs, Stacked(fs), NEW f, FrameOK(f), Runs(fs[Len(fs)]), f.node = CurOf(fs[Len(fs)])
  PROVE  LET gs == Append(fs, f) IN
         Stacked(gs) /\ Encl(gs) = Encl(fs) \cup {f.node} /\ gs[Len(gs)] = f
<1> DEFINE gs == Append(fs, f)
           n == Len(fs)
<1>1. fs \in Seq(FrameRecord) /\ f \in FrameRecord /\ n \in Nat \ {0}
  BY DEF Stacked, FrameOK
<1>2. gs \in Seq(FrameRecord) /\ Len(gs) = n + 1 /\ gs[n + 1] = f /\ \A i \in 1 .. n : gs[i] = fs[i]
  BY <1>1
<1> HIDE DEF gs
<1>3. \A i : i \in 1 .. Len(gs) <=> i \in 1 .. n \/ i = n + 1
  BY <1>1, <1>2
<1>4. \A i \in 1 .. Len(gs) - 1 : i \in 1 .. n /\ i + 1 \in 1 .. n + 1 /\ (i \in 1 .. n - 1 \/ i = n)
  BY <1>1, <1>2
<1>5. \A i \in 1 .. n - 1 : i \in 1 .. n /\ i + 1 \in 1 .. n
  BY <1>1
<1>6. Encl(gs) = Encl(fs) \cup {f.node}
  <2>1. \A i : i \in 2 .. Len(gs) <=> i \in 2 .. n \/ i = n + 1
    BY <1>1, <1>2
  <2>2. \A i \in 2 .. n : i \in 1 .. n
    BY <1>1
  <2> QED BY <1>2, <2>1, <2>2 DEF Encl
<1>7. \A i \in 1 .. Len(gs) : FrameOK(gs[i])
  BY <1>2, <1>3 DEF Stacked
<1>8. gs[1].node = RootNode
  BY <1>1, <1>2 DEF Stacked
<1>9. \A i \in 1 .. n - 1 : Runs(gs[i]) /\ gs[i + 1].node = CurOf(gs[i])
  BY <1>2, <1>5 DEF Stacked
<1>10. Runs(gs[n]) /\ gs[n + 1].node = CurOf(gs[n])
  BY <1>1, <1>2
<1>11. \A i \in 1 .. Len(gs) - 1 : Runs(gs[i]) /\ gs[i + 1].node = CurOf(gs[i])
  BY <1>4, <1>9, <1>10
<1>12. Len(gs) > 0
  BY <1>1, <1>2
<1>13. Stacked(gs)
  BY <1>2, <1>7, <1>8, <1>11, <1>12 DEF Stacked
<1> QED BY <1>2, <1>6, <1>13 DEF gs

\* The innermost frame is left.
LEMMA PopFrame ==
  ASSUME NEW fs, Stacked(fs), Len(fs) > 1
  PROVE  LET gs == Front(fs) IN
         /\ Stacked(gs) /\ Encl(fs) = Encl(gs) \cup {fs[Len(fs)].node}
         /\ fs[Len(fs)].node \notin Encl(gs)
         /\ Runs(gs[Len(gs)]) /\ CurOf(gs[Len(gs)]) = fs[Len(fs)].node
<1> DEFINE gs == Front(fs)
           n == Len(fs) - 1
<1>1. fs \in Seq(FrameRecord) /\ n \in Nat \ {0} /\ Len(fs) = n + 1 /\ Len(fs) \in Nat
  BY DEF Stacked
<1>2. gs \in Seq(FrameRecord) /\ Len(gs) = n /\ \A i \in 1 .. n : gs[i] = fs[i]
  BY <1>1 DEF Front
<1> HIDE DEF gs, n
<1>3. \A i \in 1 .. n : i \in 1 .. Len(fs) /\ i \in 1 .. Len(fs) - 1
  BY <1>1
<1>4. \A i \in 1 .. n - 1 : i \in 1 .. n /\ i + 1 \in 1 .. n
  BY <1>1
<1>5. Stacked(gs)
  <2>1. \A i \in 1 .. n : FrameOK(gs[i])
    BY <1>2, <1>3 DEF Stacked
  <2>2. \A i \in 1 .. n - 1 : Runs(gs[i]) /\ gs[i + 1].node = CurOf(gs[i])
    BY <1>2, <1>3, <1>4 DEF Stacked
  <2>3. gs[1].node = RootNode /\ Len(gs) > 0
    BY <1>1, <1>2 DEF Stacked
  <2> QED BY <1>2, <2>1, <2>2, <2>3 DEF Stacked
<1>6. Encl(fs) = Encl(gs) \cup {fs[Len(fs)].node}
  <2>1. \A i : i \in 2 .. Len(fs) <=> i \in 2 .. n \/ i = Len(fs)
    BY <1>1
  <2>2. \A i \in 2 .. n : i \in 1 .. n
    BY <1>1
  <2> QED BY <1>2, <2>1, <2>2 DEF Encl
<1>7. fs[Len(fs)].node \notin Encl(gs)
  <2>1. Len(fs) \in 2 .. Len(fs) /\ Len(fs) - 1 = n
    BY <1>1
  <2>2. \A j \in 2 .. n : fs[j].node # fs[Len(fs)].node /\ j \in 1 .. n
    BY <1>1, <2>1, Chain
  <2> QED BY <1>2, <2>2 DEF Encl
<1>8. Runs(gs[n]) /\ CurOf(gs[n]) = fs[Len(fs)].node
  <2>1. n \in 1 .. Len(fs) - 1 /\ n + 1 = Len(fs) /\ n \in 1 .. n
    BY <1>1
  <2> QED BY <1>2, <2>1 DEF Stacked
<1> QED BY <1>2, <1>5, <1>6, <1>7, <1>8 DEF gs

Control ==
  /\ Stacked(frames)
  /\ pc = "leaf" => Runs(Fr) /\ Def[Cur.stage].type \in {"leaf", "respond"}
  /\ pc = "raise" /\ InLoop => Fr.attempt > 0

\* The stages that are running: those with a frame, and a leaf stage.
Open ==
  IF pc \in {"over", "dead"} THEN {} ELSE Encl(frames) \cup (IF pc = "leaf" THEN {Cur} ELSE {})

Statuses == {"absent", "running", "done", "failed", "stopped", "skipped"}

Disk ==
  /\ status \in [Nodes -> Statuses]
  /\ \A n \in ItemNodes : status[n] # "running"
  /\ \A n \in StageNodes : status[n] = "running" <=> n \in Open

TreeInv == Control /\ Disk

Record == [n \in StageNodes |-> status[n]]
TreeStep == Tree!Next \/ UNCHANGED Record

\* The stage the innermost frame is at.
LEMMA CurIs == Cur = CurOf(Fr)
BY NodeFields DEF Cur, CurOf, ItemNode, InLoop, Under

\* What runs, seen from the innermost frame, in a state.
LEMMA Innermost ==
  ASSUME Control
  PROVE  /\ Len(frames) \in Nat \ {0} /\ FrameOK(Fr) /\ Encl(frames) \in SUBSET StageNodes
         /\ Fr.node = RootNode <=> Len(frames) = 1
         /\ InLoop => Len(frames) > 1
         /\ Len(frames) = 1 => Encl(frames) = {}
         /\ Len(frames) > 1 => /\ Fr.node \in StageNodes
                               /\ \A m \in StageNodes : m \in Above[Fr.node] <=> m \in Encl(frames)
         /\ Runs(Fr) => /\ Cur \in StageNodes \ Encl(frames)
                        /\ \A m \in StageNodes :
                             m \in Above[Cur] <=> m = Cur \/ m \in Encl(frames)
BY TopOfStack, CurIs DEF Control, Fr, InLoop, OfLoop

\* A loop that is at an item is at one of its own.
LEMMA ItemNodeIs ==
  ASSUME Control, InLoop, Fr.item <= Loop.items
  PROVE  ItemNode \in ItemNodes
<1>1. FrameOK(Fr) /\ Fr.item \in 1 .. Loop.items /\ Fr.node.stage \in Stages
      /\ Fr.node.items \in Places[Fr.node.stage]
  <2>1. FrameOK(Fr)
    BY Innermost
  <2>2. Loop.items \in Nat
    BY <2>1, FrameNode, StageFields DEF Loop
  <2> QED BY <2>1, <2>2, FrameNode DEF FrameOK, InLoop, OfLoop, Loop
<1> QED BY <1>1, LoopItem DEF ItemNode, InLoop, Loop

\* The record of a step.
LEMMA RecordIs == \A n \in StageNodes : Record[n] = status[n] /\ n \in Nodes
BY DEF Record, Nodes

\* A status is written.
LEMMA OneRecord ==
  ASSUME Disk
  PROVE  \A n \in StageNodes, st \in Statuses :
           status' = [status EXCEPT ![n] = st] =>
             /\ Record' = [Record EXCEPT ![n] = st] /\ status' \in [Nodes -> Statuses]
             /\ status'[n] = st /\ (\A m \in Nodes \ {n} : status'[m] = status[m])
             /\ \A m \in ItemNodes : status'[m] # "running"
<1> TAKE n \in StageNodes, st \in Statuses
<1> HAVE status' = [status EXCEPT ![n] = st]
<1>1. n \in Nodes /\ \A m \in ItemNodes : m \in Nodes \ {n}
  BY LoopItem DEF Nodes
<1>2. /\ status' \in [Nodes -> Statuses] /\ status'[n] = st
      /\ \A m \in Nodes \ {n} : status'[m] = status[m]
  BY <1>1 DEF Disk
<1>3. Record' = [Record EXCEPT ![n] = st]
  BY <1>2 DEF Record, Nodes
<1> QED BY <1>1, <1>2, <1>3 DEF Disk

\* The running stages of the tree are the open ones.
LEMMA RunningIs == Disk => Tree!Running = Open \cap StageNodes
BY RecordIs DEF Disk, Tree!Running, Record

\* A stage that runs nothing is passed.
LEMMA CurPasses ==
  ASSUME TreeInv, pc = "go", Runs(Fr), NEW st \in {"skipped", "done", "failed"}, Write(Cur, st),
         Encl(frames') = Encl(frames), pc' \in {"go", "raise"}
  PROVE  Disk' /\ TreeStep
<1>1. PICK n \in StageNodes : n = Cur
  BY Innermost DEF TreeInv, Control
<1>2. /\ n \notin Encl(frames) /\ Encl(frames) \in SUBSET StageNodes
      /\ \A m \in StageNodes : m \in Above[n] <=> m = n \/ m \in Encl(frames)
  BY <1>1, Innermost DEF TreeInv, Control
<1>3. Open = Encl(frames) /\ Open' = Encl(frames)
  BY <1>1 DEF Open
<1>4. st \in Statuses /\ Disk /\ status' = [status EXCEPT ![n] = st]
  BY <1>1 DEF TreeInv, Write, Statuses
<1>5. /\ Record' = [Record EXCEPT ![n] = st] /\ status' \in [Nodes -> Statuses]
      /\ status'[n] = st /\ (\A m \in Nodes \ {n} : status'[m] = status[m])
      /\ \A m \in ItemNodes : status'[m] # "running"
  BY <1>4, OneRecord
<1>6. Disk'
  BY <1>2, <1>3, <1>5, RecordIs DEF TreeInv, Disk
<1>7. Tree!Running = Encl(frames) /\ Enclosing[n] = Encl(frames)
  BY <1>2, <1>3, RunningIs DEF TreeInv, Enclosing
<1>8. Tree!Passes(n)
  BY <1>5, <1>7 DEF Tree!Passes, Record
<1> QED BY <1>6, <1>8 DEF TreeStep, Tree!Next

\* A stage starts, and runs from then on.
LEMMA CurStarts ==
  ASSUME TreeInv, pc = "go", Runs(Fr), Write(Cur, "running"), Open' = Open \cup {Cur}
  PROVE  Disk' /\ TreeStep
<1>1. PICK n \in StageNodes : n = Cur
  BY Innermost DEF TreeInv, Control
<1>2. /\ n \notin Encl(frames) /\ Encl(frames) \in SUBSET StageNodes
      /\ \A m \in StageNodes : m \in Above[n] <=> m = n \/ m \in Encl(frames)
  BY <1>1, Innermost DEF TreeInv, Control
<1>3. Open = Encl(frames) /\ Open' = Encl(frames) \cup {n}
  BY <1>1 DEF Open
<1>4. "running" \in Statuses /\ Disk /\ status' = [status EXCEPT ![n] = "running"]
  BY <1>1 DEF TreeInv, Write, Statuses
<1>5. /\ Record' = [Record EXCEPT ![n] = "running"] /\ status' \in [Nodes -> Statuses]
      /\ status'[n] = "running" /\ (\A m \in Nodes \ {n} : status'[m] = status[m])
      /\ \A m \in ItemNodes : status'[m] # "running"
  BY <1>4, OneRecord
<1>6. Disk'
  BY <1>2, <1>3, <1>5, RecordIs DEF TreeInv, Disk
<1>7. Tree!Running = Encl(frames) /\ Enclosing[n] = Encl(frames)
  BY <1>2, <1>3, RunningIs DEF TreeInv, Enclosing
<1>8. Tree!Starts(n)
  BY <1>5, <1>7 DEF Tree!Starts, Record
<1> QED BY <1>6, <1>8 DEF TreeStep, Tree!Next

\* The leaf stage ends.
LEMMA LeafStops ==
  ASSUME TreeInv, pc = "leaf", NEW st \in {"done", "failed", "stopped"}, Write(Cur, st),
         Encl(frames') = Encl(frames), pc' \in {"go", "raise"}
  PROVE  Disk' /\ TreeStep
<1>1. PICK n \in StageNodes : n = Cur
  BY Innermost DEF TreeInv, Control
<1>2. /\ n \notin Encl(frames) /\ Encl(frames) \in SUBSET StageNodes
      /\ \A m \in StageNodes : m \in Above[n] <=> m = n \/ m \in Encl(frames)
  BY <1>1, Innermost DEF TreeInv, Control
<1>3. Open = Encl(frames) \cup {n} /\ Open' = Encl(frames)
  BY <1>1 DEF Open
<1>4. st \in Statuses /\ Disk /\ status' = [status EXCEPT ![n] = st]
  BY <1>1 DEF TreeInv, Write, Statuses
<1>5. /\ Record' = [Record EXCEPT ![n] = st] /\ status' \in [Nodes -> Statuses]
      /\ status'[n] = st /\ (\A m \in Nodes \ {n} : status'[m] = status[m])
      /\ \A m \in ItemNodes : status'[m] # "running"
  BY <1>4, OneRecord
<1>6. Disk'
  BY <1>2, <1>3, <1>5, RecordIs DEF TreeInv, Disk
<1>7. Tree!Running = Encl(frames) \cup {n} /\ Enclosing[n] = Encl(frames)
  BY <1>2, <1>3, RunningIs DEF TreeInv, Enclosing
<1>8. Tree!Stops(n)
  BY <1>5, <1>7 DEF Tree!Stops, Tree!Ended, Record
<1> QED BY <1>6, <1>8 DEF TreeStep, Tree!Next

\* The stage of the innermost frame ends, and so does its last item, if that is written.
LEMMA FrameStops ==
  ASSUME TreeInv, pc \in {"go", "raise"}, Len(frames) > 1,
         NEW st \in {"done", "failed", "stopped"},
         status' \in [Nodes -> Statuses], \A n \in ItemNodes : status'[n] # "running",
         \A n \in StageNodes : status'[n] = IF n = Fr.node THEN st ELSE status[n],
         Encl(frames') = Encl(Outer), pc' \in {"go", "raise"}
  PROVE  Disk' /\ TreeStep
<1>0. PICK n \in StageNodes : n = Fr.node
  BY Innermost DEF TreeInv
<1>1. /\ n \in StageNodes /\ Encl(frames) \in SUBSET StageNodes
      /\ \A m \in StageNodes : m \in Above[n] <=> m \in Encl(frames)
  BY <1>0, Innermost DEF TreeInv
<1>2. /\ Encl(frames) = Encl(Outer) \cup {n} /\ n \notin Encl(Outer)
  BY <1>0, PopFrame DEF TreeInv, Control, Fr, Outer
<1>3. Open = Encl(frames) /\ Open' = Encl(Outer)
  BY DEF Open
<1>4. Record' = [Record EXCEPT ![n] = st]
  BY <1>0 DEF Record
<1>5. Disk'
  BY <1>0, <1>1, <1>2, <1>3 DEF TreeInv, Disk
<1>6. Tree!Running = Encl(frames)
  BY <1>1, <1>3, RunningIs DEF TreeInv
<1>7. Enclosing[n] = Encl(Outer)
  BY <1>1, <1>2 DEF Enclosing
<1>8. Tree!Stops(n)
  BY <1>2, <1>4, <1>6, <1>7 DEF Tree!Stops, Tree!Ended, Record
<1> QED BY <1>1, <1>5, <1>8 DEF TreeStep, Tree!Next

\* No stage starts or ends.
LEMMA RecordStays ==
  ASSUME TreeInv, Open' = Open,
         status' \in [Nodes -> Statuses], \A n \in ItemNodes : status'[n] # "running",
         \A n \in StageNodes : status'[n] = status[n]
  PROVE  Disk' /\ TreeStep
<1>1. Record' = Record
  BY DEF Record
<1> QED BY <1>1 DEF TreeInv, Disk, TreeStep

\* What a frame is, field by field.
LEMMA FrameFields ==
  ASSUME NEW f, FrameOK(f)
  PROVE  /\ f.node \in StageNodes \cup {RootNode} /\ f.node.stage \in Stages
         /\ f.at \in Nat \ {0} /\ f.item \in Nat /\ f.attempt \in Nat /\ f.target \in Nat
         /\ f.cursor \in Nodes \cup {NoNode}
         /\ f \in FrameRecord
         /\ Def[f.node.stage].attempts \in Nat \ {0} /\ Def[f.node.stage].items \in Nat
         /\ Len(Body(f.node.stage)) \in Nat
<1>1. f \in FrameRecord /\ f.node.stage \in Stages
  BY FrameNode DEF FrameOK
<1> QED BY <1>1, StageFields DEF FrameRecord

\* The next stage of the list.
LEMMA AdvanceKeeps ==
  ASSUME NEW fs, Stacked(fs), Runs(fs[Len(fs)])
  PROVE  Stacked(Advance(fs)) /\ Encl(Advance(fs)) = Encl(fs)
<1> DEFINE f == fs[Len(fs)]
           c == IF Def[f.node.stage].type = "loop" /\ f.item # f.target THEN f.cursor ELSE NoNode
           g == [f EXCEPT !.at = @ + 1,
                   !.cursor = IF Def[f.node.stage].type = "loop" /\ f.item # f.target THEN @ ELSE NoNode]
<1>1. FrameOK(f)
  BY TopOfStack
<1>2. /\ g \in FrameRecord /\ g.node = f.node /\ g.at = f.at + 1 /\ g.item = f.item
      /\ g.attempt = f.attempt /\ g.target = f.target /\ g.cursor = c
  <2>1. f \in FrameRecord /\ f.at + 1 \in Nat \ {0} /\ c \in Nodes \cup {NoNode}
    BY <1>1, FrameFields
  <2>2. g = [f EXCEPT !.at = f.at + 1, !.cursor = c]
    BY <2>1
  <2> HIDE DEF f, c, g
  <2> QED BY <2>1, <2>2 DEF FrameRecord
<1> HIDE DEF g
<1>3. Follows(g)
  BY <1>1, <1>2 DEF Follows, FrameOK, OfLoop
<1>4. g.at <= Len(Body(g.node.stage)) + 1
  BY <1>1, <1>2, FrameFields DEF Runs
<1>5. FrameOK(g)
  BY <1>1, <1>2, <1>3, <1>4 DEF FrameOK, OfLoop
<1>6. Advance(fs) = [fs EXCEPT ![Len(fs)] = g]
  BY DEF Advance, g
<1> QED BY <1>2, <1>5, <1>6, PutFrame

\* A jump of the workflow's list, or of a sub-workflow's.
LEMMA JumpKeeps ==
  ASSUME NEW fs, Stacked(fs), Runs(fs[Len(fs)]), ~OfLoop(fs[Len(fs)]),
         NEW i \in DOMAIN Body(fs[Len(fs)].node.stage)
  PROVE  LET gs == [Advance(fs) EXCEPT ![Len(fs)].at = i] IN Stacked(gs) /\ Encl(gs) = Encl(fs)
<1> DEFINE as == Advance(fs)
           f == as[Len(as)]
           g == [f EXCEPT !.at = i]
           gs == [as EXCEPT ![Len(fs)].at = i]
<1>1. Stacked(as) /\ Encl(as) = Encl(fs) /\ Len(as) = Len(fs)
  <2>1. fs \in Seq(FrameRecord)
    BY DEF Stacked
  <2>2. Len(as) = Len(fs)
    BY <2>1 DEF Advance
  <2>3. Stacked(as) /\ Encl(as) = Encl(fs)
    BY AdvanceKeeps
  <2> QED BY <2>2, <2>3
<1>2. FrameOK(f) /\ f.node = fs[Len(fs)].node /\ f.cursor = NoNode
  <2>1. FrameOK(f)
    BY <1>1, TopOfStack
  <2>2. FrameOK(fs[Len(fs)]) /\ Len(fs) \in DOMAIN fs
    BY TopOfStack DEF Stacked
  <2>3. f = [fs[Len(fs)] EXCEPT !.at = @ + 1, !.cursor = NoNode]
    BY <2>2 DEF Advance, OfLoop
  <2>4. fs[Len(fs)] \in FrameRecord
    BY <2>2, FrameFields
  <2>5. f.node = fs[Len(fs)].node /\ f.cursor = NoNode
    BY <2>3, <2>4 DEF FrameRecord
  <2> QED BY <2>1, <2>5
<1>3. i \in Nat \ {0} /\ i <= Len(Body(f.node.stage)) + 1
  <2>1. Body(f.node.stage) \in Seq(Stages) /\ i \in DOMAIN Body(f.node.stage)
    BY <1>2, FrameFields, StageFields
  <2> HIDE DEF f
  <2> QED BY <2>1
<1>4. gs = [as EXCEPT ![Len(as)] = g]
  BY <1>1
<1> HIDE DEF as, f
<1>5. /\ g \in FrameRecord /\ g.node = f.node /\ g.at = i /\ g.item = f.item
      /\ g.attempt = f.attempt /\ g.target = f.target /\ g.cursor = NoNode
  BY <1>2, <1>3, FrameFields DEF FrameRecord
<1> HIDE DEF g
<1>6. FrameOK(g)
  BY <1>2, <1>3, <1>5 DEF FrameOK, OfLoop, Follows
<1>7. f = as[Len(as)]
  BY DEF f
<1>8. LET hs == [as EXCEPT ![Len(as)] = g] IN Stacked(hs) /\ Encl(hs) = Encl(as)
  BY <1>1, <1>5, <1>6, <1>7, PutFrame
<1> QED BY <1>1, <1>4, <1>8 DEF as, gs

\* The frame of a loop moves to another stage, item or attempt.
Moved(f, at, item, attempt) == [f EXCEPT !.at = at, !.item = item, !.attempt = attempt]

\* A frame of a loop, changed between its stages: it is at an item, or behind the last one.
LEMMA LoopFrame ==
  ASSUME NEW f, FrameOK(f), OfLoop(f),
         NEW at \in Nat \ {0}, at <= Len(Body(f.node.stage)) + 1,
         NEW item \in 1 .. Def[f.node.stage].items + 1,
         NEW attempt \in 0 .. Def[f.node.stage].attempts,
         attempt > 0 => item <= Def[f.node.stage].items,
         f.cursor # NoNode /\ item = f.target /\ attempt = 1 =>
           at <= Len(Body(f.node.stage)) /\ Node(Body(f.node.stage)[at],
                                                 Append(f.node.items, f.target)) \in Above[f.cursor]
  PROVE  FrameOK(Moved(f, at, item, attempt)) /\ Moved(f, at, item, attempt).node = f.node
<1> DEFINE g == Moved(f, at, item, attempt)
<1>1. item \in Nat /\ attempt \in Nat /\ attempt <= Def[f.node.stage].attempts
  BY FrameFields
<1>2. /\ g \in FrameRecord /\ g.node = f.node /\ g.at = at /\ g.item = item
      /\ g.attempt = attempt /\ g.target = f.target /\ g.cursor = f.cursor
  <2>1. f \in FrameRecord
    BY FrameFields
  <2> QED BY <1>1, <2>1 DEF FrameRecord, Moved
<1> HIDE DEF g
<1>3. Follows(g)
  BY <1>2 DEF Follows, FrameOK, OfLoop, CurOf, Under
<1>4. FrameOK(g)
  BY <1>1, <1>2, <1>3 DEF FrameOK, OfLoop
<1> QED BY <1>2, <1>4 DEF g

\* The frame of a stage that starts.
LEMMA NewFrame ==
  ASSUME NEW n \in StageNodes, NEW item \in Nat, NEW attempt \in Nat, NEW target \in Nat,
         NEW cursor \in Nodes \cup {NoNode},
         IF Def[n.stage].type = "loop"
         THEN /\ item = 1 /\ attempt = 0
              /\ cursor # NoNode =>
                   /\ target \in 1 .. Def[n.stage].items
                   /\ \E i \in DOMAIN Body(n.stage) :
                        Node(Body(n.stage)[i], Append(n.items, target)) \in Above[cursor]
         ELSE Def[n.stage].type = "workflow" /\ attempt = 1 /\ cursor = NoNode
  PROVE  LET f == Frame(n, 1, item, attempt, target, cursor) IN FrameOK(f) /\ f.node = n
<1> DEFINE f == Frame(n, 1, item, attempt, target, cursor)
<1>1. 1 \in Nat \ {0} /\ n \in StageNodes \cup {RootNode}
  OBVIOUS
<1>2. /\ f \in FrameRecord /\ f.node = n /\ f.at = 1 /\ f.item = item /\ f.attempt = attempt
      /\ f.target = target /\ f.cursor = cursor
  BY <1>1 DEF Frame, FrameRecord
<1> HIDE DEF f
<1>3. n.stage \in Stages
  BY StageNode
<1>4. /\ Len(Body(n.stage)) \in Nat /\ Def[n.stage].items \in Nat
      /\ Def[n.stage].attempts \in Nat \ {0}
  BY <1>3, StageFields
<1>5. Follows(f)
  BY <1>2 DEF Follows, OfLoop
<1>6. FrameOK(f)
  BY <1>2, <1>4, <1>5 DEF FrameOK, OfLoop
<1> QED BY <1>2, <1>6 DEF f

\* The stack of a run that starts, or is resumed at a node.
LEMMA FirstFrame ==
  ASSUME NEW at \in Nat \ {0}, at <= Len(Body(Root)) + 1, NEW a \in Nodes \cup {NoNode},
         a # NoNode => at <= Len(Body(Root)) /\ Node(Body(Root)[at], <<>>) \in Above[a]
  PROVE  LET fs == <<Frame(Node(Root, <<>>), at, 0, 1, 0, a)>> IN
         Stacked(fs) /\ Encl(fs) = {} /\ fs[Len(fs)].attempt = 1 /\ ~OfLoop(fs[Len(fs)])
<1> DEFINE f == Frame(RootNode, at, 0, 1, 0, a)
           fs == <<f>>
<1>1. 0 \in Nat /\ 1 \in Nat /\ RootNode \in StageNodes \cup {RootNode}
  OBVIOUS
<1>2. /\ f \in FrameRecord /\ f.node = RootNode /\ f.at = at /\ f.item = 0 /\ f.attempt = 1
      /\ f.target = 0 /\ f.cursor = a
  BY <1>1 DEF Frame, FrameRecord
<1> HIDE DEF f
<1>3. /\ RootNode.stage = Root /\ RootNode.items = <<>> /\ Root \in Stages
      /\ Def[Root].type = "workflow" /\ Def[Root].attempts \in Nat \ {0}
  BY NodeFields, DefAssumption, StageFields DEF RootNode, Stages
<1>4. Follows(f)
  BY <1>2, <1>3 DEF Follows, OfLoop, CurOf, Under
<1>5. FrameOK(f) /\ ~OfLoop(f)
  BY <1>2, <1>3, <1>4 DEF FrameOK, OfLoop
<1>6. fs \in Seq(FrameRecord) /\ Len(fs) = 1 /\ fs[1] = f
  BY <1>2
<1> HIDE DEF fs
<1>7. (\A i \in 1 .. Len(fs) : i = 1) /\ 2 .. Len(fs) = {} /\ 1 .. Len(fs) - 1 = {}
  BY <1>6
<1>8. Stacked(fs) /\ Encl(fs) = {}
  BY <1>2, <1>5, <1>6, <1>7 DEF Stacked, Encl
<1>9. fs = <<Frame(Node(Root, <<>>), at, 0, 1, 0, a)>>
  BY DEF fs, f, RootNode
<1> QED BY <1>2, <1>5, <1>6, <1>8, <1>9

Keeps == Control' /\ Disk' /\ TreeStep

\* What is dispatched is the next stage of the innermost frame.
LEMMA Dispatched ==
  ASSUME Control, NEW types, Dispatches(types)
  PROVE  /\ pc = "go" /\ Runs(Fr) /\ Def[Cur.stage].type \in types /\ Cur \in StageNodes
         /\ Stacked(frames) /\ Fr = frames[Len(frames)] /\ FrameOK(Fr)
<1>1. pc = "go" /\ Runs(Fr) /\ Def[Cur.stage].type \in types
  BY DEF Dispatches, Runs
<1> QED BY <1>1, Innermost DEF Control, Fr

\* What was raised unwinds from a frame that runs.
LEMMA ControlRaises ==
  ASSUME Control, frames' = frames, pc' = "raise", Fr.attempt > 0
  PROVE  Control'
BY DEF Control, Fr, InLoop

\* Nothing is asked of a stack that goes on but to be one.
LEMMA ControlGoes ==
  ASSUME Stacked(frames'), pc' \in {"go", "over", "dead"}
  PROVE  Control'
BY DEF Control

\* A skipped stage is passed.
LEMMA StageSkippedKeeps == TreeInv /\ StageSkipped => Keeps
<1> SUFFICES ASSUME TreeInv, StageSkipped PROVE Keeps
  OBVIOUS
<1>1. Control /\ Dispatches(Gated) /\ Write(Cur, "skipped") /\ frames' = Advance(frames) /\ pc' = pc
  BY DEF StageSkipped, TreeInv
<1>2. pc = "go" /\ Runs(Fr) /\ Stacked(frames) /\ Fr = frames[Len(frames)]
  BY <1>1, Dispatched
<1>3. Stacked(frames') /\ Encl(frames') = Encl(frames)
  BY <1>1, <1>2, AdvanceKeeps
<1>4. Control'
  BY <1>1, <1>2, <1>3, ControlGoes
<1>5. "skipped" \in {"skipped", "done", "failed"} /\ pc' \in {"go", "raise"}
  BY <1>1, <1>2
<1>6. Disk' /\ TreeStep
  BY <1>1, <1>2, <1>3, <1>5, CurPasses
<1> QED BY <1>4, <1>6 DEF Keeps

\* A condition that cannot be evaluated leaves no record.
LEMMA GateRaisesKeeps == TreeInv /\ GateRaises => Keeps
<1> SUFFICES ASSUME TreeInv, GateRaises PROVE Keeps
  OBVIOUS
<1>1. Control /\ Disk /\ Dispatches(Gated) /\ pc' = "raise" /\ frames' = frames /\ status' = status
  BY DEF GateRaises, Raise, TreeInv
<1>2. pc = "go" /\ Runs(Fr)
  BY <1>1, Dispatched
<1>3. Control'
  BY <1>1, <1>2, ControlRaises DEF Runs
<1>4. Open' = Open
  BY <1>1, <1>2 DEF Open
<1>5. Disk' /\ TreeStep
  BY <1>1, <1>4, RecordStays DEF Disk
<1> QED BY <1>3, <1>5 DEF Keeps

\* A leaf stage starts.
LEMMA LeafEntersKeeps == TreeInv /\ LeafEnters => Keeps
<1> SUFFICES ASSUME TreeInv, LeafEnters PROVE Keeps
  OBVIOUS
<1>1. /\ Control /\ Disk /\ Dispatches({"leaf", "respond"}) /\ Write(Cur, "running")
      /\ pc' = "leaf" /\ frames' = frames
  BY DEF LeafEnters, TreeInv
<1>2. pc = "go" /\ Runs(Fr) /\ Def[Cur.stage].type \in {"leaf", "respond"}
  BY <1>1, Dispatched
<1>3. Cur' = Cur /\ Fr' = Fr
  BY <1>1 DEF Cur, Fr, InLoop, ItemNode
<1>4. Control'
  BY <1>1, <1>2, <1>3 DEF Control
<1>5. Open' = Open \cup {Cur}
  BY <1>1, <1>2, <1>3 DEF Open
<1>6. Disk' /\ TreeStep
  BY <1>1, <1>2, <1>5, CurStarts
<1> QED BY <1>4, <1>6 DEF Keeps

\* A branch is passed, whatever it jumps to.
LEMMA BranchJumpsKeeps == \A holds \in BOOLEAN : TreeInv /\ BranchJumps(holds) => Keeps
<1> SUFFICES ASSUME NEW holds \in BOOLEAN, TreeInv, BranchJumps(holds) PROVE Keeps
  OBVIOUS
<1>1. /\ Control /\ Dispatches({"branch"}) /\ Write(Cur, "done") /\ pc' = pc
      /\ InLoop \/ Listed(Target(holds))
      /\ frames' = IF InLoop THEN Advance(frames) ELSE JumpTo(Target(holds))
  BY DEF BranchJumps, BranchTaken, TreeInv
<1>2. pc = "go" /\ Runs(Fr) /\ Stacked(frames) /\ Fr = frames[Len(frames)]
  BY <1>1, Dispatched
<1>5. Stacked(frames') /\ Encl(frames') = Encl(frames)
  <2>1. CASE InLoop
    <3>1. frames' = Advance(frames)
      BY <1>1, <2>1
    <3> QED BY <1>2, <3>1, AdvanceKeeps
  <2>2. CASE ~InLoop
    <3> DEFINE b == Body(Fr.node.stage)
               i == Index(b, Target(holds))
    <3>1. i \in DOMAIN b
      BY <1>1, <2>2 DEF Index, Listed
    <3>2. frames' = [Advance(frames) EXCEPT ![Len(frames)].at = i]
      BY <1>1, <2>2 DEF JumpTo
    <3> HIDE DEF i
    <3>3. ~OfLoop(Fr)
      BY <2>2 DEF InLoop, OfLoop
    <3> QED BY <1>2, <3>1, <3>2, <3>3, JumpKeeps
  <2> QED BY <2>1, <2>2
<1>6. Control'
  BY <1>1, <1>2, <1>5, ControlGoes
<1>7. "done" \in {"skipped", "done", "failed"} /\ pc' \in {"go", "raise"}
  BY <1>1, <1>2
<1>8. Disk' /\ TreeStep
  BY <1>1, <1>2, <1>5, <1>7, CurPasses
<1> QED BY <1>6, <1>8 DEF Keeps

\* A branch is passed also when its target is not found.
LEMMA BranchMissesKeeps == \A holds \in BOOLEAN : TreeInv /\ BranchMisses(holds) => Keeps
<1> SUFFICES ASSUME NEW holds \in BOOLEAN, TreeInv, BranchMisses(holds) PROVE Keeps
  OBVIOUS
<1>1. /\ Control /\ Dispatches({"branch"}) /\ Write(Cur, "done") /\ pc' = "raise"
      /\ frames' = frames
  BY DEF BranchMisses, BranchTaken, Raise, TreeInv
<1>2. pc = "go" /\ Runs(Fr)
  BY <1>1, Dispatched
<1>3. Control'
  BY <1>1, <1>2, ControlRaises DEF Runs
<1>4. "done" \in {"skipped", "done", "failed"} /\ pc' \in {"go", "raise"} /\ Encl(frames') = Encl(frames)
  BY <1>1
<1>5. Disk' /\ TreeStep
  BY <1>1, <1>2, <1>4, CurPasses
<1> QED BY <1>3, <1>5 DEF Keeps

\* A branch is passed also when its condition cannot be evaluated.
LEMMA BranchRaisesKeeps == TreeInv /\ BranchRaises => Keeps
<1> SUFFICES ASSUME TreeInv, BranchRaises PROVE Keeps
  OBVIOUS
<1>1. /\ Control /\ Dispatches({"branch"}) /\ Write(Cur, "failed") /\ pc' = "raise"
      /\ frames' = frames
  BY DEF BranchRaises, Raise, TreeInv
<1>2. pc = "go" /\ Runs(Fr)
  BY <1>1, Dispatched
<1>3. Control'
  BY <1>1, <1>2, ControlRaises DEF Runs
<1>4. "failed" \in {"skipped", "done", "failed"} /\ pc' \in {"go", "raise"} /\ Encl(frames') = Encl(frames)
  BY <1>1
<1>5. Disk' /\ TreeStep
  BY <1>1, <1>2, <1>4, CurPasses
<1> QED BY <1>3, <1>5 DEF Keeps

\* A sub-workflow starts, and gets a frame.
LEMMA SubWorkflowEntersKeeps == TreeInv /\ SubWorkflowEnters => Keeps
<1> SUFFICES ASSUME TreeInv, SubWorkflowEnters PROVE Keeps
  OBVIOUS
<1>1. /\ Control /\ Dispatches({"workflow"}) /\ Write(Cur, "running") /\ pc' = pc
      /\ frames' = Append(frames, Frame(Cur, 1, 0, 1, 0, NoNode))
  BY DEF SubWorkflowEnters, TreeInv
<1>2. /\ pc = "go" /\ Runs(Fr) /\ Stacked(frames) /\ Fr = frames[Len(frames)]
      /\ Cur \in StageNodes /\ Def[Cur.stage].type = "workflow"
  BY <1>1, Dispatched
<1> DEFINE f == Frame(Cur, 1, 0, 1, 0, NoNode)
<1>3. FrameOK(f) /\ f.node = Cur
  <2>1. 0 \in Nat /\ 1 \in Nat /\ NoNode \in Nodes \cup {NoNode}
    OBVIOUS
  <2> QED BY <1>2, <2>1, NewFrame
<1>4. Cur = CurOf(Fr)
  BY CurIs
<1> HIDE DEF f
<1>5. Stacked(Append(frames, f)) /\ Encl(Append(frames, f)) = Encl(frames) \cup {Cur}
  BY <1>2, <1>3, <1>4, PushFrame
<1>6. Stacked(frames') /\ Encl(frames') = Encl(frames) \cup {Cur}
  BY <1>1, <1>5 DEF f
<1>7. Control'
  BY <1>1, <1>2, <1>6, ControlGoes
<1>8. Open' = Open \cup {Cur}
  BY <1>1, <1>2, <1>6 DEF Open
<1>9. Disk' /\ TreeStep
  BY <1>1, <1>2, <1>8, CurStarts
<1> QED BY <1>7, <1>9 DEF Keeps

\* A loop starts, and gets a frame that follows the cursor down to the resume point.
LEMMA LoopEntersKeeps == TreeInv /\ LoopEnters => Keeps
<1> SUFFICES ASSUME TreeInv, LoopEnters PROVE Keeps
  OBVIOUS
<1> DEFINE below == Cursor \notin {NoNode, Cur}
           target == IF below THEN Cursor.items[Len(Cur.items) + 1] ELSE 0
           inner == below /\ Cursor # Node(Cur.stage, Append(Cur.items, target))
           cursor == IF inner THEN Cursor ELSE NoNode
           f == Frame(Cur, 1, 1, 0, target, cursor)
<1>1. /\ Control /\ Dispatches({"loop"}) /\ Write(Cur, "running") /\ pc' = pc
      /\ frames' = Append(frames, f)
  BY DEF LoopEnters, TreeInv
<1>2. /\ pc = "go" /\ Runs(Fr) /\ Stacked(frames) /\ Fr = frames[Len(frames)] /\ FrameOK(Fr)
      /\ Cur \in StageNodes /\ Def[Cur.stage].type = "loop"
  BY <1>1, Dispatched
<1>4. Cur = CurOf(Fr)
  BY CurIs
<1>3. FrameOK(f) /\ f.node = Cur
  <2>1. Cursor \in Nodes \cup {NoNode} /\ (Cursor # NoNode => Cur \in Above[Cursor])
    <3>1. Fr.cursor \in Nodes \cup {NoNode}
      BY <1>2, FrameFields
    <3>2. Cursor # NoNode => Cursor = Fr.cursor /\ (OfLoop(Fr) => Fr.item = Fr.target /\ Fr.attempt = 1)
      BY DEF Cursor, InLoop, OfLoop
    <3>3. Follows(Fr)
      BY <1>2 DEF FrameOK
    <3> QED BY <1>4, <3>1, <3>2, <3>3 DEF Follows
  <2>2. 0 \in Nat /\ 1 \in Nat /\ NoNode \in Nodes \cup {NoNode} /\ Cur.stage \in Stages
    BY <1>2, StageNode
  <2>3. CASE ~below
    <3>1. target = 0 /\ cursor = NoNode
      BY <2>3
    <3> HIDE DEF target, cursor
    <3> QED BY <1>2, <2>2, <3>1, NewFrame
  <2>4. CASE below
    <3>1. Cursor \in Nodes /\ Cur \in Above[Cursor] /\ Cursor # Cur
      BY <2>1, <2>4
    <3>2. target = Cursor.items[Len(Cur.items) + 1]
      BY <2>4
    <3>3. /\ target \in 1 .. Def[Cur.stage].items
          /\ inner => \E i \in DOMAIN Body(Cur.stage) :
                        Node(Body(Cur.stage)[i], Append(Cur.items, target)) \in Above[Cursor]
      <4>1. \A m \in StageNodes, a \in Nodes : Def[m.stage].type = "loop" /\ m \in Above[a] /\ a # m =>
              /\ a.items[Len(m.items) + 1] \in 1 .. Def[m.stage].items
              /\ a # Node(m.stage, Append(m.items, a.items[Len(m.items) + 1])) =>
                   \E i \in DOMAIN Body(m.stage) :
                     Node(Body(m.stage)[i], Append(m.items, a.items[Len(m.items) + 1])) \in Above[a]
        BY Descent, NodeFields
      <4> QED BY <1>2, <3>1, <3>2, <4>1
    <3>4. target \in Nat
      BY <2>2, <3>3, StageFields
    <3>5. cursor \in Nodes \cup {NoNode} /\ (cursor # NoNode => cursor = Cursor /\ inner)
      BY <3>1
    <3>6. cursor # NoNode =>
            /\ target \in 1 .. Def[Cur.stage].items
            /\ \E i \in DOMAIN Body(Cur.stage) :
                 Node(Body(Cur.stage)[i], Append(Cur.items, target)) \in Above[cursor]
      BY <3>3, <3>5
    <3>7. cursor \in Nodes \cup {NoNode}
      BY <3>5
    <3> HIDE DEF target, cursor, inner, below
    <3>8. LET g == Frame(Cur, 1, 1, 0, target, cursor) IN FrameOK(g) /\ g.node = Cur
      BY <1>2, <2>2, <3>4, <3>6, <3>7, NewFrame
    <3> QED BY <3>8
  <2> QED BY <2>3, <2>4
<1> HIDE DEF f
<1>5. Stacked(Append(frames, f)) /\ Encl(Append(frames, f)) = Encl(frames) \cup {Cur}
  BY <1>2, <1>3, <1>4, PushFrame
<1>6. Stacked(frames') /\ Encl(frames') = Encl(frames) \cup {Cur}
  BY <1>1, <1>5
<1>7. Control'
  BY <1>1, <1>2, <1>6, ControlGoes
<1>8. Open' = Open \cup {Cur}
  BY <1>1, <1>2, <1>6 DEF Open
<1>9. Disk' /\ TreeStep
  BY <1>1, <1>2, <1>8, CurStarts
<1> QED BY <1>7, <1>9 DEF Keeps

\* A leaf stage ends: its list goes on, or raises.
LEMMA LeafEnds ==
  ASSUME TreeInv, pc = "leaf",
         (pc' = "go" /\ frames' = Advance(frames)) \/ (pc' = "raise" /\ frames' = frames)
  PROVE  Control' /\ Encl(frames') = Encl(frames) /\ pc' \in {"go", "raise"}
<1>1. Control /\ Runs(Fr) /\ Stacked(frames) /\ Fr = frames[Len(frames)]
  BY DEF TreeInv, Control, Fr
<1>2. CASE pc' = "go" /\ frames' = Advance(frames)
  <2>1. Stacked(frames') /\ Encl(frames') = Encl(frames)
    BY <1>1, <1>2, AdvanceKeeps
  <2> QED BY <1>2, <2>1, ControlGoes
<1>3. CASE pc' = "raise" /\ frames' = frames
  BY <1>1, <1>3, ControlRaises DEF Runs
<1> QED BY <1>2, <1>3

\* A leaf stage ends.
LEMMA LeafReturnsKeeps == TreeInv /\ LeafReturns => Keeps
<1> SUFFICES ASSUME TreeInv, LeafReturns PROVE Keeps
  OBVIOUS
<1>1. /\ pc = "leaf" /\ Write(Cur, "done") /\ pc' = "go" /\ frames' = Advance(frames)
      /\ "done" \in {"done", "failed", "stopped"}
  BY DEF LeafReturns, Resumed, Resumes
<1>2. Control' /\ Encl(frames') = Encl(frames) /\ pc' \in {"go", "raise"}
  BY <1>1, LeafEnds
<1>3. Disk' /\ TreeStep
  BY <1>1, <1>2, LeafStops
<1> QED BY <1>2, <1>3 DEF Keeps

\* A respond stage ends.
LEMMA RespondReturnsKeeps == TreeInv /\ RespondReturns => Keeps
<1> SUFFICES ASSUME TreeInv, RespondReturns PROVE Keeps
  OBVIOUS
<1>1. /\ pc = "leaf" /\ Write(Cur, "done") /\ pc' = "go" /\ frames' = Advance(frames)
      /\ "done" \in {"done", "failed", "stopped"}
  BY DEF RespondReturns, Resumed, Resumes
<1>2. Control' /\ Encl(frames') = Encl(frames) /\ pc' \in {"go", "raise"}
  BY <1>1, LeafEnds
<1>3. Disk' /\ TreeStep
  BY <1>1, <1>2, LeafStops
<1> QED BY <1>2, <1>3 DEF Keeps

\* A leaf stage fails.
LEMMA LeafFailsKeeps == TreeInv /\ LeafFails => Keeps
<1> SUFFICES ASSUME TreeInv, LeafFails PROVE Keeps
  OBVIOUS
<1>1. /\ pc = "leaf" /\ Write(Cur, "failed") /\ pc' = "raise" /\ frames' = frames
      /\ "failed" \in {"done", "failed", "stopped"}
  BY DEF LeafFails, Resumed, Raise
<1>2. Control' /\ Encl(frames') = Encl(frames) /\ pc' \in {"go", "raise"}
  BY <1>1, LeafEnds
<1>3. Disk' /\ TreeStep
  BY <1>1, <1>2, LeafStops
<1> QED BY <1>2, <1>3 DEF Keeps

\* A leaf stage is cancelled.
LEMMA LeafCancelledKeeps == TreeInv /\ LeafCancelled => Keeps
<1> SUFFICES ASSUME TreeInv, LeafCancelled PROVE Keeps
  OBVIOUS
<1>1. /\ pc = "leaf" /\ Write(Cur, "stopped") /\ pc' = "raise" /\ frames' = frames
      /\ "stopped" \in {"done", "failed", "stopped"}
  BY DEF LeafCancelled, Resumed, Raise
<1>2. Control' /\ Encl(frames') = Encl(frames) /\ pc' \in {"go", "raise"}
  BY <1>1, LeafEnds
<1>3. Disk' /\ TreeStep
  BY <1>1, <1>2, LeafStops
<1> QED BY <1>2, <1>3 DEF Keeps

\* The abort alone changes nothing on disk.
LEMMA ClientAbortsKeeps == TreeInv /\ ClientAborts => Keeps
<1> SUFFICES ASSUME TreeInv, ClientAborts PROVE Keeps
  OBVIOUS
<1>1. Control /\ Disk /\ frames' = frames /\ pc' = pc /\ status' = status
  BY DEF ClientAborts, diskVars, TreeInv
<1>2. Cur' = Cur /\ Fr' = Fr
  BY <1>1 DEF Cur, Fr, InLoop, ItemNode
<1>3. Control'
  BY <1>1, <1>2 DEF Control, InLoop
<1>4. Open' = Open
  BY <1>1, <1>2 DEF Open
<1>5. Disk' /\ TreeStep
  BY <1>1, <1>4, RecordStays DEF TreeInv, Disk
<1> QED BY <1>3, <1>5 DEF Keeps

\* Between two stages of the innermost loop.
LEMMA InnerLoop ==
  ASSUME Control, InLoop
  PROVE  /\ Stacked(frames) /\ Fr = frames[Len(frames)] /\ FrameOK(Fr) /\ OfLoop(Fr)
         /\ Len(frames) > 1 /\ Len(frames) \in Nat /\ Fr.node \in StageNodes
         /\ Loop = Def[Fr.node.stage] /\ Loop.items \in Nat /\ Loop.attempts \in Nat \ {0}
         /\ Fr.item \in 1 .. Loop.items + 1 /\ Fr.item \in Nat
         /\ Fr.attempt \in 0 .. Loop.attempts /\ Fr.at \in Nat \ {0}
         /\ (Fr.attempt > 0 => Fr.item <= Loop.items)
         /\ Fr \in FrameRecord /\ Len(Body(Fr.node.stage)) \in Nat
         /\ Fr.at <= Len(Body(Fr.node.stage)) + 1
<1>1. /\ Stacked(frames) /\ Fr = frames[Len(frames)] /\ FrameOK(Fr) /\ OfLoop(Fr)
      /\ Len(frames) > 1 /\ Len(frames) \in Nat /\ Loop = Def[Fr.node.stage]
  BY Innermost DEF Control, Fr, InLoop, OfLoop, Loop
<1>2. /\ Loop.items \in Nat /\ Loop.attempts \in Nat \ {0} /\ Fr \in FrameRecord
      /\ Len(Body(Fr.node.stage)) \in Nat /\ Fr.item \in Nat /\ Fr.attempt \in Nat
      /\ Fr.at \in Nat \ {0}
  BY <1>1, FrameFields
<1>3. Fr.node \in StageNodes
  BY <1>1, FrameNode
<1>4. /\ Fr.item \in 1 .. Loop.items + 1 /\ Fr.attempt <= Loop.attempts
      /\ (Fr.attempt > 0 => Fr.item <= Loop.items) /\ Fr.at <= Len(Body(Fr.node.stage)) + 1
  BY <1>1 DEF FrameOK
<1>5. Fr.attempt \in 0 .. Loop.attempts
  BY <1>2, <1>4
<1> QED BY <1>1, <1>2, <1>3, <1>4, <1>5

\* An item that is read back runs nothing.
LEMMA ItemReusedKeeps == TreeInv /\ ItemReused => Keeps
<1> SUFFICES ASSUME TreeInv, ItemReused PROVE Keeps
  OBVIOUS
<1>1. /\ Control /\ Disk /\ pc = "go" /\ InLoop /\ Fr.attempt = 0 /\ Fr.item <= Loop.items
      /\ SetFrame([Fr EXCEPT !.item = @ + 1]) /\ pc' = pc /\ status' = status
  BY DEF ItemReused, BetweenItems, TreeInv
<1> DEFINE g == Moved(Fr, Fr.at, Fr.item + 1, 0)
<1>2. [Fr EXCEPT !.item = @ + 1] = g
  <2>1. Fr \in FrameRecord
    BY <1>1, InnerLoop
  <2> QED BY <1>1, <2>1 DEF FrameRecord, Moved
<1>3. FrameOK(g) /\ g.node = Fr.node
  <2>1. /\ FrameOK(Fr) /\ OfLoop(Fr) /\ Fr.at \in Nat \ {0} /\ Fr.at <= Len(Body(Fr.node.stage)) + 1
        /\ Loop = Def[Fr.node.stage] /\ Fr.item + 1 \in 1 .. Loop.items + 1 /\ 0 \in 0 .. Loop.attempts
    BY <1>1, InnerLoop
  <2>2. Fr.item + 1 \in 1 .. Def[Fr.node.stage].items + 1 /\ 0 \in 0 .. Def[Fr.node.stage].attempts
    BY <2>1
  <2>3. (0 > 0 => Fr.item + 1 <= Def[Fr.node.stage].items) /\ 0 # 1
    OBVIOUS
  <2> QED BY <2>1, <2>2, <2>3, LoopFrame
<1>4. frames' = [frames EXCEPT ![Len(frames)] = g]
  BY <1>1, <1>2 DEF SetFrame
<1>5. Stacked(frames') /\ Encl(frames') = Encl(frames)
  <2> HIDE DEF g
  <2>1. Stacked(frames) /\ Fr = frames[Len(frames)]
    BY <1>1, InnerLoop
  <2> QED BY <1>3, <1>4, <2>1, PutFrame
<1>6. Control'
  BY <1>1, <1>5, ControlGoes
<1>7. Open' = Open
  BY <1>1, <1>5 DEF Open
<1>8. Disk' /\ TreeStep
  BY <1>1, <1>7, RecordStays DEF Disk
<1> QED BY <1>6, <1>8 DEF Keeps

\* The first stage of an item is the first of the list, or the one towards the resume point.
LEMMA ItemStartsKeeps == TreeInv /\ ItemStarts => Keeps
<1> SUFFICES ASSUME TreeInv, ItemStarts PROVE Keeps
  OBVIOUS
<1> DEFINE into == Fr.cursor # NoNode /\ Fr.item = Fr.target
           at == IF into THEN StartIndex ELSE 1
<1>1. /\ Control /\ Disk /\ pc = "go" /\ InLoop /\ Fr.item <= Loop.items
      /\ SetFrame([Fr EXCEPT !.attempt = 1, !.at = at]) /\ pc' = pc /\ status' = status
  BY DEF ItemStarts, BetweenItems, TreeInv
<1> DEFINE g == Moved(Fr, at, Fr.item, 1)
<1>2. /\ FrameOK(Fr) /\ OfLoop(Fr) /\ Loop = Def[Fr.node.stage] /\ Fr \in FrameRecord
      /\ Fr.item \in 1 .. Loop.items + 1 /\ 1 \in 0 .. Loop.attempts
      /\ Len(Body(Fr.node.stage)) \in Nat /\ Stacked(frames) /\ Fr = frames[Len(frames)]
      /\ Fr.node.stage \in Stages
  BY <1>1, InnerLoop, FrameNode
<1>3. /\ at \in Nat \ {0} /\ at <= Len(Body(Fr.node.stage)) + 1
      /\ Fr.cursor # NoNode /\ Fr.item = Fr.target =>
           at <= Len(Body(Fr.node.stage))
             /\ Node(Body(Fr.node.stage)[at], Append(Fr.node.items, Fr.target)) \in Above[Fr.cursor]
  <2>1. CASE ~into
    BY <1>2, <2>1
  <2>2. CASE into
    <3>1. \E i \in DOMAIN Body(Fr.node.stage) :
            Node(Body(Fr.node.stage)[i], Append(Fr.node.items, Fr.target)) \in Above[Fr.cursor]
      BY <1>2, <2>2 DEF FrameOK, Follows
    <3>2. ItemNode.items = Append(Fr.node.items, Fr.target)
      BY <2>2, NodeFields, ZenonT(60) DEF ItemNode
    <3>3. /\ StartIndex \in DOMAIN Body(Fr.node.stage)
          /\ Node(Body(Fr.node.stage)[StartIndex], Append(Fr.node.items, Fr.target)) \in Above[Fr.cursor]
      BY <3>1, <3>2 DEF StartIndex
    <3>4. Body(Fr.node.stage) \in Seq(Stages)
      BY <1>2, StageFields
    <3>5. StartIndex \in Nat \ {0} /\ StartIndex <= Len(Body(Fr.node.stage))
      BY <3>3, <3>4
    <3>6. StartIndex <= Len(Body(Fr.node.stage)) + 1
      BY <1>2, <3>5
    <3>7. at = StartIndex
      BY <2>2
    <3> HIDE DEF at
    <3> QED BY <3>3, <3>5, <3>6, <3>7
  <2> QED BY <2>1, <2>2
<1>4. frames' = [frames EXCEPT ![Len(frames)] = g]
  <2>1. [Fr EXCEPT !.attempt = 1, !.at = at] = g
    <3> HIDE DEF at
    <3> QED BY <1>2 DEF FrameRecord, Moved
  <2> QED BY <1>1, <2>1 DEF SetFrame
<1> HIDE DEF at
<1>5. FrameOK(g) /\ g.node = Fr.node
  <2>1. /\ Fr.item \in 1 .. Def[Fr.node.stage].items + 1 /\ 1 \in 0 .. Def[Fr.node.stage].attempts
        /\ Fr.item <= Def[Fr.node.stage].items
    BY <1>1, <1>2
  <2> QED BY <1>2, <1>3, <2>1, LoopFrame
<1>6. Stacked(frames') /\ Encl(frames') = Encl(frames)
  <2> HIDE DEF g
  <2> QED BY <1>2, <1>4, <1>5, PutFrame
<1>7. Control'
  BY <1>1, <1>6, ControlGoes
<1>8. Open' = Open
  BY <1>1, <1>6 DEF Open
<1>9. Disk' /\ TreeStep
  BY <1>1, <1>8, RecordStays DEF Disk
<1> QED BY <1>7, <1>9 DEF Keeps

\* The frame that is left gives way to the one it was started from.
LEMMA OuterRuns ==
  ASSUME Control, Len(frames) > 1
  PROVE  /\ Stacked(Outer) /\ Runs(Outer[Len(Outer)]) /\ Fr.node \in StageNodes
         /\ Stacked(Advance(Outer)) /\ Encl(Advance(Outer)) = Encl(Outer)
<1>1. Stacked(Outer) /\ Runs(Outer[Len(Outer)]) /\ Fr.node \in StageNodes
  BY PopFrame, Innermost DEF Control, Outer
<1> QED BY <1>1, AdvanceKeeps

\* The stack below the frame that is left.
LEMMA ControlLeaves ==
  ASSUME Control, Len(frames) > 1,
         (pc' = "raise" /\ frames' = Outer) \/ (pc' = "go" /\ frames' = Advance(Outer))
  PROVE  Control' /\ Encl(frames') = Encl(Outer) /\ pc' \in {"go", "raise"}
<1>1. Stacked(frames') /\ Encl(frames') = Encl(Outer) /\ pc' \in {"go", "raise"}
  BY OuterRuns
<1>2. pc' = "raise" => Fr'.attempt > 0
  BY OuterRuns DEF Fr, Runs
<1> QED BY <1>1, <1>2 DEF Control

\* A stage of its own is written when its frame is left.
LEMMA FrameWrites ==
  ASSUME TreeInv, pc \in {"go", "raise"}, Len(frames) > 1,
         NEW st \in {"done", "failed", "stopped"}, status' = [status EXCEPT ![Fr.node] = st],
         (pc' = "raise" /\ frames' = Outer) \/ (pc' = "go" /\ frames' = Advance(Outer))
  PROVE  Keeps
<1>1. Control' /\ Encl(frames') = Encl(Outer) /\ pc' \in {"go", "raise"}
  BY ControlLeaves DEF TreeInv
<1>2. Fr.node \in StageNodes /\ Fr.node \in Nodes /\ \A m \in ItemNodes : m \in Nodes /\ m # Fr.node
  BY OuterRuns, LoopItem DEF TreeInv, Nodes
<1>3. /\ status' \in [Nodes -> Statuses] /\ (\A n \in ItemNodes : status'[n] # "running")
      /\ \A n \in StageNodes : status'[n] = IF n = Fr.node THEN st ELSE status[n]
  BY <1>2 DEF TreeInv, Disk, Statuses, Nodes
<1>4. Disk' /\ TreeStep
  BY <1>1, <1>3, FrameStops
<1> QED BY <1>1, <1>4 DEF Keeps

\* A loop is done.
LEMMA LoopReturnsKeeps == TreeInv /\ LoopReturns => Keeps
<1> SUFFICES ASSUME TreeInv, LoopReturns PROVE Keeps
  OBVIOUS
<1>1. /\ Control /\ pc = "go" /\ InLoop /\ frames' = Advance(Outer) /\ pc' = "go"
      /\ status' = [status EXCEPT ![Fr.node] = "done"]
  BY DEF LoopReturns, BetweenItems, Leaves, Write, TreeInv
<1>2. Len(frames) > 1 /\ "done" \in {"done", "failed", "stopped"}
  BY <1>1, InnerLoop
<1> QED BY <1>1, <1>2, FrameWrites

\* A loop is left by a condition that cannot be evaluated.
LEMMA LoopAbortedKeeps == TreeInv /\ LoopAborted => Keeps
<1> SUFFICES ASSUME TreeInv, LoopAborted PROVE Keeps
  OBVIOUS
<1>1. /\ Control /\ pc = "raise" /\ InLoop /\ frames' = Outer /\ pc' = "raise"
      /\ status' = [status EXCEPT ![Fr.node] = "failed"]
  BY DEF LoopAborted, Unwinds, Leaves, Write, TreeInv
<1>2. Len(frames) > 1 /\ "failed" \in {"done", "failed", "stopped"}
  BY <1>1, InnerLoop
<1> QED BY <1>1, <1>2, FrameWrites

\* A sub-workflow is done.
LEMMA SubWorkflowReturnsKeeps == TreeInv /\ SubWorkflowReturns => Keeps
<1> SUFFICES ASSUME TreeInv, SubWorkflowReturns PROVE Keeps
  OBVIOUS
<1>1. /\ Control /\ pc = "go" /\ Len(frames) > 1 /\ frames' = Advance(Outer) /\ pc' = "go"
      /\ status' = [status EXCEPT ![Fr.node] = "done"] /\ "done" \in {"done", "failed", "stopped"}
  BY DEF SubWorkflowReturns, SequenceEnds, InSub, Leaves, Write, TreeInv
<1> QED BY <1>1, FrameWrites

\* A sub-workflow is left by whatever unwinds.
LEMMA SubWorkflowRaisesKeeps == TreeInv /\ SubWorkflowRaises => Keeps
<1> SUFFICES ASSUME TreeInv, SubWorkflowRaises PROVE Keeps
  OBVIOUS
<1> DEFINE st == IF exc = "cancel" THEN "stopped" ELSE "failed"
<1>1. /\ Control /\ pc = "raise" /\ Len(frames) > 1 /\ frames' = Outer /\ pc' = "raise"
      /\ status' = [status EXCEPT ![Fr.node] = st]
  BY DEF SubWorkflowRaises, Unwinds, InSub, Leaves, Write, TreeInv
<1>2. PICK s \in {"done", "failed", "stopped"} : s = st
  OBVIOUS
<1>3. status' = [status EXCEPT ![Fr.node] = s]
  BY <1>1, <1>2
<1> QED BY <1>1, <1>3, FrameWrites

\* An item ends: the loop goes on with the next one, or ends too.
LEMMA ItemEndsKeeps ==
  ASSUME TreeInv, pc \in {"go", "raise"}, InLoop, Fr.attempt > 0,
         NEW st \in {"done", "failed", "stopped"}, ItemEnds(st)
  PROVE  Keeps
<1> DEFINE st1 == IF st = "stopped" THEN "stopped"
                  ELSE IF st = "failed" /\ Loop.onMax = "abort_workflow" THEN "failed" ELSE "running"
<1>1. PICK loopSt \in {"stopped", "failed", "running"} : loopSt = st1
  OBVIOUS
<1>2. /\ status' = [status EXCEPT ![ItemNode] = st, ![Fr.node] = loopSt]
      /\ IF loopSt = "running"
         THEN frames' = [frames EXCEPT ![Len(frames)] = [Fr EXCEPT !.item = @ + 1, !.attempt = 0, !.at = 1]]
              /\ pc' = "go"
         ELSE frames' = Outer /\ pc' = "raise"
  BY <1>1 DEF ItemEnds, SetFrame, Resumes, Raise
<1> HIDE DEF st1
<1>3. /\ Control /\ Disk /\ Stacked(frames) /\ Fr = frames[Len(frames)] /\ FrameOK(Fr) /\ OfLoop(Fr)
      /\ Len(frames) > 1 /\ Fr.node \in StageNodes /\ Fr.item <= Loop.items /\ Fr.item \in Nat
      /\ Fr \in FrameRecord /\ Loop = Def[Fr.node.stage]
  BY InnerLoop DEF TreeInv
<1>4. ItemNode \in ItemNodes
  BY <1>3, ItemNodeIs
<1>5. /\ Fr.node \in Nodes /\ ItemNode \in Nodes
      /\ \A m \in ItemNodes : m \in Nodes /\ m \notin StageNodes
  BY <1>3, <1>4, LoopItem DEF Nodes
<1>6. /\ status' \in [Nodes -> Statuses]
      /\ \A n \in Nodes : status'[n] = IF n = Fr.node THEN loopSt
                                       ELSE IF n = ItemNode THEN st ELSE status[n]
  <2>1. st \in Statuses /\ loopSt \in Statuses
    BY DEF Statuses
  <2> QED BY <1>2, <1>3, <1>5, <2>1 DEF Disk
<1>7. /\ \A n \in ItemNodes : status'[n] # "running"
      /\ \A n \in StageNodes : status'[n] = IF n = Fr.node THEN loopSt ELSE status[n]
  BY <1>3, <1>4, <1>5, <1>6 DEF Disk, Nodes
<1>8. CASE loopSt = "running"
  <2> DEFINE g == Moved(Fr, 1, Fr.item + 1, 0)
  <2>1. frames' = [frames EXCEPT ![Len(frames)] = g] /\ pc' = "go"
    <3>1. [Fr EXCEPT !.item = @ + 1, !.attempt = 0, !.at = 1] = g
      BY <1>3 DEF FrameRecord, Moved
    <3> HIDE DEF g
    <3> QED BY <1>2, <1>8, <3>1
  <2>2. FrameOK(g) /\ g.node = Fr.node
    <3>1. /\ Fr.item + 1 \in 1 .. Loop.items + 1 /\ 0 \in 0 .. Loop.attempts
          /\ 1 \in Nat \ {0} /\ 1 <= Len(Body(Fr.node.stage)) + 1
      BY <1>3, InnerLoop, SMTT(30)
    <3>2. Fr.item + 1 \in 1 .. Def[Fr.node.stage].items + 1 /\ 0 \in 0 .. Def[Fr.node.stage].attempts
      BY <1>3, <3>1
    <3>3. (0 > 0 => Fr.item + 1 <= Def[Fr.node.stage].items) /\ 0 # 1
      OBVIOUS
    <3> QED BY <1>3, <3>1, <3>2, <3>3, LoopFrame
  <2> HIDE DEF g
  <2>3. Stacked(frames') /\ Encl(frames') = Encl(frames)
    BY <1>3, <2>1, <2>2, PutFrame
  <2>4. Control'
    BY <2>1, <2>3, ControlGoes
  <2>5. Open' = Open /\ Open = Encl(frames)
    BY <2>1, <2>3 DEF Open
  <2>6. status[Fr.node] = "running"
    <3>1. Fr.node \in Encl(frames)
      BY <1>3, TopOfStack
    <3> QED BY <1>3, <2>5, <3>1 DEF Disk
  <2>7. \A n \in StageNodes : status'[n] = status[n]
    BY <1>7, <1>8, <2>6
  <2>8. Disk' /\ TreeStep
    BY <1>6, <1>7, <2>5, <2>7, RecordStays
  <2> QED BY <2>4, <2>8 DEF Keeps
<1>9. CASE loopSt # "running"
  <2>1. frames' = Outer /\ pc' = "raise"
    BY <1>2, <1>9
  <2>2. Control' /\ Encl(frames') = Encl(Outer) /\ pc' \in {"go", "raise"}
    BY <1>3, <2>1, ControlLeaves
  <2>3. loopSt \in {"done", "failed", "stopped"}
    BY <1>9
  <2>4. Disk' /\ TreeStep
    BY <1>3, <1>6, <1>7, <2>2, <2>3, FrameStops
  <2> QED BY <2>2, <2>4 DEF Keeps
<1> QED BY <1>8, <1>9

\* An attempt fails: the item is tried once more, or ends.
LEMMA AttemptFailsKeeps ==
  ASSUME TreeInv, pc \in {"go", "raise"}, InLoop, Fr.attempt > 0, AttemptFails
  PROVE  Keeps
<1>1. CASE Fr.attempt < Loop.attempts
  <2>1. /\ frames' = [frames EXCEPT ![Len(frames)] = [Fr EXCEPT !.attempt = @ + 1, !.at = 1]]
        /\ pc' = "go" /\ status' = status
    BY <1>1 DEF AttemptFails, SetFrame, Resumes
  <2>2. /\ Control /\ Disk /\ Stacked(frames) /\ Fr = frames[Len(frames)] /\ FrameOK(Fr) /\ OfLoop(Fr)
        /\ Fr.item \in 1 .. Loop.items + 1 /\ Fr.item <= Loop.items
        /\ Fr.attempt \in 0 .. Loop.attempts /\ Loop.attempts \in Nat \ {0}
        /\ Fr \in FrameRecord /\ Loop = Def[Fr.node.stage] /\ Len(Body(Fr.node.stage)) \in Nat
    BY InnerLoop DEF TreeInv
  <2> DEFINE g == Moved(Fr, 1, Fr.item, Fr.attempt + 1)
  <2>3. frames' = [frames EXCEPT ![Len(frames)] = g]
    <3>1. [Fr EXCEPT !.attempt = @ + 1, !.at = 1] = g
      BY <2>2 DEF FrameRecord, Moved
    <3> HIDE DEF g
    <3> QED BY <2>1, <3>1
  <2>4. FrameOK(g) /\ g.node = Fr.node
    <3>1. /\ Fr.attempt + 1 \in 0 .. Loop.attempts /\ Fr.attempt + 1 # 1
          /\ 1 \in Nat \ {0} /\ 1 <= Len(Body(Fr.node.stage)) + 1
      BY <1>1, <2>2
    <3>2. /\ Fr.item \in 1 .. Def[Fr.node.stage].items + 1 /\ Fr.item <= Def[Fr.node.stage].items
          /\ Fr.attempt + 1 \in 0 .. Def[Fr.node.stage].attempts
      BY <2>2, <3>1
    <3> QED BY <2>2, <3>1, <3>2, LoopFrame, SMTT(30)
  <2> HIDE DEF g
  <2>5. Stacked(frames') /\ Encl(frames') = Encl(frames)
    BY <2>2, <2>3, <2>4, PutFrame
  <2>6. Control'
    BY <2>1, <2>5, ControlGoes
  <2>7. Open' = Open
    BY <2>1, <2>5 DEF Open
  <2>8. Disk' /\ TreeStep
    BY <2>1, <2>2, <2>7, RecordStays DEF Disk
  <2> QED BY <2>6, <2>8 DEF Keeps
<1>2. CASE ~(Fr.attempt < Loop.attempts)
  <2>1. ItemEnds("failed") /\ "failed" \in {"done", "failed", "stopped"}
    BY <1>2 DEF AttemptFails
  <2> QED BY <2>1, ItemEndsKeeps
<1> QED BY <1>1, <1>2

\* The attempt of an item ends with its exit condition.
LEMMA AttemptEndsWith ==
  ASSUME TreeInv, AttemptEnds
  PROVE  pc \in {"go", "raise"} /\ pc = "go" /\ InLoop /\ Fr.attempt > 0
BY DEF AttemptEnds

\* The exit condition of a loop: it holds.
LEMMA ExitHoldsKeeps == TreeInv /\ ExitHolds => Keeps
<1> SUFFICES ASSUME TreeInv, ExitHolds PROVE Keeps
  OBVIOUS
<1>1. AttemptEnds /\ ItemEnds("done") /\ "done" \in {"done", "failed", "stopped"}
  BY DEF ExitHolds
<1> QED BY <1>1, AttemptEndsWith, ItemEndsKeeps

\* It does not hold.
LEMMA ExitDoesNotHoldKeeps == TreeInv /\ ExitDoesNotHold => Keeps
BY AttemptEndsWith, AttemptFailsKeeps DEF ExitDoesNotHold

\* It cannot be evaluated.
LEMMA ExitRaisesKeeps == TreeInv /\ ExitRaises => Keeps
<1> SUFFICES ASSUME TreeInv, ExitRaises PROVE Keeps
  OBVIOUS
<1>1. /\ Control /\ Disk /\ pc = "go" /\ Fr.attempt > 0
      /\ pc' = "raise" /\ frames' = frames /\ status' = status
  BY AttemptEndsWith DEF ExitRaises, Raise, TreeInv
<1>2. Control'
  BY <1>1, ControlRaises
<1>3. Open' = Open
  BY <1>1 DEF Open
<1>4. Disk' /\ TreeStep
  BY <1>1, <1>3, RecordStays DEF Disk
<1> QED BY <1>2, <1>4 DEF Keeps

\* What unwinds into a loop unwinds into an item of it.
LEMMA UnwindsInLoop ==
  ASSUME TreeInv, pc = "raise", InLoop
  PROVE  pc \in {"go", "raise"} /\ Fr.attempt > 0
BY DEF TreeInv, Control

\* A stage of the item failed.
LEMMA InnerStageFailedKeeps == TreeInv /\ InnerStageFailed => Keeps
BY UnwindsInLoop, AttemptFailsKeeps DEF InnerStageFailed, Unwinds

\* A stage of the item was cancelled.
LEMMA ItemCancelledKeeps == TreeInv /\ ItemCancelled => Keeps
<1> SUFFICES ASSUME TreeInv, ItemCancelled PROVE Keeps
  OBVIOUS
<1>1. pc = "raise" /\ InLoop /\ ItemEnds("stopped") /\ "stopped" \in {"done", "failed", "stopped"}
  BY DEF ItemCancelled, Unwinds
<1> QED BY <1>1, UnwindsInLoop, ItemEndsKeeps

\* The run ends: only the workflow's own list is left, and it is no stage.
LEMMA RunEnds ==
  ASSUME TreeInv, pc \in {"go", "raise"}, Len(frames) = 1,
         pc' = "over", frames' = frames, status' = status
  PROVE  Keeps
<1>1. Control /\ Disk /\ Encl(frames) = {}
  BY Innermost DEF TreeInv
<1>2. Control'
  BY <1>1, ControlGoes DEF Control
<1>3. Open' = Open
  BY <1>1 DEF Open
<1>4. Disk' /\ TreeStep
  BY <1>1, <1>3, RecordStays DEF Disk
<1> QED BY <1>2, <1>4 DEF Keeps

\* The run is done.
LEMMA RunReturnsKeeps == TreeInv /\ RunReturns => Keeps
BY RunEnds DEF RunReturns, SequenceEnds, Ends

\* The run fails or is stopped.
LEMMA RunRaisesKeeps == TreeInv /\ RunRaises => Keeps
BY RunEnds DEF RunRaises, Unwinds, Ends

\* A resumption starts over from the outermost frame.
LEMMA ResumeKeeps == \A a \in Nodes : TreeInv /\ Resume(a) => Keeps
<1> SUFFICES ASSUME NEW a \in Nodes, TreeInv, Resume(a) PROVE Keeps
  OBVIOUS
<1> DEFINE top == CHOOSE i \in DOMAIN Body(Root) : Node(Body(Root)[i], <<>>) \in Above[a]
<1>1. /\ Control /\ Disk /\ pc = "over" /\ pc' = "go" /\ status' = status
      /\ frames' = <<Frame(Node(Root, <<>>), top, 0, 1, 0, a)>>
  BY DEF Resume, ResumeRequested, TreeInv
<1>2. top \in DOMAIN Body(Root) /\ Node(Body(Root)[top], <<>>) \in Above[a]
  BY TopOf
<1>3. Body(Root) \in Seq(Stages)
  BY DefAssumption, StageFields DEF Stages
<1> HIDE DEF top
<1>4. /\ top \in Nat \ {0} /\ top <= Len(Body(Root)) + 1 /\ top <= Len(Body(Root))
      /\ a \in Nodes \cup {NoNode}
  BY <1>2, <1>3
<1>5. Stacked(frames') /\ Encl(frames') = {}
  BY <1>1, <1>2, <1>4, FirstFrame
<1>6. Control'
  BY <1>1, <1>5, ControlGoes
<1>7. Open' = Open
  BY <1>1, <1>5 DEF Open
<1>8. Disk' /\ TreeStep
  BY <1>1, <1>7, RecordStays DEF Disk
<1> QED BY <1>6, <1>8 DEF Keeps

\* A resumption that raises before it starts changes nothing on disk.
LEMMA ResumeDiesKeeps == \A a \in Nodes : TreeInv /\ ResumeDies(a) => Keeps
<1> SUFFICES ASSUME NEW a \in Nodes, TreeInv, ResumeDies(a) PROVE Keeps
  OBVIOUS
<1>1. /\ Control /\ Disk /\ pc = "over" /\ pc' = "dead" /\ status' = status /\ frames' = frames
  BY DEF ResumeDies, ResumeRequested, TreeInv
<1>2. Control'
  BY <1>1, ControlGoes DEF Control
<1>3. Open' = Open
  BY <1>1 DEF Open
<1>4. Disk' /\ TreeStep
  BY <1>1, <1>3, RecordStays DEF Disk
<1> QED BY <1>2, <1>4 DEF Keeps

\* Nothing happens.
LEMMA StutterKeeps == TreeInv /\ UNCHANGED vars => Keeps
<1> SUFFICES ASSUME TreeInv, UNCHANGED vars PROVE Keeps
  OBVIOUS
<1>1. Control /\ Disk /\ pc' = pc /\ status' = status /\ frames' = frames
  BY DEF vars, engineVars, diskVars, TreeInv
<1>2. Cur' = Cur /\ Fr' = Fr
  BY <1>1 DEF Cur, Fr, InLoop, ItemNode
<1>3. Control'
  BY <1>1, <1>2 DEF Control, InLoop
<1>4. Open' = Open
  BY <1>1, <1>2 DEF Open
<1>5. Disk' /\ TreeStep
  BY <1>1, <1>4, RecordStays DEF Disk
<1> QED BY <1>3, <1>5 DEF Keeps

\* Every step keeps the stack and the record, and is a step of the tree.
LEMMA TreeSteps == TreeInv /\ [Next]_vars => TreeInv' /\ TreeStep
<1> SUFFICES ASSUME TreeInv, [Next]_vars PROVE Keeps
  BY DEF Keeps, TreeInv
<1>1. CASE StageSkipped
  BY <1>1, StageSkippedKeeps
<1>2. CASE GateRaises
  BY <1>2, GateRaisesKeeps
<1>3. CASE LeafEnters
  BY <1>3, LeafEntersKeeps
<1>4. CASE BranchRaises
  BY <1>4, BranchRaisesKeeps
<1>5. CASE \E holds \in BOOLEAN : BranchJumps(holds) \/ BranchMisses(holds)
  BY <1>5, BranchJumpsKeeps, BranchMissesKeeps
<1>6. CASE SubWorkflowEnters
  BY <1>6, SubWorkflowEntersKeeps
<1>7. CASE LoopEnters
  BY <1>7, LoopEntersKeeps
<1>8. CASE LeafReturns
  BY <1>8, LeafReturnsKeeps
<1>9. CASE RespondReturns
  BY <1>9, RespondReturnsKeeps
<1>10. CASE LeafFails
  BY <1>10, LeafFailsKeeps
<1>11. CASE LeafCancelled
  BY <1>11, LeafCancelledKeeps
<1>12. CASE ItemReused
  BY <1>12, ItemReusedKeeps
<1>13. CASE ItemStarts
  BY <1>13, ItemStartsKeeps
<1>14. CASE LoopReturns
  BY <1>14, LoopReturnsKeeps
<1>15. CASE ExitHolds
  BY <1>15, ExitHoldsKeeps
<1>16. CASE ExitDoesNotHold
  BY <1>16, ExitDoesNotHoldKeeps
<1>17. CASE ExitRaises
  BY <1>17, ExitRaisesKeeps
<1>18. CASE InnerStageFailed
  BY <1>18, InnerStageFailedKeeps
<1>19. CASE ItemCancelled
  BY <1>19, ItemCancelledKeeps
<1>20. CASE LoopAborted
  BY <1>20, LoopAbortedKeeps
<1>21. CASE SubWorkflowReturns
  BY <1>21, SubWorkflowReturnsKeeps
<1>22. CASE SubWorkflowRaises
  BY <1>22, SubWorkflowRaisesKeeps
<1>23. CASE RunReturns
  BY <1>23, RunReturnsKeeps
<1>24. CASE RunRaises
  BY <1>24, RunRaisesKeeps
<1>25. CASE ClientAborts
  BY <1>25, ClientAbortsKeeps
<1>26. CASE \E a \in Nodes : Resume(a) \/ ResumeDies(a)
  BY <1>26, ResumeKeeps, ResumeDiesKeeps
<1>27. CASE Idle \/ UNCHANGED vars
  BY <1>27, StutterKeeps DEF Idle
<1> QED BY <1>1, <1>2, <1>3, <1>4, <1>5, <1>6, <1>7, <1>8, <1>9, <1>10, <1>11, <1>12, <1>13,
           <1>14, <1>15, <1>16, <1>17, <1>18, <1>19, <1>20, <1>21, <1>22, <1>23, <1>24, <1>25,
           <1>26, <1>27 DEF Next, Engine, User

\* A new run has no record.
LEMMA TreeStarts == Init => TreeInv /\ Tree!Init
<1> SUFFICES ASSUME Init PROVE TreeInv /\ Tree!Init
  OBVIOUS
<1>1. /\ frames = <<Frame(Node(Root, <<>>), 1, 0, 1, 0, NoNode)>> /\ pc = "go"
      /\ status = [n \in Nodes |-> "absent"]
  BY DEF Init
<1>2. Body(Root) \in Seq(Stages)
  BY DefAssumption, StageFields DEF Stages
<1>3. 1 \in Nat \ {0} /\ 1 <= Len(Body(Root)) + 1 /\ NoNode \in Nodes \cup {NoNode}
  BY <1>2
<1>4. Stacked(frames) /\ Encl(frames) = {}
  BY <1>1, <1>3, FirstFrame
<1>5. Control
  BY <1>1, <1>4 DEF Control
<1>6. Open = {}
  BY <1>1, <1>4 DEF Open
<1>7. StageNodes \subseteq Nodes /\ ItemNodes \subseteq Nodes
  BY DEF Nodes
<1>8. Disk
  BY <1>1, <1>6, <1>7 DEF Disk, Statuses
<1>9. Tree!Init
  BY <1>1, <1>7 DEF Tree!Init
<1> QED BY <1>5, <1>8, <1>9 DEF TreeInv

\* So the record is that of the open stages, always.
LEMMA TreeAlways == Spec => []TreeInv
<1>1. Init => TreeInv
  BY TreeStarts
<1>2. TreeInv /\ [Next]_vars => TreeInv'
  BY TreeSteps
<1> QED BY <1>1, <1>2, PTL DEF Spec

\* Whatever the workflow's stages and however deeply they are nested, a run that has ended
\* leaves no stage and no item as running on disk: whatever raises or is cancelled passes
\* the frames one by one, and each writes its stage (custom_workflow.py:594-639).
THEOREM EveryStageIsEnded == Spec => []NothingLeftRunning
<1>1. TreeInv => NothingLeftRunning
  BY DEF TreeInv, Disk, Open, NothingLeftRunning, Nodes
<1> QED BY <1>1, TreeAlways, PTL

\* Every write of the recorder is a step of RunTree: a stage starts within exactly the
\* stages around it, and only the innermost one ends
\* (workflow_run_recorder.py:221-264).
THEOREM RecordIsAlwaysATree == Spec => RecordIsTree
<1>1. Init => Tree!Init
  BY TreeStarts
<1>2. TreeInv /\ [Next]_vars => [Tree!Next]_Record
  BY TreeSteps DEF TreeStep
<1> QED BY <1>1, <1>2, TreeAlways, PTL DEF Spec, RecordIsTree, Tree!Spec, Record

\* The leaf stage that the client's abort reached.
Stopped == stopAt # NoNode /\ Def[stopAt.stage].type = "leaf"

\* From the abort on, the run does nothing but stop there.
StopInv ==
  /\ stopAt \in StageNodes \cup {NoNode}
  /\ Stopped => \/ pc = "leaf" /\ stopAt = Cur
                \/ pc = "raise" /\ exc = "cancel" /\ status[stopAt] = "stopped"
                \/ pc = "over" /\ run.status = "stopped" /\ status[stopAt] = "stopped"

\* While the stage list is run there was no abort, or a respond stage took it.
LEMMA GoesOn == StopInv /\ pc = "go" /\ stopAt' = stopAt => StopInv'
BY DEF StopInv, Stopped

\* A stage is dispatched only in a run that no abort has reached.
LEMMA DispatchStops ==
  ASSUME StopInv, NEW types, Dispatches(types)
  PROVE  StopInv'
BY GoesOn DEF Dispatches

\* What leaves a leaf stage.
LEMMA LeafEndStops ==
  ASSUME TreeInv, StopInv, LeafReturns \/ RespondReturns \/ LeafFails \/ LeafCancelled
  PROVE  StopInv'
<1>1. /\ pc = "leaf" /\ stopAt' = stopAt /\ Control /\ Disk /\ (Stopped => stopAt = Cur)
  BY DEF LeafReturns, RespondReturns, LeafFails, LeafCancelled, Resumed, StopInv, TreeInv
<1>2. CASE ~Stopped
  BY <1>1, <1>2 DEF StopInv, Stopped
<1>3. CASE Stopped
  <2>1. stopAt = Cur /\ IsLeaf /\ stopAt \in StageNodes
    BY <1>1, <1>3 DEF Stopped, IsLeaf, StopInv
  <2>2. LeafCancelled
    BY <2>1 DEF LeafReturns, RespondReturns, LeafFails
  <2>3. pc' = "raise" /\ exc' = "cancel" /\ status' = [status EXCEPT ![stopAt] = "stopped"]
    BY <2>1, <2>2 DEF LeafCancelled, Raise, Write
  <2>4. status'[stopAt] = "stopped"
    BY <1>1, <2>1, <2>3 DEF Disk, Nodes
  <2> QED BY <1>1, <2>1, <2>3, <2>4 DEF StopInv
<1> QED BY <1>2, <1>3

\* What unwinds a list or a loop writes neither the stage that was stopped nor the run.
LEMMA UnwindStops ==
  ASSUME TreeInv, StopInv, pc = "raise",
         exc = "cancel" => /\ \/ pc' = "raise" /\ exc' = "cancel"
                              \/ pc' = "over" /\ run'.status = "stopped"
                           /\ \A n \in StageNodes : Def[n.stage].type = "leaf" =>
                                status'[n] = status[n],
         stopAt' = stopAt
  PROVE  StopInv'
BY DEF StopInv, Stopped

\* The stage of a frame is a loop or a workflow.
LEMMA FrameIsNoLeaf ==
  ASSUME Control
  PROVE  Def[Fr.node.stage].type # "leaf" /\ (Len(frames) > 1 => Fr.node \in StageNodes)
BY Innermost DEF FrameOK

\* Leaving a frame writes no leaf stage.
LEMMA LeavesKeepsLeaves ==
  ASSUME TreeInv, Len(frames) > 1, NEW st, status' = [status EXCEPT ![Fr.node] = st]
  PROVE  \A n \in StageNodes : Def[n.stage].type = "leaf" => status'[n] = status[n]
<1>1. Def[Fr.node.stage].type # "leaf" /\ Fr.node \in StageNodes
  BY FrameIsNoLeaf DEF TreeInv
<1>2. status \in [Nodes -> Statuses]
  BY DEF TreeInv, Disk
<1> QED BY <1>1, <1>2 DEF Nodes

\* A cancelled item ends its loop.
LEMMA ItemCancelledStops == TreeInv /\ StopInv /\ ItemCancelled => StopInv'
<1> SUFFICES ASSUME TreeInv, StopInv, ItemCancelled PROVE StopInv'
  OBVIOUS
<1>1. /\ pc = "raise" /\ pc' = "raise" /\ exc' = "cancel" /\ stopAt' = stopAt /\ InLoop /\ Control
      /\ status' = [status EXCEPT ![ItemNode] = "stopped", ![Fr.node] = "stopped"]
  BY DEF ItemCancelled, Unwinds, ItemEnds, Raise, TreeInv
<1>2. /\ Fr.attempt > 0
      /\ Fr.item <= Loop.items
  BY <1>1, UnwindsInLoop, InnerLoop
<1>3. ItemNode \in ItemNodes
  BY <1>1, <1>2, ItemNodeIs
<1>4. Def[Fr.node.stage].type # "leaf" /\ Fr.node \in StageNodes
  BY <1>1, InnerLoop, FrameIsNoLeaf
<1>5. ItemNode \notin StageNodes
  BY <1>3, LoopItem
<1>6. status \in [Nodes -> Statuses] /\ ItemNode \in Nodes /\ Fr.node \in Nodes
  BY <1>3, <1>4 DEF TreeInv, Disk, Nodes
<1>7. \A n \in StageNodes : Def[n.stage].type = "leaf" => status'[n] = status[n]
  BY <1>1, <1>4, <1>5, <1>6 DEF Nodes
<1> QED BY <1>1, <1>7, UnwindStops

\* A sub-workflow passes the cancellation on.
LEMMA SubWorkflowRaisesStops == TreeInv /\ StopInv /\ SubWorkflowRaises => StopInv'
<1> SUFFICES ASSUME TreeInv, StopInv, SubWorkflowRaises PROVE StopInv'
  OBVIOUS
<1> DEFINE st == IF exc = "cancel" THEN "stopped" ELSE "failed"
<1>1. /\ pc = "raise" /\ pc' = "raise" /\ exc' = exc /\ stopAt' = stopAt /\ Len(frames) > 1
      /\ status' = [status EXCEPT ![Fr.node] = st]
  BY DEF SubWorkflowRaises, Unwinds, InSub, Leaves, Write
<1>2. PICK s \in {"failed", "stopped"} : s = st
  OBVIOUS
<1>3. \A n \in StageNodes : Def[n.stage].type = "leaf" => status'[n] = status[n]
  BY <1>1, <1>2, LeavesKeepsLeaves
<1> QED BY <1>1, <1>3, UnwindStops

\* What else unwinds is no cancellation, or ends the run as stopped.
LEMMA RaisesStop ==
  ASSUME TreeInv, StopInv, LoopAborted \/ InnerStageFailed \/ RunRaises
  PROVE  StopInv'
<1>1. CASE LoopAborted
  BY <1>1, UnwindStops DEF LoopAborted, Unwinds
<1>2. CASE InnerStageFailed
  BY <1>2, UnwindStops DEF InnerStageFailed, Unwinds
<1>3. CASE RunRaises
  <2>1. /\ pc = "raise" /\ pc' = "over" /\ stopAt' = stopAt /\ status' = status
        /\ exc = "cancel" => run'.status = "stopped"
    BY <1>3 DEF RunRaises, Unwinds, Ends
  <2> QED BY <2>1, UnwindStops
<1> QED BY <1>1, <1>2, <1>3

\* Every step keeps to the stop.
LEMMA StopSteps == TreeInv /\ StopInv /\ [Next]_vars => StopInv'
<1> SUFFICES ASSUME TreeInv, StopInv, [Next]_vars PROVE StopInv'
  OBVIOUS
<1>1. CASE \/ StageSkipped \/ GateRaises \/ LeafEnters \/ BranchRaises
           \/ \E holds \in BOOLEAN : BranchJumps(holds) \/ BranchMisses(holds)
           \/ SubWorkflowEnters \/ LoopEnters
  BY <1>1, DispatchStops DEF StageSkipped, GateRaises, LeafEnters, BranchRaises, BranchJumps,
       BranchMisses, BranchTaken, SubWorkflowEnters, LoopEnters
<1>2. CASE LeafReturns \/ RespondReturns \/ LeafFails \/ LeafCancelled
  BY <1>2, LeafEndStops
<1>3. CASE \/ ItemReused \/ ItemStarts \/ LoopReturns
           \/ ExitHolds \/ ExitDoesNotHold \/ ExitRaises \/ SubWorkflowReturns \/ RunReturns
  BY <1>3, GoesOn DEF ItemReused, ItemStarts, LoopReturns, BetweenItems, ExitHolds, ExitDoesNotHold,
       ExitRaises, AttemptEnds, SubWorkflowReturns, RunReturns, SequenceEnds, Ends
<1>4. CASE ItemCancelled
  BY <1>4, ItemCancelledStops
<1>5. CASE SubWorkflowRaises
  BY <1>5, SubWorkflowRaisesStops
<1>6. CASE LoopAborted \/ InnerStageFailed \/ RunRaises
  BY <1>6, RaisesStop
<1>7. CASE ClientAborts
  <2>1. pc = "leaf" /\ pc' = "leaf" /\ stopAt' = Cur /\ frames' = frames /\ Control
    BY <1>7 DEF ClientAborts, TreeInv
  <2>2. Cur \in StageNodes
    BY <2>1, Innermost DEF Control
  <2>3. Cur' = Cur
    BY <2>1 DEF Cur, Fr, InLoop, ItemNode
  <2> QED BY <2>1, <2>2, <2>3 DEF StopInv
<1>8. CASE \E a \in Nodes : Resume(a) \/ ResumeDies(a)
  BY <1>8 DEF Resume, ResumeDies, ResumeRequested, StopInv, Stopped
<1>9. CASE Idle \/ UNCHANGED vars
  <2>1. frames' = frames /\ pc' = pc /\ exc' = exc /\ stopAt' = stopAt /\ status' = status /\ run' = run
    BY <1>9 DEF Idle, vars, engineVars, diskVars
  <2>2. Cur' = Cur
    BY <2>1 DEF Cur, Fr, InLoop, ItemNode
  <2> QED BY <2>1, <2>2 DEF StopInv, Stopped
<1> QED BY <1>1, <1>2, <1>3, <1>4, <1>5, <1>6, <1>7, <1>8, <1>9 DEF Next, Engine, User

\* An abort that reaches a leaf stage stops the run there: no loop around it, however
\* many attempts it has left, runs another stage (custom_workflow.py:896-903, 947-951).
THEOREM StopIsAlwaysRecorded == Spec => []StopIsRecorded
<1>1. Init => StopInv
  BY DEF Init, StopInv, Stopped
<1>2. TreeInv /\ StopInv /\ [Next]_vars => StopInv'
  BY StopSteps
<1>3. StopInv => StopIsRecorded
  BY DEF StopInv, Stopped, StopIsRecorded
<1> QED BY <1>1, <1>2, <1>3, TreeAlways, PTL DEF Spec

\* Of the members of a set with bounded numbers, one has the greatest.
LEMMA Greatest ==
  ASSUME NEW S, S # {}, NEW f, NEW b \in Nat, \A x \in S : f[x] \in 0 .. b
  PROVE  \E m \in S : \A o \in S : f[o] <= f[m]
<1> DEFINE G == {b - f[x] : x \in S}
<1>1. G # {} /\ G \in SUBSET Nat
  OBVIOUS
<1>2. PICK k \in G : \A j \in G : k <= j
  <2> HIDE DEF G
  <2> QED BY <1>1, LeastNumber
<1>3. PICK m \in S : k = b - f[m]
  BY <1>2
<1>4. \A o \in S : b - f[m] <= b - f[o]
  BY <1>2, <1>3
<1>5. \A o \in S : f[o] <= f[m]
  BY <1>4
<1> QED BY <1>5

ControlTypes ==
  /\ pc \in {"go", "leaf", "raise", "over", "dead"}
  /\ exc \in {"none", "error", "cancel", "abort"} /\ (exc = "none" <=> pc # "raise")
  /\ run.status \in {"running", "done", "failed", "stopped"}
  /\ resumes \in 0 .. MaxResumes

RecordTypes ==
  /\ lastFailed \in StageNodes \cup {NoNode}
  /\ seen \in Seq(StageNodes) /\ IsFiniteSet(Seen) /\ Cardinality(Seen) = Len(seen)

Registries == UNION {[D -> StageNodes \cup {NoNode}] : D \in SUBSET Stages}
SlotTypes == slots \in Seq(Registries)

TypeInv == ControlTypes /\ RecordTypes /\ SlotTypes

-----------------------------------------------------------------------------
\* The stages in the order they were first written.
LEMMA SeenIs ==
  ASSUME RecordTypes
  PROVE  /\ Seen \subseteq StageNodes /\ Len(seen) \in Nat
         /\ \A p \in Seen : Index(seen, p) \in 1 .. Len(seen) /\ seen[Index(seen, p)] = p
<1>1. seen \in Seq(StageNodes)
  BY DEF RecordTypes
<1>2. ASSUME NEW p \in Seen
      PROVE  Index(seen, p) \in 1 .. Len(seen) /\ seen[Index(seen, p)] = p
  <2>1. \E i \in DOMAIN seen : seen[i] = p
    BY DEF Seen
  <2>2. Index(seen, p) \in DOMAIN seen /\ seen[Index(seen, p)] = p
    BY <2>1 DEF Index
  <2> QED BY <1>1, <2>2
<1> QED BY <1>1, <1>2 DEF Seen

\* A stage is written, for the first time or again.
LEMMA WriteTypes ==
  ASSUME RecordTypes, NEW n \in StageNodes,
         seen' = IF n \in Seen THEN seen ELSE Append(seen, n),
         lastFailed' \in StageNodes \cup {NoNode}
  PROVE  RecordTypes'
<1>1. CASE n \in Seen
  BY <1>1 DEF RecordTypes, Seen
<1>2. CASE n \notin Seen
  <2>1. seen \in Seq(StageNodes) /\ Len(seen) \in Nat /\ IsFiniteSet(Seen) /\ Cardinality(Seen) = Len(seen)
    BY DEF RecordTypes
  <2>2. /\ seen' \in Seq(StageNodes) /\ Len(seen') = Len(seen) + 1
        /\ \A i \in 1 .. Len(seen) : seen'[i] = seen[i]
        /\ seen'[Len(seen) + 1] = n /\ DOMAIN seen' = 1 .. Len(seen) + 1 /\ DOMAIN seen = 1 .. Len(seen)
    BY <1>2, <2>1
  <2>3. \A i : i \in 1 .. Len(seen) + 1 <=> i \in 1 .. Len(seen) \/ i = Len(seen) + 1
    BY <2>1
  <2>4. Seen' = Seen \cup {n}
    BY <2>2, <2>3 DEF Seen
  <2>5. IsFiniteSet(Seen \cup {n}) /\ Cardinality(Seen \cup {n}) = Cardinality(Seen) + 1
    BY <1>2, <2>1, FS_AddElement
  <2> QED BY <2>1, <2>2, <2>4, <2>5 DEF RecordTypes
<1> QED BY <1>1, <1>2

\* The stage that is dispatched is written.
LEMMA CurWritten ==
  ASSUME Control, RecordTypes, Cur \in StageNodes, NEW st, Write(Cur, st)
  PROVE  RecordTypes'
<1>1. PICK n \in StageNodes : n = Cur
  OBVIOUS
<1>2. /\ seen' = IF n \in Seen THEN seen ELSE Append(seen, n)
      /\ lastFailed' = IF st \in {"failed", "stopped"} THEN n ELSE lastFailed
  BY <1>1 DEF Write
<1>3. lastFailed' \in StageNodes \cup {NoNode}
  BY <1>2 DEF RecordTypes
<1> QED BY <1>2, <1>3, WriteTypes

\* The stage of the innermost frame is written.
LEMMA FrameWritten ==
  ASSUME Control, RecordTypes, Len(frames) > 1, NEW st, Write(Fr.node, st)
  PROVE  RecordTypes'
<1>1. PICK n \in StageNodes : n = Fr.node
  BY OuterRuns
<1>2. /\ seen' = IF n \in Seen THEN seen ELSE Append(seen, n)
      /\ lastFailed' = IF st \in {"failed", "stopped"} THEN n ELSE lastFailed
  BY <1>1 DEF Write
<1>3. lastFailed' \in StageNodes \cup {NoNode}
  BY <1>2 DEF RecordTypes
<1> QED BY <1>2, <1>3, WriteTypes

\* No stage is written.
LEMMA RecordUnchanged ==
  ASSUME RecordTypes, seen' = seen, lastFailed' \in StageNodes \cup {NoNode}
  PROVE  RecordTypes'
BY DEF RecordTypes, Seen

\* The end of an item or of an attempt.
LEMMA ItemEndsRecord ==
  ASSUME Control, InLoop, RecordTypes, NEW st, ItemEnds(st)
  PROVE  RecordTypes'
<1>1. Fr.node \in StageNodes
  BY InnerLoop
<1>2. seen' = seen /\ (lastFailed' = lastFailed \/ lastFailed' = Fr.node)
  BY DEF ItemEnds
<1>3. lastFailed' \in StageNodes \cup {NoNode}
  BY <1>1, <1>2 DEF RecordTypes
<1> QED BY <1>2, <1>3, RecordUnchanged

\* The end of an attempt.
LEMMA AttemptFailsRecord ==
  ASSUME Control, InLoop, RecordTypes, AttemptFails
  PROVE  RecordTypes'
BY ItemEndsRecord, RecordUnchanged DEF AttemptFails, RecordTypes

\* The last of the failed stages that are narrated again is one of them.
LEMMA ResumeRecord == \A a \in Nodes : RecordTypes /\ Resume(a) => RecordTypes'
<1> SUFFICES ASSUME NEW a \in Nodes, RecordTypes, Resume(a) PROVE RecordTypes'
  OBVIOUS
<1> DEFINE top == CHOOSE i \in DOMAIN Body(Root) : Node(Body(Root)[i], <<>>) \in Above[a]
           failed == {m \in Narrated(top) : status[m] \in {"failed", "stopped"}}
<1>1. /\ seen' = seen
      /\ lastFailed' = IF failed = {} THEN NoNode
                       ELSE CHOOSE m \in failed :
                              \A o \in failed : Index(Body(Root), o.stage) <= Index(Body(Root), m.stage)
  BY DEF Resume, ResumeRequested
<1>2. failed \subseteq StageNodes /\ \A m \in failed : \E j \in 1 .. top - 1 : Body(Root)[j] = m.stage
  BY SeenIs DEF Narrated
<1>3. top \in DOMAIN Body(Root) /\ Body(Root) \in Seq(Stages)
  BY TopOf, DefAssumption, StageFields DEF Stages
<1> HIDE DEF top, failed
<1>4. ASSUME failed # {}
      PROVE  \E m \in failed :
               \A o \in failed : Index(Body(Root), o.stage) <= Index(Body(Root), m.stage)
  <2> DEFINE f == [m \in failed |-> Index(Body(Root), m.stage)]
             b == Len(Body(Root))
  <2>1. b \in Nat /\ \A j \in 1 .. top - 1 : j \in DOMAIN Body(Root)
    BY <1>3
  <2>2. ASSUME NEW m \in failed PROVE f[m] \in 0 .. b
    <3>1. \E j \in DOMAIN Body(Root) : Body(Root)[j] = m.stage
      BY <1>2, <2>1
    <3>2. Index(Body(Root), m.stage) \in DOMAIN Body(Root)
      BY <3>1 DEF Index
    <3> QED BY <1>3, <3>2
  <2>3. \A m \in failed : f[m] = Index(Body(Root), m.stage)
    OBVIOUS
  <2> HIDE DEF f, b
  <2>4. \E m \in failed : \A o \in failed : f[o] <= f[m]
    BY <1>4, <2>1, <2>2, Greatest
  <2> QED BY <2>3, <2>4
<1>5. lastFailed' \in StageNodes \cup {NoNode}
  BY <1>1, <1>2, <1>4
<1> QED BY <1>1, <1>5, RecordUnchanged

-----------------------------------------------------------------------------
(* What the slot registries hold *)

\* A slot is written.
LEMMA WithSlotTypes ==
  ASSUME NEW regs \in Seq(Registries), NEW s \in Stages \cup {"none"}, NEW v \in StageNodes
  PROVE  WithSlot(regs, s, v) \in Seq(Registries)
<1>1. CASE s = "none"
  BY <1>1 DEF WithSlot
<1>2. CASE s # "none" /\ Len(regs) = 0
  <2> DEFINE e == [x \in DOMAIN regs[Len(regs)] \cup {s} |-> IF x = s THEN v ELSE regs[Len(regs)][x]]
  <2>1. WithSlot(regs, s, v) = [regs EXCEPT ![Len(regs)] = e]
    BY <1>2 DEF WithSlot
  <2> HIDE DEF e
  <2>2. [regs EXCEPT ![0] = e] = regs
    BY <1>2
  <2> QED BY <1>2, <2>1, <2>2
<1>3. CASE s # "none" /\ Len(regs) # 0
  <2> DEFINE r == regs[Len(regs)]
             e == [x \in DOMAIN r \cup {s} |-> IF x = s THEN v ELSE r[x]]
  <2>1. WithSlot(regs, s, v) = [regs EXCEPT ![Len(regs)] = e]
    BY <1>3 DEF WithSlot
  <2>2. r \in Registries
    BY <1>3
  <2>3. PICK D \in SUBSET Stages : r \in [D -> StageNodes \cup {NoNode}]
    BY <2>2 DEF Registries
  <2> HIDE DEF r
  <2>4. D \cup {s} \in SUBSET Stages
    BY <1>3
  <2>5. e \in [D \cup {s} -> StageNodes \cup {NoNode}]
    BY <2>3
  <2>6. e \in Registries
    BY <2>4, <2>5 DEF Registries
  <2>7. \A v1 \in Registries : [regs EXCEPT ![Len(regs)] = v1] \in Seq(Registries)
    BY <1>3
  <2> HIDE DEF e
  <2> QED BY <2>1, <2>6, <2>7
<1> QED BY <1>1, <1>2, <1>3

\* A registry starts empty.
LEMMA EmptyRegistry == [s \in {} |-> NoNode] \in Registries
<1>1. [s \in {} |-> NoNode] \in [{} -> StageNodes \cup {NoNode}] /\ {} \in SUBSET Stages
  OBVIOUS
<1> QED BY <1>1 DEF Registries

\* A registry is dropped.
LEMMA FrontTypes == \A regs \in Seq(Registries) : Front(regs) \in Seq(Registries)
<1> TAKE regs \in Seq(Registries)
<1>1. Len(regs) \in Nat /\ \A i \in 1 .. Len(regs) - 1 : regs[i] \in Registries
  OBVIOUS
<1> QED BY <1>1, SubSeqProperties DEF Front

\* A slot that is read back from disk holds what a stage recorded before wrote to it, if anything.
LEMMA LastWriter ==
  ASSUME RecordTypes, NEW a \in Nodes
  PROVE  /\ DOMAIN Reconstructed(a) = {SlotOf(p) : p \in Replayed(a)} \ {"none"}
         /\ \A s \in DOMAIN Reconstructed(a) :
              \/ Reconstructed(a)[s] = NoNode
              \/ Reconstructed(a)[s] \in {p \in Replayed(a) : SlotOf(p) = s}
<1> DEFINE writers(s) == {p \in Replayed(a) : SlotOf(p) = s}
           last(s) == CHOOSE p \in writers(s) : \A q \in writers(s) : ~Before(p, q)
           D == {SlotOf(p) : p \in Replayed(a)} \ {"none"}
<1>1. Reconstructed(a) = [s \in D |-> ValueOf(last(s))]
  BY DEF Reconstructed
<1>2. ASSUME NEW s \in D PROVE ValueOf(last(s)) = NoNode \/ ValueOf(last(s)) \in writers(s)
  <2>1. writers(s) # {} /\ writers(s) \subseteq Seen
    BY DEF Replayed
  <2> DEFINE f == [p \in writers(s) |-> Index(seen, p)]
             b == Len(seen)
  <2>2. b \in Nat /\ \A p \in writers(s) : f[p] \in 0 .. b /\ f[p] = Index(seen, p)
    <3>1. \A p \in Seen : Index(seen, p) \in 0 .. Len(seen) /\ Len(seen) \in Nat
      BY SeenIs
    <3> HIDE DEF writers
    <3> QED BY <2>1, <3>1
  <2> HIDE DEF writers, f, b
  <2>3. \E p \in writers(s) : \A q \in writers(s) : f[q] <= f[p]
    BY <2>1, <2>2, Greatest
  <2>4. \E p \in writers(s) : \A q \in writers(s) : ~(f[p] < f[q])
    BY <2>2, <2>3
  <2>5. \E p \in writers(s) : \A q \in writers(s) : ~Before(p, q)
    BY <2>2, <2>4 DEF Before
  <2>6. last(s) \in writers(s)
    BY <2>5
  <2> HIDE DEF last
  <2> QED BY <2>6 DEF ValueOf
<1> HIDE DEF last
<1>3. DOMAIN Reconstructed(a) = D /\ \A s \in D : Reconstructed(a)[s] = ValueOf(last(s))
  BY <1>1
<1> QED BY <1>2, <1>3

\* What is read back from disk is a registry.
LEMMA ReconstructedTypes ==
  ASSUME RecordTypes, NEW a \in Nodes
  PROVE  Reconstructed(a) \in Registries
<1> DEFINE D == {SlotOf(p) : p \in Replayed(a)} \ {"none"}
           r == Reconstructed(a)
<1>1. DOMAIN r = D /\ \A s \in D : r[s] = NoNode \/ r[s] \in Replayed(a)
  BY LastWriter
<1>2. Replayed(a) \subseteq StageNodes
  BY SeenIs DEF Replayed
<1>3. D \in SUBSET Stages
  <2>1. ASSUME NEW p \in Replayed(a) PROVE SlotOf(p) \in Stages \cup {"none"}
    <3>1. p.stage \in Stages
      BY <1>2, StageNode
    <3> QED BY <3>1, StageFields DEF SlotOf, Types
  <2> QED BY <2>1
<1>4. r = [s \in D |-> r[s]]
  BY <1>1 DEF Reconstructed
<1> HIDE DEF D, r
<1>5. r \in [D -> StageNodes \cup {NoNode}]
  BY <1>1, <1>2, <1>4
<1> QED BY <1>3, <1>5 DEF Registries, r

\* A slot of the innermost registry, or of the one around, is written.
LEMMA SlotsWritten ==
  ASSUME SlotTypes, NEW s \in Stages \cup {"none"}, NEW v \in StageNodes, NEW regs,
         regs = slots \/ regs = Front(slots), slots' = WithSlot(regs, s, v)
  PROVE  SlotTypes'
<1>1. regs \in Seq(Registries)
  BY FrontTypes DEF SlotTypes
<1> QED BY <1>1, WithSlotTypes DEF SlotTypes

\* The slots of the body are cleared.
LEMMA SlotsCleared == TreeInv /\ SlotTypes /\ ItemStarts => SlotTypes'
<1> SUFFICES ASSUME TreeInv, SlotTypes, ItemStarts PROVE SlotTypes'
  OBVIOUS
<1> DEFINE cleared == {Body(Fr.node.stage)[i] : i \in DOMAIN Body(Fr.node.stage)}
           e == [x \in DOMAIN Slots \ cleared |-> Slots[x]]
<1>1. slots' = slots \/ slots' = [slots EXCEPT ![Len(slots)] = e]
  BY DEF ItemStarts
<1>2. slots \in Seq(Registries)
  BY DEF SlotTypes
<1>3. CASE Len(slots) = 0
  <2> HIDE DEF e
  <2>1. [slots EXCEPT ![0] = e] = slots
    BY <1>2, <1>3
  <2> QED BY <1>1, <1>2, <1>3, <2>1 DEF SlotTypes
<1>4. CASE Len(slots) # 0
  <2>1. Slots \in Registries
    BY <1>2, <1>4 DEF Slots
  <2>2. PICK D \in SUBSET Stages : Slots \in [D -> StageNodes \cup {NoNode}]
    BY <2>1 DEF Registries
  <2> HIDE DEF cleared
  <2>3. e \in [D \ cleared -> StageNodes \cup {NoNode}] /\ D \ cleared \in SUBSET Stages
    BY <2>2
  <2>4. e \in Registries
    BY <2>3 DEF Registries
  <2> HIDE DEF e
  <2> QED BY <1>1, <1>2, <1>4, <2>4 DEF SlotTypes
<1> QED BY <1>3, <1>4

-----------------------------------------------------------------------------
(* The steps *)

\* Every step keeps the registries.
LEMMA SlotSteps == TreeInv /\ RecordTypes /\ SlotTypes /\ [Next]_vars => SlotTypes'
<1> SUFFICES ASSUME TreeInv, RecordTypes, SlotTypes, [Next]_vars PROVE SlotTypes'
  OBVIOUS
<1>0. Control /\ "none" \in Stages \cup {"none"}
  BY DEF TreeInv
<1>1. CASE slots' = slots
  BY <1>1 DEF SlotTypes
<1>2. CASE SubWorkflowEnters
  <2>1. slots' = Append(slots, [s \in {} |-> NoNode])
    BY <1>2 DEF SubWorkflowEnters
  <2>2. slots \in Seq(Registries)
    BY DEF SlotTypes
  <2> QED BY <2>1, <2>2, EmptyRegistry DEF SlotTypes
<1>3. CASE LeafReturns
  <2>1. slots' = WithSlot(slots, Def[Cur.stage].out, Cur) /\ pc = "leaf"
    BY <1>3 DEF LeafReturns, Resumed
  <2>2. PICK n \in StageNodes : n = Cur
    BY <1>0, <2>1, Innermost DEF Control
  <2>3. Def[Cur.stage].out \in Stages \cup {"none"}
    BY <2>2, StageNode, StageFields
  <2> QED BY <2>1, <2>2, <2>3, SlotsWritten
<1>4. CASE LoopReturns
  <2>1. /\ slots' = WithSlot(slots, IF Loop.over THEN Loop.out ELSE "none", Fr.node) /\ InLoop
    BY <1>4 DEF LoopReturns, BetweenItems
  <2>2. PICK n \in StageNodes : n = Fr.node
    BY <1>0, <2>1, InnerLoop
  <2>3. Loop.out \in Stages \cup {"none"}
    BY <2>2, StageNode, StageFields DEF Loop
  <2>4. (IF Loop.over THEN Loop.out ELSE "none") \in Stages \cup {"none"}
    BY <1>0, <2>3
  <2> QED BY <2>1, <2>2, <2>4, SlotsWritten
<1>5. CASE SubWorkflowReturns
  <2>1. slots' = WithSlot(Front(slots), Fr.node.stage, Fr.node) /\ Len(frames) > 1
    BY <1>5 DEF SubWorkflowReturns, InSub
  <2>2. PICK n \in StageNodes : n = Fr.node
    BY <1>0, <2>1, OuterRuns
  <2>3. Fr.node.stage \in Stages \cup {"none"}
    BY <2>2, StageNode
  <2> QED BY <2>1, <2>2, <2>3, SlotsWritten
<1>6. CASE SubWorkflowRaises
  BY <1>6, FrontTypes DEF SubWorkflowRaises, SlotTypes
<1>7. CASE ItemStarts
  BY <1>7, SlotsCleared
<1>8. CASE \E a \in Nodes : Resume(a)
  <2>1. PICK a \in Nodes : slots' = <<Reconstructed(a)>>
    BY <1>8 DEF Resume
  <2>2. Reconstructed(a) \in Registries
    BY ReconstructedTypes
  <2> QED BY <2>1, <2>2 DEF SlotTypes
<1>9. \/ slots' = slots \/ SubWorkflowEnters \/ LeafReturns \/ LoopReturns \/ SubWorkflowReturns
      \/ SubWorkflowRaises \/ ItemStarts \/ \E a \in Nodes : Resume(a)
  BY DEF Next, Engine, User, Idle, StageSkipped, GateRaises, LeafEnters, BranchRaises, BranchTaken,
     BranchJumps, BranchMisses, LoopEnters, RespondReturns, LeafFails, LeafCancelled, ItemReused,
     ExitHolds, ExitDoesNotHold, ExitRaises, AttemptEnds, InnerStageFailed, ItemCancelled,
     LoopAborted, RunReturns, RunRaises, Ends, ClientAborts, ResumeDies, vars, engineVars
<1> QED BY <1>1, <1>2, <1>3, <1>4, <1>5, <1>6, <1>7, <1>8, <1>9

\* What a dispatch writes.
LEMMA DispatchRecord ==
  ASSUME Control, RecordTypes, NEW types, Dispatches(types),
         \/ UNCHANGED <<seen, lastFailed>>
         \/ Write(Cur, "running") \/ Write(Cur, "skipped") \/ Write(Cur, "done") \/ Write(Cur, "failed")
  PROVE  RecordTypes'
<1>1. Cur \in StageNodes
  BY Dispatched
<1>2. CASE UNCHANGED <<seen, lastFailed>>
  BY <1>2, RecordUnchanged DEF RecordTypes
<1> QED BY <1>1, <1>2, CurWritten

\* Every step keeps the record of what was seen.
LEMMA RecordSteps == TreeInv /\ RecordTypes /\ [Next]_vars => RecordTypes'
<1> SUFFICES ASSUME TreeInv, RecordTypes, [Next]_vars PROVE RecordTypes'
  OBVIOUS
<1>0. Control
  BY DEF TreeInv
<1>1. CASE \/ StageSkipped \/ GateRaises \/ LeafEnters \/ BranchRaises
           \/ \E holds \in BOOLEAN : BranchJumps(holds) \/ BranchMisses(holds)
           \/ SubWorkflowEnters \/ LoopEnters
  <2>1. ASSUME NEW holds \in BOOLEAN, BranchJumps(holds) \/ BranchMisses(holds) PROVE RecordTypes'
    BY <1>0, <2>1, DispatchRecord DEF BranchJumps, BranchMisses, BranchTaken
  <2>2. CASE StageSkipped \/ GateRaises
    BY <1>0, <2>2, DispatchRecord DEF StageSkipped, GateRaises
  <2>3. CASE LeafEnters \/ BranchRaises
    BY <1>0, <2>3, DispatchRecord DEF LeafEnters, BranchRaises
  <2>4. CASE SubWorkflowEnters \/ LoopEnters
    BY <1>0, <2>4, DispatchRecord DEF SubWorkflowEnters, LoopEnters
  <2> QED BY <1>1, <2>1, <2>2, <2>3, <2>4
<1>2. CASE LeafReturns \/ RespondReturns \/ LeafFails \/ LeafCancelled
  <2>1. pc = "leaf" /\ Cur \in StageNodes
    BY <1>0, <1>2, Innermost DEF LeafReturns, RespondReturns, LeafFails, LeafCancelled, Resumed, Control
  <2> QED BY <1>0, <1>2, <2>1, CurWritten DEF LeafReturns, RespondReturns, LeafFails, LeafCancelled
<1>3. CASE LoopReturns
  BY <1>0, <1>3, InnerLoop, FrameWritten DEF LoopReturns, BetweenItems, Leaves
<1>4. CASE LoopAborted
  BY <1>0, <1>4, InnerLoop, FrameWritten DEF LoopAborted, Leaves
<1>5. CASE SubWorkflowReturns
  BY <1>0, <1>5, FrameWritten DEF SubWorkflowReturns, InSub, Leaves
<1>6. CASE SubWorkflowRaises
  <2> DEFINE st == IF exc = "cancel" THEN "stopped" ELSE "failed"
  <2>1. Len(frames) > 1 /\ Write(Fr.node, st)
    BY <1>6 DEF SubWorkflowRaises, InSub, Leaves
  <2>2. PICK n \in StageNodes : n = Fr.node
    BY <1>0, <2>1, OuterRuns
  <2>3. /\ seen' = IF n \in Seen THEN seen ELSE Append(seen, n)
        /\ lastFailed' \in {n, lastFailed}
    BY <2>1, <2>2 DEF Write
  <2> QED BY <2>3, WriteTypes DEF RecordTypes
<1>7. CASE ExitHolds
  BY <1>0, <1>7, ItemEndsRecord DEF ExitHolds, AttemptEnds
<1>8. CASE ExitDoesNotHold
  BY <1>0, <1>8, AttemptFailsRecord DEF ExitDoesNotHold, AttemptEnds
<1>9. CASE InnerStageFailed
  BY <1>0, <1>9, AttemptFailsRecord DEF InnerStageFailed
<1>10. CASE ItemCancelled
  BY <1>0, <1>10, ItemEndsRecord DEF ItemCancelled
<1>11. CASE \E a \in Nodes : Resume(a)
  BY <1>11, ResumeRecord
<1>12. CASE \/ ItemReused \/ ItemStarts \/ ExitRaises \/ RunReturns \/ RunRaises \/ ClientAborts
            \/ (\E a \in Nodes : ResumeDies(a)) \/ Idle \/ UNCHANGED vars
  <2>1. seen' = seen /\ lastFailed' = lastFailed
    BY <1>12 DEF ItemReused, ItemStarts, ExitRaises, RunReturns, RunRaises, Ends, ClientAborts,
       ResumeDies, ResumeRequested, Idle, vars, engineVars, diskVars
  <2> QED BY <2>1, RecordUnchanged DEF RecordTypes
<1> QED BY <1>1, <1>2, <1>3, <1>4, <1>5, <1>6, <1>7, <1>8, <1>9, <1>10, <1>11, <1>12
        DEF Next, Engine, User

\* The end of an item.
LEMMA ItemEndsControl ==
  ASSUME ControlTypes, NEW st, ItemEnds(st), UNCHANGED <<run, resumes>>
  PROVE  ControlTypes'
BY DEF ItemEnds, ControlTypes, Resumes, Raise

\* The end of an attempt.
LEMMA AttemptFailsControl ==
  ASSUME ControlTypes, AttemptFails, UNCHANGED <<run, resumes>>
  PROVE  ControlTypes'
BY ItemEndsControl DEF AttemptFails, ControlTypes, Resumes

\* An exception is there exactly while it unwinds.
LEMMA ControlSteps == ControlTypes /\ [Next]_vars => ControlTypes'
<1> SUFFICES ASSUME ControlTypes, [Next]_vars PROVE ControlTypes'
  OBVIOUS
<1>1. CASE \/ StageSkipped \/ GateRaises \/ LeafEnters \/ BranchRaises
           \/ \E holds \in BOOLEAN : BranchJumps(holds) \/ BranchMisses(holds)
           \/ SubWorkflowEnters \/ LoopEnters
  BY <1>1 DEF ControlTypes, StageSkipped, GateRaises, LeafEnters, BranchRaises, BranchJumps,
     BranchMisses, BranchTaken, SubWorkflowEnters, LoopEnters, Dispatches, Raise, resumeVars
<1>2. CASE LeafReturns \/ RespondReturns \/ LeafFails \/ LeafCancelled
  BY <1>2 DEF ControlTypes, LeafReturns, RespondReturns, LeafFails, LeafCancelled, Resumed,
     Resumes, Raise, resumeVars
<1>3. CASE ItemReused \/ ItemStarts \/ LoopReturns \/ SubWorkflowReturns \/ ExitRaises
  BY <1>3 DEF ControlTypes, ItemReused, ItemStarts, LoopReturns, BetweenItems, SubWorkflowReturns,
     SequenceEnds, ExitRaises, AttemptEnds, Raise, resumeVars
<1>4. CASE LoopAborted \/ SubWorkflowRaises \/ RunReturns \/ RunRaises
  BY <1>4 DEF ControlTypes, LoopAborted, SubWorkflowRaises, RunReturns, RunRaises, Ends, Unwinds,
     resumeVars
<1>5. CASE ExitHolds
  BY <1>5, ItemEndsControl DEF ExitHolds, AttemptEnds, resumeVars
<1>6. CASE ExitDoesNotHold
  BY <1>6, AttemptFailsControl DEF ExitDoesNotHold, AttemptEnds, resumeVars
<1>7. CASE InnerStageFailed
  BY <1>7, AttemptFailsControl DEF InnerStageFailed, Unwinds, resumeVars
<1>8. CASE ItemCancelled
  BY <1>8, ItemEndsControl DEF ItemCancelled, Unwinds, resumeVars
<1>9. CASE ClientAborts \/ Idle \/ UNCHANGED vars
  BY <1>9 DEF ControlTypes, ClientAborts, Idle, vars, engineVars, diskVars, resumeVars
<1>10. CASE \E a \in Nodes : Resume(a) \/ ResumeDies(a)
  <2>1. /\ pc' \in {"go", "dead"} /\ exc' = "none" /\ run'.status = "running"
        /\ resumes < MaxResumes /\ resumes' = resumes + 1
    BY <1>10 DEF Resume, ResumeDies, ResumeRequested
  <2> QED BY <2>1, ResumesAssumption DEF ControlTypes
<1> QED BY <1>1, <1>2, <1>3, <1>4, <1>5, <1>6, <1>7, <1>8, <1>9, <1>10 DEF Next, Engine, User

\* A new run.
LEMMA TypesStart == Init => TypeInv
<1> SUFFICES ASSUME Init PROVE TypeInv
  OBVIOUS
<1>1. ControlTypes
  BY ResumesAssumption DEF Init, ControlTypes
<1>2. RecordTypes
  <2>1. seen = <<>> /\ lastFailed = NoNode
    BY DEF Init
  <2>2. Seen = {} /\ seen \in Seq(StageNodes) /\ Len(seen) = 0
    BY <2>1 DEF Seen
  <2> QED BY <2>1, <2>2, FS_EmptySet DEF RecordTypes
<1>3. SlotTypes
  <2>1. slots = <<[s \in {} |-> NoNode]>>
    BY DEF Init
  <2> QED BY <2>1, EmptyRegistry DEF SlotTypes
<1> QED BY <1>1, <1>2, <1>3 DEF TypeInv

\* The parts together say what TypeOK says.
LEMMA TypesHold == TreeInv /\ StopInv /\ TypeInv => TypeOK
<1> SUFFICES ASSUME TreeInv, StopInv, TypeInv PROVE TypeOK
  OBVIOUS
<1>1. ASSUME NEW i \in DOMAIN frames
      PROVE  /\ frames[i].node \in Nodes \cup {Node(Root, <<>>)}
             /\ frames[i].at \in 1 .. Len(Body(frames[i].node.stage)) + 1
             /\ frames[i].attempt \in 0 .. Def[frames[i].node.stage].attempts
             /\ frames[i].cursor \in Nodes \cup {NoNode}
  <2>1. FrameOK(frames[i])
    <3>1. frames \in Seq(FrameRecord) /\ \A k \in 1 .. Len(frames) : FrameOK(frames[k])
      BY DEF TreeInv, Control, Stacked
    <3> QED BY <3>1
  <2> DEFINE f == frames[i]
  <2> HIDE DEF f
  <2>2. FrameOK(f)
    BY <2>1 DEF f
  <2>3. /\ f.node \in StageNodes \cup {RootNode} /\ f.cursor \in Nodes \cup {NoNode}
        /\ f.at \in Nat \ {0} /\ f.attempt \in Nat /\ Len(Body(f.node.stage)) \in Nat
        /\ Def[f.node.stage].attempts \in Nat
    BY <2>2, FrameFields
  <2>4. /\ f.at <= Len(Body(f.node.stage)) + 1 /\ f.attempt <= Def[f.node.stage].attempts
    BY <2>2 DEF FrameOK
  <2> QED BY <2>3, <2>4 DEF f, Nodes, RootNode
<1>2. ASSUME NEW i \in DOMAIN slots PROVE DOMAIN slots[i] \subseteq Stages
  <2>1. slots[i] \in Registries
    BY DEF TypeInv, SlotTypes
  <2> QED BY <2>1 DEF Registries
<1>3. /\ status \in [Nodes -> {"absent", "running", "done", "failed", "stopped", "skipped"}]
      /\ Seen \subseteq StageNodes /\ Cardinality(Seen) = Len(seen)
      /\ lastFailed \in StageNodes \cup {NoNode} /\ stopAt \in StageNodes \cup {NoNode}
  BY SeenIs DEF TreeInv, Disk, Statuses, TypeInv, RecordTypes, StopInv
<1> QED BY <1>1, <1>2, <1>3 DEF TypeInv, ControlTypes, TypeOK

\* The types, and the bounds of the control state: no item is attempted more often than
\* its loop allows (custom_workflow.py:857-914).
THEOREM EngineTypes == Spec => []TypeOK
<1>1. Init => StopInv /\ TypeInv
  BY TypesStart DEF Init, StopInv, Stopped
<1>2. TreeInv /\ StopInv /\ TypeInv /\ [Next]_vars => StopInv' /\ TypeInv'
  BY StopSteps, SlotSteps, RecordSteps, ControlSteps DEF TypeInv
<1>3. TreeInv /\ StopInv /\ TypeInv => TypeOK
  BY TypesHold
<1> QED BY <1>1, <1>2, <1>3, TreeAlways, PTL DEF Spec

-----------------------------------------------------------------------------
(* The exception that ends the run *)

\* An exception is there exactly while it unwinds; so nothing is dispatched, retried or
\* resumed over one.
LEMMA UnwindingAlways == Spec => []ControlTypes
<1>1. Init => ControlTypes
  BY TypesStart DEF TypeInv
<1> QED BY <1>1, ControlSteps, PTL DEF Spec

\* A condition that cannot be evaluated fails the run, whatever the workflow's stages and
\* however deeply they are nested: from the raise on, every step of the engine passes it
\* on, until the run is marked as failed.
THEOREM BrokenConditionFailsRun == Spec => AbortIsFinal
<1>1. ASSUME ControlTypes, exc = "abort", [Next]_vars
      PROVE  exc' = "abort" \/ run'.status = "failed"
  <2>1. pc = "raise"
    BY <1>1 DEF ControlTypes
  <2>2. CASE Engine
    <3>1. LoopAborted \/ SubWorkflowRaises \/ RunRaises
      BY <1>1, <2>1, <2>2
         DEF Engine, StageSkipped, GateRaises, LeafEnters, BranchTaken, BranchJumps, BranchMisses,
             BranchRaises, SubWorkflowEnters, LoopEnters, Dispatches, LeafReturns, RespondReturns,
             LeafFails, LeafCancelled, Resumed, ItemReused, ItemStarts, LoopReturns, BetweenItems,
             ExitHolds, ExitDoesNotHold, ExitRaises, AttemptEnds, InnerStageFailed, ItemCancelled,
             Unwinds, SubWorkflowReturns, RunReturns, SequenceEnds
    <3> QED BY <1>1, <3>1 DEF LoopAborted, SubWorkflowRaises, RunRaises, Ends
  <2>3. CASE User
    BY <2>1, <2>3 DEF User, ClientAborts, Resume, ResumeDies, ResumeRequested
  <2>4. CASE Idle \/ UNCHANGED vars
    BY <1>1, <2>4 DEF Idle, vars, engineVars
  <2> QED BY <1>1, <2>2, <2>3, <2>4 DEF Next
<1>2. ControlTypes /\ [Next]_vars => [exc = "abort" => exc' = "abort" \/ run'.status = "failed"]_vars
  BY <1>1
<1> QED BY <1>2, UnwindingAlways, PTL DEF Spec, AbortIsFinal

-----------------------------------------------------------------------------
(* The path down to an address *)

\* What is around something around a stage is around the stage.
LEMMA AroundAround ==
  \A u \in Stages : \A s \in Around[u] : Around[s] \subseteq Around[u]
<1> DEFINE Good == {u \in Stages : \A s \in Around[u] : Around[s] \subseteq Around[u]}
<1>1. ASSUME NEW u \in Stages, \A y \in Stages : <<y, u>> \in Within => y \in Good
      PROVE  u \in Good
  <2>1. CASE u = Root
    BY <2>1, AroundRecursion
  <2>2. CASE u # Root
    <3>1. Owner[u] \in Stages /\ Owner[u] \in Good /\ Around[u] = {u} \cup Around[Owner[u]]
      BY <1>1, <2>2, Owners, Nested, AroundRecursion
    <3>2. \A s \in Around[Owner[u]] : Around[s] \subseteq Around[Owner[u]]
      BY <3>1
    <3> QED BY <3>1, <3>2
  <2> QED BY <2>1, <2>2
<1>2. Stages \subseteq Good
  <2> HIDE DEF Good
  <2> QED BY <1>1, Nested, FoundedInduction
<1> QED BY <1>2

\* A path includes the paths down to the addresses on it.
LEMMA AboveAbove ==
  ASSUME NEW a \in Nodes, NEW n \in Above[a], NEW m \in Above[n]
  PROVE  m \in Above[a]
<1>1. /\ n \in Nodes /\ n.stage \in Around[a.stage] /\ Len(n.items) <= Len(a.items)
      /\ n.items = SubSeq(a.items, 1, Len(n.items))
  BY AboveIs
<1>2. /\ m \in Nodes /\ m.stage \in Around[n.stage] /\ Len(m.items) <= Len(n.items)
      /\ m.items = SubSeq(n.items, 1, Len(m.items))
  BY <1>1, AboveIs
<1>3. /\ a.stage \in Stages /\ a.items \in Seq(Nat) /\ n.items \in Seq(Nat) /\ m.items \in Seq(Nat)
  BY <1>1, <1>2, Places1
<1>4. m.stage \in Around[a.stage]
  BY <1>1, <1>2, <1>3, AroundAround
<1>5. /\ Len(n.items) \in 0 .. Len(a.items) /\ Len(m.items) \in 0 .. Len(n.items)
      /\ Len(m.items) <= Len(a.items)
  BY <1>1, <1>2, <1>3
<1>6. SubSeq(SubSeq(a.items, 1, Len(n.items)), 1, Len(m.items)) = SubSeq(a.items, 1, Len(m.items))
  BY <1>3, <1>5, PrefixOfPrefix
<1>7. m.items = SubSeq(a.items, 1, Len(m.items))
  BY <1>1, <1>2, <1>6
<1> QED BY <1>2, <1>4, <1>5, <1>7, AboveIs

\* What runs within a loop runs under one number more than the loop, at least.
LEMMA Deeper ==
  ASSUME NEW s \in Stages, NEW t \in Around[s], t # s, Def[t].type = "loop",
         NEW p \in Places[s], NEW q \in Places[t]
  PROVE  /\ t \in Stages /\ p \in Seq(Nat) /\ q \in Seq(Nat)
         /\ Len(q) + 1 <= Len(p) /\ Len(q) \in Nat /\ Len(p) \in Nat
<1>1. t \in Stages
  BY AroundRecursion
<1>2. PICK c \in Around[s] : Owner[c] = t
  BY <1>1, Inwards
<1>3. c \in Stages \ {Root} /\ \E i \in DOMAIN Body(t) : Body(t)[i] = c
  BY <1>2, Outwards, Owners
<1>4. Places[c] = Inside(Places[t], Def[t].items)
  BY <1>1, <1>3, PlacesWithin
<1>5. PICK k \in 0 .. Len(p) : SubSeq(p, 1, k) \in Places[c] /\ \A r \in Places[c] : Len(r) = k
  BY <1>2, PlacesAround
<1>6. p \in Seq(Nat) /\ q \in Seq(Nat)
  BY <1>1, PlacesRecursion
<1>7. PICK r \in Places[t], i \in 1 .. Def[t].items : SubSeq(p, 1, k) = Append(r, i)
  BY <1>4, <1>5 DEF Inside
<1>8. r \in Seq(Nat) /\ Len(r) = Len(q)
  BY <1>1, <1>7, Depth, PlacesRecursion
<1>9. Len(Append(r, i)) = Len(r) + 1 /\ Len(Append(r, i)) = k /\ k \in Nat /\ Len(p) \in Nat
  BY <1>5, <1>6, <1>7, <1>8
<1> QED BY <1>1, <1>5, <1>6, <1>8, <1>9

\* The items around a stage that runs in a loop: the one it runs in, and those around the loop.
LEMMA ItemChild ==
  ASSUME NEW o \in Stages, NEW i \in DOMAIN Body(o), NEW p \in Places[o], NEW k \in Nat,
         Def[o].type = "loop" => k \in 1 .. Def[o].items
  PROVE  LET n == Node(Body(o)[i], Under(o, p, k)) IN
         \A m \in ItemNodes :
           m \in Above[n] <=> \/ Def[o].type = "loop" /\ m = Node(o, Append(p, k))
                              \/ o # Root /\ m \in Above[Node(o, p)]
<1> DEFINE s == Body(o)[i]
           q == Under(o, p, k)
           n == Node(s, q)
<1>1. /\ s \in Stages \ {Root} /\ Owner[s] = o /\ Around[s] = {s} \cup Around[o] /\ s \notin Around[o]
      /\ s # o
  <2>1. s \in Stages \ {Root} /\ Owner[s] = o
    BY Owners
  <2> HIDE DEF s
  <2> QED BY <2>1, AroundRecursion, NotAroundItself
<1>2. n \in StageNodes /\ n \in Nodes /\ n.stage = s /\ n.items = q /\ q \in Places[s] /\ q \in Seq(Nat)
  <2>1. n \in StageNodes
    BY Child
  <2>2. n.stage = s /\ n.items = q
    BY NodeFields
  <2> HIDE DEF n
  <2> QED BY <2>1, <2>2, StageNode DEF Nodes
<1>3. /\ p \in Seq(Nat) /\ Len(p) \in Nat /\ Len(q) \in Nat /\ Len(p) <= Len(q)
      /\ \A x \in 0 .. Len(p) : SubSeq(q, 1, x) = SubSeq(p, 1, x)
  <2>1. p \in Seq(Nat)
    BY PlacesRecursion
  <2>2. Len(Append(p, k)) = Len(p) + 1 /\ Len(p) \in Nat
    BY <2>1
  <2> QED BY <2>1, <2>2, AppendPrefix DEF Under
<1>4. o # Root => Node(o, p) \in Nodes
  BY StageNode DEF Nodes
<1>5. SubSeq(q, 1, Len(q)) = q
  BY <1>2
<1>6. Def[o].type = "loop" => q = Append(p, k) /\ Len(q) = Len(p) + 1 /\ Node(o, q) \in ItemNodes /\ o # Root
  <2>1. Def[o].type = "loop" => Node(o, Append(p, k)) \in ItemNodes
    BY LoopItem
  <2>2. Len(Append(p, k)) = Len(p) + 1
    BY <1>3
  <2>3. Def[o].type = "loop" => o # Root
    BY DefAssumption
  <2> QED BY <2>1, <2>2, <2>3 DEF Under
<1> HIDE DEF s, q, n
<1>7. ASSUME NEW m \in ItemNodes
      PROVE  m \in Above[n] <=> \/ Def[o].type = "loop" /\ m = Node(o, q)
                                \/ o # Root /\ m \in Above[Node(o, p)]
  <2>1. PICK r \in Places[m.stage], j \in 1 .. Def[m.stage].items : m = Node(m.stage, Append(r, j))
    BY LoopItem
  <2>2. /\ m \in Nodes /\ m.stage \in Stages /\ Def[m.stage].type = "loop"
        /\ m.items = Append(r, j) /\ r \in Seq(Nat) /\ m.items \in Seq(Nat)
        /\ Len(m.items) = Len(r) + 1 /\ Len(r) \in Nat
    <3>1. m \in Nodes /\ m.stage \in Stages /\ Def[m.stage].type = "loop"
      BY LoopItem DEF Nodes
    <3>2. m.items = Append(r, j)
      BY <2>1, NodeFields
    <3>3. r \in Seq(Nat) /\ j \in Nat
      BY <3>1, PlacesRecursion, StageFields
    <3> QED BY <3>1, <3>2, <3>3
  <2>3. CASE m.stage = s
    <3>1. Len(r) = Len(q)
      BY <1>1, <1>2, <2>1, <2>3, Depth
    <3>2. m \notin Above[n]
      BY <1>2, <1>3, <2>2, <3>1, AboveIs
    <3>3. o # Root => m \notin Above[Node(o, p)]
      BY <1>1, <1>4, <2>3, AboveIs, NodeFields
    <3> QED BY <1>1, <2>3, <3>2, <3>3, NodeFields
  <2>4. CASE m.stage = o
    <3>1. Len(r) = Len(p) /\ Def[o].type = "loop" /\ Len(m.items) = Len(q)
      BY <1>6, <2>1, <2>2, <2>4, Depth
    <3>2. o # Root => m \notin Above[Node(o, p)]
      BY <1>3, <1>4, <2>2, <3>1, AboveIs, NodeFields
    <3>3. m \in Above[n] => m = Node(o, q)
      <4>1. m \in Above[n] => m.items = q
        BY <1>2, <1>5, <3>1, AboveIs
      <4> QED BY <2>1, <2>2, <2>4, <4>1
    <3>4. m = Node(o, q) => m \in Above[n]
      <4>1. o \in Around[s]
        <5>1. o \in Around[o]
          BY <1>6, <3>1, NotAroundItself
        <5> QED BY <1>1, <5>1
      <4>2. ASSUME m = Node(o, q) PROVE m \in Above[n]
        <5>1. m.items = q
          BY <4>2, NodeFields
        <5>2. Len(m.items) <= Len(n.items) /\ m.items = SubSeq(n.items, 1, Len(m.items))
          BY <1>2, <1>3, <1>5, <5>1
        <5> QED BY <1>2, <2>2, <2>4, <4>1, <5>2, AboveIs
      <4> QED BY <4>2
    <3> QED BY <3>1, <3>2, <3>3, <3>4
  <2>5. CASE m.stage \in Around[o] /\ m.stage # o
    <3>1. o # Root /\ m.stage \in Around[s]
      BY <1>1, <2>5, AroundRecursion
    <3>2. Len(m.items) <= Len(p) /\ Len(m.items) \in 0 .. Len(p) /\ Len(m.items) <= Len(q)
      <4>1. Len(r) + 1 <= Len(p)
        BY <2>1, <2>2, <2>5, Deeper
      <4> QED BY <1>3, <2>2, <4>1
    <3>3. m \in Above[n] <=> m.items = SubSeq(q, 1, Len(m.items))
      BY <1>2, <2>2, <3>1, <3>2, AboveIs
    <3>4. m \in Above[Node(o, p)] <=> m.items = SubSeq(p, 1, Len(m.items))
      <4> DEFINE b == Node(o, p)
      <4>1. b \in Nodes /\ b.stage = o /\ b.items = p
        BY <1>4, <3>1, NodeFields
      <4> HIDE DEF b
      <4>2. m \in Above[b] <=> m.items = SubSeq(p, 1, Len(m.items))
        BY <2>2, <2>5, <3>2, <4>1, AboveIs
      <4> QED BY <4>2 DEF b
    <3>5. m # Node(o, q)
      BY <2>5, NodeFields
    <3> QED BY <1>3, <3>1, <3>2, <3>3, <3>4, <3>5
  <2>6. CASE m.stage \notin Around[s] /\ m.stage # o
    <3>1. m \notin Above[n]
      BY <1>2, <2>6, AboveIs
    <3>2. o # Root => m \notin Above[Node(o, p)]
      BY <1>1, <1>4, <2>6, AboveIs, NodeFields
    <3>3. m # Node(o, q)
      BY <2>6, NodeFields
    <3> QED BY <3>1, <3>2, <3>3
  <2> QED BY <1>1, <2>3, <2>4, <2>5, <2>6
<1> QED BY <1>6, <1>7 DEF n, s, q

\* Of the stages with the same owner, one is around a stage.
LEMMA OneAround ==
  \A u \in Stages : \A x, y \in Around[u] : Owner[x] = Owner[y] => x = y
<1> DEFINE Good == {u \in Stages : \A x, y \in Around[u] : Owner[x] = Owner[y] => x = y}
<1>1. ASSUME NEW u \in Stages, \A y \in Stages : <<y, u>> \in Within => y \in Good
      PROVE  u \in Good
  <2>1. CASE u = Root
    BY <2>1, AroundRecursion
  <2>2. CASE u # Root
    <3>1. Owner[u] \in Stages /\ Owner[u] \in Good /\ Around[u] = {u} \cup Around[Owner[u]]
      BY <1>1, <2>2, Owners, Nested, AroundRecursion
    <3>2. ASSUME NEW y \in Around[Owner[u]], Owner[y] = Owner[u] PROVE FALSE
      <4>1. y \in Stages \ {Root}
        BY <3>1, Outwards
      <4> QED BY <3>2, <4>1, NotAroundItself
    <3> QED BY <3>1, <3>2
  <2> QED BY <2>1, <2>2
<1>2. Stages \subseteq Good
  <2> HIDE DEF Good
  <2> QED BY <1>1, Nested, FoundedInduction
<1> QED BY <1>2

\* The path down to an address that a stage of a list is on: it is on through one stage of
\* the list, and passes what the list is of.
LEMMA StagePath ==
  ASSUME NEW a \in Nodes, NEW o \in Stages, NEW i \in DOMAIN Body(o), NEW p \in Places[o], NEW k \in Nat,
         Def[o].type = "loop" => k \in 1 .. Def[o].items,
         Node(Body(o)[i], Under(o, p, k)) \in Above[a]
  PROVE  /\ \A j \in DOMAIN Body(o) : \A q : Node(Body(o)[j], q) \in Above[a] => j = i
         /\ o # Root => Node(o, p) \in Above[a] /\ a # Node(o, p)
         /\ Def[o].type = "loop" => Node(o, Append(p, k)) \in Above[a] /\ a # Node(o, Append(p, k))
<1> DEFINE n == Node(Body(o)[i], Under(o, p, k))
<1>1. /\ a.stage \in Stages /\ n \in StageNodes /\ n \in Nodes
      /\ n.stage = Body(o)[i] /\ n.stage \in Around[a.stage]
      /\ Body(o)[i] \in Stages \ {Root} /\ Owner[Body(o)[i]] = o
  <2>1. n \in StageNodes /\ n \in Nodes
    BY Child DEF Nodes
  <2>2. n.stage = Body(o)[i]
    BY NodeFields
  <2>3. a.stage \in Stages /\ Body(o)[i] \in Stages \ {Root} /\ Owner[Body(o)[i]] = o
    BY Places1, Owners
  <2>4. n \in Above[a]
    OBVIOUS
  <2> HIDE DEF n
  <2> QED BY <2>1, <2>2, <2>3, <2>4, AboveIs
<1>2. ASSUME NEW j \in DOMAIN Body(o), NEW q, Node(Body(o)[j], q) \in Above[a] PROVE j = i
  <2>1. Body(o)[j] \in Around[a.stage] /\ Owner[Body(o)[j]] = o
    BY <1>2, AboveIs, NodeFields, Owners
  <2>2. Body(o)[j] = Body(o)[i]
    BY <1>1, <2>1, OneAround
  <2> QED BY <2>2, Owners
<1>3. o # Root => Node(o, p) \in Above[n] /\ n \notin Above[Node(o, p)]
  <2>1. o # Root => Node(o, p) \in StageNodes /\ Node(o, p) \in Nodes
    BY StageNode DEF Nodes
  <2> QED BY <2>1, Child, AboveSelf
<1>4. Def[o].type = "loop" => Node(o, Append(p, k)) \in ItemNodes /\ Node(o, Append(p, k)) \in Above[n]
  BY LoopItem, ItemChild
<1>5. Def[o].type = "loop" => n \notin Above[Node(o, Append(p, k))]
  <2>1. Body(o)[i] \notin Around[o]
    BY <1>1, NotAroundItself
  <2> QED BY <1>1, <1>4, <2>1, AboveIs, NodeFields DEF Nodes
<1> HIDE DEF n
<1>6. n \in Above[a]
  BY DEF n
<1> QED BY <1>2, <1>3, <1>4, <1>5, <1>6, AboveAbove

\* The path down to an address that an item is on: it passes the loop, and names the item.
LEMMA ItemPath ==
  ASSUME NEW a \in Nodes, NEW o \in Stages, NEW p \in Places[o], NEW i \in 1 .. Def[o].items,
         Def[o].type = "loop", Node(o, Append(p, i)) \in Above[a]
  PROVE  /\ Node(o, p) \in Above[a] /\ a # Node(o, p) /\ Node(o, p) \in StageNodes
         /\ a.items[Len(p) + 1] = i
<1> DEFINE n == Node(o, Append(p, i))
           m == Node(o, p)
<1>1. /\ p \in Seq(Nat) /\ i \in Nat /\ a.items \in Seq(Nat) /\ Len(p) \in Nat
  BY Places1, PlacesRecursion, StageFields
<1>2. /\ Append(p, i) \in Seq(Nat) /\ Len(Append(p, i)) = Len(p) + 1
      /\ Append(p, i)[Len(p) + 1] = i /\ SubSeq(Append(p, i), 1, Len(p)) = p
  BY <1>1, AppendPrefix
<1>3. o # Root /\ o \in Around[o]
  BY DefAssumption, NotAroundItself
<1>4. n \in Nodes /\ n.stage = o /\ n.items = Append(p, i)
  BY LoopItem, NodeFields DEF Nodes
<1>5. m \in StageNodes /\ m \in Nodes /\ m.stage = o /\ m.items = p
  BY <1>3, StageNode, NodeFields DEF Nodes
<1> HIDE DEF n, m
<1>6. n \in Above[a]
  BY DEF n
<1>7. m \in Above[n]
  <2>1. Len(m.items) <= Len(n.items) /\ m.items = SubSeq(n.items, 1, Len(m.items))
    BY <1>1, <1>2, <1>4, <1>5
  <2> QED BY <1>3, <1>4, <1>5, <2>1, AboveIs
<1>8. n \notin Above[m]
  BY <1>1, <1>2, <1>4, <1>5, AboveIs
<1>9. m \in Above[a] /\ a # m
  BY <1>6, <1>7, <1>8, AboveAbove
<1>10. Len(n.items) <= Len(a.items) /\ n.items = SubSeq(a.items, 1, Len(n.items))
  BY <1>6, AboveIs
<1>11. SubSeq(a.items, 1, Len(p) + 1)[Len(p) + 1] = a.items[Len(p) + 1]
  BY <1>1, <1>2, <1>4, <1>10
<1>12. a.items[Len(p) + 1] = i
  BY <1>2, <1>4, <1>10, <1>11
<1> QED BY <1>5, <1>9, <1>12 DEF m

-----------------------------------------------------------------------------
(* The items that the frames are at, and the registries they write to *)

ItemAt(f, i) == Node(f.node.stage, Append(f.node.items, i))
StageAt(f, c) == Node(Body(f.node.stage)[c], Under(f.node.stage, f.node.items, f.item))

\* A path through a stage of a frame's list.
LEMMA FramePath ==
  ASSUME NEW f, FrameOK(f), f.attempt > 0, NEW a \in Nodes, NEW c \in DOMAIN Body(f.node.stage),
         StageAt(f, c) \in Above[a]
  PROVE  /\ \A j \in DOMAIN Body(f.node.stage) : \A q : Node(Body(f.node.stage)[j], q) \in Above[a] => j = c
         /\ f.node # RootNode => f.node \in Above[a] /\ a # f.node
         /\ OfLoop(f) => ItemAt(f, f.item) \in Above[a] /\ a # ItemAt(f, f.item)
<1> DEFINE o == f.node.stage
           p == f.node.items
           k == f.item
<1>1. /\ o \in Stages /\ p \in Places[o] /\ f.node = Node(o, p) /\ (f.node = RootNode <=> o = Root)
      /\ k \in Nat /\ Def[o].items \in Nat
  BY FrameNode, FrameFields
<1>2. Def[o].type = "loop" => k \in 1 .. Def[o].items
  BY <1>1 DEF FrameOK, OfLoop
<1>3. c \in DOMAIN Body(o) /\ Node(Body(o)[c], Under(o, p, k)) \in Above[a]
  BY DEF StageAt
<1>4. OfLoop(f) <=> Def[o].type = "loop"
  BY DEF OfLoop
<1>5. ItemAt(f, f.item) = Node(o, Append(p, k))
  BY DEF ItemAt
<1> HIDE DEF o, p, k
<1>6. /\ \A j \in DOMAIN Body(o) : \A q : Node(Body(o)[j], q) \in Above[a] => j = c
      /\ o # Root => Node(o, p) \in Above[a] /\ a # Node(o, p)
      /\ Def[o].type = "loop" => Node(o, Append(p, k)) \in Above[a] /\ a # Node(o, Append(p, k))
  BY <1>1, <1>2, <1>3, StagePath
<1> QED BY <1>1, <1>4, <1>5, <1>6 DEF o

\* The items around the stage that a frame is at are those the loops below it are at.
LEMMA ItemsAbove ==
  ASSUME NEW fs, Stacked(fs)
  PROVE  \A x \in 1 .. Len(fs) : Runs(fs[x]) =>
           \A m \in ItemNodes : m \in Above[CurOf(fs[x])] <=>
                                \E j \in 1 .. x : OfLoop(fs[j]) /\ m = ItemAt(fs[j], fs[j].item)
<1> DEFINE Fits(x) == Runs(fs[x]) =>
             \A m \in ItemNodes : m \in Above[CurOf(fs[x])] <=>
                                  \E j \in 1 .. x : OfLoop(fs[j]) /\ m = ItemAt(fs[j], fs[j].item)
           S == 1 .. Len(fs)
           Good == {x \in S : Fits(x)}
<1>1. Len(fs) \in Nat /\ S \in SUBSET Nat
  BY DEF Stacked
<1>2. ASSUME NEW x \in S, \A y \in S : y < x => y \in Good
      PROVE  x \in Good
  <2> SUFFICES ASSUME Runs(fs[x]), NEW m \in ItemNodes
               PROVE  m \in Above[CurOf(fs[x])] <=>
                      \E j \in 1 .. x : OfLoop(fs[j]) /\ m = ItemAt(fs[j], fs[j].item)
    OBVIOUS
  <2> DEFINE f == fs[x]
             o == f.node.stage
             p == f.node.items
  <2>1. FrameOK(f) /\ Runs(f)
    BY DEF Stacked
  <2>2. /\ o \in Stages /\ p \in Places[o] /\ f.node = Node(o, p) /\ (f.node = RootNode <=> o = Root)
        /\ f.item \in Nat /\ Def[o].items \in Nat /\ f.at \in DOMAIN Body(o)
    BY <2>1, FrameNode, FrameFields, CurNode
  <2>3. Def[o].type = "loop" => f.item \in 1 .. Def[o].items
    BY <2>1, <2>2 DEF FrameOK, OfLoop, Runs
  <2>4. m \in Above[CurOf(f)] <=> (OfLoop(f) /\ m = ItemAt(f, f.item)) \/ (f.node # RootNode /\ m \in Above[f.node])
    BY <2>2, <2>3, ItemChild DEF CurOf, ItemAt, OfLoop
  <2>5. x \in Nat /\ \A j : j \in 1 .. x <=> j \in 1 .. x - 1 \/ j = x
    BY <1>1
  <2>6. CASE x = 1
    <3>1. f.node = RootNode /\ \A j \in 1 .. x : j = x
      BY <2>6 DEF Stacked
    <3> HIDE DEF f
    <3>2. f = fs[x] /\ x \in 1 .. x
      BY <2>5 DEF f
    <3> QED BY <2>4, <3>1, <3>2
  <2>7. CASE x # 1
    <3>1. x - 1 \in S /\ x - 1 < x /\ x - 1 \in 1 .. Len(fs) - 1 /\ (x - 1) + 1 = x /\ x \in 2 .. Len(fs)
      BY <1>1, <2>7
    <3>2. Fits(x - 1) /\ Runs(fs[x - 1]) /\ f.node = CurOf(fs[x - 1])
      BY <1>2, <3>1 DEF Stacked
    <3>3. f.node # RootNode
      BY <3>1, Chain, NoSuchNode DEF Nodes
    <3>4. m \in Above[f.node] <=> \E j \in 1 .. x - 1 : OfLoop(fs[j]) /\ m = ItemAt(fs[j], fs[j].item)
      BY <3>2
    <3> HIDE DEF f
    <3>5. f = fs[x]
      BY DEF f
    <3> QED BY <2>4, <2>5, <3>3, <3>4, <3>5
  <2> QED BY <2>6, <2>7
<1>3. S \subseteq Good
  <2> HIDE DEF Good, S
  <2> QED BY <1>1, <1>2, InductionUp
<1> QED BY <1>3

\* The registry that the stages of a list write to: a sub-workflow has one of its own.
Level[s \in Stages] ==
  IF s = Root THEN 1 ELSE Level[Owner[s]] + (IF Def[s].type = "workflow" THEN 1 ELSE 0)

\* Level is what its definition says, at every stage.
LEMMA LevelRecursion ==
  /\ Level \in [Stages -> Nat]
  /\ Level[Root] = 1
  /\ \A s \in Stages \ {Root} : Level[s] = Level[Owner[s]] + (IF Def[s].type = "workflow" THEN 1 ELSE 0)
<1> DEFINE T == Nat
           Value(g, s) == IF s = Root THEN 1 ELSE g[Owner[s]] + (IF Def[s].type = "workflow" THEN 1 ELSE 0)
           F == [s \in Stages |-> [g \in [Stages -> T] |-> Value(g, s)]]
<1>1. ASSUME NEW s \in Stages, NEW g \in [Stages -> T] PROVE Value(g, s) \in T
  <2>1. s # Root => g[Owner[s]] \in Nat
    BY Owners
  <2> QED BY <2>1
<1>2. F \in [Stages -> [[Stages -> T] -> T]]
  BY <1>1
<1>3. LooksBelow(F, Within, Stages, T)
  <2>1. ASSUME NEW s \in Stages, NEW g \in [Stages -> T], NEW h \in [Stages -> T],
               \A y \in Stages : <<y, s>> \in Within => g[y] = h[y]
        PROVE  F[s][g] = F[s][h]
    <3>1. s # Root => g[Owner[s]] = h[Owner[s]]
      BY <2>1, Owners, Nested
    <3> QED BY <3>1
  <2> HIDE DEF F, T
  <2> QED BY <2>1 DEF LooksBelow
<1>4. T # {}
  OBVIOUS
<1>5. Solvable(F, Stages, T)
  <2> HIDE DEF F, T
  <2> QED BY <1>2, <1>3, <1>4, Nested, RecursionExists
<1>6. PICK f \in [Stages -> T] : \A s \in Stages : f[s] = F[s][f]
  <2> HIDE DEF F, T
  <2> QED BY <1>5 DEF Solvable
<1>7. f = [s \in Stages |-> Value(f, s)]
  BY <1>6
<1>8. Level = CHOOSE c : c = [s \in Stages |-> Value(c, s)]
  BY DEF Level
<1>9. Level = [s \in Stages |-> Value(Level, s)]
  <2> HIDE DEF T, F
  <2> QED BY <1>7, <1>8
<1>10. \A s \in Stages : Level[s] = Value(Level, s)
  BY <1>9
<1>11. Stages \subseteq {s \in Stages : Level[s] \in Nat}
  <2> DEFINE Good == {s \in Stages : Level[s] \in Nat}
  <2>1. ASSUME NEW s \in Stages, \A y \in Stages : <<y, s>> \in Within => y \in Good
        PROVE  s \in Good
    <3>1. s # Root => Level[Owner[s]] \in Nat
      BY <2>1, Owners, Nested
    <3> QED BY <1>10, <3>1
  <2>3. Stages \subseteq Good
    <3> HIDE DEF Good
    <3> QED BY <2>1, Nested, FoundedInduction
  <2> QED BY <2>3
<1>12. Level[Root] = 1 /\ \A s \in Stages \ {Root} : Level[s] = Value(Level, s)
  BY <1>10, NoSuchNode
<1>13. Level \in [Stages -> Nat]
  <2> HIDE DEF T, F
  <2> QED BY <1>9, <1>11
<1> QED BY <1>12, <1>13

\* A frame writes to the registry of the frame below, or to the next one.
LEMMA LevelsRise ==
  ASSUME NEW fs, Stacked(fs)
  PROVE  \A x, y \in 1 .. Len(fs) : x <= y =>
           /\ Level[fs[x].node.stage] \in Nat \ {0}
           /\ Level[fs[x].node.stage] <= Level[fs[y].node.stage]
<1> DEFINE L(x) == Level[fs[x].node.stage]
           S == 1 .. Len(fs)
           Good == {y \in S : \A x \in S : x <= y => L(x) \in Nat \ {0} /\ L(x) <= L(y)}
<1>1. Len(fs) \in Nat /\ S \in SUBSET Nat
  BY DEF Stacked
<1>2. \A x \in S : fs[x].node.stage \in Stages /\ L(x) \in Nat
  <2>1. \A x \in S : fs[x].node.stage \in Stages
    BY FrameNode DEF Stacked
  <2> QED BY <2>1, LevelRecursion
<1>3. ASSUME NEW y \in S, \A z \in S : z < y => z \in Good
      PROVE  y \in Good
  <2>1. CASE y = 1
    <3>1. fs[1].node.stage = Root
      BY NodeFields DEF Stacked, RootNode
    <3>2. L(1) = 1
      BY <3>1, LevelRecursion
    <3>3. \A x \in S : x <= y => x = 1
      BY <2>1
    <3> QED BY <2>1, <3>2, <3>3
  <2>2. CASE y # 1
    <3>1. /\ y - 1 \in S /\ y - 1 < y /\ y - 1 \in 1 .. Len(fs) - 1 /\ (y - 1) + 1 = y
          /\ y \in 2 .. Len(fs) /\ \A x \in S : x <= y <=> x <= y - 1 \/ x = y
      BY <1>1, <2>2
    <3>2. y - 1 \in Good
      BY <1>3, <3>1
    <3>3. /\ FrameOK(fs[y - 1]) /\ Runs(fs[y - 1]) /\ fs[y].node = CurOf(fs[y - 1])
          /\ fs[y].node \in StageNodes
      BY <3>1, Chain DEF Stacked
    <3>4. fs[y].node.stage \in Stages \ {Root} /\ Owner[fs[y].node.stage] = fs[y - 1].node.stage
      BY <3>3, CurNode, FrameNode, StageNode, Owners
    <3>5. L(y - 1) <= L(y)
      <4>1. L(y) = L(y - 1) + (IF Def[fs[y].node.stage].type = "workflow" THEN 1 ELSE 0)
        BY <3>4, LevelRecursion
      <4>2. L(y - 1) \in Nat
        BY <1>2, <3>1
      <4> HIDE DEF L
      <4> QED BY <4>1, <4>2
    <3> HIDE DEF L
    <3>6. \A x \in S : x <= y - 1 => L(x) \in Nat \ {0} /\ L(x) <= L(y - 1)
      BY <3>2
    <3> QED BY <1>2, <3>1, <3>5, <3>6
  <2> QED BY <2>1, <2>2
<1>4. S \subseteq Good
  <2> HIDE DEF Good, S
  <2> QED BY <1>1, <1>3, InductionUp
<1> QED BY <1>4

-----------------------------------------------------------------------------
(* What a step does to the frames: it may leave the innermost one, enter a new one or
   change it; those below are untouched. *)

\* The innermost frame is one that was there, and it does not go on because of this step.
Rests ==
  \E x \in 1 .. Len(frames) :
    Fr' = frames[x] /\ (pc' = "go" => pc = "go" /\ frames' = frames /\ slots' = slots)

\* A frame passes the stage that it is at.
Passes ==
  \E x \in 1 .. Len(frames) : LET f == frames[x] IN
    /\ Runs(f) /\ Fr'.node = f.node /\ Fr'.at = f.at + 1 /\ Fr'.item = f.item
    /\ Fr'.attempt = f.attempt /\ Fr'.target = f.target
    /\ Fr'.cursor = IF OfLoop(f) /\ f.item # f.target THEN f.cursor ELSE NoNode

\* The list of a workflow jumps.
Jumps ==
  /\ ~InLoop /\ Runs(Fr) /\ Fr'.node = Fr.node /\ Fr'.cursor = NoNode
  /\ Def[Cur.stage].type = "branch" /\ Fr'.at \in DOMAIN Body(Fr.node.stage)
  /\ Body(Fr.node.stage)[Fr'.at] \in {Def[Cur.stage].ifTrue, Def[Cur.stage].ifFalse}

\* A loop tries its item again.
Retries ==
  /\ InLoop /\ Fr.attempt > 0 /\ Fr.attempt < Loop.attempts
  /\ Fr'.node = Fr.node /\ Fr'.item = Fr.item /\ Fr'.attempt = Fr.attempt + 1
  /\ Fr'.target = Fr.target /\ Fr'.cursor = Fr.cursor

\* A loop is done with its item.
EndsItem ==
  /\ InLoop /\ Fr.attempt > 0 /\ status'[ItemNode] # "absent"
  /\ Fr'.node = Fr.node /\ Fr'.item = Fr.item + 1 /\ Fr'.attempt = 0
  /\ Fr'.target = Fr.target /\ Fr'.cursor = Fr.cursor

\* The frames below the innermost one are those of before.
LowerKept ==
  /\ Len(frames') \in Nat \ {0}
  /\ \A x \in 1 .. Len(frames') - 1 : x \in 1 .. Len(frames) /\ frames'[x] = frames[x]

\* A step that neither enters nor starts anything: the frame it ends with is one of before, or moved.
Moves == LowerKept /\ (Rests \/ Passes \/ Jumps \/ Retries \/ EndsItem)

\* Nothing happens to the frames.
LEMMA RestsThere ==
  ASSUME Control, frames' = frames, pc' = "go" => pc = "go" /\ slots' = slots
  PROVE  Moves
<1>1. Len(frames) \in Nat \ {0} /\ Fr' = frames[Len(frames)]
  BY Innermost DEF Fr
<1>2. Len(frames) \in 1 .. Len(frames) /\ \A x \in 1 .. Len(frames) - 1 : x \in 1 .. Len(frames)
  BY <1>1
<1>3. Rests
  BY <1>1, <1>2 DEF Rests
<1>4. LowerKept
  BY <1>1, <1>2 DEF LowerKept
<1> QED BY <1>3, <1>4 DEF Moves

\* A frame passes its stage: the innermost one, or the one below.
LEMMA PassesOn ==
  ASSUME NEW fs, Stacked(fs), Runs(fs[Len(fs)]), Control,
         \A x \in 1 .. Len(fs) : x \in 1 .. Len(frames) /\ fs[x] = frames[x], frames' = Advance(fs)
  PROVE  Moves
<1> DEFINE f == fs[Len(fs)]
           c == IF Def[f.node.stage].type = "loop" /\ f.item # f.target THEN f.cursor ELSE NoNode
           g == [f EXCEPT !.at = @ + 1,
                   !.cursor = IF Def[f.node.stage].type = "loop" /\ f.item # f.target THEN @ ELSE NoNode]
<1>1. /\ fs \in Seq(FrameRecord) /\ Len(fs) \in Nat \ {0} /\ FrameOK(f)
      /\ Len(fs) \in 1 .. Len(frames) /\ f = frames[Len(fs)]
  <2>1. Len(fs) \in Nat \ {0} /\ FrameOK(f)
    BY TopOfStack
  <2>2. Len(fs) \in 1 .. Len(fs)
    BY <2>1
  <2> QED BY <2>1, <2>2 DEF Stacked
<1>2. /\ g.node = f.node /\ g.at = f.at + 1 /\ g.item = f.item
      /\ g.attempt = f.attempt /\ g.target = f.target /\ g.cursor = c
  <2>1. f \in FrameRecord
    BY <1>1, FrameFields
  <2>2. g = [f EXCEPT !.at = f.at + 1, !.cursor = c]
    BY <2>1
  <2> HIDE DEF f, c, g
  <2> QED BY <2>1, <2>2 DEF FrameRecord
<1>3. Advance(fs) = [fs EXCEPT ![Len(fs)] = g]
  BY DEF Advance
<1> HIDE DEF g
<1>4. /\ Len(frames') = Len(fs) /\ frames'[Len(fs)] = g
      /\ \A x \in 1 .. Len(fs) - 1 : x \in 1 .. Len(fs) /\ frames'[x] = fs[x]
  BY <1>1, <1>3
<1>5. Fr' = g
  BY <1>4 DEF Fr
<1>6. Runs(f)
  OBVIOUS
<1>7. Passes
  BY <1>1, <1>2, <1>5, <1>6 DEF Passes, OfLoop
<1>8. LowerKept
  BY <1>1, <1>4 DEF LowerKept
<1> QED BY <1>7, <1>8 DEF Moves

\* The innermost frame changes.
LEMMA PutKeeps ==
  ASSUME Control, NEW f, frames' = [frames EXCEPT ![Len(frames)] = f]
  PROVE  LowerKept /\ Fr' = f
<1>1. Len(frames) \in Nat \ {0} /\ frames \in Seq(FrameRecord)
  BY Innermost DEF Control, Stacked
<1>2. /\ Len(frames') = Len(frames) /\ frames'[Len(frames)] = f
      /\ \A x \in 1 .. Len(frames) - 1 : x \in 1 .. Len(frames) /\ frames'[x] = frames[x]
  BY <1>1
<1> QED BY <1>1, <1>2 DEF LowerKept, Fr

\* A new frame.
LEMMA PushKeeps ==
  ASSUME Control, NEW f, frames' = Append(frames, f)
  PROVE  LowerKept /\ Fr' = f
<1>1. Len(frames) \in Nat \ {0} /\ frames \in Seq(FrameRecord)
  BY Innermost DEF Control, Stacked
<1>2. /\ Len(frames') = Len(frames) + 1 /\ frames'[Len(frames) + 1] = f
      /\ \A x \in 1 .. Len(frames) : frames'[x] = frames[x]
  BY <1>1
<1> QED BY <1>1, <1>2 DEF LowerKept, Fr

\* The innermost frame is left.
LEMMA OuterFrames ==
  ASSUME Control, Len(frames) > 1
  PROVE  /\ Stacked(Outer) /\ Runs(Outer[Len(Outer)]) /\ Len(Outer) = Len(frames) - 1
         /\ CurOf(Outer[Len(Outer)]) = Fr.node
         /\ \A x \in 1 .. Len(Outer) : x \in 1 .. Len(frames) /\ Outer[x] = frames[x]
<1>1. Len(frames) \in Nat \ {0} /\ frames \in Seq(FrameRecord)
  BY Innermost DEF Control, Stacked
<1>2. Stacked(Outer) /\ Runs(Outer[Len(Outer)]) /\ CurOf(Outer[Len(Outer)]) = Fr.node
  BY PopFrame DEF Control, Outer, Fr
<1>3. Len(Outer) = Len(frames) - 1 /\ \A x \in 1 .. Len(Outer) : x \in 1 .. Len(frames) /\ Outer[x] = frames[x]
  BY <1>1 DEF Outer, Front
<1> QED BY <1>2, <1>3

\* What unwinds leaves a frame.
LEMMA RestsBelow ==
  ASSUME Control, Len(frames) > 1, frames' = Outer, pc' = "raise"
  PROVE  Moves
<1>1. /\ Stacked(Outer) /\ Len(Outer) = Len(frames) - 1
      /\ \A x \in 1 .. Len(Outer) : x \in 1 .. Len(frames) /\ Outer[x] = frames[x]
  BY OuterFrames
<1>2. Len(Outer) \in Nat \ {0} /\ Len(Outer) \in 1 .. Len(Outer)
      /\ \A x \in 1 .. Len(Outer) - 1 : x \in 1 .. Len(Outer)
  <2>1. Len(Outer) \in Nat \ {0}
    BY <1>1, TopOfStack
  <2> QED BY <2>1
<1>3. Rests
  BY <1>1, <1>2 DEF Rests, Fr
<1>4. LowerKept
  BY <1>1, <1>2 DEF LowerKept
<1> QED BY <1>3, <1>4 DEF Moves

\* The end of an item.
LEMMA ItemEndsMoves ==
  ASSUME TreeInv, InLoop, Fr.attempt > 0, NEW st \in {"done", "failed", "stopped"}, ItemEnds(st)
  PROVE  Moves
<1> DEFINE st1 == IF st = "stopped" THEN "stopped"
                  ELSE IF st = "failed" /\ Loop.onMax = "abort_workflow" THEN "failed" ELSE "running"
<1>1. PICK loopSt \in {"stopped", "failed", "running"} : loopSt = st1
  OBVIOUS
<1>2. /\ status' = [status EXCEPT ![ItemNode] = st, ![Fr.node] = loopSt]
      /\ IF loopSt = "running"
         THEN frames' = [frames EXCEPT ![Len(frames)] = [Fr EXCEPT !.item = @ + 1, !.attempt = 0, !.at = 1]]
         ELSE frames' = Outer /\ pc' = "raise"
  BY <1>1 DEF ItemEnds, SetFrame, Raise
<1> HIDE DEF st1
<1>3. Control /\ Disk /\ Len(frames) > 1 /\ Fr \in FrameRecord /\ Fr.item <= Loop.items /\ Fr.node \in StageNodes
  BY InnerLoop DEF TreeInv
<1>4. CASE loopSt # "running"
  BY <1>2, <1>3, <1>4, RestsBelow
<1>5. CASE loopSt = "running"
  <2> DEFINE g == [Fr EXCEPT !.item = @ + 1, !.attempt = 0, !.at = 1]
  <2>1. /\ g.node = Fr.node /\ g.item = Fr.item + 1 /\ g.attempt = 0
        /\ g.target = Fr.target /\ g.cursor = Fr.cursor
    BY <1>3 DEF FrameRecord
  <2>2. frames' = [frames EXCEPT ![Len(frames)] = g]
    BY <1>2, <1>5
  <2> HIDE DEF g
  <2>3. LowerKept /\ Fr' = g
    BY <1>3, <2>2, PutKeeps
  <2>4. status'[ItemNode] # "absent"
    <3>1. ItemNode \in ItemNodes /\ ItemNode \in Nodes /\ ItemNode # Fr.node
      BY <1>3, ItemNodeIs, LoopItem DEF Nodes
    <3>2. status'[ItemNode] = st
      BY <1>2, <1>3, <3>1 DEF Disk
    <3> QED BY <3>2
  <2>5. EndsItem
    BY <2>1, <2>3, <2>4 DEF EndsItem
  <2> QED BY <2>3, <2>5 DEF Moves
<1> QED BY <1>4, <1>5

\* The end of an attempt.
LEMMA AttemptFailsMoves ==
  ASSUME TreeInv, InLoop, Fr.attempt > 0, AttemptFails
  PROVE  Moves
<1>1. CASE Fr.attempt < Loop.attempts
  <2> DEFINE g == [Fr EXCEPT !.attempt = @ + 1, !.at = 1]
  <2>1. Control /\ Fr \in FrameRecord
    BY InnerLoop DEF TreeInv
  <2>2. /\ g.node = Fr.node /\ g.item = Fr.item /\ g.attempt = Fr.attempt + 1
        /\ g.target = Fr.target /\ g.cursor = Fr.cursor
    BY <2>1 DEF FrameRecord
  <2>3. frames' = [frames EXCEPT ![Len(frames)] = g]
    BY <1>1 DEF AttemptFails, SetFrame
  <2> HIDE DEF g
  <2>4. LowerKept /\ Fr' = g
    BY <2>1, <2>3, PutKeeps
  <2>5. Retries
    BY <1>1, <2>2, <2>4 DEF Retries
  <2> QED BY <2>4, <2>5 DEF Moves
<1>2. CASE ~(Fr.attempt < Loop.attempts)
  <2>1. ItemEnds("failed") /\ "failed" \in {"done", "failed", "stopped"}
    BY <1>2 DEF AttemptFails
  <2> QED BY <2>1, ItemEndsMoves
<1> QED BY <1>1, <1>2

\* A branch passes, or jumps.
LEMMA BranchMoves == \A holds \in BOOLEAN : TreeInv /\ BranchJumps(holds) => Moves
<1> SUFFICES ASSUME NEW holds \in BOOLEAN, TreeInv, BranchJumps(holds) PROVE Moves
  OBVIOUS
<1>1. /\ Control /\ Dispatches({"branch"})
      /\ InLoop \/ Listed(Target(holds))
      /\ frames' = IF InLoop THEN Advance(frames) ELSE JumpTo(Target(holds))
  BY DEF BranchJumps, BranchTaken, TreeInv
<1>2. /\ Runs(Fr) /\ Stacked(frames) /\ Fr = frames[Len(frames)] /\ Def[Cur.stage].type = "branch"
      /\ FrameOK(Fr)
  BY <1>1, Dispatched
<1>3. CASE InLoop
  BY <1>1, <1>2, <1>3, PassesOn
<1>4. CASE ~InLoop
  <2> DEFINE b == Body(Fr.node.stage)
             i == Index(b, Target(holds))
             f == [Fr EXCEPT !.at = i, !.cursor = NoNode]
  <2>1. i \in DOMAIN b /\ b[i] = Target(holds)
    BY <1>1, <1>4 DEF Index, Listed
  <2>2. Target(holds) \in {Def[Cur.stage].ifTrue, Def[Cur.stage].ifFalse}
    BY DEF Target
  <2>3. frames' = [Advance(frames) EXCEPT ![Len(frames)].at = i]
    BY <1>1, <1>4 DEF JumpTo
  <2> HIDE DEF i
  <2>4. frames \in Seq(FrameRecord) /\ Len(frames) \in Nat \ {0} /\ Fr \in FrameRecord
    BY <1>1, <1>2, FrameFields, Innermost DEF Stacked
  <2>5. f.node = Fr.node /\ f.at = i /\ f.cursor = NoNode
    BY <2>4 DEF FrameRecord
  <2>6. Advance(frames) = [frames EXCEPT ![Len(frames)] = [Fr EXCEPT !.at = @ + 1, !.cursor = NoNode]]
    <3>1. Def[Fr.node.stage].type # "loop"
      BY <1>4 DEF InLoop
    <3> QED BY <1>2, <3>1 DEF Advance
  <2>7. frames' = [frames EXCEPT ![Len(frames)] = f]
    <3> DEFINE h == [Fr EXCEPT !.at = @ + 1, !.cursor = NoNode]
    <3>1. [h EXCEPT !.at = i] = f
      BY <2>4 DEF FrameRecord
    <3> HIDE DEF h, f
    <3>2. Advance(frames) = [frames EXCEPT ![Len(frames)] = h]
      BY <2>6 DEF h
    <3>3. frames' = [frames EXCEPT ![Len(frames)] = [h EXCEPT !.at = i]]
      BY <2>3, <2>4, <3>2
    <3> QED BY <3>1, <3>3
  <2> HIDE DEF f
  <2>8. LowerKept /\ Fr' = f
    BY <1>1, <2>7, PutKeeps
  <2>9. Jumps
    BY <1>2, <1>4, <2>1, <2>2, <2>5, <2>8 DEF Jumps
  <2> QED BY <2>8, <2>9 DEF Moves
<1> QED BY <1>3, <1>4

\* Every step does one of these to the frames.
LEMMA FrameSteps ==
  TreeInv /\ [Next]_vars =>
    \/ LowerKept /\ (SubWorkflowEnters \/ LoopEnters \/ ItemReused \/ ItemStarts)
    \/ (\E a \in Nodes : Resume(a))
    \/ Moves
<1> SUFFICES ASSUME TreeInv, [Next]_vars
             PROVE  \/ LowerKept /\ (SubWorkflowEnters \/ LoopEnters \/ ItemReused \/ ItemStarts)
                    \/ (\E a \in Nodes : Resume(a))
                    \/ Moves
  OBVIOUS
<1>0. Control
  BY DEF TreeInv
<1>1. CASE SubWorkflowEnters \/ LoopEnters
  <2>1. PICK f : frames' = Append(frames, f)
    BY <1>1 DEF SubWorkflowEnters, LoopEnters
  <2> QED BY <1>0, <1>1, <2>1, PushKeeps
<1>2. CASE ItemReused \/ ItemStarts
  <2>1. PICK f : frames' = [frames EXCEPT ![Len(frames)] = f]
    BY <1>2 DEF ItemReused, ItemStarts, SetFrame
  <2> QED BY <1>0, <1>2, <2>1, PutKeeps
<1>3. CASE \E a \in Nodes : Resume(a)
  BY <1>3
<1>4. CASE StageSkipped \/ LeafReturns \/ RespondReturns
  <2>1. Stacked(frames) /\ Runs(frames[Len(frames)]) /\ frames' = Advance(frames)
    <3>1. Runs(Fr) /\ frames' = Advance(frames)
      BY <1>0, <1>4, Dispatched DEF StageSkipped, LeafReturns, RespondReturns, Resumed, Control
    <3> QED BY <1>0, <3>1 DEF Fr, Control
  <2> QED BY <1>0, <2>1, PassesOn
<1>5. CASE \E holds \in BOOLEAN : BranchJumps(holds)
  BY <1>5, BranchMoves
<1>6. CASE LoopReturns \/ SubWorkflowReturns
  <2>1. Len(frames) > 1 /\ frames' = Advance(Outer)
    BY <1>0, <1>6, InnerLoop DEF LoopReturns, BetweenItems, SubWorkflowReturns, InSub, Leaves
  <2> QED BY <1>0, <2>1, OuterFrames, PassesOn
<1>7. CASE LoopAborted \/ SubWorkflowRaises
  <2>1. Len(frames) > 1 /\ frames' = Outer /\ pc' = "raise"
    BY <1>0, <1>7, InnerLoop DEF LoopAborted, SubWorkflowRaises, InSub, Leaves, Unwinds
  <2> QED BY <1>0, <2>1, RestsBelow
<1>8. CASE ExitHolds
  <2>1. InLoop /\ Fr.attempt > 0 /\ ItemEnds("done") /\ "done" \in {"done", "failed", "stopped"}
    BY <1>8 DEF ExitHolds, AttemptEnds
  <2> QED BY <2>1, ItemEndsMoves
<1>9. CASE ExitDoesNotHold
  BY <1>9, AttemptFailsMoves DEF ExitDoesNotHold, AttemptEnds
<1>10. CASE InnerStageFailed
  BY <1>10, UnwindsInLoop, AttemptFailsMoves DEF InnerStageFailed, Unwinds
<1>11. CASE ItemCancelled
  <2>1. InLoop /\ Fr.attempt > 0 /\ ItemEnds("stopped") /\ "stopped" \in {"done", "failed", "stopped"}
    BY <1>11, UnwindsInLoop DEF ItemCancelled, Unwinds
  <2> QED BY <2>1, ItemEndsMoves
<1>12. CASE GateRaises \/ LeafEnters \/ BranchRaises \/ (\E holds \in BOOLEAN : BranchMisses(holds))
  <2>1. frames' = frames /\ pc' # "go"
    BY <1>12 DEF GateRaises, LeafEnters, BranchRaises, BranchMisses, Raise
  <2> QED BY <1>0, <2>1, RestsThere
<1>13. CASE LeafFails \/ LeafCancelled \/ ExitRaises \/ RunReturns \/ RunRaises
  <2>1. frames' = frames /\ pc' # "go"
    BY <1>13 DEF LeafFails, LeafCancelled, ExitRaises, RunReturns, RunRaises, Ends, Raise
  <2> QED BY <1>0, <2>1, RestsThere
<1>14. CASE ClientAborts \/ (\E a \in Nodes : ResumeDies(a)) \/ Idle \/ UNCHANGED vars
  <2>1. frames' = frames /\ (pc' = "go" => pc = "go" /\ slots' = slots)
    BY <1>14 DEF ClientAborts, ResumeDies, Idle, vars, engineVars
  <2> QED BY <1>0, <2>1, RestsThere
<1> QED BY <1>1, <1>2, <1>3, <1>4, <1>5, <1>6, <1>7, <1>8, <1>9, <1>10, <1>11, <1>12, <1>13, <1>14
        DEF Next, Engine, User

-----------------------------------------------------------------------------
(* What a step does to the record *)

\* The run is under way; a stage or an item has left a record.
Alive == pc \in {"go", "leaf", "raise"}
IsRecorded(n) == status[n] # "absent"

\* The stage the innermost frame is at, that of the frame itself, or the item of a loop.
InHand(n) == \/ Runs(Fr) /\ n = Cur
             \/ Len(frames) > 1 /\ n = Fr.node
             \/ InLoop /\ Fr.attempt > 0 /\ n = ItemNode

\* Where the last resumption started changes only with the next one.
LEMMA FromSteps ==
  [Next]_vars => \/ \E a \in Nodes : Resume(a)
                 \/ pc' = "dead" /\ status' = status /\ seen' = seen /\ frames' = frames
                      /\ slots' = slots /\ \E a \in Nodes : ResumeDies(a)
                 \/ from' = from /\ (Alive' => Alive)
<1> SUFFICES ASSUME [Next]_vars, ~\E a \in Nodes : Resume(a)
             PROVE  \/ pc' = "dead" /\ status' = status /\ seen' = seen /\ frames' = frames
                         /\ slots' = slots /\ \E a \in Nodes : ResumeDies(a)
                    \/ from' = from /\ (Alive' => Alive)
  OBVIOUS
<1>1. CASE \E a \in Nodes : ResumeDies(a)
  BY <1>1 DEF ResumeDies, ResumeRequested
<1>2. CASE \/ StageSkipped \/ GateRaises \/ LeafEnters \/ BranchRaises
           \/ (\E holds \in BOOLEAN : BranchJumps(holds) \/ BranchMisses(holds))
           \/ SubWorkflowEnters \/ LoopEnters
  BY <1>2 DEF StageSkipped, GateRaises, LeafEnters, BranchRaises, BranchJumps, BranchMisses, BranchTaken,
     SubWorkflowEnters, LoopEnters, Dispatches, resumeVars, Alive
<1>3. CASE \/ LeafReturns \/ RespondReturns \/ LeafFails \/ LeafCancelled \/ ItemReused \/ ItemStarts
           \/ LoopReturns \/ ClientAborts
  BY <1>3 DEF LeafReturns, RespondReturns, LeafFails, LeafCancelled, Resumed, ItemReused, ItemStarts,
     LoopReturns, BetweenItems, ClientAborts, resumeVars, Alive
<1>4. CASE \/ ExitHolds \/ ExitDoesNotHold \/ ExitRaises \/ InnerStageFailed \/ ItemCancelled
           \/ LoopAborted \/ SubWorkflowReturns \/ SubWorkflowRaises \/ RunReturns \/ RunRaises
  BY <1>4 DEF ExitHolds, ExitDoesNotHold, ExitRaises, AttemptEnds, InnerStageFailed, ItemCancelled,
     LoopAborted, Unwinds, SubWorkflowReturns, SubWorkflowRaises, RunReturns, RunRaises, SequenceEnds, Ends,
     resumeVars, Alive
<1>5. CASE Idle \/ UNCHANGED vars
  BY <1>5 DEF Idle, vars, engineVars, resumeVars, Alive
<1> QED BY <1>1, <1>2, <1>3, <1>4, <1>5 DEF Next, Engine, User

\* What is in hand is written, and whatever is written is.
RecordKept ==
  /\ \A n \in Nodes : status'[n] = status[n] \/ (Alive /\ InHand(n) /\ IsRecorded(n)')
  /\ \A n \in Seen' : n \in Seen \/ IsRecorded(n)'

\* The writes: of a stage that is in hand; of none; of an item that ends; of an attempt.
LEMMA WriteKeeps ==
  ASSUME TreeInv, RecordTypes, Alive, NEW n \in StageNodes, InHand(n), NEW st, st # "absent", Write(n, st)
  PROVE  RecordKept
<1>1. n \in Nodes /\ Disk /\ status' = [status EXCEPT ![n] = st]
      /\ seen' = IF n \in Seen THEN seen ELSE Append(seen, n)
  BY DEF Nodes, TreeInv, Write
<1>2. status'[n] = st /\ \A m \in Nodes : m # n => status'[m] = status[m]
  BY <1>1 DEF Disk
<1>3. \A m \in Seen' : m \in Seen \/ m = n
  <2>1. CASE n \in Seen
    BY <1>1, <2>1 DEF Seen
  <2>2. CASE n \notin Seen
    <3>1. seen \in Seq(StageNodes) /\ seen' = Append(seen, n)
      BY <1>1, <2>2 DEF RecordTypes
    <3>2. \A i \in DOMAIN seen' : (i \in DOMAIN seen /\ seen'[i] = seen[i]) \/ seen'[i] = n
      BY <3>1
    <3> QED BY <3>2 DEF Seen
  <2> QED BY <2>1, <2>2
<1> QED BY <1>2, <1>3 DEF RecordKept, IsRecorded

LEMMA UnwrittenKeeps ==
  ASSUME status' = status, seen' = seen
  PROVE  RecordKept
BY DEF RecordKept, Seen

LEMMA ItemEndsWrites ==
  ASSUME TreeInv, Alive, InLoop, Fr.attempt > 0, NEW st \in {"done", "failed", "stopped"}, ItemEnds(st)
  PROVE  RecordKept
<1> DEFINE st1 == IF st = "stopped" THEN "stopped"
                  ELSE IF st = "failed" /\ Loop.onMax = "abort_workflow" THEN "failed" ELSE "running"
<1>1. PICK loopSt \in {"stopped", "failed", "running"} : loopSt = st1
  OBVIOUS
<1>2. status' = [status EXCEPT ![ItemNode] = st, ![Fr.node] = loopSt] /\ seen' = seen
  BY <1>1 DEF ItemEnds
<1>3. Control /\ Disk /\ Fr.node \in StageNodes /\ Fr.item <= Loop.items /\ Len(frames) > 1
  BY InnerLoop DEF TreeInv
<1>4. ItemNode \in ItemNodes /\ ItemNode \in Nodes /\ Fr.node \in Nodes /\ ItemNode # Fr.node
  BY <1>3, ItemNodeIs, LoopItem DEF Nodes
<1>5. /\ status'[ItemNode] = st /\ status'[Fr.node] = loopSt
      /\ \A m \in Nodes : m # ItemNode /\ m # Fr.node => status'[m] = status[m]
  BY <1>2, <1>3, <1>4 DEF Disk
<1> QED BY <1>2, <1>3, <1>5 DEF RecordKept, Seen, InHand, IsRecorded

LEMMA AttemptFailsWrites ==
  ASSUME TreeInv, Alive, InLoop, Fr.attempt > 0, AttemptFails
  PROVE  RecordKept
<1>1. "failed" \in {"done", "failed", "stopped"}
  OBVIOUS
<1> QED BY <1>1, ItemEndsWrites, UnwrittenKeeps DEF AttemptFails

\* Whatever a step writes is in hand, and stays written.
LEMMA WriteSteps == TreeInv /\ RecordTypes /\ [Next]_vars => RecordKept
<1> SUFFICES ASSUME TreeInv, RecordTypes, [Next]_vars PROVE RecordKept
  OBVIOUS
<1>0. Control
  BY DEF TreeInv
<1>1. CASE \/ StageSkipped \/ LeafEnters \/ BranchRaises \/ SubWorkflowEnters \/ LoopEnters
           \/ (\E holds \in BOOLEAN : BranchJumps(holds) \/ BranchMisses(holds))
  <2>1. \E types : Dispatches(types)
    BY <1>1 DEF StageSkipped, LeafEnters, BranchRaises, SubWorkflowEnters, LoopEnters, BranchJumps,
       BranchMisses, BranchTaken
  <2>2. Alive /\ Cur \in StageNodes /\ InHand(Cur)
    BY <1>0, <2>1, Dispatched DEF Alive, InHand
  <2>3. \E st : st # "absent" /\ Write(Cur, st)
    BY <1>1 DEF StageSkipped, LeafEnters, BranchRaises, SubWorkflowEnters, LoopEnters, BranchJumps,
       BranchMisses, BranchTaken
  <2> QED BY <2>2, <2>3, WriteKeeps
<1>2. CASE LeafReturns \/ RespondReturns \/ LeafFails \/ LeafCancelled
  <2>1. Alive /\ Cur \in StageNodes /\ InHand(Cur)
    <3>1. pc = "leaf" /\ Runs(Fr)
      BY <1>0, <1>2 DEF LeafReturns, RespondReturns, LeafFails, LeafCancelled, Resumed, Control
    <3> QED BY <1>0, <3>1, Innermost DEF Alive, InHand
  <2>2. \E st : st # "absent" /\ Write(Cur, st)
    BY <1>2 DEF LeafReturns, RespondReturns, LeafFails, LeafCancelled
  <2> QED BY <2>1, <2>2, WriteKeeps
<1>3. CASE LoopReturns \/ LoopAborted \/ SubWorkflowReturns \/ SubWorkflowRaises
  <2>1. Len(frames) > 1 /\ Alive
    BY <1>0, <1>3, InnerLoop DEF LoopReturns, LoopAborted, SubWorkflowReturns, SubWorkflowRaises, InSub,
       Unwinds, BetweenItems, SequenceEnds, Alive
  <2>2. Fr.node \in StageNodes /\ InHand(Fr.node)
    BY <1>0, <2>1, OuterRuns DEF InHand
  <2>3. \E st : st # "absent" /\ Write(Fr.node, st)
    <3>1. (IF exc = "cancel" THEN "stopped" ELSE "failed") # "absent"
      OBVIOUS
    <3> QED BY <1>3, <3>1 DEF LoopReturns, LoopAborted, SubWorkflowReturns, SubWorkflowRaises, Leaves
  <2> QED BY <2>1, <2>2, <2>3, WriteKeeps
<1>4. CASE ExitHolds \/ ItemCancelled
  <2>1. InLoop /\ Fr.attempt > 0 /\ Alive /\ \E st \in {"done", "failed", "stopped"} : ItemEnds(st)
    BY <1>4, UnwindsInLoop DEF ExitHolds, AttemptEnds, ItemCancelled, Unwinds, Alive
  <2> QED BY <2>1, ItemEndsWrites
<1>5. CASE ExitDoesNotHold \/ InnerStageFailed
  <2>1. InLoop /\ Fr.attempt > 0 /\ Alive /\ AttemptFails
    BY <1>5, UnwindsInLoop DEF ExitDoesNotHold, AttemptEnds, InnerStageFailed, Unwinds, Alive
  <2> QED BY <2>1, AttemptFailsWrites
<1>6. CASE \/ GateRaises \/ ItemReused \/ ItemStarts \/ ExitRaises \/ RunReturns \/ RunRaises
           \/ ClientAborts \/ (\E a \in Nodes : Resume(a) \/ ResumeDies(a)) \/ Idle \/ UNCHANGED vars
  <2>1. status' = status /\ seen' = seen
    BY <1>6 DEF GateRaises, ItemReused, ItemStarts, ExitRaises, RunReturns, RunRaises, Ends, ClientAborts,
       Resume, ResumeDies, ResumeRequested, Idle, vars, engineVars, diskVars
  <2> QED BY <2>1, UnwrittenKeeps
<1> QED BY <1>1, <1>2, <1>3, <1>4, <1>5, <1>6 DEF Next, Engine, User

\* The items around an item: itself, and those around the loop.
LEMMA ItemItems ==
  ASSUME NEW o \in Stages, NEW p \in Places[o], NEW k \in 1 .. Def[o].items, Def[o].type = "loop",
         NEW m \in ItemNodes, m \in Above[Node(o, Append(p, k))]
  PROVE  m = Node(o, Append(p, k)) \/ m \in Above[Node(o, p)]
<1> DEFINE q == Append(p, k)
           n == Node(o, q)
           b == Node(o, p)
<1>1. PICK r \in Places[m.stage], j \in 1 .. Def[m.stage].items : m = Node(m.stage, Append(r, j))
  BY LoopItem
<1>2. /\ m \in Nodes /\ m.stage \in Stages /\ Def[m.stage].type = "loop"
      /\ m.items = Append(r, j) /\ r \in Seq(Nat) /\ p \in Seq(Nat) /\ j \in Nat /\ k \in Nat
  <2>1. m \in Nodes /\ m.stage \in Stages /\ Def[m.stage].type = "loop"
    BY LoopItem DEF Nodes
  <2> HIDE DEF n, b, q
  <2>2. Node(m.stage, Append(r, j)).items = Append(r, j)
    BY NodeFields
  <2>3. m.items = Append(r, j)
    BY <1>1, <2>2
  <2>4. r \in Seq(Nat) /\ p \in Seq(Nat)
    BY <2>1, PlacesRecursion
  <2>5. j \in Nat /\ k \in Nat
    BY <2>1, StageFields
  <2> QED BY <2>1, <2>3, <2>4, <2>5
<1>3. Len(m.items) = Len(r) + 1 /\ Len(r) \in Nat /\ Len(q) = Len(p) + 1 /\ Len(p) \in Nat /\ q \in Seq(Nat)
  BY <1>2
<1>4. /\ n \in Nodes /\ n.stage = o /\ n.items = q
      /\ b \in Nodes /\ b.stage = o /\ b.items = p
  <2>1. n \in Nodes
    BY LoopItem DEF Nodes
  <2>2. b \in Nodes
    BY DefAssumption, StageNode DEF Nodes
  <2> QED BY <2>1, <2>2, NodeFields
<1>5. SubSeq(q, 1, Len(q)) = q /\ \A x \in 0 .. Len(p) : SubSeq(q, 1, x) = SubSeq(p, 1, x)
  BY <1>2, <1>3, AppendPrefix
<1>6. m = Node(m.stage, m.items)
  BY <1>1, <1>2
<1> HIDE DEF n, b, q
<1>7. m.stage \in Around[o] /\ Len(m.items) <= Len(q) /\ m.items = SubSeq(q, 1, Len(m.items))
  <2>1. m \in Above[n]
    BY DEF n, q
  <2> QED BY <1>4, <2>1, AboveIs
<1>8. CASE m.stage = o
  <2>1. Len(m.items) = Len(q)
    BY <1>1, <1>3, <1>8, Depth
  <2>2. m = n
    BY <1>5, <1>6, <1>7, <1>8, <2>1 DEF n
  <2> QED BY <2>2 DEF n, q
<1>9. CASE m.stage # o
  <2>1. Len(r) + 1 <= Len(p)
    BY <1>1, <1>2, <1>7, <1>9, Deeper
  <2>2. Len(m.items) \in 0 .. Len(p) /\ Len(m.items) <= Len(p)
    BY <1>3, <2>1
  <2>3. m.items = SubSeq(p, 1, Len(m.items))
    BY <1>5, <1>7, <2>2
  <2>4. m \in Above[b]
    BY <1>2, <1>4, <1>7, <2>2, <2>3, AboveIs
  <2> QED BY <2>4 DEF b
<1> QED BY <1>8, <1>9

\* What is in hand is in the items that the loops being run are at.
LEMMA HandItems ==
  ASSUME Control, NEW n, InHand(n), NEW m \in ItemNodes, m \in Above[n]
  PROVE  \E j \in 1 .. Len(frames) : /\ OfLoop(frames[j]) /\ frames[j].attempt > 0
                                     /\ m = ItemAt(frames[j], frames[j].item)
<1>0. Stacked(frames) /\ Len(frames) \in Nat \ {0} /\ Fr = frames[Len(frames)] /\ FrameOK(Fr)
  BY Innermost DEF Control, Fr
<1>1. \A j \in 1 .. Len(frames) - 1 : Runs(frames[j])
  BY <1>0 DEF Stacked
<1>2. CASE Runs(Fr) /\ n = Cur
  <2>1. Len(frames) \in 1 .. Len(frames) /\ Cur = CurOf(frames[Len(frames)])
    BY <1>0, CurIs
  <2>2. PICK j \in 1 .. Len(frames) : OfLoop(frames[j]) /\ m = ItemAt(frames[j], frames[j].item)
    BY <1>0, <1>2, <2>1, ItemsAbove
  <2>3. j \in 1 .. Len(frames) - 1 \/ j = Len(frames)
    BY <1>0
  <2> QED BY <1>0, <1>1, <1>2, <2>2, <2>3 DEF Runs
<1>3. ASSUME Len(frames) > 1, m \in Above[Fr.node]
      PROVE  \E j \in 1 .. Len(frames) : /\ OfLoop(frames[j]) /\ frames[j].attempt > 0
                                         /\ m = ItemAt(frames[j], frames[j].item)
  <2>1. /\ Len(frames) - 1 \in 1 .. Len(frames) - 1 /\ Len(frames) - 1 \in 1 .. Len(frames)
        /\ (Len(frames) - 1) + 1 = Len(frames) /\ \A j \in 1 .. Len(frames) - 1 : j \in 1 .. Len(frames)
    BY <1>0, <1>3
  <2>2. Runs(frames[Len(frames) - 1]) /\ CurOf(frames[Len(frames) - 1]) = Fr.node
    BY <1>0, <2>1 DEF Stacked
  <2>3. PICK j \in 1 .. Len(frames) - 1 : OfLoop(frames[j]) /\ m = ItemAt(frames[j], frames[j].item)
    BY <1>0, <1>3, <2>1, <2>2, ItemsAbove
  <2> QED BY <1>1, <2>1, <2>3 DEF Runs
<1>4. CASE InLoop /\ Fr.attempt > 0 /\ n = ItemNode
  <2>1. /\ Len(frames) > 1 /\ OfLoop(Fr) /\ Len(frames) \in 1 .. Len(frames)
        /\ Fr.node.stage \in Stages /\ Fr.node.items \in Places[Fr.node.stage]
        /\ Fr.item \in 1 .. Def[Fr.node.stage].items /\ Fr.node = Node(Fr.node.stage, Fr.node.items)
    <3>1. /\ Fr.item \in 1 .. Loop.items + 1 /\ Fr.item <= Loop.items /\ Loop = Def[Fr.node.stage]
          /\ Loop.items \in Nat /\ Len(frames) > 1 /\ OfLoop(Fr)
      BY <1>4, InnerLoop
    <3> QED BY <1>0, <3>1, FrameNode
  <2>2. m = ItemNode \/ m \in Above[Fr.node]
    BY <1>4, <2>1, ItemItems DEF ItemNode, OfLoop
  <2>3. ItemNode = ItemAt(Fr, Fr.item)
    BY DEF ItemNode, ItemAt
  <2>4. CASE m = ItemNode
    BY <1>0, <1>4, <2>1, <2>3, <2>4
  <2> QED BY <1>3, <2>1, <2>2, <2>4
<1> QED BY <1>2, <1>3, <1>4 DEF InHand

-----------------------------------------------------------------------------
(* The items of a loop are recorded in their order, also where a resumption starts *)

\* The items of a loop before its i-th are recorded.
ItemsBefore(s, p, i) == \A j \in 1 .. i - 1 : IsRecorded(Node(s, Append(p, j)))

\* Of every loop around n, the items before the one that n is in are recorded.
InOrder(n) ==
  \A s \in Stages : \A p \in Places[s] : \A i \in 1 .. Def[s].items :
    Def[s].type = "loop" /\ Node(s, Append(p, i)) \in Above[n] => ItemsBefore(s, p, i)

\* The items of a loop before the one that its frame is at.
ItemsDone(st, f) == OfLoop(f) => \A j \in 1 .. f.item - 1 : st[ItemAt(f, j)] # "absent"

\* What the record and the frames say of the items before.
Ordered ==
  /\ \A n \in Nodes : IsRecorded(n) => InOrder(n)
  /\ \A n \in Seen : IsRecorded(n)
  /\ \A x \in 1 .. Len(frames) : ItemsDone(status, frames[x])

\* Numbers are appended one way.
LEMMA AppendOnto ==
  ASSUME NEW p \in Seq(Nat), NEW q \in Seq(Nat), NEW i \in Nat, NEW k \in Nat, Append(p, i) = Append(q, k)
  PROVE  p = q /\ i = k
<1>1. Len(Append(p, i)) = Len(p) + 1 /\ Len(Append(q, k)) = Len(q) + 1 /\ Len(p) \in Nat /\ Len(q) \in Nat
  OBVIOUS
<1>2. Len(p) = Len(q)
  BY <1>1
<1>3. SubSeq(Append(p, i), 1, Len(p)) = p /\ SubSeq(Append(q, k), 1, Len(q)) = q
  BY <1>1, AppendPrefix
<1>4. Append(p, i)[Len(p) + 1] = i /\ Append(q, k)[Len(q) + 1] = k
  BY <1>1, AppendPrefix
<1> QED BY <1>2, <1>3, <1>4

\* What is recorded stays so.
LEMMA BeforeKept ==
  ASSUME RecordKept, NEW s \in Stages, Def[s].type = "loop", NEW p \in Places[s],
         NEW i \in 1 .. Def[s].items + 1, ItemsBefore(s, p, i)
  PROVE  ItemsBefore(s, p, i)'
<1>1. Def[s].items \in Nat
  BY StageFields
<1>2. ASSUME NEW j \in 1 .. i - 1 PROVE status'[Node(s, Append(p, j))] # "absent"
  <2>1. j \in 1 .. Def[s].items
    BY <1>1
  <2>2. Node(s, Append(p, j)) \in Nodes
    BY <2>1, LoopItem DEF Nodes
  <2>3. status[Node(s, Append(p, j))] # "absent"
    BY DEF ItemsBefore, IsRecorded
  <2> QED BY <2>2, <2>3 DEF RecordKept, IsRecorded
<1> QED BY <1>2 DEF ItemsBefore, IsRecorded

\* An address whose items before are recorded stays one.
LEMMA InOrderKept == \A n : RecordKept /\ InOrder(n) => InOrder(n)'
<1> SUFFICES ASSUME NEW n, RecordKept, InOrder(n),
                    NEW s \in Stages, NEW p \in Places[s], NEW i \in 1 .. Def[s].items,
                    Def[s].type = "loop", Node(s, Append(p, i)) \in Above[n]
             PROVE  ItemsBefore(s, p, i)'
  BY DEF InOrder
<1>1. i \in 1 .. Def[s].items + 1
  BY StageFields
<1>2. ItemsBefore(s, p, i)
  BY DEF InOrder
<1> QED BY <1>1, <1>2, BeforeKept

\* What is in hand is in order.
LEMMA HandInOrder ==
  ASSUME Control, Ordered, NEW n, InHand(n)
  PROVE  InOrder(n)
<1> SUFFICES ASSUME NEW s \in Stages, NEW p \in Places[s], NEW i \in 1 .. Def[s].items,
                    Def[s].type = "loop", Node(s, Append(p, i)) \in Above[n]
             PROVE  ItemsBefore(s, p, i)
  BY DEF InOrder
<1>1. Node(s, Append(p, i)) \in ItemNodes
  BY LoopItem
<1>2. PICK j \in 1 .. Len(frames) :
        OfLoop(frames[j]) /\ Node(s, Append(p, i)) = ItemAt(frames[j], frames[j].item)
  BY <1>1, HandItems
<1> DEFINE f == frames[j]
<1>3. FrameOK(f)
  BY DEF Control, Stacked
<1>4. /\ f.node.stage \in Stages /\ f.node.items \in Places[f.node.stage] /\ f.item \in Nat
      /\ f.node.items \in Seq(Nat) /\ p \in Seq(Nat) /\ i \in Nat
  BY <1>3, FrameNode, FrameFields, PlacesRecursion, StageFields
<1>5. s = f.node.stage /\ Append(p, i) = Append(f.node.items, f.item)
  <2> DEFINE b == Node(f.node.stage, Append(f.node.items, f.item))
             d == Node(s, Append(p, i))
  <2>1. b.stage = f.node.stage /\ b.items = Append(f.node.items, f.item)
    BY NodeFields
  <2>2. d.stage = s /\ d.items = Append(p, i)
    BY NodeFields
  <2>3. d = b
    BY <1>2 DEF ItemAt
  <2> HIDE DEF b, d
  <2> QED BY <2>1, <2>2, <2>3
<1>6. p = f.node.items /\ i = f.item
  <2> HIDE DEF f
  <2> QED BY <1>4, <1>5, AppendOnto
<1>7. ItemsDone(status, f)
  BY DEF Ordered
<1> QED BY <1>2, <1>5, <1>6, <1>7 DEF ItemsDone, ItemsBefore, IsRecorded, ItemAt

\* A resumption starts at an address in order: one that is recorded, or what one is in.
LEMMA ResumesInOrder ==
  ASSUME Ordered, RecordTypes, NEW a \in Nodes, ResumeRequested(a)
  PROVE  InOrder(a)
<1>1. PICK n \in Recorded : ResumesAt(n, a)
  BY DEF ResumeRequested
<1>2. \A m \in Recorded : m \in Nodes /\ IsRecorded(m)
  BY SeenIs DEF Recorded, Ordered, Nodes, IsRecorded
<1>3. \A m \in Recorded : InOrder(m)
  BY <1>2 DEF Ordered
<1>4. a \in Recorded \/ \E s \in Seen : a \in Above[s]
  <2>1. CASE a = n
    BY <2>1
  <2>2. CASE ComesNext(n, a)
    <3>1. \E m : Later(m, a)
      BY <2>2 DEF ComesNext
    <3> QED BY <3>1 DEF Later, Recorded
  <2> QED BY <1>1, <2>1, <2>2 DEF ResumesAt
<1>5. ASSUME NEW s \in Seen, a \in Above[s] PROVE InOrder(a)
  <2>1. s \in Nodes /\ InOrder(s)
    BY <1>2, <1>3 DEF Recorded
  <2>2. \A m : m \in Above[a] => m \in Above[s]
    BY <1>5, <2>1, AboveAbove
  <2> QED BY <2>1, <2>2 DEF InOrder
<1> QED BY <1>3, <1>4, <1>5

\* The frame of a stage that is entered.
LEMMA Entered ==
  ASSUME Control, SubWorkflowEnters \/ LoopEnters
  PROVE  /\ Runs(Fr) /\ Cur \in StageNodes /\ pc = "go" /\ pc' = "go" /\ Fr'.node = Cur /\ Fr'.at = 1
         /\ Fr = frames[Len(frames)] /\ FrameOK(Fr) /\ frames \in Seq(FrameRecord)
         /\ Len(frames) \in Nat \ {0} /\ Len(frames') = Len(frames) + 1
         /\ SubWorkflowEnters => Fr'.cursor = NoNode /\ Def[Cur.stage].type = "workflow"
         /\ LoopEnters =>
              /\ Def[Cur.stage].type = "loop" /\ Fr'.item = 1 /\ Fr'.attempt = 0
              /\ LET below == Cursor \notin {NoNode, Cur}
                     target == IF below THEN Cursor.items[Len(Cur.items) + 1] ELSE 0
                 IN /\ Fr'.target = target
                    /\ Fr'.cursor = IF below /\ Cursor # Node(Cur.stage, Append(Cur.items, target))
                                    THEN Cursor ELSE NoNode
<1>1. /\ Runs(Fr) /\ Cur \in StageNodes /\ pc = "go" /\ pc' = "go"
      /\ Fr = frames[Len(frames)] /\ FrameOK(Fr) /\ Len(frames) \in Nat \ {0} /\ frames \in Seq(FrameRecord)
      /\ SubWorkflowEnters => Def[Cur.stage].type = "workflow"
      /\ LoopEnters => Def[Cur.stage].type = "loop"
  <2>1. \E types : Dispatches(types)
    BY DEF SubWorkflowEnters, LoopEnters
  <2>2. Runs(Fr) /\ Cur \in StageNodes /\ pc = "go" /\ Fr = frames[Len(frames)] /\ FrameOK(Fr)
    BY <2>1, Dispatched
  <2>3. Len(frames) \in Nat \ {0} /\ frames \in Seq(FrameRecord)
    BY Innermost DEF Control, Stacked
  <2>4. pc' = "go"
    BY <2>2 DEF SubWorkflowEnters, LoopEnters
  <2> QED BY <2>2, <2>3, <2>4 DEF SubWorkflowEnters, LoopEnters, Dispatches
<1>2. ASSUME NEW f, frames' = Append(frames, f) PROVE Fr' = f /\ Len(frames') = Len(frames) + 1
  BY <1>1, <1>2 DEF Fr
<1>3. CASE SubWorkflowEnters
  <2>1. Fr' = Frame(Cur, 1, 0, 1, 0, NoNode) /\ Len(frames') = Len(frames) + 1
    BY <1>2, <1>3 DEF SubWorkflowEnters
  <2>2. ~LoopEnters
    BY <1>1, <1>3
  <2> QED BY <1>1, <2>1, <2>2 DEF Frame
<1>4. CASE LoopEnters
  <2> DEFINE below == Cursor \notin {NoNode, Cur}
             target == IF below THEN Cursor.items[Len(Cur.items) + 1] ELSE 0
             cursor == IF below /\ Cursor # Node(Cur.stage, Append(Cur.items, target)) THEN Cursor ELSE NoNode
  <2>1. frames' = Append(frames, Frame(Cur, 1, 1, 0, target, cursor))
    BY <1>4 DEF LoopEnters
  <2> HIDE DEF target, cursor
  <2>2. Fr' = Frame(Cur, 1, 1, 0, target, cursor) /\ Len(frames') = Len(frames) + 1
    BY <1>2, <2>1
  <2>3. /\ Fr'.node = Cur /\ Fr'.at = 1 /\ Fr'.item = 1 /\ Fr'.attempt = 0
        /\ Fr'.target = target /\ Fr'.cursor = cursor
    BY <2>2 DEF Frame
  <2>4. ~SubWorkflowEnters
    BY <1>1, <1>4
  <2> QED BY <1>1, <1>4, <2>2, <2>3, <2>4 DEF target, cursor
<1> QED BY <1>3, <1>4

\* The frame of a loop that goes on to an item, or reads one back.
LEMMA Went ==
  ASSUME Control, ItemReused \/ ItemStarts
  PROVE  /\ pc = "go" /\ pc' = "go" /\ InLoop /\ Fr.attempt = 0 /\ Fr.item <= Loop.items
         /\ Len(frames') = Len(frames) /\ Fr'.node = Fr.node
         /\ Fr'.target = Fr.target /\ Fr'.cursor = Fr.cursor
         /\ ItemReused => Reused /\ Fr'.item = Fr.item + 1 /\ Fr'.attempt = 0
         /\ ItemStarts => /\ ~Reused /\ Fr'.item = Fr.item /\ Fr'.attempt = 1
                          /\ Fr'.at = IF Fr.cursor # NoNode /\ Fr.item = Fr.target THEN StartIndex ELSE 1
<1>1. /\ pc = "go" /\ pc' = "go" /\ InLoop /\ Fr.attempt = 0 /\ Fr.item <= Loop.items
      /\ ItemReused => Reused
      /\ ItemStarts => ~Reused
  BY DEF ItemReused, ItemStarts, BetweenItems
<1>2. Fr \in FrameRecord /\ frames \in Seq(FrameRecord) /\ Len(frames) \in Nat /\ Len(frames) > 1
  BY <1>1, InnerLoop DEF Stacked
<1>3. ASSUME NEW f, SetFrame(f) PROVE Fr' = f /\ Len(frames') = Len(frames)
  BY <1>2, <1>3 DEF SetFrame, Fr
<1>4. CASE ItemReused
  <2>1. SetFrame([Fr EXCEPT !.item = @ + 1])
    BY <1>4 DEF ItemReused
  <2>2. Fr' = [Fr EXCEPT !.item = @ + 1] /\ Len(frames') = Len(frames)
    BY <1>3, <2>1
  <2>3. /\ Fr'.node = Fr.node /\ Fr'.item = Fr.item + 1 /\ Fr'.attempt = Fr.attempt
        /\ Fr'.target = Fr.target /\ Fr'.cursor = Fr.cursor
    BY <1>2, <2>2 DEF FrameRecord
  <2>4. ~ItemStarts
    BY <1>1, <1>4
  <2> QED BY <1>1, <2>2, <2>3, <2>4
<1>5. CASE ItemStarts
  <2> DEFINE at == IF Fr.cursor # NoNode /\ Fr.item = Fr.target THEN StartIndex ELSE 1
  <2>1. SetFrame([Fr EXCEPT !.attempt = 1, !.at = at])
    BY <1>5 DEF ItemStarts
  <2> HIDE DEF at
  <2>2. Fr' = [Fr EXCEPT !.attempt = 1, !.at = at] /\ Len(frames') = Len(frames)
    BY <1>3, <2>1
  <2>3. /\ Fr'.node = Fr.node /\ Fr'.item = Fr.item /\ Fr'.attempt = 1 /\ Fr'.at = at
        /\ Fr'.target = Fr.target /\ Fr'.cursor = Fr.cursor
    BY <1>2, <2>2 DEF FrameRecord
  <2>4. ~ItemReused
    BY <1>1, <1>5
  <2> QED BY <1>1, <2>2, <2>3, <2>4 DEF at
<1> QED BY <1>4, <1>5

\* The frame a resumption starts with.
LEMMA Restarted ==
  ASSUME NEW a \in Nodes, Resume(a)
  PROVE  /\ pc = "over" /\ pc' = "go" /\ from' = a /\ slots' = <<Reconstructed(a)>>
         /\ Len(frames') = 1 /\ frames'[1] = Fr' /\ Fr'.node = RootNode /\ ~OfLoop(Fr')
         /\ Fr'.attempt = 1 /\ Fr'.cursor = a
         /\ Fr'.at = CHOOSE i \in DOMAIN Body(Root) : Node(Body(Root)[i], <<>>) \in Above[a]
<1> DEFINE top == CHOOSE i \in DOMAIN Body(Root) : Node(Body(Root)[i], <<>>) \in Above[a]
<1>1. /\ pc = "over" /\ pc' = "go" /\ from' = a /\ slots' = <<Reconstructed(a)>>
      /\ frames' = <<Frame(RootNode, top, 0, 1, 0, a)>>
  BY DEF Resume, ResumeRequested, RootNode
<1> HIDE DEF top
<1>2. Len(frames') = 1 /\ frames'[1] = Frame(RootNode, top, 0, 1, 0, a) /\ Fr' = frames'[1]
  BY <1>1 DEF Fr
<1>3. Fr'.node = RootNode /\ Fr'.attempt = 1 /\ Fr'.cursor = a /\ Fr'.at = top
  BY <1>2 DEF Frame
<1>4. ~OfLoop(Fr')
  BY <1>3, NodeFields, DefAssumption DEF OfLoop, RootNode
<1> QED BY <1>1, <1>2, <1>3, <1>4 DEF top

LEMMA ItemsDoneKept ==
  ASSUME RecordKept, NEW f, FrameOK(f), ItemsDone(status, f), NEW g, g.node = f.node,
         \/ g.item = f.item
         \/ g.item = f.item + 1 /\ status'[ItemAt(f, f.item)] # "absent"
  PROVE  ItemsDone(status', g)
<1> SUFFICES ASSUME OfLoop(f), NEW j \in 1 .. g.item - 1 PROVE status'[ItemAt(f, j)] # "absent"
  BY DEF ItemsDone, OfLoop, ItemAt
<1>1. /\ f.node.stage \in Stages /\ f.node.items \in Places[f.node.stage] /\ Def[f.node.stage].type = "loop"
      /\ f.item \in 1 .. Def[f.node.stage].items + 1 /\ Def[f.node.stage].items \in Nat
  BY FrameNode, FrameFields DEF FrameOK, OfLoop
<1>2. j \in 1 .. f.item - 1 \/ (j = f.item /\ status'[ItemAt(f, f.item)] # "absent")
  BY <1>1
<1>3. CASE j \in 1 .. f.item - 1
  <2>1. j \in 1 .. Def[f.node.stage].items
    BY <1>1, <1>3
  <2>2. ItemAt(f, j) \in Nodes
    BY <1>1, <2>1, LoopItem DEF Nodes, ItemAt
  <2>3. status[ItemAt(f, j)] # "absent"
    BY <1>3 DEF ItemsDone
  <2> QED BY <2>2, <2>3 DEF RecordKept, IsRecorded
<1> QED BY <1>2, <1>3

\* The frames after a step, one by one: those below are untouched.
LEMMA FrameByFrame ==
  ASSUME LowerKept, NEW x \in 1 .. Len(frames')
  PROVE  \/ x \in 1 .. Len(frames) /\ x \in 1 .. Len(frames') - 1 /\ frames'[x] = frames[x]
         \/ x = Len(frames') /\ frames'[x] = Fr'
<1>1. Len(frames') \in Nat \ {0}
  BY DEF LowerKept
<1>2. x \in 1 .. Len(frames') - 1 \/ x = Len(frames')
  BY <1>1
<1>3. Fr' = frames'[Len(frames')]
  BY DEF Fr
<1> QED BY <1>2, <1>3 DEF LowerKept

\* Items are recorded in their order, and nobody takes a record back.
LEMMA OrderedSteps ==
  TreeInv /\ RecordTypes /\ Ordered /\ [Next]_vars => Ordered'
<1> SUFFICES ASSUME TreeInv, RecordTypes, Ordered, [Next]_vars
             PROVE  Ordered'
  OBVIOUS
<1>0. /\ Control /\ RecordKept
      /\ \A x \in 1 .. Len(frames) : FrameOK(frames[x]) /\ ItemsDone(status, frames[x])
  <2>1. Control
    BY DEF TreeInv
  <2> QED BY <2>1, WriteSteps DEF Control, Stacked, Ordered
<1>1. \A n \in Nodes : IsRecorded(n)' => InOrder(n)'
  <2> SUFFICES ASSUME NEW n \in Nodes, status'[n] # "absent" PROVE InOrder(n)'
    BY DEF IsRecorded
  <2>1. InOrder(n)
    <3>1. CASE status'[n] = status[n]
      BY <3>1 DEF Ordered, IsRecorded
    <3>2. CASE InHand(n)
      BY <1>0, <3>2, HandInOrder
    <3> QED BY <1>0, <3>1, <3>2 DEF RecordKept
  <2> QED BY <1>0, <2>1, InOrderKept
<1>2. \A n \in Seen' : IsRecorded(n)'
  <2> SUFFICES ASSUME NEW n \in Seen, status'[n] = "absent" PROVE FALSE
    BY <1>0 DEF RecordKept, IsRecorded
  <2>1. n \in Nodes /\ status[n] # "absent"
    BY SeenIs DEF Ordered, IsRecorded, Nodes
  <2> QED BY <1>0, <2>1 DEF RecordKept, IsRecorded
<1>3. ASSUME LowerKept, ItemsDone(status', Fr') PROVE Ordered'
  <2>1. ASSUME NEW x \in 1 .. Len(frames') PROVE ItemsDone(status', frames'[x])
    <3>1. CASE x \in 1 .. Len(frames) /\ frames'[x] = frames[x]
      BY <1>0, <3>1, ItemsDoneKept
    <3>2. CASE frames'[x] = Fr'
      BY <1>3, <3>2
    <3> QED BY <1>3, <3>1, <3>2, FrameByFrame
  <2> QED BY <1>1, <1>2, <2>1 DEF Ordered
<1>4. FrameOK(Fr) /\ ItemsDone(status, Fr)
  <2>1. Len(frames) \in 1 .. Len(frames) /\ Fr = frames[Len(frames)]
    BY <1>0, Innermost DEF Fr
  <2> QED BY <1>0, <2>1
<1>5. CASE LowerKept /\ (SubWorkflowEnters \/ LoopEnters)
  <2>1. SubWorkflowEnters => Fr'.node = Cur /\ Def[Cur.stage].type = "workflow"
    BY <1>0, Entered
  <2>2. LoopEnters => Fr'.item = 1
    BY <1>0, Entered
  <2>3. ItemsDone(status', Fr')
    BY <1>5, <2>1, <2>2 DEF ItemsDone, OfLoop
  <2> QED BY <1>3, <1>5, <2>3
<1>6. CASE LowerKept /\ ItemStarts
  <2>1. Fr'.node = Fr.node /\ Fr'.item = Fr.item
    BY <1>0, <1>6, Went
  <2>2. ItemsDone(status', Fr')
    BY <1>0, <1>4, <2>1, ItemsDoneKept
  <2> QED BY <1>3, <1>6, <2>2
<1>7. CASE LowerKept /\ ItemReused
  <2>1. Fr'.node = Fr.node /\ Fr'.item = Fr.item + 1 /\ Reused
    BY <1>0, <1>7, Went
  <2>2. status' = status
    BY <1>7 DEF ItemReused
  <2>3. status'[ItemAt(Fr, Fr.item)] # "absent"
    BY <2>1, <2>2 DEF Reused, ItemNode, ItemAt
  <2>4. ItemsDone(status', Fr')
    BY <1>0, <1>4, <2>1, <2>3, ItemsDoneKept
  <2> QED BY <1>3, <1>7, <2>4
<1>8. CASE \E a \in Nodes : Resume(a)
  <2>1. Len(frames') = 1 /\ frames'[1] = Fr' /\ ~OfLoop(Fr')
    BY <1>8, Restarted
  <2>2. \A x \in 1 .. Len(frames') : x = 1
    BY <2>1
  <2>3. \A x \in 1 .. Len(frames') : ItemsDone(status', frames'[x])
    BY <2>1, <2>2 DEF ItemsDone
  <2> QED BY <1>1, <1>2, <2>3 DEF Ordered
<1>9. CASE Moves
  <2>1. ItemsDone(status', Fr')
    <3>1. CASE Rests
      BY <1>0, <3>1, ItemsDoneKept DEF Rests
    <3>2. CASE Passes
      BY <1>0, <3>2, ItemsDoneKept DEF Passes
    <3>3. CASE Jumps
      BY <3>3 DEF Jumps, ItemsDone, OfLoop, InLoop
    <3>4. CASE Retries
      BY <1>0, <1>4, <3>4, ItemsDoneKept DEF Retries
    <3>5. CASE EndsItem
      BY <1>0, <1>4, <3>5, ItemsDoneKept DEF EndsItem, ItemNode, ItemAt
    <3> QED BY <1>9, <3>1, <3>2, <3>3, <3>4, <3>5 DEF Moves
  <2> QED BY <1>3, <1>9, <2>1 DEF Moves
<1> QED BY <1>5, <1>6, <1>7, <1>8, <1>9, FrameSteps

\* Nothing is recorded yet.
LEMMA OrderedStarts == Init => Ordered
<1> SUFFICES ASSUME Init PROVE Ordered
  OBVIOUS
<1>1. \A n \in Nodes : status[n] = "absent"
  BY DEF Init
<1>2. Seen = {}
  BY DEF Init, Seen
<1>3. \A x \in 1 .. Len(frames) : ~OfLoop(frames[x])
  <2>1. frames = <<Frame(RootNode, 1, 0, 1, 0, NoNode)>>
    BY DEF Init, RootNode
  <2>2. \A x \in 1 .. Len(frames) : frames[x].node.stage = Root
    BY <2>1, NodeFields DEF Frame, RootNode
  <2> QED BY <2>2, DefAssumption DEF OfLoop
<1> QED BY <1>1, <1>2, <1>3 DEF Ordered, IsRecorded, ItemsDone

-----------------------------------------------------------------------------
(* The way to where the last resumption started *)

\* A frame looks for no other address, and starts no item before the one it is in.
Heading(f, a) ==
  /\ f.cursor \in {NoNode, a}
  /\ OfLoop(f) /\ f.cursor # NoNode /\ f.item < f.target => f.attempt = 0

\* A resumption starts at an address, below no sub-workflow, and its cursor leads there.
Aimed ==
  /\ from \in Nodes \cup {NoNode}
  /\ from # NoNode => InOrder(from)
  /\ Alive =>
       /\ from # NoNode =>
            \A m \in Above[from] \ {from} : m \in StageNodes => Def[m.stage].type # "workflow"
       /\ \A x \in 1 .. Len(frames) : Heading(frames[x], from)

\* A loop reads back the items before the one that the resumption goes on in.
LEMMA ReadBack ==
  ASSUME Control, InLoop, NEW a, InOrder(a), Fr.target \in 1 .. Loop.items, Fr.item < Fr.target,
         ItemAt(Fr, Fr.target) \in Above[a]
  PROVE  Reused
<1>1. /\ Fr.node.stage \in Stages /\ Fr.node.items \in Places[Fr.node.stage]
      /\ Def[Fr.node.stage].type = "loop" /\ Loop = Def[Fr.node.stage] /\ Fr.item \in 1 .. Loop.items + 1
      /\ Fr.item \in Nat /\ Loop.items \in Nat
  <2>1. FrameOK(Fr) /\ OfLoop(Fr) /\ Loop = Def[Fr.node.stage] /\ Fr.item \in 1 .. Loop.items + 1
        /\ Fr.item \in Nat /\ Loop.items \in Nat
    BY InnerLoop
  <2> QED BY <2>1, FrameNode DEF OfLoop
<1>2. ItemsBefore(Fr.node.stage, Fr.node.items, Fr.target)
  <2>1. Node(Fr.node.stage, Append(Fr.node.items, Fr.target)) \in Above[a]
    BY DEF ItemAt
  <2>2. Fr.target \in 1 .. Def[Fr.node.stage].items
    BY <1>1
  <2> QED BY <1>1, <2>1, <2>2 DEF InOrder
<1>3. Fr.item \in 1 .. Fr.target - 1 /\ Fr.target # 0 /\ Fr.item # Fr.target
  BY <1>1
<1>4. status[Node(Fr.node.stage, Append(Fr.node.items, Fr.item))] # "absent"
  BY <1>2, <1>3 DEF ItemsBefore, IsRecorded
<1> QED BY <1>3, <1>4 DEF Reused, ItemNode

\* The item that a loop's cursor is in.
LEMMA TargetAbove ==
  ASSUME NEW f, FrameOK(f), OfLoop(f), f.cursor # NoNode
  PROVE  f.target \in 1 .. Def[f.node.stage].items /\ ItemAt(f, f.target) \in Above[f.cursor]
<1> DEFINE o == f.node.stage
           p == f.node.items
           k == f.target
           a == f.cursor
<1>1. /\ o \in Stages /\ p \in Places[o] /\ Def[o].type = "loop" /\ Def[o].items \in Nat /\ a \in Nodes
      /\ k \in Nat
  BY FrameNode, FrameFields DEF OfLoop
<1>2. k \in 1 .. Def[o].items /\ \E i \in DOMAIN Body(o) : Node(Body(o)[i], Append(p, k)) \in Above[a]
  BY DEF FrameOK, Follows
<1> HIDE DEF o, p, k, a
<1>3. PICK i \in DOMAIN Body(o) : Node(Body(o)[i], Under(o, p, k)) \in Above[a]
  BY <1>1, <1>2 DEF Under
<1>4. Node(o, Append(p, k)) \in Above[a]
  BY <1>1, <1>2, <1>3, StagePath
<1> QED BY <1>2, <1>4 DEF ItemAt, o, p, k, a

\* A dispatch receives the cursor of the frame, or none.
LEMMA CursorIs == Cursor \in {Fr.cursor, NoNode}
BY DEF Cursor

\* The cursor is handed down, or dropped, and never changed.
LEMMA AimedSteps ==
  TreeInv /\ RecordTypes /\ Ordered /\ Aimed /\ [Next]_vars => Aimed'
<1> SUFFICES ASSUME TreeInv, RecordTypes, Ordered, Aimed, [Next]_vars
             PROVE  Aimed'
  OBVIOUS
<1>0. /\ Control /\ RecordKept /\ Fr = frames[Len(frames)] /\ Len(frames) \in 1 .. Len(frames) /\ FrameOK(Fr)
  <2>1. Control
    BY DEF TreeInv
  <2>2. Len(frames) \in Nat \ {0} /\ FrameOK(Fr)
    BY <2>1, Innermost
  <2> QED BY <2>1, <2>2, WriteSteps DEF Fr
<1>1. CASE \E a \in Nodes : Resume(a)
  <2>1. PICK a \in Nodes : Resume(a)
    BY <1>1
  <2>2. ResumeRequested(a) /\ ~Unreadable(a)
    BY <2>1 DEF Resume
  <2>3. InOrder(a)'
    BY <1>0, <2>2, ResumesInOrder, InOrderKept
  <2>4. from' = a
    BY <2>1, Restarted
  <2>5. InOrder(from)'
    BY <2>3, <2>4 DEF InOrder, ItemsBefore, IsRecorded
  <2>6. \A m \in Above[a] \ {a} : m \in StageNodes => Def[m.stage].type # "workflow"
    BY <2>2 DEF Unreadable
  <2>7. ASSUME NEW x \in 1 .. Len(frames') PROVE Heading(frames'[x], a)
    <3>1. Len(frames') = 1 /\ frames'[1] = Fr' /\ ~OfLoop(Fr') /\ Fr'.cursor = a
      BY <2>1, Restarted
    <3>2. x = 1
      BY <3>1
    <3> QED BY <3>1, <3>2 DEF Heading
  <2> QED BY <2>4, <2>5, <2>6, <2>7 DEF Aimed
<1>2. CASE pc' = "dead" /\ \E a \in Nodes : ResumeDies(a)
  <2>1. PICK a \in Nodes : ResumeDies(a)
    BY <1>2
  <2>2. ResumeRequested(a) /\ from' = a
    BY <2>1 DEF ResumeDies, ResumeRequested
  <2>3. InOrder(a)'
    BY <1>0, <2>2, ResumesInOrder, InOrderKept
  <2>4. InOrder(from)'
    BY <2>2, <2>3 DEF InOrder, ItemsBefore, IsRecorded
  <2>5. ~Alive'
    BY <1>2 DEF Alive
  <2> QED BY <2>2, <2>4, <2>5 DEF Aimed
<1>3. ASSUME from' = from, Alive' => Alive, ~\E a \in Nodes : Resume(a) PROVE Aimed'
  <2>1. PICK a \in Nodes \cup {NoNode} : a = from /\ a = from'
    BY <1>3 DEF Aimed
  <2>2. a # NoNode => InOrder(a)
    BY <2>1 DEF Aimed, InOrder
  <2>3. a # NoNode => InOrder(a)'
    BY <1>0, <2>2, InOrderKept
  <2>4. from' # NoNode => InOrder(from)'
    BY <2>1, <2>3 DEF InOrder, ItemsBefore, IsRecorded
  <2>5. ASSUME Alive' PROVE \A x \in 1 .. Len(frames') : Heading(frames'[x], a)
    <3>1. \A x \in 1 .. Len(frames) : Heading(frames[x], a)
      BY <1>3, <2>1, <2>5 DEF Aimed
    <3>2. Heading(Fr, a)
      BY <1>0, <3>1
    <3>3. CASE LowerKept /\ (SubWorkflowEnters \/ LoopEnters)
      <4>1. SubWorkflowEnters => Fr'.cursor = NoNode
        BY <1>0, Entered
      <4>2. LoopEnters => Fr'.cursor \in {Cursor, NoNode} /\ Fr'.attempt = 0
        BY <1>0, Entered
      <4>3. Heading(Fr', a)
        BY <3>2, <3>3, <4>1, <4>2, CursorIs DEF Heading
      <4> QED BY <3>1, <3>3, <4>3, FrameByFrame
    <3>4. CASE LowerKept /\ ItemReused
      <4>1. Fr'.cursor = Fr.cursor /\ Fr'.attempt = 0
        BY <1>0, <3>4, Went
      <4>2. Heading(Fr', a)
        BY <3>2, <4>1 DEF Heading
      <4> QED BY <3>1, <3>4, <4>2, FrameByFrame
    <3>5. CASE LowerKept /\ ItemStarts
      <4>1. /\ InLoop /\ ~Reused /\ Fr'.node = Fr.node /\ Fr'.item = Fr.item
            /\ Fr'.target = Fr.target /\ Fr'.cursor = Fr.cursor
        BY <1>0, <3>5, Went
      <4>2. Fr.cursor # NoNode /\ Fr.item < Fr.target => Reused
        <5>1. ASSUME Fr.cursor # NoNode, Fr.item < Fr.target PROVE Reused
          <6>1. Fr.cursor = a /\ InOrder(a)
            BY <2>2, <3>2, <5>1 DEF Heading
          <6>2. Fr.target \in 1 .. Loop.items /\ ItemAt(Fr, Fr.target) \in Above[a]
            BY <1>0, <4>1, <5>1, <6>1, TargetAbove DEF OfLoop, InLoop, Loop
          <6> QED BY <1>0, <4>1, <5>1, <6>1, <6>2, ReadBack
        <5> QED BY <5>1
      <4>3. Heading(Fr', a)
        BY <3>2, <4>1, <4>2 DEF Heading
      <4> QED BY <3>1, <3>5, <4>3, FrameByFrame
    <3>6. CASE Moves
      <4>1. Heading(Fr', a)
        <5>1. CASE Rests
          BY <3>1, <5>1 DEF Rests
        <5>2. CASE Passes
          BY <3>1, <5>2 DEF Passes, Heading, OfLoop
        <5>3. CASE Jumps
          BY <5>3 DEF Jumps, Heading
        <5>4. CASE Retries
          <6>1. Fr.attempt # 0
            BY <1>0, <5>4, FrameFields DEF Retries
          <6> QED BY <3>2, <5>4, <6>1 DEF Retries, Heading, OfLoop, InLoop
        <5>5. CASE EndsItem
          BY <3>2, <5>5 DEF EndsItem, Heading
        <5> QED BY <3>6, <5>1, <5>2, <5>3, <5>4, <5>5 DEF Moves
      <4> QED BY <3>1, <3>6, <4>1, FrameByFrame DEF Moves
    <3> QED BY <1>3, <3>3, <3>4, <3>5, <3>6, FrameSteps
  <2> QED BY <1>3, <2>1, <2>4, <2>5 DEF Aimed
<1> QED BY <1>1, <1>2, <1>3, FromSteps

\* Nothing is resumed yet.
LEMMA AimedStarts == Init => Aimed
<1> SUFFICES ASSUME Init PROVE Aimed
  OBVIOUS
<1>1. frames = <<Frame(RootNode, 1, 0, 1, 0, NoNode)>> /\ from = NoNode
  BY DEF Init, RootNode
<1>2. \A x \in 1 .. Len(frames) : frames[x].cursor = NoNode
  BY <1>1 DEF Frame
<1> QED BY <1>1, <1>2 DEF Aimed, Heading

-----------------------------------------------------------------------------
(* The registries of slots, and what is in them *)

\* The innermost frame writes to the innermost registry.
Leveled == Len(slots) = Level[Fr.node.stage]

\* The frame below the innermost one writes to the same registry, or to the one below.
LEMMA LevelBelow ==
  ASSUME NEW f, FrameOK(f), Runs(f), NEW s, s = CurOf(f).stage
  PROVE  Level[s] = Level[f.node.stage] + (IF Def[s].type = "workflow" THEN 1 ELSE 0)
<1>1. f.node.stage \in Stages /\ s = Body(f.node.stage)[f.at] /\ f.at \in DOMAIN Body(f.node.stage)
  BY FrameNode, CurNode
<1>2. s \in Stages \ {Root} /\ Owner[s] = f.node.stage
  BY <1>1, Owners
<1> QED BY <1>2, LevelRecursion

LEMMA InnerLevel ==
  ASSUME Control
  PROVE  /\ Level[Fr.node.stage] \in Nat \ {0}
         /\ Len(frames) > 1 =>
              LET s == Outer[Len(Outer)].node.stage IN
              Level[s] \in Nat \ {0} /\ Level[s] = Level[Fr.node.stage] - (IF InLoop THEN 0 ELSE 1)
<1>1. Stacked(frames) /\ Len(frames) \in Nat \ {0} /\ Fr = frames[Len(frames)] /\ FrameOK(Fr)
  BY Innermost DEF Control, Fr
<1>2. Len(frames) \in 1 .. Len(frames)
  BY <1>1
<1>3. Level[Fr.node.stage] \in Nat \ {0}
  BY <1>1, <1>2, LevelsRise
<1>4. ASSUME Len(frames) > 1
      PROVE  LET s == Outer[Len(Outer)].node.stage IN
             Level[s] \in Nat \ {0} /\ Level[s] = Level[Fr.node.stage] - (IF InLoop THEN 0 ELSE 1)
  <2> DEFINE f == Outer[Len(Outer)]
  <2>1. FrameOK(f) /\ Runs(f) /\ CurOf(f) = Fr.node
    BY <1>4, OuterFrames, TopOfStack
  <2>2. Level[f.node.stage] \in Nat \ {0}
    <3>1. Stacked(Outer) /\ Len(Outer) \in 1 .. Len(Outer)
      <4>1. Stacked(Outer)
        BY <1>4, OuterFrames
      <4>2. Len(Outer) \in Nat \ {0}
        BY <4>1, TopOfStack
      <4> QED BY <4>1, <4>2
    <3> QED BY <3>1, LevelsRise
  <2>3. Level[Fr.node.stage] = Level[f.node.stage] + (IF Def[Fr.node.stage].type = "workflow" THEN 1 ELSE 0)
    <3> HIDE DEF f
    <3>1. Fr.node.stage = CurOf(f).stage
      BY <2>1
    <3> QED BY <2>1, <3>1, LevelBelow
  <2>4. InLoop \/ Def[Fr.node.stage].type = "workflow"
    BY <1>1 DEF FrameOK, InLoop
  <2>5. InLoop => Def[Fr.node.stage].type # "workflow"
    BY DEF InLoop
  <2> HIDE DEF f
  <2>6. CASE InLoop
    BY <2>2, <2>3, <2>5, <2>6 DEF f
  <2>7. CASE ~InLoop
    BY <2>2, <2>3, <2>4, <2>7 DEF f
  <2> QED BY <2>6, <2>7
<1> QED BY <1>3, <1>4

\* Filling a slot.
LEMMA WithSlotIs ==
  ASSUME NEW regs \in Seq(Registries), Len(regs) > 0, NEW s, NEW v
  PROVE  LET r == WithSlot(regs, s, v) IN
         /\ Len(r) = Len(regs)
         /\ \A l \in 1 .. Len(regs) : \A t \in DOMAIN r[l] :
              (t \in DOMAIN regs[l] /\ r[l][t] = regs[l][t]) \/ r[l][t] = v
<1>1. CASE s = "none"
  <2>1. WithSlot(regs, s, v) = regs
    BY <1>1 DEF WithSlot
  <2> QED BY <2>1
<1>2. CASE s # "none"
  <2> DEFINE q == regs[Len(regs)]
             g == [x \in DOMAIN q \cup {s} |-> IF x = s THEN v ELSE q[x]]
             r == [regs EXCEPT ![Len(regs)] = g]
  <2>1. WithSlot(regs, s, v) = r
    BY <1>2 DEF WithSlot
  <2>2. \A t \in DOMAIN g : (t \in DOMAIN q /\ g[t] = q[t]) \/ g[t] = v
    OBVIOUS
  <2>3. q = regs[Len(regs)]
    OBVIOUS
  <2> HIDE DEF g, q
  <2>4. Len(r) = Len(regs) /\ r[Len(regs)] = g /\ \A l \in 1 .. Len(regs) : l # Len(regs) => r[l] = regs[l]
    OBVIOUS
  <2> HIDE DEF r
  <2>5. \A l \in 1 .. Len(regs) : \A t \in DOMAIN r[l] :
          (t \in DOMAIN regs[l] /\ r[l][t] = regs[l][t]) \/ r[l][t] = v
    BY <2>2, <2>3, <2>4
  <2> QED BY <2>1, <2>4, <2>5
<1> QED BY <1>1, <1>2

\* A slot that is as it was.
SlotKept(l, s) == l \in 1 .. Len(slots) /\ s \in DOMAIN slots[l] /\ slots'[l][s] = slots[l][s]

\* No slot is filled, or one is: with the stage that the innermost frame left is past.
Keeping == \A l \in 1 .. Len(slots') : \A s \in DOMAIN slots'[l] : SlotKept(l, s)
Filling(fs) ==
  /\ Stacked(fs) /\ Runs(fs[Len(fs)]) /\ frames' = Advance(fs)
  /\ \A x \in 1 .. Len(fs) : x \in 1 .. Len(frames) /\ fs[x] = frames[x]
  /\ \A l \in 1 .. Len(slots') : \A s \in DOMAIN slots'[l] :
       SlotKept(l, s) \/ slots'[l][s] = CurOf(fs[Len(fs)])

\* The frames, after the innermost one advances.
LEMMA Advanced ==
  ASSUME NEW fs, Stacked(fs), frames' = Advance(fs)
  PROVE  /\ Len(frames') = Len(fs) /\ Len(fs) \in Nat \ {0}
         /\ Fr'.node = fs[Len(fs)].node
         /\ \A x \in 1 .. Len(fs) : /\ frames'[x].node = fs[x].node /\ frames'[x].item = fs[x].item
                                    /\ frames'[x].attempt = fs[x].attempt
<1> DEFINE f == fs[Len(fs)]
           g == [f EXCEPT !.at = @ + 1,
                   !.cursor = IF Def[f.node.stage].type = "loop" /\ f.item # f.target THEN @ ELSE NoNode]
<1>1. fs \in Seq(FrameRecord) /\ Len(fs) \in Nat \ {0} /\ FrameOK(f)
  BY TopOfStack DEF Stacked
<1>2. g.node = f.node /\ g.item = f.item /\ g.attempt = f.attempt
  BY <1>1, FrameFields DEF FrameRecord
<1>3. frames' = [fs EXCEPT ![Len(fs)] = g]
  BY DEF Advance
<1> HIDE DEF g
<1>4. /\ Len(frames') = Len(fs) /\ frames'[Len(fs)] = g
      /\ \A x \in 1 .. Len(fs) : x # Len(fs) => frames'[x] = fs[x]
  BY <1>1, <1>3
<1> QED BY <1>1, <1>2, <1>4 DEF Fr

\* A step that ends an item, an attempt or a branch stays in the frame or leaves it.
LEMMA ItemEndsTop ==
  ASSUME Control, InLoop, NEW st, ItemEnds(st)
  PROVE  Fr'.node = Fr.node \/ frames' = Outer
<1>1. Fr \in FrameRecord
  BY InnerLoop
<1>2. ASSUME SetFrame([Fr EXCEPT !.item = @ + 1, !.attempt = 0, !.at = 1]) PROVE Fr'.node = Fr.node
  <2> DEFINE f == [Fr EXCEPT !.item = @ + 1, !.attempt = 0, !.at = 1]
  <2>1. f.node = Fr.node /\ frames' = [frames EXCEPT ![Len(frames)] = f]
    BY <1>1, <1>2 DEF FrameRecord, SetFrame
  <2> HIDE DEF f
  <2> QED BY <2>1, PutKeeps
<1> QED BY <1>2 DEF ItemEnds

LEMMA AttemptFailsTop ==
  ASSUME Control, InLoop, AttemptFails
  PROVE  Fr'.node = Fr.node \/ frames' = Outer
<1>1. Fr \in FrameRecord
  BY InnerLoop
<1>2. ASSUME SetFrame([Fr EXCEPT !.attempt = @ + 1, !.at = 1]) PROVE Fr'.node = Fr.node
  <2> DEFINE f == [Fr EXCEPT !.attempt = @ + 1, !.at = 1]
  <2>1. f.node = Fr.node /\ frames' = [frames EXCEPT ![Len(frames)] = f]
    BY <1>1, <1>2 DEF FrameRecord, SetFrame
  <2> HIDE DEF f
  <2> QED BY <2>1, PutKeeps
<1> QED BY <1>2, ItemEndsTop DEF AttemptFails

LEMMA BranchTop ==
  ASSUME TreeInv, NEW holds \in BOOLEAN, BranchJumps(holds)
  PROVE  Fr'.node = Fr.node
<1>1. /\ Control /\ Stacked(frames) /\ Fr = frames[Len(frames)]
      /\ frames' = Advance(frames) \/ frames' = JumpTo(Target(holds))
  BY Innermost DEF BranchJumps, TreeInv, Control, Fr
<1>2. CASE frames' = Advance(frames)
  BY <1>1, <1>2, Advanced
<1>3. CASE frames' = JumpTo(Target(holds))
  <2> DEFINE i == Index(Body(Fr.node.stage), Target(holds))
             f == [Fr EXCEPT !.at = @ + 1,
                     !.cursor = IF Def[Fr.node.stage].type = "loop" /\ Fr.item # Fr.target THEN @ ELSE NoNode]
             g == [f EXCEPT !.at = i]
  <2>1. Advance(frames) = [frames EXCEPT ![Len(frames)] = f]
    BY <1>1 DEF Advance
  <2>2. g.node = Fr.node
    BY <1>1, TopOfStack, FrameFields DEF FrameRecord
  <2>3. frames' = [Advance(frames) EXCEPT ![Len(frames)].at = i]
    BY <1>3 DEF JumpTo
  <2> HIDE DEF f, i
  <2>4. frames \in Seq(FrameRecord) /\ Len(frames) \in Nat \ {0}
    BY <1>1, TopOfStack DEF Stacked
  <2>5. frames' = [frames EXCEPT ![Len(frames)] = g]
    BY <2>1, <2>3, <2>4
  <2> HIDE DEF g
  <2> QED BY <1>1, <2>2, <2>5, PutKeeps
<1> QED BY <1>1, <1>2, <1>3

\* A step that leaves the slots alone, as those in the frame or below do.
LEMMA SameSlots ==
  ASSUME Control, Leveled, slots' = slots,
         Fr'.node = Fr.node \/ (InLoop /\ Len(frames) > 1 /\ Fr'.node = Outer[Len(Outer)].node)
  PROVE  Leveled' /\ Keeping
<1>1. Level[Fr'.node.stage] = Level[Fr.node.stage]
  BY InnerLevel
<1>2. Leveled'
  BY <1>1 DEF Leveled
<1>3. Keeping
  BY DEF Keeping, SlotKept
<1> QED BY <1>2, <1>3

LEMMA FilledSlots ==
  ASSUME TreeInv, SlotTypes, Leveled, NEW s, NEW fs, Stacked(fs), Runs(fs[Len(fs)]), frames' = Advance(fs),
         \A x \in 1 .. Len(fs) : x \in 1 .. Len(frames) /\ fs[x] = frames[x],
         NEW regs, regs \in Seq(Registries), Len(regs) = Level[fs[Len(fs)].node.stage],
         Len(regs) <= Len(slots), \A l \in 1 .. Len(regs) : regs[l] = slots[l],
         slots' = WithSlot(regs, s, CurOf(fs[Len(fs)]))
  PROVE  Leveled' /\ Filling(fs)
<1> DEFINE v == CurOf(fs[Len(fs)])
           r == WithSlot(regs, s, v)
<1>1. Len(regs) \in Nat \ {0} /\ Len(slots) \in Nat
  <2>1. Len(fs) \in 1 .. Len(fs)
    <3>1. Len(fs) \in Nat \ {0}
      BY TopOfStack
    <3> QED BY <3>1
  <2>2. Level[fs[Len(fs)].node.stage] \in Nat \ {0}
    BY <2>1, LevelsRise
  <2> QED BY <2>2 DEF SlotTypes
<1>2. /\ Len(r) = Len(regs)
      /\ \A l \in 1 .. Len(regs) : \A t \in DOMAIN r[l] :
           (t \in DOMAIN regs[l] /\ r[l][t] = regs[l][t]) \/ r[l][t] = v
  <2> HIDE DEF v
  <2> QED BY <1>1, WithSlotIs
<1>3. slots' = r
  OBVIOUS
<1> HIDE DEF v, r
<1>4. \A l \in 1 .. Len(regs) : l \in 1 .. Len(slots)
  BY <1>1
<1>5. \A l \in 1 .. Len(slots') : \A t \in DOMAIN slots'[l] : SlotKept(l, t) \/ slots'[l][t] = v
  BY <1>2, <1>3, <1>4 DEF SlotKept
<1>6. Filling(fs)
  BY <1>5 DEF Filling, v
<1>7. Leveled'
  <2>1. Fr'.node = fs[Len(fs)].node
    BY Advanced
  <2> QED BY <1>2, <1>3, <2>1 DEF Leveled
<1> QED BY <1>6, <1>7

\* The registries follow the frames, and what is new in one is what the run is just past.
LEMMA SlotChanges ==
  TreeInv /\ SlotTypes /\ Leveled /\ [Next]_vars =>
    Leveled' /\ ((\E a \in Nodes : Resume(a)) \/ Keeping \/ \E fs : Filling(fs))
<1> SUFFICES ASSUME TreeInv, SlotTypes, Leveled, [Next]_vars
             PROVE  Leveled' /\ ((\E a \in Nodes : Resume(a)) \/ Keeping \/ \E fs : Filling(fs))
  OBVIOUS
<1>0. /\ Control /\ Stacked(frames) /\ Fr = frames[Len(frames)] /\ FrameOK(Fr)
      /\ slots \in Seq(Registries) /\ Len(slots) \in Nat /\ Len(slots) = Level[Fr.node.stage]
      /\ Level[Fr.node.stage] \in Nat \ {0}
  <2>1. Control
    BY DEF TreeInv
  <2>2. Stacked(frames) /\ Fr = frames[Len(frames)] /\ FrameOK(Fr) /\ Level[Fr.node.stage] \in Nat \ {0}
    BY <2>1, Innermost, InnerLevel DEF Control, Fr
  <2> QED BY <2>1, <2>2 DEF SlotTypes, Leveled
<1>1. CASE SubWorkflowEnters
  <2>1. Fr'.node = Cur /\ Runs(Fr) /\ Def[Cur.stage].type = "workflow"
    BY <1>0, <1>1, Entered
  <2>2. Level[Cur.stage] = Level[Fr.node.stage] + 1
    BY <1>0, <2>1, CurIs, LevelBelow
  <2> DEFINE e == [s \in {} |-> NoNode]
  <2>3. slots' = Append(slots, e) /\ DOMAIN e = {}
    BY <1>1 DEF SubWorkflowEnters
  <2> HIDE DEF e
  <2>4. /\ Len(slots') = Len(slots) + 1
        /\ \A l \in 1 .. Len(slots') : (l \in 1 .. Len(slots) /\ slots'[l] = slots[l]) \/ slots'[l] = e
    BY <1>0, <2>3
  <2>5. Leveled'
    BY <1>0, <2>1, <2>2, <2>4 DEF Leveled
  <2>6. Keeping
    BY <2>3, <2>4 DEF Keeping, SlotKept
  <2> QED BY <2>5, <2>6
<1>2. CASE LoopEnters
  <2>1. Fr'.node = Cur /\ Runs(Fr) /\ Def[Cur.stage].type = "loop"
    BY <1>0, <1>2, Entered
  <2>2. Level[Cur.stage] = Level[Fr.node.stage]
    BY <1>0, <2>1, CurIs, LevelBelow
  <2>3. slots' = slots
    BY <1>2 DEF LoopEnters
  <2> QED BY <2>1, <2>2, <2>3 DEF Leveled, Keeping, SlotKept
<1>3. CASE ItemReused
  <2>1. Fr'.node = Fr.node /\ slots' = slots
    BY <1>0, <1>3, Went DEF ItemReused
  <2> QED BY <1>0, <2>1, SameSlots
<1>4. CASE ItemStarts
  <2>1. Fr'.node = Fr.node
    BY <1>0, <1>4, Went
  <2>2. CASE slots' = slots
    BY <1>0, <2>1, <2>2, SameSlots
  <2>3. CASE slots' # slots
    <3> DEFINE cleared == {Body(Fr.node.stage)[i] : i \in DOMAIN Body(Fr.node.stage)}
               g == [x \in DOMAIN Slots \ cleared |-> Slots[x]]
    <3>1. slots' = [slots EXCEPT ![Len(slots)] = g]
      BY <1>4, <2>3 DEF ItemStarts
    <3>2. \A t \in DOMAIN g : t \in DOMAIN slots[Len(slots)] /\ g[t] = slots[Len(slots)][t]
      BY DEF Slots
    <3> HIDE DEF g
    <3>3. /\ Len(slots') = Len(slots) /\ slots'[Len(slots)] = g
          /\ \A l \in 1 .. Len(slots) : l # Len(slots) => slots'[l] = slots[l]
      BY <1>0, <3>1
    <3>4. Leveled'
      BY <2>1, <3>3 DEF Leveled
    <3>5. Keeping
      BY <3>2, <3>3 DEF Keeping, SlotKept
    <3> QED BY <3>4, <3>5
  <2> QED BY <2>2, <2>3
<1>5. CASE \E a \in Nodes : Resume(a)
  <2>1. PICK a \in Nodes : Resume(a)
    BY <1>5
  <2>2. slots' = <<Reconstructed(a)>> /\ Fr'.node = RootNode
    BY <2>1, Restarted
  <2>3. Len(slots') = 1 /\ Fr'.node.stage = Root
    BY <2>2, NodeFields DEF RootNode
  <2> QED BY <1>5, <2>3, LevelRecursion DEF Leveled
<1>6. CASE StageSkipped \/ RespondReturns \/ \E holds \in BOOLEAN : BranchJumps(holds)
  <2>1. slots' = slots /\ Fr'.node = Fr.node
    BY <1>0, <1>6, Advanced, BranchTop DEF StageSkipped, RespondReturns, BranchJumps, BranchTaken
  <2> QED BY <1>0, <2>1, SameSlots
<1>7. CASE LeafReturns
  <2>1. Runs(Fr) /\ slots' = WithSlot(slots, Def[Cur.stage].out, Cur) /\ frames' = Advance(frames)
    BY <1>0, <1>7 DEF LeafReturns, Resumed, Control
  <2>2. Cur = CurOf(frames[Len(frames)]) /\ Runs(frames[Len(frames)])
    BY <1>0, <2>1, CurIs
  <2>3. slots' = WithSlot(slots, Def[Cur.stage].out, CurOf(frames[Len(frames)]))
    BY <2>1, <2>2
  <2>4. /\ Len(slots) <= Len(slots) /\ \A l \in 1 .. Len(slots) : slots[l] = slots[l]
        /\ \A x \in 1 .. Len(frames) : x \in 1 .. Len(frames) /\ frames[x] = frames[x]
        /\ Len(slots) = Level[frames[Len(frames)].node.stage]
    BY <1>0
  <2>5. Leveled' /\ Filling(frames)
    BY <1>0, <2>1, <2>2, <2>3, <2>4, FilledSlots
  <2> QED BY <2>5
<1>8. CASE LoopReturns
  <2>1. InLoop /\ Len(frames) > 1 /\ frames' = Advance(Outer)
    BY <1>0, <1>8, InnerLoop DEF LoopReturns, BetweenItems, Leaves
  <2>2. PICK s : slots' = WithSlot(slots, s, Fr.node)
    BY <1>8 DEF LoopReturns
  <2>3. /\ Stacked(Outer) /\ Runs(Outer[Len(Outer)]) /\ CurOf(Outer[Len(Outer)]) = Fr.node
        /\ \A x \in 1 .. Len(Outer) : x \in 1 .. Len(frames) /\ Outer[x] = frames[x]
        /\ Len(slots) = Level[Outer[Len(Outer)].node.stage]
    BY <1>0, <2>1, OuterFrames, InnerLevel
  <2>4. slots' = WithSlot(slots, s, CurOf(Outer[Len(Outer)]))
    BY <2>2, <2>3
  <2>5. Len(slots) <= Len(slots) /\ \A l \in 1 .. Len(slots) : slots[l] = slots[l]
    BY <1>0
  <2>6. Leveled' /\ Filling(Outer)
    BY <1>0, <2>1, <2>3, <2>4, <2>5, FilledSlots
  <2> QED BY <2>6
<1>9. ASSUME ~InLoop, Len(frames) > 1
      PROVE  /\ Front(slots) \in Seq(Registries) /\ Len(Front(slots)) = Level[Outer[Len(Outer)].node.stage]
             /\ Len(Front(slots)) <= Len(slots)
             /\ \A l \in 1 .. Len(Front(slots)) : l \in 1 .. Len(slots) /\ Front(slots)[l] = slots[l]
  <2>1. Level[Outer[Len(Outer)].node.stage] = Len(slots) - 1 /\ Len(slots) - 1 \in Nat
    BY <1>0, <1>9, InnerLevel
  <2>2. /\ Len(Front(slots)) = Len(slots) - 1
        /\ \A l \in 1 .. Len(slots) - 1 : l \in 1 .. Len(slots) /\ Front(slots)[l] = slots[l]
    BY <1>0, <2>1 DEF Front
  <2> QED BY <1>0, <2>1, <2>2, FrontTypes
<1>10. CASE SubWorkflowReturns
  <2>1. ~InLoop /\ Len(frames) > 1 /\ frames' = Advance(Outer)
    BY <1>10 DEF SubWorkflowReturns, InSub, Leaves
  <2>2. PICK s : slots' = WithSlot(Front(slots), s, Fr.node)
    BY <1>10 DEF SubWorkflowReturns
  <2>3. /\ Stacked(Outer) /\ Runs(Outer[Len(Outer)]) /\ CurOf(Outer[Len(Outer)]) = Fr.node
        /\ \A x \in 1 .. Len(Outer) : x \in 1 .. Len(frames) /\ Outer[x] = frames[x]
    BY <1>0, <2>1, OuterFrames
  <2> DEFINE regs == Front(slots)
  <2>4. /\ regs \in Seq(Registries) /\ Len(regs) = Level[Outer[Len(Outer)].node.stage]
        /\ Len(regs) <= Len(slots) /\ \A l \in 1 .. Len(regs) : regs[l] = slots[l]
    BY <1>9, <2>1
  <2>5. slots' = WithSlot(regs, s, CurOf(Outer[Len(Outer)]))
    BY <2>2, <2>3
  <2> HIDE DEF regs
  <2>6. Leveled' /\ Filling(Outer)
    BY <2>1, <2>3, <2>4, <2>5, FilledSlots
  <2> QED BY <2>6
<1>11. CASE SubWorkflowRaises
  <2>1. ~InLoop /\ Len(frames) > 1 /\ frames' = Outer /\ slots' = Front(slots)
    BY <1>11 DEF SubWorkflowRaises, InSub, Leaves
  <2>2. Fr' = Outer[Len(Outer)]
    BY <2>1 DEF Fr
  <2>3. Leveled'
    BY <1>9, <2>1, <2>2 DEF Leveled
  <2>4. Keeping
    BY <1>9, <2>1 DEF Keeping, SlotKept
  <2> QED BY <2>3, <2>4
<1>12. CASE LoopAborted
  <2>1. InLoop /\ Len(frames) > 1 /\ frames' = Outer /\ slots' = slots
    BY <1>0, <1>12, InnerLoop DEF LoopAborted, Leaves
  <2>2. Fr' = Outer[Len(Outer)]
    BY <2>1 DEF Fr
  <2> QED BY <1>0, <2>1, <2>2, SameSlots
<1>13. CASE ExitHolds \/ ExitDoesNotHold \/ InnerStageFailed \/ ItemCancelled
  <2>1. InLoop /\ slots' = slots /\ (AttemptFails \/ \E st : ItemEnds(st))
    BY <1>13 DEF ExitHolds, ExitDoesNotHold, AttemptEnds, InnerStageFailed, ItemCancelled
  <2>2. Len(frames) > 1
    BY <1>0, <2>1, InnerLoop
  <2>3. Fr'.node = Fr.node \/ frames' = Outer
    BY <1>0, <2>1, ItemEndsTop, AttemptFailsTop
  <2>4. frames' = Outer => Fr' = Outer[Len(Outer)]
    BY DEF Fr
  <2> QED BY <1>0, <2>1, <2>2, <2>3, <2>4, SameSlots
<1>14. CASE \/ GateRaises \/ LeafEnters \/ BranchRaises \/ (\E holds \in BOOLEAN : BranchMisses(holds))
            \/ LeafFails \/ LeafCancelled \/ ExitRaises \/ RunReturns \/ RunRaises
  <2>1. frames' = frames /\ slots' = slots
    BY <1>14 DEF GateRaises, LeafEnters, BranchRaises, BranchMisses, BranchTaken, LeafFails, LeafCancelled,
       ExitRaises, AttemptEnds, RunReturns, RunRaises, Ends
  <2>2. Fr' = Fr
    BY <2>1 DEF Fr
  <2> QED BY <1>0, <2>1, <2>2, SameSlots
<1>15. CASE ClientAborts \/ (\E a \in Nodes : ResumeDies(a)) \/ Idle \/ UNCHANGED vars
  <2>1. frames' = frames /\ slots' = slots
    BY <1>15 DEF ClientAborts, ResumeDies, Idle, vars, engineVars
  <2>2. Fr' = Fr
    BY <2>1 DEF Fr
  <2> QED BY <1>0, <2>1, <2>2, SameSlots
<1> QED BY <1>1, <1>2, <1>3, <1>4, <1>5, <1>6, <1>7, <1>8, <1>10, <1>11, <1>12, <1>13, <1>14, <1>15
        DEF Next, Engine, User

\* What a slot holds was produced within the item m, if anything.
Names(s) == {Body(s)[i] : i \in DOMAIN Body(s)}
UnderItem(v, m) == Len(m.items) <= Len(v.items) /\ SubSeq(v.items, 1, Len(m.items)) = m.items
OwnValue(v, m) == v = NoNode \/ UnderItem(v, m)
OwnIn(r, m) == \A s \in Names(m.stage) \cap DOMAIN r : OwnValue(r[s], m)

\* What is read back, for the items that a resumption goes on in, is theirs: a stage before
\* the one that is resumed, in the same list, runs under the same item numbers.
LEMMA ReconstructedOwn ==
  ASSUME OwnNames, RecordTypes, NEW a \in Nodes, NEW m \in Above[a], m \in ItemNodes
  PROVE  OwnIn(Reconstructed(a), m)
<1> SUFFICES ASSUME NEW s \in Names(m.stage), s \in DOMAIN Reconstructed(a), Reconstructed(a)[s] # NoNode
             PROVE  UnderItem(Reconstructed(a)[s], m)
  BY DEF OwnIn, OwnValue
<1>1. PICK p \in Replayed(a) : SlotOf(p) = s /\ Reconstructed(a)[s] = p
  BY LastWriter
<1>2. PICK n \in Above[a] \cap StageNodes : Parent(p) = Parent(n)
  BY DEF Replayed
<1>3. p \in StageNodes /\ n \in StageNodes /\ n \in Nodes
  BY SeenIs DEF Replayed, Nodes
<1>4. Owner[p.stage] = Owner[n.stage] /\ p.items = n.items
  <2> DEFINE x == Node(Owner[p.stage], p.items)
             y == Node(Owner[n.stage], n.items)
  <2>1. p \notin ItemNodes /\ n \notin ItemNodes
    BY <1>3, LoopItem
  <2>2. x = y
    BY <1>2, <2>1 DEF Parent
  <2>3. x.stage = Owner[p.stage] /\ x.items = p.items /\ y.stage = Owner[n.stage] /\ y.items = n.items
    BY NodeFields
  <2> HIDE DEF x, y
  <2> QED BY <2>2, <2>3
<1>5. /\ p.stage \in Stages \ {Root} /\ n.stage \in Stages \ {Root} /\ n.items \in Places[n.stage]
      /\ n.items \in Seq(Nat) /\ m \in Nodes /\ m.stage \in Stages /\ Def[m.stage].type = "loop"
      /\ s \in Stages \ {Root} /\ Owner[s] = m.stage
  <2>1. m \in Nodes /\ m.stage \in Stages /\ Def[m.stage].type = "loop"
    BY LoopItem DEF Nodes
  <2>2. s \in Stages \ {Root} /\ Owner[s] = m.stage
    BY <2>1, Owners DEF Names
  <2> QED BY <1>3, <2>1, <2>2, StageNode
<1>6. m.stage \in Around[Owner[n.stage]]
  <2>1. SlotOf(Node(p.stage, <<>>)) = s
    <3> DEFINE b == Node(p.stage, <<>>)
    <3>1. b.stage = p.stage
      BY NodeFields
    <3> HIDE DEF b
    <3>2. SlotOf(b) = SlotOf(p)
      BY <3>1 DEF SlotOf
    <3> QED BY <1>1, <3>2 DEF b
  <2> QED BY <1>4, <1>5, <2>1 DEF OwnNames
<1>7. m.stage \in Around[n.stage] /\ m.stage # n.stage
  <2>1. Around[n.stage] = {n.stage} \cup Around[Owner[n.stage]] /\ n.stage \notin Around[Owner[n.stage]]
    BY <1>5, AroundRecursion, NotAroundItself
  <2> QED BY <1>6, <2>1
<1>8. PICK r \in Places[m.stage], j \in 1 .. Def[m.stage].items : m = Node(m.stage, Append(r, j))
  BY LoopItem
<1>9. m.items = Append(r, j)
  <2>1. Node(m.stage, Append(r, j)).items = Append(r, j)
    BY NodeFields
  <2> QED BY <1>8, <2>1
<1>10. Len(r) + 1 <= Len(n.items) /\ r \in Seq(Nat) /\ Len(r) \in Nat /\ Len(n.items) \in Nat
  BY <1>5, <1>7, Deeper
<1>11. Len(m.items) = Len(r) + 1
  BY <1>9, <1>10
<1>12. /\ a.items \in Seq(Nat) /\ Len(n.items) \in 0 .. Len(a.items) /\ Len(m.items) \in 0 .. Len(n.items)
       /\ n.items = SubSeq(a.items, 1, Len(n.items)) /\ m.items = SubSeq(a.items, 1, Len(m.items))
  <2>1. a.items \in Seq(Nat) /\ Len(a.items) \in Nat
    BY Places1
  <2>2. Len(n.items) <= Len(a.items) /\ n.items = SubSeq(a.items, 1, Len(n.items))
    BY <1>2, AboveIs
  <2>3. m.items = SubSeq(a.items, 1, Len(m.items))
    BY AboveIs
  <2> QED BY <1>10, <1>11, <2>1, <2>2, <2>3
<1>13. SubSeq(n.items, 1, Len(m.items)) = m.items /\ Len(m.items) <= Len(n.items)
  BY <1>10, <1>11, <1>12, PrefixOfPrefix
<1> QED BY <1>1, <1>4, <1>13 DEF UnderItem

\* The run goes down to where the resumption started, and no stage has been run yet.
Descending(f) ==
  /\ f.cursor # NoNode
  /\ OfLoop(f) => f.item < f.target \/ (f.item = f.target /\ f.attempt <= 1)
Descends == pc = "go" /\ Descending(Fr)

\* On the way down, the slots are those that were read back.
Restored == Descends => Len(slots) = 1 /\ \A m \in Above[from] : m \in ItemNodes => OwnIn(slots[1], m)

\* The slots are written by stages only, and no stage runs on the way down.
LEMMA RestoredSteps ==
  OwnNames /\ TreeInv /\ RecordTypes /\ Ordered /\ Aimed /\ Restored /\ [Next]_vars => Restored'
<1> SUFFICES ASSUME OwnNames, TreeInv, RecordTypes, Ordered, Aimed, Restored, [Next]_vars, Descends'
             PROVE  Len(slots') = 1 /\ \A m \in Above[from'] : m \in ItemNodes => OwnIn(slots'[1], m)
  BY DEF Restored
<1>0. Control /\ FrameOK(Fr) /\ pc' = "go" /\ Descending(Fr') /\ Fr.item \in Nat /\ Fr.target \in Nat
  <2>1. Control /\ pc' = "go" /\ Descending(Fr')
    BY DEF TreeInv, Descends
  <2>2. FrameOK(Fr)
    BY <2>1, Innermost
  <2> QED BY <2>1, <2>2, FrameFields
<1>1. CASE \E a \in Nodes : Resume(a)
  <2>1. PICK a \in Nodes : Resume(a)
    BY <1>1
  <2>2. from' = a /\ slots' = <<Reconstructed(a)>>
    BY <2>1, Restarted
  <2>3. \A m \in Above[a] : m \in ItemNodes => OwnIn(Reconstructed(a), m)
    BY ReconstructedOwn
  <2>4. Len(slots') = 1 /\ slots'[1] = Reconstructed(a)
    BY <2>2
  <2> QED BY <2>2, <2>3, <2>4
<1>2. CASE ~\E a \in Nodes : Resume(a)
  <2>1. from' = from /\ Alive
    BY <1>0, <1>2, FromSteps DEF Alive
  <2>2. \A x \in 1 .. Len(frames) : Heading(frames[x], from)
    BY <2>1 DEF Aimed
  <2>3. Fr = frames[Len(frames)] /\ Len(frames) \in 1 .. Len(frames)
    <3>1. Len(frames) \in Nat \ {0}
      BY <1>0, Innermost
    <3> QED BY <3>1 DEF Fr
  <2>4. Heading(Fr, from)
    BY <2>2, <2>3
  <2>5. ASSUME pc = "go", Descending(Fr), slots' = slots
        PROVE  Len(slots') = 1 /\ \A m \in Above[from'] : m \in ItemNodes => OwnIn(slots'[1], m)
    BY <2>1, <2>5 DEF Restored, Descends
  <2>6. CASE SubWorkflowEnters
    BY <1>0, <2>6, Entered DEF Descending
  <2>7. CASE LoopEnters
    <3>1. pc = "go" /\ slots' = slots /\ Cursor # NoNode
      BY <1>0, <2>7, Entered DEF Descending, LoopEnters
    <3>2. Descending(Fr)
      BY <3>1 DEF Cursor, Descending, InLoop, OfLoop
    <3> QED BY <2>5, <3>1, <3>2
  <2>8. CASE ItemReused
    <3>1. /\ pc = "go" /\ slots' = slots /\ InLoop /\ Fr'.node = Fr.node /\ Fr'.item = Fr.item + 1
          /\ Fr'.target = Fr.target /\ Fr'.cursor = Fr.cursor
      BY <1>0, <2>8, Went DEF ItemReused
    <3>2. Descending(Fr)
      BY <1>0, <3>1 DEF Descending, OfLoop, InLoop
    <3> QED BY <2>5, <3>1, <3>2
  <2>9. CASE ItemStarts
    <3>1. /\ pc = "go" /\ InLoop /\ ~Reused /\ Fr'.node = Fr.node /\ Fr'.item = Fr.item /\ Fr.attempt = 0
          /\ Fr'.target = Fr.target /\ Fr'.cursor = Fr.cursor
      BY <1>0, <2>9, Went
    <3>2. Fr.cursor # NoNode /\ Fr.cursor = from /\ from # NoNode /\ OfLoop(Fr)
      BY <1>0, <2>4, <3>1 DEF Descending, Heading, OfLoop, InLoop
    <3>3. ~(Fr.item < Fr.target)
      <4>1. InOrder(from)
        BY <3>2 DEF Aimed
      <4>2. Fr.target \in 1 .. Loop.items /\ ItemAt(Fr, Fr.target) \in Above[from]
        BY <1>0, <3>2, TargetAbove DEF Loop
      <4>3. PICK a : a = from /\ InOrder(a)
        BY <4>1 DEF InOrder
      <4> QED BY <1>0, <3>1, <4>2, <4>3, ReadBack
    <3>4. Fr.item = Fr.target
      BY <1>0, <3>1, <3>2, <3>3 DEF Descending, OfLoop
    <3>5. slots' = slots
      BY <2>9, <3>2, <3>4 DEF ItemStarts
    <3>6. Descending(Fr)
      BY <3>1, <3>2, <3>4 DEF Descending
    <3> QED BY <2>5, <3>1, <3>5, <3>6
  <2>10. CASE Moves
    <3>1. CASE Rests
      <4>1. pc = "go" /\ frames' = frames /\ slots' = slots
        BY <1>0, <3>1 DEF Rests
      <4>2. Fr' = Fr
        BY <4>1 DEF Fr
      <4> QED BY <1>0, <2>5, <4>1, <4>2
    <3>2. CASE Passes
      <4>1. PICK x \in 1 .. Len(frames) :
              /\ Runs(frames[x]) /\ Fr'.node = frames[x].node /\ Fr'.item = frames[x].item
              /\ Fr'.target = frames[x].target /\ Fr'.attempt = frames[x].attempt
              /\ Fr'.cursor = IF OfLoop(frames[x]) /\ frames[x].item # frames[x].target
                              THEN frames[x].cursor ELSE NoNode
        BY <3>2 DEF Passes
      <4>2. frames[x].attempt > 0 /\ FrameOK(frames[x])
        BY <1>0, <4>1 DEF Runs, Control, Stacked
      <4>3. frames[x].attempt # 0
        BY <4>2, FrameFields
      <4>4. OfLoop(frames[x]) /\ frames[x].cursor # NoNode /\ frames[x].item < frames[x].target
        BY <1>0, <4>1 DEF Descending, OfLoop
      <4>5. FALSE
        BY <2>2, <4>3, <4>4 DEF Heading
      <4> QED BY <4>5
    <3>3. CASE Jumps
      BY <1>0, <3>3 DEF Jumps, Descending
    <3>4. CASE Retries \/ EndsItem
      <4>1. Fr.attempt # 0 /\ Fr.attempt \in Nat
        BY <1>0, <3>4, FrameFields DEF Retries, EndsItem
      <4>2. OfLoop(Fr) /\ Fr.cursor # NoNode /\ Fr.item < Fr.target
        BY <1>0, <3>4, <4>1 DEF Retries, EndsItem, Descending, OfLoop, InLoop
      <4>3. FALSE
        BY <2>4, <4>1, <4>2 DEF Heading
      <4> QED BY <4>3
    <3> QED BY <2>10, <3>1, <3>2, <3>3, <3>4 DEF Moves
  <2> QED BY <1>2, <2>6, <2>7, <2>8, <2>9, <2>10, FrameSteps
<1> QED BY <1>1, <1>2

\* Nothing is resumed yet, so nothing has been read back.
LEMMA RestoredStarts == Init => Restored
<1> SUFFICES ASSUME Init PROVE ~Descends
  BY DEF Restored
<1>1. frames = <<Frame(RootNode, 1, 0, 1, 0, NoNode)>>
  BY DEF Init, RootNode
<1>2. Fr.cursor = NoNode
  BY <1>1 DEF Frame, Fr
<1> QED BY <1>2 DEF Descends, Descending

-----------------------------------------------------------------------------
(* The results of an item are its own *)

\* In the registry of a loop under way, what its stages left was produced within its item.
CleanIn(regs, f) == OfLoop(f) /\ f.attempt > 0 => OwnIn(regs[Level[f.node.stage]], ItemAt(f, f.item))
Clean == \A x \in 1 .. Len(frames) : CleanIn(slots, frames[x])

\* An address is within the items above it.
LEMMA AboveOwn ==
  ASSUME NEW n \in Nodes, NEW m \in Above[n]
  PROVE  OwnValue(n, m)
<1>1. Len(m.items) <= Len(n.items) /\ m.items = SubSeq(n.items, 1, Len(m.items))
  BY AboveIs
<1> QED BY <1>1 DEF OwnValue, UnderItem

\* Slots that stay, or get what was just produced in the same item, leave a frame clean.
LEMMA CleanKept ==
  ASSUME NEW f, CleanIn(slots, f), NEW g, g.node = f.node, g.item = f.item, g.attempt = f.attempt,
         Level[g.node.stage] \in 1 .. Len(slots'), NEW v,
         OfLoop(f) /\ f.attempt > 0 => OwnValue(v, ItemAt(f, f.item)),
         \A l \in 1 .. Len(slots') : \A s \in DOMAIN slots'[l] : SlotKept(l, s) \/ slots'[l][s] = v
  PROVE  CleanIn(slots', g)
<1> DEFINE m == ItemAt(f, f.item)
           l == Level[g.node.stage]
<1> SUFFICES ASSUME OfLoop(f), f.attempt > 0, NEW s \in Names(m.stage), s \in DOMAIN slots'[l]
             PROVE  OwnValue(slots'[l][s], m)
  BY DEF CleanIn, OwnIn, OfLoop, ItemAt
<1>1. l = Level[f.node.stage] /\ l \in 1 .. Len(slots')
  OBVIOUS
<1>2. OwnIn(slots[l], m) /\ OwnValue(v, m)
  BY DEF CleanIn
<1> HIDE DEF l, m
<1>3. CASE SlotKept(l, s)
  BY <1>2, <1>3 DEF SlotKept, OwnIn
<1>4. CASE slots'[l][s] = v
  BY <1>2, <1>4
<1> QED BY <1>1, <1>3, <1>4

\* An item that starts has no slot of its stages, or those that were read back for it.
LEMMA StartsClean ==
  ASSUME TreeInv, Leveled, Leveled', SlotTypes, Aimed, from' = from, Restored', ItemStarts
  PROVE  CleanIn(slots', Fr')
<1>1. /\ pc = "go" /\ pc' = "go" /\ InLoop /\ Fr'.node = Fr.node /\ Fr'.item = Fr.item /\ Fr'.attempt = 1
      /\ Fr'.target = Fr.target /\ Fr'.cursor = Fr.cursor /\ Control
  BY Went DEF TreeInv
<1>2. /\ Level[Fr.node.stage] = Len(slots') /\ Level[Fr.node.stage] = Len(slots)
      /\ Level[Fr.node.stage] \in Nat \ {0} /\ FrameOK(Fr) /\ OfLoop(Fr)
      /\ Fr = frames[Len(frames)] /\ Len(frames) \in 1 .. Len(frames)
  <2>1. Len(frames) \in Nat \ {0} /\ FrameOK(Fr)
    BY <1>1, Innermost
  <2>2. Len(frames) \in 1 .. Len(frames)
    BY <2>1
  <2> QED BY <1>1, <2>1, <2>2, InnerLevel DEF Leveled, Fr, OfLoop, InLoop
<1> DEFINE m == ItemAt(Fr, Fr.item)
<1>3. SUFFICES OwnIn(slots'[Len(slots')], m)
  BY <1>1, <1>2 DEF CleanIn, ItemAt
<1>4. CASE Fr.cursor # NoNode /\ Fr.item = Fr.target
  <2>1. Heading(Fr, from)
    BY <1>1, <1>2 DEF Aimed, Alive
  <2>2. Fr.cursor = from /\ m \in Above[from]
    BY <1>2, <1>4, <2>1, TargetAbove DEF Heading
  <2>3. m \in ItemNodes
    <3>1. Fr.item <= Loop.items
      BY DEF ItemStarts
    <3> QED BY <1>1, <3>1, ItemNodeIs DEF ItemNode, ItemAt
  <2>4. Descends'
    <3>1. Descending(Fr')
      BY <1>1, <1>4 DEF Descending
    <3> QED BY <1>1, <3>1 DEF Descends
  <2>5. Len(slots') = 1 /\ \A n \in Above[from'] : n \in ItemNodes => OwnIn(slots'[1], n)
    BY <2>4 DEF Restored
  <2> QED BY <2>2, <2>3, <2>5
<1>5. CASE ~(Fr.cursor # NoNode /\ Fr.item = Fr.target)
  <2> DEFINE g == [x \in DOMAIN Slots \ Names(Fr.node.stage) |-> Slots[x]]
  <2>1. slots' = [slots EXCEPT ![Len(slots)] = g]
    BY <1>5 DEF ItemStarts, Names
  <2>2. DOMAIN g \cap Names(Fr.node.stage) = {}
    OBVIOUS
  <2> HIDE DEF g
  <2>3. slots'[Len(slots')] = g
    BY <1>2, <2>1 DEF SlotTypes
  <2>4. m.stage = Fr.node.stage
    BY NodeFields DEF ItemAt
  <2> QED BY <2>2, <2>3, <2>4 DEF OwnIn
<1> QED BY <1>4, <1>5

\* Whoever writes to the slot of an inner stage runs within the item that the loop is at.
LEMMA CleanSteps ==
  TreeInv /\ TreeInv' /\ Leveled /\ SlotTypes /\ Aimed /\ Restored' /\ Clean /\ [Next]_vars => Clean'
<1> SUFFICES ASSUME TreeInv, TreeInv', Leveled, SlotTypes, Aimed, Restored', Clean, [Next]_vars
             PROVE  \A x \in 1 .. Len(frames') : CleanIn(slots', frames'[x])
  BY DEF Clean
<1>0. /\ Control /\ Stacked(frames) /\ \A x \in 1 .. Len(frames) : FrameOK(frames[x])
      /\ Leveled' /\ ((\E a \in Nodes : Resume(a)) \/ Keeping \/ \E fs : Filling(fs))
  BY SlotChanges DEF TreeInv, Control, Stacked
<1>1. \A x \in 1 .. Len(frames') : Level[frames'[x].node.stage] \in 1 .. Len(slots')
  <2>1. Stacked(frames') /\ Len(slots') = Level[Fr'.node.stage] /\ Fr' = frames'[Len(frames')]
    BY <1>0 DEF TreeInv, Control, Leveled, Fr
  <2>2. Len(frames') \in Nat \ {0}
    BY <2>1, TopOfStack
  <2>3. ASSUME NEW x \in 1 .. Len(frames') PROVE Level[frames'[x].node.stage] \in 1 .. Len(slots')
    <3>1. Len(frames') \in 1 .. Len(frames') /\ x <= Len(frames')
      BY <2>2
    <3>2. /\ Level[frames'[x].node.stage] \in Nat \ {0} /\ Level[frames'[Len(frames')].node.stage] \in Nat \ {0}
          /\ Level[frames'[x].node.stage] <= Level[frames'[Len(frames')].node.stage]
      BY <2>1, <3>1, LevelsRise
    <3> QED BY <2>1, <3>2
  <2> QED BY <2>3
<1>2. CASE \E a \in Nodes : Resume(a)
  <2>1. Len(frames') = 1 /\ frames'[1] = Fr' /\ ~OfLoop(Fr')
    BY <1>2, Restarted
  <2>2. \A x \in 1 .. Len(frames') : x = 1
    BY <2>1
  <2> QED BY <2>1, <2>2 DEF CleanIn
<1>3. ASSUME NEW fs, Filling(fs), NEW x \in 1 .. Len(frames') PROVE CleanIn(slots', frames'[x])
  <2> DEFINE v == CurOf(fs[Len(fs)])
             m == ItemAt(fs[x], fs[x].item)
  <2>1. /\ Stacked(fs) /\ Runs(fs[Len(fs)]) /\ frames' = Advance(fs)
        /\ \A y \in 1 .. Len(fs) : y \in 1 .. Len(frames) /\ fs[y] = frames[y]
        /\ \A l \in 1 .. Len(slots') : \A s \in DOMAIN slots'[l] : SlotKept(l, s) \/ slots'[l][s] = v
    BY <1>3 DEF Filling
  <2>2. /\ x \in 1 .. Len(fs) /\ Len(fs) \in 1 .. Len(fs)
        /\ frames'[x].node = fs[x].node /\ frames'[x].item = fs[x].item /\ frames'[x].attempt = fs[x].attempt
    <3>1. Len(frames') = Len(fs) /\ Len(fs) \in Nat \ {0}
      BY <2>1, Advanced
    <3>2. x \in 1 .. Len(fs) /\ Len(fs) \in 1 .. Len(fs)
      BY <3>1
    <3> QED BY <2>1, <3>2, Advanced
  <2>3. x \in 1 .. Len(frames) /\ fs[x] = frames[x] /\ FrameOK(fs[x]) /\ CleanIn(slots, fs[x])
    BY <1>0, <2>1, <2>2 DEF Clean
  <2>4. ASSUME OfLoop(fs[x]), fs[x].attempt > 0 PROVE OwnValue(v, m)
    <3>1. m \in ItemNodes
      <4>1. /\ fs[x].node.stage \in Stages /\ fs[x].node.items \in Places[fs[x].node.stage]
            /\ fs[x].item \in 1 .. Def[fs[x].node.stage].items /\ Def[fs[x].node.stage].type = "loop"
        <5>1. fs[x].item \in 1 .. Def[fs[x].node.stage].items + 1 /\ fs[x].item <= Def[fs[x].node.stage].items
              /\ Def[fs[x].node.stage].items \in Nat
          BY <2>3, <2>4, FrameFields DEF FrameOK
        <5>2. fs[x].item \in 1 .. Def[fs[x].node.stage].items
          BY <5>1
        <5> QED BY <2>3, <2>4, <5>2, FrameNode DEF OfLoop
      <4> QED BY <4>1, LoopItem DEF ItemAt
    <3>2. x \in 1 .. Len(fs)
      BY <2>2
    <3>3. m \in Above[v]
      <4> HIDE DEF v
      <4>1. \E y \in 1 .. Len(fs) : OfLoop(fs[y]) /\ m = ItemAt(fs[y], fs[y].item)
        BY <2>4, <3>2
      <4> HIDE DEF m
      <4>2. m \in Above[CurOf(fs[Len(fs)])]
        BY <2>1, <2>2, <3>1, <4>1, ItemsAbove
      <4> QED BY <4>2 DEF v
    <3>4. v \in Nodes
      <4>1. v \in StageNodes
        BY <2>1, TopOfStack
      <4> QED BY <4>1 DEF Nodes
    <3> HIDE DEF v, m
    <3> QED BY <3>3, <3>4, AboveOwn
  <2>5. Level[frames'[x].node.stage] \in 1 .. Len(slots')
    BY <1>1
  <2> HIDE DEF v
  <2> QED BY <2>1, <2>2, <2>3, <2>4, <2>5, CleanKept
<1>4. CASE Keeping /\ ~\E a \in Nodes : Resume(a)
  <2>1. ASSUME NEW x \in 1 .. Len(frames), NEW g, g.node = frames[x].node, g.item = frames[x].item,
               g.attempt = frames[x].attempt, Level[g.node.stage] \in 1 .. Len(slots')
        PROVE  CleanIn(slots', g)
    <3>1. CleanIn(slots, frames[x])
      BY DEF Clean
    <3>2. \A l \in 1 .. Len(slots') : \A s \in DOMAIN slots'[l] : SlotKept(l, s) \/ slots'[l][s] = NoNode
      BY <1>4 DEF Keeping
    <3>3. OwnValue(NoNode, ItemAt(frames[x], frames[x].item))
      BY DEF OwnValue
    <3> QED BY <2>1, <3>1, <3>2, <3>3, CleanKept
  <2>2. Level[Fr'.node.stage] \in 1 .. Len(slots')
    <3>1. Len(frames') \in 1 .. Len(frames')
      <4>1. Len(frames') \in Nat \ {0}
        BY TopOfStack DEF TreeInv, Control
      <4> QED BY <4>1
    <3> QED BY <1>1, <3>1 DEF Fr
  <2>3. LowerKept /\ CleanIn(slots', Fr') => \A x \in 1 .. Len(frames') : CleanIn(slots', frames'[x])
    <3> SUFFICES ASSUME LowerKept, CleanIn(slots', Fr'), NEW x \in 1 .. Len(frames')
                 PROVE  CleanIn(slots', frames'[x])
      OBVIOUS
    <3>1. CASE x \in 1 .. Len(frames) /\ frames'[x] = frames[x]
      BY <1>1, <2>1, <3>1
    <3>2. CASE frames'[x] = Fr'
      BY <3>2
    <3> QED BY <3>1, <3>2, FrameByFrame
  <2>4. Fr = frames[Len(frames)] /\ Len(frames) \in 1 .. Len(frames)
    <3>1. Len(frames) \in Nat \ {0}
      BY <1>0, Innermost
    <3> QED BY <3>1 DEF Fr
  <2>5. CASE LowerKept /\ (SubWorkflowEnters \/ LoopEnters \/ ItemReused)
    <3>1. SubWorkflowEnters => ~OfLoop(Fr')
      BY <1>0, Entered DEF OfLoop
    <3>2. LoopEnters \/ ItemReused => ~(Fr'.attempt > 0)
      <4>1. LoopEnters \/ ItemReused => Fr'.attempt = 0
        BY <1>0, Entered, Went
      <4> QED BY <4>1
    <3> QED BY <2>3, <2>5, <3>1, <3>2 DEF CleanIn
  <2>6. CASE LowerKept /\ ItemStarts
    <3>1. from' = from
      BY <2>6 DEF ItemStarts, BetweenItems, resumeVars
    <3> QED BY <1>0, <2>3, <2>6, <3>1, StartsClean
  <2>7. CASE Moves
    <3>1. CleanIn(slots', Fr')
      <4>1. CASE Rests
        BY <2>1, <2>2, <4>1 DEF Rests
      <4>2. CASE Passes
        BY <2>1, <2>2, <4>2 DEF Passes
      <4>3. CASE Jumps
        BY <4>3 DEF Jumps, CleanIn, OfLoop, InLoop
      <4>4. CASE Retries
        <5>1. /\ Fr'.node = Fr.node /\ Fr'.item = Fr.item /\ Fr.attempt > 0
          BY <4>4 DEF Retries
        <5>2. CleanIn(slots', Fr)
          BY <2>1, <2>2, <2>4, <5>1
        <5> QED BY <5>1, <5>2 DEF CleanIn, OfLoop, ItemAt
      <4>5. CASE EndsItem
        <5>1. ~(Fr'.attempt > 0)
          BY <4>5 DEF EndsItem
        <5> QED BY <5>1 DEF CleanIn
      <4> QED BY <2>7, <4>1, <4>2, <4>3, <4>4, <4>5 DEF Moves
    <3> QED BY <2>3, <2>7, <3>1 DEF Moves
  <2> QED BY <1>4, <2>5, <2>6, <2>7, FrameSteps
<1> QED BY <1>0, <1>2, <1>3, <1>4

\* The results on disk are those of the items, each its own.
Collecting == collected = [n \in ItemNodes |-> collected[n]] /\ ItemResultsAreOwn

LEMMA ItemEndsOwn ==
  ASSUME TreeInv, Leveled, Clean, Collecting, InLoop, Fr.attempt > 0, NEW st, ItemEnds(st)
  PROVE  Collecting'
<1> DEFINE new == IF Loop.over THEN Results ELSE {}
<1>1. collected' = [collected EXCEPT ![ItemNode] = new] /\ collected = [n \in ItemNodes |-> collected[n]]
  BY DEF ItemEnds, Collecting
<1>2. ASSUME NEW r \in new PROVE OwnValue(r[2], ItemNode)
  <2>1. PICK s \in Names(Fr.node.stage) \cap DOMAIN Slots : r = <<s, Slots[s]>>
    BY DEF Results, Names
  <2>2. OwnIn(Slots, ItemNode)
    <3>1. Control /\ Len(frames) \in 1 .. Len(frames) /\ Fr = frames[Len(frames)]
      <4>1. Control
        BY DEF TreeInv
      <4>2. Len(frames) \in Nat \ {0}
        BY <4>1, Innermost
      <4> QED BY <4>1, <4>2 DEF Fr
    <3>2. CleanIn(slots, Fr)
      BY <3>1 DEF Clean
    <3> QED BY <3>2 DEF CleanIn, Leveled, Slots, ItemNode, ItemAt, OfLoop, InLoop
  <2>3. ItemNode.stage = Fr.node.stage
    BY NodeFields DEF ItemNode
  <2> QED BY <2>1, <2>2, <2>3 DEF OwnIn
<1> HIDE DEF new
<1>3. collected' = [n \in ItemNodes |-> collected'[n]]
  BY <1>1
<1>4. ASSUME NEW n \in ItemNodes, NEW r \in collected'[n] PROVE OwnValue(r[2], n)
  <2>1. CASE n = ItemNode
    BY <1>1, <1>2, <1>4, <2>1
  <2>2. CASE n # ItemNode
    <3>1. r \in collected[n]
      BY <1>1, <1>4, <2>2
    <3> QED BY <3>1 DEF Collecting, ItemResultsAreOwn, OwnValue, UnderItem
  <2> QED BY <2>1, <2>2
<1> QED BY <1>3, <1>4 DEF Collecting, ItemResultsAreOwn, OwnValue, UnderItem

\* A result is written when the item ends, from the slots that the item has filled.
LEMMA CollectedSteps ==
  TreeInv /\ Leveled /\ Clean /\ Collecting /\ [Next]_vars => Collecting'
<1> SUFFICES ASSUME TreeInv, Leveled, Clean, Collecting, [Next]_vars PROVE Collecting'
  OBVIOUS
<1>1. CASE ExitHolds \/ ExitDoesNotHold \/ InnerStageFailed \/ ItemCancelled
  <2>1. InLoop /\ Fr.attempt > 0 /\ (AttemptFails \/ \E st : ItemEnds(st))
    BY <1>1, UnwindsInLoop DEF ExitHolds, ExitDoesNotHold, AttemptEnds, InnerStageFailed, ItemCancelled, Unwinds
  <2>2. (\E st : ItemEnds(st)) \/ collected' = collected
    BY <2>1 DEF AttemptFails
  <2>3. CASE collected' = collected
    BY <2>3 DEF Collecting, ItemResultsAreOwn
  <2> QED BY <2>1, <2>2, <2>3, ItemEndsOwn
<1>2. CASE ~(ExitHolds \/ ExitDoesNotHold \/ InnerStageFailed \/ ItemCancelled)
  <2>1. collected' = collected
    <3>1. CASE \/ StageSkipped \/ GateRaises \/ LeafEnters \/ BranchRaises
               \/ (\E holds \in BOOLEAN : BranchJumps(holds) \/ BranchMisses(holds))
               \/ SubWorkflowEnters \/ LoopEnters
      BY <3>1 DEF StageSkipped, GateRaises, LeafEnters, BranchRaises, BranchJumps, BranchMisses, BranchTaken,
         SubWorkflowEnters, LoopEnters, Dispatches
    <3>2. CASE \/ LeafReturns \/ RespondReturns \/ LeafFails \/ LeafCancelled \/ ItemReused \/ ItemStarts
               \/ LoopReturns \/ ClientAborts
      BY <3>2 DEF LeafReturns, RespondReturns, LeafFails, LeafCancelled, Resumed, ItemReused, ItemStarts,
         LoopReturns, ClientAborts, diskVars
    <3>3. CASE ExitRaises \/ LoopAborted \/ SubWorkflowReturns \/ SubWorkflowRaises \/ RunReturns \/ RunRaises
      BY <3>3 DEF ExitRaises, LoopAborted, SubWorkflowReturns, SubWorkflowRaises, RunReturns, RunRaises, Ends
    <3>4. CASE (\E a \in Nodes : Resume(a) \/ ResumeDies(a)) \/ Idle \/ UNCHANGED vars
      BY <3>4 DEF Resume, ResumeDies, ResumeRequested, Idle, vars, diskVars
    <3> QED BY <1>2, <3>1, <3>2, <3>3, <3>4 DEF Next, Engine, User
  <2> QED BY <2>1 DEF Collecting, ItemResultsAreOwn
<1> QED BY <1>1, <1>2

\* What is known of a resumption, and of the registries and what is in them.
ResumeInv == Ordered /\ Aimed
SlotInv == Leveled /\ Restored /\ Clean /\ Collecting

\* A run starts with nothing recorded, nothing in a slot and no way to go.
LEMMA ResumesStart == Init => ResumeInv /\ SlotInv
<1> SUFFICES ASSUME Init PROVE ResumeInv /\ SlotInv
  OBVIOUS
<1>1. frames = <<Frame(RootNode, 1, 0, 1, 0, NoNode)>> /\ Len(slots) = 1
  BY DEF Init, RootNode
<1>2. /\ Fr.node.stage = Root
      /\ \A x \in 1 .. Len(frames) : frames[x].node.stage = Root
  BY <1>1, NodeFields DEF Frame, RootNode, Fr
<1>3. Leveled
  BY <1>1, <1>2, LevelRecursion DEF Leveled
<1>4. Clean
  BY <1>2, DefAssumption DEF Clean, CleanIn, OfLoop
<1>5. Collecting
  BY DEF Init, Collecting, ItemResultsAreOwn
<1> QED BY <1>3, <1>4, <1>5, OrderedStarts, AimedStarts, RestoredStarts DEF ResumeInv, SlotInv

\* The record is in order and the frames are aimed, in every state of a run.
LEMMA ResumesAlways == Spec => []ResumeInv
<1>1. Init => ResumeInv /\ TypeInv
  BY ResumesStart, TypesStart
<1>2. TreeInv /\ TypeInv /\ ResumeInv /\ [Next]_vars => TypeInv' /\ ResumeInv'
  BY ControlSteps, RecordSteps, SlotSteps, OrderedSteps, AimedSteps DEF TypeInv, ResumeInv
<1> QED BY <1>1, <1>2, TreeAlways, PTL DEF Spec

\* A loop item's result holds only what was produced in that item, also in an item that
\* a resumption goes on in: its slots are those read back for the stages of that very item.
\* (custom_workflow.py:831-843, workflow_resume.py:192-260.)  The names of the slots are the
\* stages' own: a stage outside the loop that writes to one of them would be read back too.
THEOREM ResultsAreAlwaysOwn == OwnNames => (Spec => []ItemResultsAreOwn)
<1> SUFFICES ASSUME OwnNames PROVE Spec => []ItemResultsAreOwn
  OBVIOUS
<1>1. Init => TypeInv /\ SlotInv
  BY ResumesStart, TypesStart
<1>2. TreeInv /\ TreeInv' /\ ResumeInv /\ ResumeInv' /\ TypeInv /\ SlotInv /\ [Next]_vars => TypeInv' /\ SlotInv'
  <2> SUFFICES ASSUME TreeInv, TreeInv', ResumeInv, TypeInv, SlotInv, [Next]_vars
               PROVE  TypeInv' /\ SlotInv'
    OBVIOUS
  <2>1. TypeInv'
    BY ControlSteps, RecordSteps, SlotSteps DEF TypeInv
  <2>2. Restored' /\ Leveled'
    BY RestoredSteps, SlotChanges DEF TypeInv, ResumeInv, SlotInv
  <2>3. Clean'
    BY <2>2, CleanSteps DEF TypeInv, ResumeInv, SlotInv
  <2>4. Collecting'
    BY CollectedSteps DEF SlotInv
  <2> QED BY <2>1, <2>2, <2>3, <2>4 DEF SlotInv
<1>3. SlotInv => ItemResultsAreOwn
  BY DEF SlotInv, Collecting
<1> QED BY <1>1, <1>2, <1>3, TreeAlways, ResumesAlways, PTL DEF Spec

-----------------------------------------------------------------------------
(* A resumed run stays behind the address that it was resumed at *)

\* Whatever is within s is in items that are tried once.
Single(s) == \A o \in Around[s] : Def[o].attempts = 1

\* The stage list of the frame f has been passed up to the stage that a is in.
Past(f, a) ==
  \A c \in DOMAIN Body(f.node.stage) :
    f.attempt > 0 /\ Single(f.node.stage) /\ StageAt(f, c) \in Above[a] => f.at >= c

\* The stage that a is in is dispatched with the cursor that leads to a.
Heads(f, a) ==
  \A c \in DOMAIN Body(f.node.stage) :
    f.attempt > 0 /\ Single(f.node.stage) /\ StageAt(f, c) \in Above[a] /\ f.at = c =>
      f.cursor = a /\ (OfLoop(f) => f.item = f.target)

\* No item before the one that a is in is started; it is the target when it comes up.
Towards(f, a) ==
  OfLoop(f) /\ Single(Owner[f.node.stage]) =>
    \A i \in 1 .. Def[f.node.stage].items :
      ItemAt(f, i) \in Above[a] =>
        /\ f.item < i => f.attempt = 0
        /\ f.item <= i /\ f.attempt = 0 => f.target = i /\ (a # ItemAt(f, i) => f.cursor = a)

\* Every frame of a resumed run leads to where it was resumed, or is past it.
OnTheWay ==
  from # NoNode /\ Alive =>
    /\ \A x \in 1 .. Len(frames) : Past(frames[x], from) /\ Towards(frames[x], from)
    /\ pc = "go" => Heads(Fr, from)

\* No sub-workflow leads to where a resumption starts.
LEMMA NoWayThrough ==
  ASSUME NEW f, FrameOK(f), ~OfLoop(f), f.node # RootNode, NEW a \in Nodes,
         \A m \in Above[a] \ {a} : m \in StageNodes => Def[m.stage].type # "workflow"
  PROVE  Past(f, a) /\ Heads(f, a)
<1> SUFFICES ASSUME NEW c \in DOMAIN Body(f.node.stage), f.attempt > 0, StageAt(f, c) \in Above[a]
             PROVE  FALSE
  BY DEF Past, Heads
<1>1. f.node \in Above[a] /\ a # f.node
  BY FramePath
<1>2. f.node \in StageNodes /\ Def[f.node.stage].type = "workflow"
  BY FrameNode DEF FrameOK, OfLoop
<1> QED BY <1>1, <1>2

\* What is around a stage within items that are tried once is within such items.
LEMMA SingleBelow ==
  ASSUME NEW s \in Stages \ {Root}, Single(s)
  PROVE  Single(Owner[s]) /\ Def[s].attempts = 1
<1>1. Around[s] = {s} \cup Around[Owner[s]]
  BY AroundRecursion
<1> QED BY <1>1 DEF Single

\* A loop on the way is entered with the item that leads to a.
LEMMA EntersTowards ==
  ASSUME TreeInv, TreeInv', NEW a \in Nodes, Heads(Fr, a), LoopEnters
  PROVE  Towards(Fr', a)
<1>1. /\ Runs(Fr) /\ Cur \in StageNodes /\ Fr'.node = Cur /\ FrameOK(Fr) /\ Def[Cur.stage].type = "loop"
      /\ Fr'.item = 1 /\ Fr'.attempt = 0
      /\ LET below == Cursor \notin {NoNode, Cur}
             target == IF below THEN Cursor.items[Len(Cur.items) + 1] ELSE 0
         IN /\ Fr'.target = target
            /\ Fr'.cursor = IF below /\ Cursor # Node(Cur.stage, Append(Cur.items, target))
                            THEN Cursor ELSE NoNode
  BY Entered DEF TreeInv
<1> SUFFICES ASSUME Single(Owner[Cur.stage]), NEW i \in 1 .. Def[Cur.stage].items,
                    Node(Cur.stage, Append(Cur.items, i)) \in Above[a]
             PROVE  Fr'.target = i /\ (a # Node(Cur.stage, Append(Cur.items, i)) => Fr'.cursor = a)
  BY <1>1 DEF Towards, ItemAt
<1>2. /\ Cur.stage \in Stages \ {Root} /\ Cur.items \in Places[Cur.stage] /\ Cur = Node(Cur.stage, Cur.items)
      /\ Owner[Cur.stage] = Fr.node.stage /\ Fr.node.stage \in Stages
      /\ Fr.at \in DOMAIN Body(Fr.node.stage) /\ Cur = StageAt(Fr, Fr.at)
  <2>1. Cur.stage \in Stages \ {Root} /\ Cur.items \in Places[Cur.stage] /\ Cur = Node(Cur.stage, Cur.items)
    BY <1>1, StageNode
  <2>2. Fr.node.stage \in Stages /\ Cur.stage = Body(Fr.node.stage)[Fr.at] /\ Fr.at \in DOMAIN Body(Fr.node.stage)
    BY <1>1, CurIs, CurNode, FrameNode
  <2>3. Cur = StageAt(Fr, Fr.at)
    BY CurIs DEF CurOf, StageAt
  <2> QED BY <2>1, <2>2, <2>3, Owners
<1>3. Cur \in Above[a] /\ a # Cur /\ a.items[Len(Cur.items) + 1] = i
  BY <1>1, <1>2, ItemPath
<1>4. Fr.cursor = a /\ (OfLoop(Fr) => Fr.item = Fr.target)
  BY <1>1, <1>2, <1>3 DEF Heads, Runs
<1>5. OfLoop(Fr) => Fr.attempt = 1
  <2>1. ASSUME OfLoop(Fr) PROVE Fr.attempt = 1
    <3>1. Fr.node.stage \in Stages \ {Root}
      BY <1>2, <2>1, DefAssumption DEF OfLoop
    <3>2. Def[Fr.node.stage].attempts = 1
      BY <1>2, <3>1, SingleBelow
    <3>3. Fr.attempt <= 1 /\ Fr.attempt > 0 /\ Fr.attempt \in Nat
      BY <1>1, <3>2, FrameFields DEF FrameOK, Runs
    <3> QED BY <3>3
  <2> QED BY <2>1
<1>6. Cursor = a
  BY <1>4, <1>5 DEF Cursor, InLoop, OfLoop
<1>7. a # NoNode
  BY NoSuchNode
<1> QED BY <1>1, <1>3, <1>6, <1>7

\* The item that leads to a is started at the stage that leads to a.
LEMMA StartsOnTheWay ==
  ASSUME TreeInv, TreeInv', NEW a \in Nodes, InOrder(a), Towards(Fr, a), ItemStarts
  PROVE  Past(Fr', a) /\ Heads(Fr', a) /\ Towards(Fr', a)
<1>1. /\ InLoop /\ ~Reused /\ Fr.attempt = 0 /\ Fr'.node = Fr.node /\ Fr'.item = Fr.item /\ Fr'.attempt = 1
      /\ Fr'.target = Fr.target /\ Fr'.cursor = Fr.cursor /\ Control
      /\ Fr'.at = IF Fr.cursor # NoNode /\ Fr.item = Fr.target THEN StartIndex ELSE 1
  BY Went DEF TreeInv
<1>2. /\ FrameOK(Fr) /\ OfLoop(Fr) /\ Fr.item \in 1 .. Loop.items /\ Fr.item \in Nat /\ Loop.items \in Nat
      /\ Loop = Def[Fr.node.stage] /\ Fr.node.stage \in Stages \ {Root}
  <2>1. /\ FrameOK(Fr) /\ OfLoop(Fr) /\ Fr.item \in 1 .. Loop.items + 1 /\ Fr.item \in Nat /\ Loop.items \in Nat
        /\ Loop = Def[Fr.node.stage]
    BY <1>1, InnerLoop
  <2>2. Fr.item <= Loop.items
    BY DEF ItemStarts
  <2>3. Fr.node.stage \in Stages \ {Root}
    BY <2>1, FrameNode, DefAssumption DEF OfLoop
  <2> QED BY <2>1, <2>2, <2>3
<1>3. FrameOK(Fr')
  <2>1. Stacked(frames')
    BY DEF TreeInv, Control
  <2> QED BY <2>1, TopOfStack DEF Fr
<1>4. ASSUME Single(Owner[Fr.node.stage]), NEW i \in 1 .. Loop.items, ItemAt(Fr, i) \in Above[a], Fr.item <= i
      PROVE  Fr.item = i /\ Fr.target = i /\ (a # ItemAt(Fr, i) => Fr.cursor = a)
  <2>1. Fr.target = i /\ (a # ItemAt(Fr, i) => Fr.cursor = a)
    BY <1>1, <1>2, <1>4 DEF Towards
  <2>2. ~(Fr.item < Fr.target)
    BY <1>1, <1>4, <2>1, ReadBack
  <2> QED BY <1>2, <1>4, <2>1, <2>2
<1>5. Towards(Fr', a)
  <2> SUFFICES ASSUME Single(Owner[Fr.node.stage]), NEW i \in 1 .. Loop.items, ItemAt(Fr, i) \in Above[a]
               PROVE  ~(Fr.item < i)
    BY <1>1, <1>2 DEF Towards, ItemAt
  <2>1. CASE Fr.item < i
    <3>1. Fr.item <= i
      BY <1>2, <2>1
    <3>2. Fr.item = i
      BY <1>4, <3>1
    <3> QED BY <1>2, <2>1, <3>2
  <2> QED BY <2>1
<1>6. ASSUME NEW c \in DOMAIN Body(Fr.node.stage), Single(Fr.node.stage), StageAt(Fr', c) \in Above[a]
      PROVE  Fr'.at = c /\ Fr'.cursor = a /\ Fr'.item = Fr'.target
  <2>1. /\ \A j \in DOMAIN Body(Fr.node.stage) : \A q : Node(Body(Fr.node.stage)[j], q) \in Above[a] => j = c
        /\ ItemAt(Fr', Fr'.item) \in Above[a] /\ a # ItemAt(Fr', Fr'.item)
    <3> DEFINE f == Fr'
    <3>1. FrameOK(f) /\ f.attempt > 0 /\ c \in DOMAIN Body(f.node.stage) /\ StageAt(f, c) \in Above[a]
          /\ OfLoop(f) /\ f.node = Fr.node
      BY <1>1, <1>2, <1>3, <1>6 DEF OfLoop
    <3> HIDE DEF f
    <3>2. /\ \A j \in DOMAIN Body(f.node.stage) : \A q : Node(Body(f.node.stage)[j], q) \in Above[a] => j = c
          /\ ItemAt(f, f.item) \in Above[a] /\ a # ItemAt(f, f.item)
      BY <3>1, FramePath
    <3> QED BY <3>1, <3>2 DEF f
  <2>2. ItemAt(Fr, Fr.item) \in Above[a] /\ a # ItemAt(Fr, Fr.item)
    BY <1>1, <2>1 DEF ItemAt
  <2>3. Single(Owner[Fr.node.stage])
    BY <1>2, <1>6, SingleBelow
  <2>4. Fr.target = Fr.item /\ Fr.cursor = a
    BY <1>2, <1>4, <2>2, <2>3
  <2>5. Fr'.at = StartIndex /\ Fr.cursor = a
    BY <1>1, <2>4, NoSuchNode
  <2>6. StageAt(Fr', c) = Node(Body(Fr.node.stage)[c], ItemNode.items)
    BY <1>1, <1>2, NodeFields DEF StageAt, Under, ItemNode, OfLoop
  <2>7. Node(Body(Fr.node.stage)[c], ItemNode.items) \in Above[a]
    BY <1>6, <2>6
  <2>8. StartIndex = c
    BY <2>1, <2>5, <2>7 DEF StartIndex
  <2> QED BY <1>1, <2>4, <2>5, <2>8
<1>7. Past(Fr', a) /\ Heads(Fr', a)
  <2>1. \A c \in DOMAIN Body(Fr.node.stage) : c \in Nat
    BY <1>2, StageFields
  <2> QED BY <1>1, <1>6, <2>1 DEF Past, Heads
<1> QED BY <1>5, <1>7

\* A branch of the workflow's own list does not jump back over the stage that a is in.
LEMMA JumpsOnTheWay ==
  ASSUME JumpsForward, TreeInv, TreeInv', NEW a \in Nodes, Past(Fr, a), Jumps,
         \A m \in Above[a] \ {a} : m \in StageNodes => Def[m.stage].type # "workflow"
  PROVE  Past(Fr', a) /\ Heads(Fr', a) /\ Towards(Fr', a)
<1>1. /\ ~OfLoop(Fr') /\ Fr'.node = Fr.node /\ Runs(Fr) /\ Def[Cur.stage].type = "branch"
      /\ Fr'.at \in DOMAIN Body(Fr.node.stage)
      /\ Body(Fr.node.stage)[Fr'.at] \in {Def[Cur.stage].ifTrue, Def[Cur.stage].ifFalse}
      /\ FrameOK(Fr) /\ FrameOK(Fr')
  <2>1. Stacked(frames') /\ Control
    BY DEF TreeInv, Control
  <2>2. FrameOK(Fr')
    BY <2>1, TopOfStack DEF Fr
  <2> QED BY <2>1, <2>2, Innermost DEF Jumps, OfLoop, InLoop
<1>2. Towards(Fr', a)
  BY <1>1 DEF Towards
<1>3. CASE Fr.node # RootNode
  <2> DEFINE f == Fr'
  <2>1. FrameOK(f) /\ ~OfLoop(f) /\ f.node # RootNode
    BY <1>1, <1>3
  <2> HIDE DEF f
  <2>2. Past(f, a) /\ Heads(f, a)
    BY <2>1, NoWayThrough
  <2> QED BY <1>2, <2>2 DEF f
<1>4. CASE Fr.node = RootNode
  <2>1. Fr.node.stage = Root /\ Fr'.node.stage = Root
    BY <1>1, <1>4, NodeFields DEF RootNode
  <2>2. Fr.at \in DOMAIN Body(Root) /\ Body(Root)[Fr.at] = Cur.stage
    BY <1>1, <2>1, CurIs, CurNode
  <2>3. Fr.at < Fr'.at /\ Fr.at \in Nat /\ Fr'.at \in Nat
    BY <1>1, <2>1, <2>2, FrameFields DEF JumpsForward
  <2>4. ASSUME NEW c \in DOMAIN Body(Root), Single(Root), StageAt(Fr', c) \in Above[a] PROVE Fr.at >= c
    <3>1. StageAt(Fr', c) = StageAt(Fr, c)
      BY <1>1, <2>1, DefAssumption DEF StageAt, Under
    <3>2. Fr.attempt > 0
      BY <1>1 DEF Runs
    <3> QED BY <2>1, <2>4, <3>1, <3>2 DEF Past
  <2>5. \A c \in DOMAIN Body(Root) : c \in Nat
    BY NoSuchNode, StageFields
  <2>6. Past(Fr', a) /\ Heads(Fr', a)
    BY <2>1, <2>3, <2>4, <2>5 DEF Past, Heads
  <2> QED BY <1>2, <2>6
<1> QED BY <1>3, <1>4

\* The stage list of a frame is passed further, or the same item is tried again.
LEMMA MovesOnTheWay ==
  ASSUME JumpsForward, TreeInv, TreeInv', NEW a \in Nodes, Moves,
         \A x \in 1 .. Len(frames) : Past(frames[x], a) /\ Towards(frames[x], a),
         pc = "go" => Heads(Fr, a),
         \A m \in Above[a] \ {a} : m \in StageNodes => Def[m.stage].type # "workflow"
  PROVE  Past(Fr', a) /\ Towards(Fr', a) /\ (pc' = "go" => Heads(Fr', a))
<1>1. /\ Control /\ \A x \in 1 .. Len(frames) : FrameOK(frames[x])
      /\ FrameOK(Fr) /\ Past(Fr, a) /\ Towards(Fr, a)
  <2>1. Control
    BY DEF TreeInv
  <2>2. Len(frames) \in Nat \ {0}
    BY <2>1, Innermost
  <2>3. Len(frames) \in 1 .. Len(frames) /\ Fr = frames[Len(frames)]
    BY <2>2 DEF Fr
  <2> QED BY <2>1, <2>3 DEF Control, Stacked
<1>2. CASE Rests
  <2>1. Past(Fr', a) /\ Towards(Fr', a)
    BY <1>2 DEF Rests
  <2>2. pc' = "go" => Heads(Fr', a)
    <3>1. pc' = "go" => pc = "go" /\ Fr' = Fr
      BY <1>2 DEF Rests, Fr
    <3> QED BY <3>1
  <2> QED BY <2>1, <2>2
<1>3. CASE Passes
  <2>1. PICK x \in 1 .. Len(frames) :
          /\ frames[x].attempt > 0 /\ Fr'.node = frames[x].node /\ Fr'.at = frames[x].at + 1
          /\ Fr'.item = frames[x].item /\ Fr'.attempt = frames[x].attempt /\ Fr'.target = frames[x].target
    BY <1>3 DEF Passes, Runs
  <2> DEFINE f == frames[x]
  <2>2. FrameOK(f) /\ Past(f, a) /\ Towards(f, a)
    BY <1>1
  <2>3. f.attempt # 0 /\ f.at \in Nat /\ \A c \in DOMAIN Body(f.node.stage) : c \in Nat
    BY <2>1, <2>2, FrameFields, StageFields
  <2>4. ASSUME NEW c \in DOMAIN Body(f.node.stage), Single(f.node.stage), StageAt(Fr', c) \in Above[a]
        PROVE  Fr'.at >= c /\ Fr'.at # c
    <3>1. StageAt(Fr', c) = StageAt(f, c)
      BY <2>1 DEF StageAt
    <3>2. f.at >= c
      BY <2>1, <2>2, <2>4, <3>1 DEF Past
    <3> QED BY <2>1, <2>3, <3>2
  <2>5. Past(Fr', a) /\ Heads(Fr', a)
    BY <2>1, <2>4 DEF Past, Heads
  <2>6. Towards(Fr', a)
    BY <2>1, <2>2, <2>3 DEF Towards, OfLoop, ItemAt
  <2> QED BY <2>5, <2>6
<1>4. CASE Jumps
  BY <1>1, <1>4, JumpsOnTheWay
<1>5. CASE Retries \/ EndsItem
  <2>1. /\ OfLoop(Fr) /\ Fr.attempt > 0 /\ Fr.attempt # 0 /\ Fr'.node = Fr.node /\ Fr'.target = Fr.target
        /\ Fr'.cursor = Fr.cursor /\ Fr.item \in Nat /\ Fr.attempt \in Nat
        /\ \/ Fr'.item = Fr.item /\ Fr'.attempt = Fr.attempt + 1 /\ Fr.attempt < Loop.attempts
           \/ Fr'.item = Fr.item + 1 /\ Fr'.attempt = 0
    BY <1>1, <1>5, FrameFields DEF Retries, EndsItem, OfLoop, InLoop
  <2>2. Single(Fr.node.stage) => Loop.attempts = 1
    <3>1. Fr.node.stage \in Stages \ {Root}
      BY <1>1, <2>1, FrameNode, DefAssumption DEF OfLoop
    <3> QED BY <3>1, SingleBelow DEF Loop
  <2>3. ~(Single(Fr.node.stage) /\ Fr'.attempt > 0)
    BY <2>1, <2>2
  <2>4. Past(Fr', a) /\ Heads(Fr', a)
    BY <2>1, <2>3 DEF Past, Heads
  <2>5. Towards(Fr', a)
    <3> SUFFICES ASSUME Single(Owner[Fr.node.stage]), NEW i \in 1 .. Def[Fr.node.stage].items,
                        ItemAt(Fr, i) \in Above[a]
                 PROVE  ~(Fr'.item < i /\ Fr'.attempt # 0) /\ ~(Fr'.item <= i /\ Fr'.attempt = 0)
      BY <2>1 DEF Towards, ItemAt
    <3>1. ~(Fr.item < i)
      BY <1>1, <2>1 DEF Towards
    <3>2. i \in Nat
      BY <1>1, FrameFields
    <3> QED BY <2>1, <3>1, <3>2
  <2> QED BY <2>4, <2>5
<1> QED BY <1>2, <1>3, <1>4, <1>5 DEF Moves

\* Every step keeps the frames on the way, or takes them past where it led.
LEMMA OnTheWaySteps ==
  JumpsForward /\ TreeInv /\ TreeInv' /\ ResumeInv /\ OnTheWay /\ [Next]_vars => OnTheWay'
<1> SUFFICES ASSUME JumpsForward, TreeInv, TreeInv', ResumeInv, OnTheWay, [Next]_vars,
                    from' # NoNode, Alive'
             PROVE  /\ \A x \in 1 .. Len(frames') : Past(frames'[x], from') /\ Towards(frames'[x], from')
                    /\ pc' = "go" => Heads(Fr', from')
  BY DEF OnTheWay
<1>0. Control /\ Stacked(frames') /\ FrameOK(Fr')
  <2>1. Control /\ Stacked(frames')
    BY DEF TreeInv, Control
  <2> QED BY <2>1, TopOfStack DEF Fr
<1>1. CASE \E a \in Nodes : Resume(a)
  <2>1. PICK a \in Nodes : Resume(a)
    BY <1>1
  <2>2. /\ from' = a /\ Len(frames') = 1 /\ frames'[1] = Fr' /\ Fr'.node = RootNode /\ ~OfLoop(Fr')
        /\ Fr'.attempt = 1 /\ Fr'.cursor = a
        /\ Fr'.at = CHOOSE i \in DOMAIN Body(Root) : Node(Body(Root)[i], <<>>) \in Above[a]
    BY <2>1, Restarted
  <2>3. Fr'.node.stage = Root /\ \A c \in DOMAIN Body(Root) : c \in Nat
    BY <2>2, NodeFields, NoSuchNode, StageFields DEF RootNode
  <2>4. Fr'.at \in DOMAIN Body(Root) /\ Node(Body(Root)[Fr'.at], <<>>) \in Above[a]
    BY <2>2, TopOf
  <2>5. ASSUME NEW c \in DOMAIN Body(Root), StageAt(Fr', c) \in Above[a] PROVE Fr'.at = c
    <3> DEFINE f == Fr'
    <3>1. FrameOK(f) /\ f.attempt > 0 /\ c \in DOMAIN Body(f.node.stage) /\ StageAt(f, c) \in Above[a]
      BY <1>0, <2>2, <2>3, <2>5
    <3> HIDE DEF f
    <3>2. \A j \in DOMAIN Body(f.node.stage) : \A q : Node(Body(f.node.stage)[j], q) \in Above[a] => j = c
      BY <3>1, FramePath
    <3> QED BY <2>3, <2>4, <3>2 DEF f
  <2>6. Past(Fr', a) /\ Heads(Fr', a) /\ Towards(Fr', a)
    <3> DEFINE f == Fr'
    <3>1. /\ f.node.stage = Root /\ f.cursor = a /\ ~OfLoop(f)
          /\ \A c \in DOMAIN Body(Root) : c \in Nat /\ (StageAt(f, c) \in Above[a] => f.at = c)
      BY <2>2, <2>3, <2>5
    <3> HIDE DEF f
    <3>2. Past(f, a)
      BY <3>1 DEF Past
    <3>3. Heads(f, a) /\ Towards(f, a)
      BY <3>1 DEF Heads, Towards
    <3> QED BY <3>2, <3>3 DEF f
  <2>7. \A x \in 1 .. Len(frames') : x = 1
    BY <2>2
  <2> QED BY <2>2, <2>6, <2>7
<1>2. CASE ~\E a \in Nodes : Resume(a)
  <2>1. from' = from /\ Alive
    BY <1>2, FromSteps DEF Alive
  <2>2. PICK a \in Nodes : a = from
    BY <2>1 DEF ResumeInv, Aimed
  <2>3. InOrder(a) /\ \A m \in Above[a] \ {a} : m \in StageNodes => Def[m.stage].type # "workflow"
    BY <2>1, <2>2 DEF ResumeInv, Aimed, InOrder
  <2>4. /\ \A x \in 1 .. Len(frames) : Past(frames[x], a) /\ Towards(frames[x], a)
        /\ pc = "go" => Heads(Fr, a)
    BY <2>1, <2>2 DEF OnTheWay
  <2>5. LowerKept => \A x \in 1 .. Len(frames') :
          \/ Past(frames'[x], a) /\ Towards(frames'[x], a)
          \/ frames'[x] = Fr'
    BY <2>4, FrameByFrame
  <2>6. SUFFICES LowerKept /\ Past(Fr', a) /\ Towards(Fr', a) /\ (pc' = "go" => Heads(Fr', a))
    BY <2>1, <2>2, <2>5
  <2>7. Towards(Fr, a)
    <3>1. Len(frames) \in Nat \ {0}
      BY <1>0, Innermost
    <3>2. Len(frames) \in 1 .. Len(frames) /\ Fr = frames[Len(frames)]
      BY <3>1 DEF Fr
    <3> QED BY <2>4, <3>2
  <2>8. CASE LowerKept /\ SubWorkflowEnters
    <3> DEFINE f == Fr'
    <3>1. f.node = Cur /\ Cur \in StageNodes /\ Def[Cur.stage].type = "workflow"
      BY <1>0, <2>8, Entered
    <3>2. FrameOK(f) /\ ~OfLoop(f) /\ f.node # RootNode
      BY <1>0, <3>1, NoSuchNode DEF OfLoop, Nodes
    <3> HIDE DEF f
    <3>3. Past(f, a) /\ Heads(f, a)
      BY <2>3, <3>2, NoWayThrough
    <3>4. Towards(f, a)
      BY <3>2 DEF Towards
    <3> QED BY <2>8, <3>3, <3>4 DEF f
  <2>9. CASE LowerKept /\ LoopEnters
    <3>1. Fr'.attempt = 0 /\ pc = "go"
      BY <1>0, <2>9, Entered
    <3>2. Past(Fr', a) /\ Heads(Fr', a)
      BY <3>1 DEF Past, Heads
    <3>3. Towards(Fr', a)
      BY <2>4, <2>9, <3>1, EntersTowards
    <3> QED BY <2>9, <3>2, <3>3
  <2>10. CASE LowerKept /\ ItemReused
    <3>1. /\ Fr.attempt = 0 /\ Fr'.attempt = 0 /\ Fr'.node = Fr.node /\ Fr'.item = Fr.item + 1
          /\ Fr'.target = Fr.target /\ Fr'.cursor = Fr.cursor /\ InLoop
      BY <1>0, <2>10, Went
    <3>2. Past(Fr', a) /\ Heads(Fr', a)
      BY <3>1 DEF Past, Heads
    <3>3. Fr.item \in Nat /\ Def[Fr.node.stage].items \in Nat
      BY <1>0, <3>1, InnerLoop
    <3>4. Towards(Fr', a)
      <4> SUFFICES ASSUME OfLoop(Fr), Single(Owner[Fr.node.stage]), NEW i \in 1 .. Def[Fr.node.stage].items,
                          ItemAt(Fr, i) \in Above[a], Fr.item + 1 <= i
                   PROVE  Fr.target = i /\ (a # ItemAt(Fr, i) => Fr.cursor = a)
        BY <3>1 DEF Towards, OfLoop, ItemAt
      <4>1. Fr.item <= i
        BY <3>3
      <4> QED BY <2>7, <3>1, <4>1 DEF Towards
    <3> QED BY <2>10, <3>2, <3>4
  <2>11. CASE LowerKept /\ ItemStarts
    BY <2>3, <2>7, <2>11, StartsOnTheWay
  <2>12. CASE Moves
    <3>1. LowerKept
      BY <2>12 DEF Moves
    <3> QED BY <2>3, <2>4, <2>12, <3>1, MovesOnTheWay
  <2> QED BY <1>2, <2>8, <2>9, <2>10, <2>11, <2>12, FrameSteps
<1> QED BY <1>1, <1>2

\* The stages around an item are those around its loop, and the loop.
LEMMA StagesAboveItem ==
  ASSUME NEW o \in Stages, NEW p \in Places[o], NEW i \in 1 .. Def[o].items, Def[o].type = "loop",
         NEW k \in StageNodes, k \in Above[Node(o, Append(p, i))]
  PROVE  k \in Above[Node(o, p)]
<1> DEFINE q == Append(p, i)
           n == Node(o, q)
           b == Node(o, p)
<1>1. /\ n \in Nodes /\ n.stage = o /\ n.items = q
      /\ b \in Nodes /\ b.stage = o /\ b.items = p
  <2>1. n \in Nodes
    BY LoopItem DEF Nodes
  <2>2. b \in Nodes
    BY DefAssumption, StageNode DEF Nodes
  <2> QED BY <2>1, <2>2, NodeFields
<1>2. k \in Nodes /\ k.stage \in Around[o] /\ k.items = SubSeq(q, 1, Len(k.items))
  <2> HIDE DEF n, b, q
  <2>1. k \in Above[n]
    BY DEF n, q
  <2> QED BY <1>1, <2>1, AboveIs
<1>3. PICK l \in 0 .. Len(p) : Len(k.items) = l
  BY <1>2, PlacesAround, StageNode
<1>4. p \in Seq(Nat) /\ i \in Nat /\ Len(p) \in Nat
  BY PlacesRecursion, StageFields
<1>5. k.items = SubSeq(p, 1, Len(k.items)) /\ Len(k.items) <= Len(p)
  BY <1>2, <1>3, <1>4, AppendPrefix
<1> HIDE DEF b
<1>6. k \in Above[b]
  BY <1>1, <1>2, <1>5, AboveIs
<1> QED BY <1>6 DEF b

\* What is in hand is within the stage that the workflow's own list is at.
LEMMA HandTop ==
  ASSUME Control, NEW n, InHand(n), NEW k \in StageNodes, k \in Above[n], Owner[k.stage] = Root
  PROVE  Runs(frames[1]) /\ k = CurOf(frames[1])
<1>0. Stacked(frames) /\ Len(frames) \in Nat \ {0} /\ Fr = frames[Len(frames)] /\ FrameOK(Fr)
  BY Innermost DEF Control, Fr
<1>1. k \in Encl(frames) \/ (Runs(Fr) /\ k = Cur)
  <2>1. CASE Runs(Fr) /\ n = Cur
    BY <2>1, Innermost
  <2>2. CASE Len(frames) > 1 /\ k \in Above[Fr.node]
    BY <2>2, Innermost
  <2>3. CASE InLoop /\ Fr.attempt > 0 /\ n = ItemNode
    <3>1. /\ Fr.item \in 1 .. Def[Fr.node.stage].items /\ Def[Fr.node.stage].type = "loop"
          /\ Fr.node.stage \in Stages /\ Fr.node.items \in Places[Fr.node.stage]
          /\ Fr.node = Node(Fr.node.stage, Fr.node.items) /\ Len(frames) > 1
      <4>1. /\ Fr.item \in 1 .. Loop.items + 1 /\ Fr.item <= Loop.items /\ Loop = Def[Fr.node.stage]
            /\ Loop.items \in Nat /\ Len(frames) > 1
        BY <2>3, InnerLoop
      <4> QED BY <1>0, <2>3, <4>1, FrameNode DEF InLoop
    <3>2. k \in Above[Node(Fr.node.stage, Append(Fr.node.items, Fr.item))]
      BY <2>3 DEF ItemNode
    <3>3. k \in Above[Fr.node]
      BY <3>1, <3>2, StagesAboveItem
    <3> QED BY <2>2, <3>1, <3>3
  <2> QED BY <2>1, <2>2, <2>3 DEF InHand
<1>2. PICK y \in 1 .. Len(frames) : Runs(frames[y]) /\ k = CurOf(frames[y])
  <2>1. CASE Runs(Fr) /\ k = Cur
    <3>1. Len(frames) \in 1 .. Len(frames)
      BY <1>0
    <3> QED BY <1>0, <2>1, <3>1, CurIs
  <2>2. CASE k \in Encl(frames)
    <3>1. PICK j \in 2 .. Len(frames) : k = frames[j].node
      BY <2>2 DEF Encl
    <3>2. j - 1 \in 1 .. Len(frames) - 1 /\ (j - 1) + 1 = j /\ j - 1 \in 1 .. Len(frames)
      BY <1>0
    <3> QED BY <1>0, <3>1, <3>2 DEF Stacked
  <2> QED BY <1>1, <2>1, <2>2
<1>3. FrameOK(frames[y])
  BY <1>0 DEF Stacked
<1>4. frames[y].node.stage = Root
  BY <1>2, <1>3, CurNode, FrameNode, Owners
<1>5. frames[y].node = RootNode
  BY <1>3, <1>4, FrameNode
<1>6. y \in 2 .. Len(frames) => frames[y].node \in Nodes
  BY <1>0, Chain DEF Nodes
<1>7. y = 1
  BY <1>0, <1>5, <1>6, NoSuchNode
<1> QED BY <1>2, <1>7

\* Nothing in hand is in an earlier item of a loop that the resume point is in.
LEMMA NoEarlierItem ==
  ASSUME Control, NEW a \in Nodes, \A x \in 1 .. Len(frames) : Towards(frames[x], a),
         NEW n, InHand(n), NEW k \in ItemNodes, k \in Above[n], NEW m \in ItemNodes, m \in Above[a],
         Parent(k) = Parent(m), k.items[Len(k.items)] < m.items[Len(m.items)], Single(Owner[m.stage])
  PROVE  FALSE
<1>1. PICK j \in 1 .. Len(frames) : OfLoop(frames[j]) /\ frames[j].attempt > 0
                                    /\ k = ItemAt(frames[j], frames[j].item)
  BY HandItems
<1> DEFINE f == frames[j]
<1>2. FrameOK(f) /\ OfLoop(f) /\ f.attempt > 0 /\ k = ItemAt(f, f.item) /\ Towards(f, a)
  BY <1>1 DEF Control, Stacked
<1> HIDE DEF f
<1>3. /\ f.node.stage \in Stages /\ f.node.items \in Seq(Nat) /\ f.item \in Nat
      /\ Def[f.node.stage].items \in Nat
  BY <1>2, FrameNode, FrameFields, PlacesRecursion
<1>4. k.stage = f.node.stage /\ k.items = Append(f.node.items, f.item)
  BY <1>2, NodeFields DEF ItemAt
<1>5. PICK r \in Places[m.stage], i \in 1 .. Def[m.stage].items : m = Node(m.stage, Append(r, i))
  BY LoopItem
<1>6. m.stage \in Stages /\ m.items = Append(r, i) /\ r \in Seq(Nat) /\ i \in Nat
  <2>1. m.stage \in Stages
    BY LoopItem
  <2>2. m.items = Append(r, i)
    BY <1>5, NodeFields
  <2> QED BY <2>1, <2>2, PlacesRecursion, StageFields
<1>7. \A p \in Seq(Nat), x \in Nat : /\ Front(Append(p, x)) = p
                                     /\ Append(p, x)[Len(Append(p, x))] = x
  <2> TAKE p \in Seq(Nat), x \in Nat
  <2>1. Len(p) \in 0 .. Len(p) /\ Len(p) \in Nat
    OBVIOUS
  <2>2. /\ Len(Append(p, x)) = Len(p) + 1 /\ Append(p, x)[Len(p) + 1] = x
        /\ SubSeq(Append(p, x), 1, Len(p)) = SubSeq(p, 1, Len(p)) /\ SubSeq(p, 1, Len(p)) = p
    BY <2>1, AppendPrefix
  <2> QED BY <2>1, <2>2 DEF Front
<1>8. Parent(k) = Node(f.node.stage, f.node.items) /\ Parent(m) = Node(m.stage, r)
  <2>1. Front(Append(f.node.items, f.item)) = f.node.items
    BY <1>3, <1>7
  <2>2. Front(Append(r, i)) = r
    BY <1>6, <1>7
  <2> QED BY <1>4, <1>6, <2>1, <2>2 DEF Parent
<1>9. m.stage = f.node.stage /\ r = f.node.items
  <2>1. /\ Node(m.stage, r).stage = m.stage /\ Node(m.stage, r).items = r
        /\ Node(f.node.stage, f.node.items).stage = f.node.stage
        /\ Node(f.node.stage, f.node.items).items = f.node.items
    BY NodeFields
  <2>2. Node(f.node.stage, f.node.items) = Node(m.stage, r)
    BY <1>8
  <2> QED BY <2>1, <2>2
<1>10. k.items[Len(k.items)] = f.item /\ m.items[Len(m.items)] = i
  BY <1>3, <1>4, <1>6, <1>7
<1>11. ItemAt(f, i) = m
  BY <1>5, <1>9 DEF ItemAt
<1>12. f.attempt = 0
  BY <1>2, <1>5, <1>9, <1>10, <1>11 DEF Towards
<1> QED BY <1>2, <1>12

\* Nothing in hand is within an earlier stage of the workflow's own list.
LEMMA NoEarlierStage ==
  ASSUME Control, NEW a \in Nodes, Past(frames[1], a),
         NEW n, InHand(n), NEW k \in StageNodes, k \in Above[n], NEW m \in StageNodes, m \in Above[a],
         Owner[k.stage] = Root, Owner[m.stage] = Root,
         Index(Body(Root), k.stage) < Index(Body(Root), m.stage)
  PROVE  FALSE
<1> DEFINE f == frames[1]
<1>1. Runs(f) /\ k = CurOf(f) /\ Past(f, a) /\ FrameOK(f) /\ f.node = RootNode
  <2>1. 1 \in 1 .. Len(frames)
    BY Innermost
  <2> QED BY <2>1, HandTop DEF Control, Stacked
<1> HIDE DEF f
<1>2. f.node.stage = Root /\ f.node.items = <<>> /\ ~OfLoop(f)
  BY <1>1, NodeFields, DefAssumption DEF RootNode, OfLoop
<1>3. \A i, j \in DOMAIN Body(Root) : Body(Root)[i] = Body(Root)[j] => i = j
  BY NoSuchNode, Owners
<1>4. /\ f.at \in DOMAIN Body(Root) /\ k.stage = Body(Root)[f.at] /\ f.at \in Nat
      /\ \A c \in DOMAIN Body(Root) : c \in Nat
  BY <1>1, <1>2, CurNode, FrameFields, NoSuchNode, StageFields
<1>5. Index(Body(Root), k.stage) = f.at
  BY <1>3, <1>4 DEF Index
<1>6. m.stage \in Stages \ {Root} /\ m.items \in Places[m.stage] /\ m = Node(m.stage, m.items)
  BY StageNode
<1>7. PICK c \in DOMAIN Body(Root) : Body(Root)[c] = m.stage
  BY <1>6, Owners
<1>8. Index(Body(Root), m.stage) = c
  BY <1>3, <1>7 DEF Index
<1>9. m.items = <<>>
  <2>1. Places[m.stage] = Places[Root] /\ Places[Root] = {<<>>}
    BY <1>7, NoSuchNode, PlacesWithin, PlacesRecursion, DefAssumption DEF PlacesFrom
  <2> QED BY <1>6, <2>1
<1>10. StageAt(f, c) = m
  BY <1>2, <1>6, <1>7, <1>9 DEF StageAt, Under, OfLoop
<1>11. Single(Root) /\ f.attempt > 0
  BY <1>1, AroundRecursion, NoSuchNode DEF Single, Runs
<1>12. f.at >= c
  BY <1>1, <1>2, <1>7, <1>10, <1>11 DEF Past
<1> QED BY <1>4, <1>5, <1>7, <1>8, <1>12

\* What a step of a resumed run writes is not earlier than where it was resumed.
LEMMA EarlierKept ==
  ASSUME TreeInv, RecordTypes, OnTheWay, [Next]_vars, NEW a \in Nodes, from = a, NEW n \in Earlier[a]
  PROVE  status'[n] = status[n]
<1> SUFFICES ASSUME status'[n] # status[n] PROVE FALSE
  OBVIOUS
<1>1. PICK m \in Above[a], k \in Above[n] :
        \/ /\ {k, m} \subseteq ItemNodes /\ Parent(k) = Parent(m)
           /\ k.items[Len(k.items)] < m.items[Len(m.items)]
           /\ \A o \in Around[Owner[m.stage]] : Def[o].attempts = 1
        \/ /\ {k, m} \subseteq StageNodes /\ {Owner[k.stage], Owner[m.stage]} = {Root}
           /\ Index(Body(Root), k.stage) < Index(Body(Root), m.stage)
  BY DEF Earlier
<1>2. n \in Nodes
  BY DEF Earlier
<1>3. Control /\ Alive /\ InHand(n)
  BY <1>2, WriteSteps DEF RecordKept, TreeInv
<1>4. \A x \in 1 .. Len(frames) : Past(frames[x], a) /\ Towards(frames[x], a)
  BY <1>3, NoSuchNode DEF OnTheWay
<1>5. CASE {k, m} \subseteq ItemNodes /\ Parent(k) = Parent(m)
           /\ k.items[Len(k.items)] < m.items[Len(m.items)]
           /\ \A o \in Around[Owner[m.stage]] : Def[o].attempts = 1
  <2>1. k \in ItemNodes /\ m \in ItemNodes /\ Single(Owner[m.stage])
    BY <1>5 DEF Single
  <2> QED BY <1>3, <1>4, <1>5, <2>1, NoEarlierItem
<1>6. CASE {k, m} \subseteq StageNodes /\ {Owner[k.stage], Owner[m.stage]} = {Root}
           /\ Index(Body(Root), k.stage) < Index(Body(Root), m.stage)
  <2>1. k \in StageNodes /\ m \in StageNodes /\ Owner[k.stage] = Root /\ Owner[m.stage] = Root
    BY <1>6
  <2>2. 1 \in 1 .. Len(frames)
    BY <1>3, Innermost
  <2>3. Past(frames[1], a)
    BY <1>4, <2>2
  <2> QED BY <1>3, <1>6, <2>1, <2>3, NoEarlierStage
<1> QED BY <1>1, <1>5, <1>6

\* A resumption neither redoes nor starts anything that comes before its resume point, also
\* where it resumes into an item of loops within loops: the frames lead down to the resume
\* point, each at the stage or the item that it is in, or are past it
\* (custom_workflow.py:345-409, 740-843).  A branch of the workflow's own list that jumps
\* back would redo what it jumps over.
THEOREM ResumptionKeepsEarlierWork == JumpsForward => (Spec => EarlierWorkKept)
<1> SUFFICES ASSUME JumpsForward PROVE Spec => EarlierWorkKept
  OBVIOUS
<1>1. Init => TypeInv /\ OnTheWay
  BY TypesStart DEF Init, OnTheWay
<1>2. /\ TreeInv /\ TreeInv' /\ ResumeInv /\ TypeInv /\ OnTheWay /\ [Next]_vars
      => TypeInv' /\ OnTheWay'
  BY ControlSteps, RecordSteps, SlotSteps, OnTheWaySteps DEF TypeInv
<1>3. TreeInv /\ ResumeInv /\ TypeInv /\ OnTheWay /\ [Next]_vars
      => [from # NoNode => \A n \in Earlier[from] : status'[n] = status[n]]_vars
  <2> SUFFICES ASSUME TreeInv, ResumeInv, TypeInv, OnTheWay, [Next]_vars, from # NoNode,
                      NEW n \in Earlier[from]
               PROVE  status'[n] = status[n]
    OBVIOUS
  <2>1. PICK a \in Nodes : a = from
    BY DEF ResumeInv, Aimed
  <2> QED BY <2>1, EarlierKept DEF TypeInv
<1> QED BY <1>1, <1>2, <1>3, TreeAlways, ResumesAlways, PTL DEF Spec, EarlierWorkKept
=============================================================================
