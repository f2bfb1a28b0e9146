-------------------------- MODULE StageRunnerProofs --------------------------
(***************************************************************************)
(* What holds of StageRunner for stages nested to any depth.               *)
(***************************************************************************)
EXTENDS StageRunner, TLAPS

-----------------------------------------------------------------------------
(* The events of a queue *)

Elems(q) == {q[i] : i \in 1 .. Len(q)}

LEMMA ElemsAppend ==
  ASSUME NEW S, NEW q \in Seq(S), NEW e \in S
  PROVE  Append(q, e) \in Seq(S) /\ Elems(Append(q, e)) = Elems(q) \cup {e}
<1>1. /\ Append(q, e) \in Seq(S) /\ Len(q) \in Nat /\ Len(Append(q, e)) = Len(q) + 1
      /\ Append(q, e)[Len(q) + 1] = e
      /\ \A i \in 1 .. Len(q) : Append(q, e)[i] = q[i]
  OBVIOUS
<1>2. 1 .. Len(q) + 1 = (1 .. Len(q)) \cup {Len(q) + 1}
  BY <1>1
<1> QED BY <1>1, <1>2 DEF Elems

LEMMA ElemsTail ==
  ASSUME NEW S, NEW q \in Seq(S), q # <<>>
  PROVE  /\ Tail(q) \in Seq(S) /\ Head(q) \in S
         /\ Elems(Tail(q)) \subseteq Elems(q) /\ Head(q) \in Elems(q)
<1>1. /\ Tail(q) \in Seq(S) /\ Len(q) \in Nat /\ Len(q) > 0 /\ Len(Tail(q)) = Len(q) - 1
      /\ Head(q) = q[1] /\ Head(q) \in S
      /\ \A i \in 1 .. Len(q) - 1 : Tail(q)[i] = q[i + 1]
  OBVIOUS
<1>2. \A i \in 1 .. Len(q) - 1 : i + 1 \in 1 .. Len(q)
  BY <1>1
<1>3. 1 \in 1 .. Len(q)
  BY <1>1
<1> QED BY <1>1, <1>2, <1>3 DEF Elems

LEMMA ElemsConcat ==
  ASSUME NEW S, NEW q \in Seq(S), NEW r \in Seq(S)
  PROVE  q \o r \in Seq(S) /\ Elems(q \o r) \subseteq Elems(q) \cup Elems(r)
<1>1. /\ q \o r \in Seq(S) /\ Len(q) \in Nat /\ Len(r) \in Nat
      /\ Len(q \o r) = Len(q) + Len(r)
  OBVIOUS
<1>2. SUFFICES ASSUME NEW i \in 1 .. Len(q) + Len(r) PROVE (q \o r)[i] \in Elems(q) \cup Elems(r)
  BY <1>1 DEF Elems
<1>3. CASE i <= Len(q)
  <2>1. i \in 1 .. Len(q) /\ (q \o r)[i] = q[i]
    BY <1>1, <1>3
  <2> QED BY <2>1 DEF Elems
<1>4. CASE i > Len(q)
  <2>1. i - Len(q) \in 1 .. Len(r) /\ (q \o r)[i] = r[i - Len(q)]
    BY <1>1, <1>4
  <2> QED BY <2>1 DEF Elems
<1> QED BY <1>1, <1>3, <1>4

LEMMA ElemsOne == ASSUME NEW e PROVE Elems(<<e>>) = {e}
BY DEF Elems

LEMMA ElemsEmpty == Elems(<<>>) = {}
BY DEF Elems

-----------------------------------------------------------------------------
(* What a step of a stage's loop does *)

Working == {"llm", "next", "asking", "tool"}
Error == Event("error", 0)
StageDone == Event("_stage_done", 0)

\* The loop ends: the last of its events is _stage_done.
EndsLoop(l) ==
  /\ pc' = [pc EXCEPT ![l] = "over"]
  /\ \E q : /\ out' = [out EXCEPT ![l] = q] /\ q \in Seq(EventSet)
            /\ Elems(q) \subseteq Elems(out[l]) \cup {Error, StageDone}

\* It goes on to another of its awaits.
GoesOn(l) == (\E p \in Working : pc' = [pc EXCEPT ![l] = p]) /\ out' = out

Counters ==
  /\ turn \in [Levels -> 0 .. MaxTurns - 1] /\ left \in [Levels -> 0 .. MaxPerTurn]
  /\ finished \in [Levels -> BOOLEAN]

LEMMA LevelsTyped ==
  /\ StageLevels \subseteq Levels /\ 0 \in Levels /\ 1 \in Levels
  /\ \A l \in Levels : l = 0 \/ l \in StageLevels
  /\ \A l \in StageLevels : l - 1 \in Levels /\ l # 0
  /\ \A l \in Levels : l < Depth => l + 1 \in StageLevels /\ l # l + 1
BY DepthAssumption DEF StageLevels, Levels

LEMMA EventsTyped ==
  /\ Error \in EventSet /\ StageDone \in EventSet
  /\ \A t \in {"done", "error"} : Event(t, 0) \in EventSet
  /\ \A c \in Confirms : Event("tool_confirm", c) \in EventSet
BY DEF Error, StageDone, Event, EventSet

LEMMA LoopEndsEffect ==
  ASSUME TypeOK, NEW l \in StageLevels, NEW es \in {<<>>, <<Error>>}, LoopEnds(l, es)
  PROVE  EndsLoop(l)
<1>1. out[l] \in Seq(EventSet)
  BY LevelsTyped DEF TypeOK
<1> DEFINE q == out[l] \o es \o <<StageDone>>
<1>2. out' = [out EXCEPT ![l] = q] /\ pc' = [pc EXCEPT ![l] = "over"]
  BY DEF LoopEnds, StageDone
<1>3. es \in Seq(EventSet) /\ Elems(es) \subseteq {Error}
  <2>1. CASE es = <<>>
    BY <2>1, ElemsEmpty
  <2>2. CASE es = <<Error>>
    <3>1. <<Error>> \in Seq(EventSet)
      BY EventsTyped
    <3>2. Elems(es) = {Error}
      BY <2>2, ElemsOne
    <3> QED BY <2>2, <3>1, <3>2
  <2> QED BY <2>1, <2>2
<1>4. <<StageDone>> \in Seq(EventSet) /\ Elems(<<StageDone>>) = {StageDone}
  BY EventsTyped, ElemsOne
<1>5. out[l] \o es \in Seq(EventSet) /\ Elems(out[l] \o es) \subseteq Elems(out[l]) \cup Elems(es)
  BY <1>1, <1>3, ElemsConcat
<1>6. q \in Seq(EventSet) /\ Elems(q) \subseteq Elems(out[l] \o es) \cup Elems(<<StageDone>>)
  BY <1>4, <1>5, ElemsConcat
<1> HIDE DEF q
<1>7. Elems(q) \subseteq Elems(out[l]) \cup {Error, StageDone}
  BY <1>3, <1>4, <1>5, <1>6
<1> QED BY <1>2, <1>6, <1>7 DEF EndsLoop

\* After its last call a turn ends the stage or is followed by another.
LEMMA TurnEndsEffect ==
  ASSUME TypeOK, NEW l \in StageLevels, TurnEnds(l), finished' \in [Levels -> BOOLEAN]
  PROVE  (EndsLoop(l) \/ GoesOn(l)) /\ Counters'
<1>1. /\ l \in Levels /\ turn[l] \in 0 .. MaxTurns - 1 /\ MaxTurns \in Nat \ {0} /\ MaxPerTurn \in Nat
      /\ finished'[l] \in BOOLEAN
  BY LevelsTyped, BoundsAssumption DEF TypeOK
<1>2. left' \in [Levels -> 0 .. MaxPerTurn]
  BY <1>1 DEF TurnEnds, TypeOK
<1>3. CASE finished'[l]
  <2>1. LoopEnds(l, <<>>) /\ turn' = turn
    BY <1>3 DEF TurnEnds
  <2> QED BY <1>2, <2>1, LoopEndsEffect DEF Counters, TypeOK
<1>4. CASE ~finished'[l] /\ turn[l] + 1 = MaxTurns
  <2>1. LoopEnds(l, <<Error>>) /\ turn' = turn
    BY <1>4 DEF TurnEnds, Error
  <2> QED BY <1>2, <2>1, LoopEndsEffect DEF Counters, TypeOK
<1>5. CASE ~finished'[l] /\ turn[l] + 1 # MaxTurns
  <2>1. turn' = [turn EXCEPT ![l] = @ + 1] /\ pc' = [pc EXCEPT ![l] = "llm"] /\ out' = out
    BY <1>5 DEF TurnEnds
  <2>2. turn[l] + 1 \in 0 .. MaxTurns - 1
    BY <1>1, <1>5
  <2>3. turn' \in [Levels -> 0 .. MaxTurns - 1]
    BY <1>1, <2>1, <2>2 DEF TypeOK
  <2> QED BY <1>2, <2>1, <2>3 DEF Counters, GoesOn, Working
<1> QED BY <1>3, <1>4, <1>5

LEMMA CompletesEffect ==
  ASSUME TypeOK, NEW l \in StageLevels, Completes(l), finished' = finished
  PROVE  (EndsLoop(l) \/ GoesOn(l)) /\ Counters'
<1>1. CASE LoopEnds(l, <<Error>>) /\ UNCHANGED <<turn, left>>
  BY <1>1, LoopEndsEffect DEF Counters, TypeOK
<1>2. CASE pc' = [pc EXCEPT ![l] = "next"] /\ UNCHANGED <<out, turn, left>>
  BY <1>2 DEF Counters, GoesOn, Working, TypeOK
<1>3. CASE TurnEnds(l)
  BY <1>3, TurnEndsEffect DEF TypeOK
<1> QED BY <1>1, <1>2, <1>3 DEF Completes, Error

\* A step of a loop that neither asks nor explores ends the loop or goes on.
PlainLoop(l) ==
  \/ ModelAnswers(l) \/ StageCrashes(l) \/ \E n \in 1 .. MaxPerTurn : ModelCalls(l, n)
  \/ CallsPlain(l) \/ CallsFinish(l) \/ ToolReturns(l) \/ Approved(l) \/ Rejected(l)

LEMMA PlainLoopEffect ==
  ASSUME TypeOK, NEW l \in StageLevels, PlainLoop(l)
  PROVE  /\ pc[l] \in Working /\ (EndsLoop(l) \/ GoesOn(l))
         /\ Counters'
         /\ UNCHANGED <<cancel, cur, pending, future, asked, clientVars, stages>>
<1> USE LevelsTyped DEF Error
<1>1. CASE ModelAnswers(l)
  BY <1>1, LoopEndsEffect DEF ModelAnswers, LoopUnchanged, Runs, Working, Counters, TypeOK
<1>2. CASE StageCrashes(l)
  BY <1>2, LoopEndsEffect DEF StageCrashes, LoopUnchanged, Runs, Working, Counters, TypeOK
<1>3. ASSUME NEW n \in 1 .. MaxPerTurn, ModelCalls(l, n)
      PROVE  /\ pc[l] \in Working /\ GoesOn(l) /\ Counters'
             /\ UNCHANGED <<cancel, cur, pending, future, asked, clientVars, stages>>
  <2>1. left' \in [Levels -> 0 .. MaxPerTurn]
    BY <1>3, BoundsAssumption DEF ModelCalls, TypeOK
  <2> QED BY <1>3, <2>1 DEF ModelCalls, LoopUnchanged, Runs, Working, GoesOn, Counters, TypeOK
<1>4. Taken(l) /\ left[l] > 0 => left' \in [Levels -> 0 .. MaxPerTurn]
  <2>1. left[l] \in 0 .. MaxPerTurn /\ MaxPerTurn \in Nat
    BY BoundsAssumption DEF TypeOK
  <2>2. left[l] > 0 => left[l] - 1 \in 0 .. MaxPerTurn
    BY <2>1
  <2> QED BY <2>2 DEF Taken, TypeOK
<1>5. CASE CallsPlain(l)
  BY <1>4, <1>5 DEF CallsPlain, CallsAny, Calls, Runs, Working, GoesOn, Counters, TypeOK, sessionVars
<1>6. CASE CallsFinish(l)
  <2>1. finished' \in [Levels -> BOOLEAN]
    BY <1>6 DEF CallsFinish, TypeOK
  <2>2. /\ pc[l] \in Working /\ left[l] > 0
        /\ UNCHANGED <<cancel, cur, pending, future, asked, clientVars, stages>>
    BY <1>6 DEF CallsFinish, Calls, Runs, Working
  <2>3. CASE LoopEnds(l, <<Event("error", 0)>>) /\ UNCHANGED <<turn, left>>
    BY <2>1, <2>2, <2>3, LoopEndsEffect DEF Counters, TypeOK
  <2>4. CASE Taken(l) /\ pc' = [pc EXCEPT ![l] = "next"] /\ UNCHANGED <<out, turn>>
    BY <1>4, <2>1, <2>2, <2>4 DEF GoesOn, Working, Counters, TypeOK
  <2>5. CASE TurnEnds(l)
    BY <2>1, <2>2, <2>5, TurnEndsEffect
  <2> QED BY <1>6, <2>3, <2>4, <2>5 DEF CallsFinish
<1>7. CASE ToolReturns(l)
  BY <1>7, CompletesEffect DEF ToolReturns, LoopUnchanged, Runs, Working
<1>8. CASE Approved(l)
  BY <1>8 DEF Approved, LoopUnchanged, Runs, Working, GoesOn, Counters, TypeOK
<1>9. CASE Rejected(l)
  BY <1>9, CompletesEffect DEF Rejected, LoopUnchanged, Runs, Working
<1> QED BY <1>1, <1>2, <1>3, <1>5, <1>6, <1>7, <1>8, <1>9 DEF PlainLoop

-----------------------------------------------------------------------------
(* The invariant *)

\* What is in the queue of level l: a confirmation can be answered at this level or has
\* been, a stage that says it is done is over, and so is the caller after its last event.
QueueOK(l) ==
  \A e \in Elems(out[l]) :
    /\ e.type = "tool_confirm" <=> e.confirm # 0
    /\ e.confirm # 0 => /\ e.confirm \in 1 .. asked
                        /\ e.confirm \in pending[l] \/ (l = 0 /\ e.confirm \in replied)
    /\ l # 0 /\ e.type = "_stage_done" => pc[l] = "over"
    /\ l = 0 /\ IsTerminal(e) => pc[0] = "over"

\* Confirmations exist from when they are asked for.
AskedOK ==
  /\ \A l \in Levels : pending[l] \subseteq 1 .. asked
  /\ \A c \in 1 .. asked : future[c] # "none"

\* What the client has seen it can still answer, unless it has.
ClientOK ==
  /\ replied \subseteq shown /\ shown \subseteq 1 .. asked
  /\ shown \ replied \subseteq pending[0]
  /\ \A c \in replied : future[c] \in {"yes", "no", "cancelled"}
  /\ client = "told" => pc[0] = "over"

Inv ==
  /\ TypeOK /\ NoOrphanStage
  /\ \A l \in Levels : QueueOK(l)
  /\ AskedOK /\ ClientOK

\* A task that does not run a stage has none below it.
LEMMA NoChild ==
  ASSUME Inv, NEW l \in Levels, pc[l] \notin {"stage", "joining"}
  PROVE  \A m \in StageLevels : m - 1 = l => ~Alive(m)
BY DEF Inv, NoOrphanStage

\* Levels above the one whose place changes are the levels of others.
LEMMA OrphansOf ==
  ASSUME Inv, NEW l \in Levels,
         pc'[l] \in {"stage", "joining"} \/ \A m \in StageLevels : m - 1 = l => ~Alive(m),
         \A m \in Levels \ {l} : pc'[m] = pc[m],
         pc'[l] \notin {"none", "over"} => pc[l] \notin {"none", "over"}
  PROVE  NoOrphanStage'
<1> SUFFICES ASSUME NEW m \in StageLevels, pc'[m] \notin {"none", "over"}
             PROVE  pc'[m - 1] \in {"stage", "joining"}
  BY DEF NoOrphanStage, Alive
<1>1. m \in Levels /\ m - 1 \in Levels
  BY LevelsTyped
<1>2. Alive(m)
  BY <1>1 DEF Alive
<1>3. pc[m - 1] \in {"stage", "joining"}
  BY <1>2 DEF Inv, NoOrphanStage
<1>4. CASE m - 1 = l
  BY <1>2, <1>4
<1>5. CASE m - 1 # l
  BY <1>1, <1>3, <1>5
<1> QED BY <1>4, <1>5

\* A loop that ends leaves the invariant, whatever future it cancels.
LEMMA EndsLoopInv ==
  ASSUME Inv, NEW l \in StageLevels, EndsLoop(l), Counters',
         pc[l] \notin {"stage", "joining"} \/ \A m \in StageLevels : m - 1 = l => ~Alive(m),
         UNCHANGED <<cur, pending, asked, clientVars, stages>>,
         cancel' \in [Levels -> BOOLEAN],
         \/ future' = future
         \/ \E c : future' = [future EXCEPT ![c] = "cancelled"]
  PROVE  Inv'
<1>1. l \in Levels /\ l # 0 /\ 0 \in Levels
  BY LevelsTyped
<1>2. PICK q : /\ out' = [out EXCEPT ![l] = q] /\ q \in Seq(EventSet)
               /\ Elems(q) \subseteq Elems(out[l]) \cup {Error, StageDone}
  BY DEF EndsLoop
<1>3. /\ pc' = [pc EXCEPT ![l] = "over"] /\ pc'[l] = "over"
      /\ \A m \in Levels \ {l} : pc'[m] = pc[m]
  BY <1>1 DEF EndsLoop, Inv, TypeOK
<1>4. out'[l] = q /\ \A m \in Levels \ {l} : out'[m] = out[m]
  BY <1>1, <1>2 DEF Inv, TypeOK
<1>5. /\ future' \in [Confirms -> {"none", "open", "yes", "no", "cancelled"}]
      /\ \A c \in Confirms : future'[c] = future[c] \/ future'[c] = "cancelled"
  BY DEF Inv, TypeOK
<1>6. TypeOK'
  <2>1. pc' \in [Levels -> Places]
    BY <1>1, <1>3 DEF Inv, TypeOK, Places
  <2>2. out' \in [Levels -> Seq(EventSet)]
    BY <1>1, <1>2 DEF Inv, TypeOK
  <2> QED BY <1>5, <2>1, <2>2 DEF Inv, TypeOK, Counters, clientVars
<1>7. NoOrphanStage'
  BY <1>1, <1>3, NoChild, OrphansOf
<1>8. \A m \in Levels : QueueOK(m)'
  <2>1. ASSUME NEW m \in Levels \ {l} PROVE QueueOK(m)'
    <3>1. QueueOK(m)
      BY DEF Inv
    <3> QED BY <1>1, <1>3, <1>4, <3>1 DEF QueueOK, IsTerminal, clientVars
  <2>2. QueueOK(l)'
    <3>1. QueueOK(l) /\ UNCHANGED <<pending, asked, replied>>
      BY <1>1 DEF Inv, clientVars
    <3>2. /\ Error.confirm = 0 /\ StageDone.confirm = 0
          /\ Error.type # "tool_confirm" /\ StageDone.type # "tool_confirm"
      BY DEF Error, StageDone, Event
    <3> QED BY <1>1, <1>2, <1>3, <1>4, <3>1, <3>2 DEF QueueOK
  <2> QED BY <2>1, <2>2
<1>9. 1 .. asked \subseteq Confirms /\ 1 .. asked' = 1 .. asked
  BY BoundsAssumption DEF Inv, TypeOK, Confirms
<1>10. AskedOK'
  BY <1>5, <1>9 DEF Inv, AskedOK
<1>11. ClientOK'
  BY <1>1, <1>3, <1>5, <1>9 DEF Inv, ClientOK, clientVars
<1> QED BY <1>6, <1>7, <1>8, <1>10, <1>11 DEF Inv

\* So does a caller that ends, with an event of its own.
LEMMA CallerEndsInv ==
  ASSUME Inv, NEW t \in {"done", "error"}, CallerEnds(t),
         \A m \in StageLevels : m - 1 = 0 => ~Alive(m),
         UNCHANGED <<turn, left, finished, cur, pending, asked, clientVars, stages>>,
         cancel' \in [Levels -> BOOLEAN],
         \/ future' = future
         \/ \E c : future' = [future EXCEPT ![c] = "cancelled"]
  PROVE  Inv'
<1> DEFINE e == Event(t, 0)
<1>1. 0 \in Levels /\ e \in EventSet
  BY LevelsTyped, EventsTyped
<1>2. out' = [out EXCEPT ![0] = Append(@, e)] /\ pc' = [pc EXCEPT ![0] = "over"]
  BY DEF CallerEnds
<1>3. pc'[0] = "over" /\ \A m \in Levels \ {0} : pc'[m] = pc[m]
  BY <1>1, <1>2 DEF Inv, TypeOK
<1> HIDE DEF e
<1>4. /\ out'[0] \in Seq(EventSet) /\ Elems(out'[0]) = Elems(out[0]) \cup {e}
      /\ \A m \in Levels \ {0} : out'[m] = out[m]
  <2>1. out[0] \in Seq(EventSet)
    BY <1>1 DEF Inv, TypeOK
  <2>2. out'[0] = Append(out[0], e) /\ \A m \in Levels \ {0} : out'[m] = out[m]
    BY <1>1, <1>2 DEF Inv, TypeOK
  <2> QED BY <1>1, <2>1, <2>2, ElemsAppend
<1>5. /\ future' \in [Confirms -> {"none", "open", "yes", "no", "cancelled"}]
      /\ \A c \in Confirms : future'[c] = future[c] \/ future'[c] = "cancelled"
  BY DEF Inv, TypeOK
<1>6. TypeOK'
  <2>1. pc' \in [Levels -> Places]
    BY <1>1, <1>2 DEF Inv, TypeOK, Places
  <2>2. out' \in [Levels -> Seq(EventSet)]
    BY <1>1, <1>2, <1>4 DEF Inv, TypeOK
  <2> QED BY <1>5, <2>1, <2>2 DEF Inv, TypeOK, clientVars
<1>7. NoOrphanStage'
  BY <1>1, <1>3, OrphansOf
<1>8. \A m \in Levels : QueueOK(m)'
  <2>1. ASSUME NEW m \in Levels \ {0} PROVE QueueOK(m)'
    <3>1. QueueOK(m)
      BY DEF Inv
    <3> QED BY <1>3, <1>4, <3>1 DEF QueueOK, clientVars
  <2>2. QueueOK(0)'
    <3>1. QueueOK(0) /\ UNCHANGED <<pending, asked, replied>>
      BY <1>1 DEF Inv, clientVars
    <3>2. e.confirm = 0 /\ e.type # "tool_confirm"
      BY DEF e, Event
    <3> QED BY <1>3, <1>4, <3>1, <3>2 DEF QueueOK
  <2> QED BY <2>1, <2>2
<1>9. 1 .. asked \subseteq Confirms /\ 1 .. asked' = 1 .. asked
  BY BoundsAssumption DEF Inv, TypeOK, Confirms
<1>10. AskedOK'
  BY <1>5, <1>9 DEF Inv, AskedOK
<1>11. ClientOK'
  BY <1>3, <1>5, <1>9 DEF Inv, ClientOK, clientVars
<1> QED BY <1>6, <1>7, <1>8, <1>10, <1>11 DEF Inv

\* Whatever its level, a task that unwinds with no stage below it.
LEMMA UnwindsInv ==
  ASSUME Inv, NEW l \in Levels, Unwinds(l),
         \A m \in StageLevels : m - 1 = l => ~Alive(m),
         UNCHANGED <<turn, left, finished, cur, pending, asked, clientVars, stages>>,
         cancel' \in [Levels -> BOOLEAN],
         \/ future' = future
         \/ \E c : future' = [future EXCEPT ![c] = "cancelled"]
  PROVE  Inv'
<1>1. CASE l = 0
  BY <1>1, CallerEndsInv DEF Unwinds
<1>2. CASE l \in StageLevels
  <2>1. LoopEnds(l, <<>>) /\ TypeOK /\ l # 0
    BY <1>2, LevelsTyped DEF Unwinds, Inv
  <2>2. EndsLoop(l)
    BY <1>2, <2>1, LoopEndsEffect
  <2>3. Counters'
    BY DEF Inv, TypeOK, Counters
  <2> QED BY <1>2, <2>2, <2>3, EndsLoopInv
<1> QED BY <1>1, <1>2, LevelsTyped

-----------------------------------------------------------------------------
(* The steps *)

\* A loop goes on: neither queues nor confirmations change.
LEMMA GoesOnInv ==
  ASSUME Inv, NEW l \in StageLevels, GoesOn(l), pc[l] \in Working, Counters',
         UNCHANGED <<cancel, cur, pending, future, asked, clientVars, stages>>
  PROVE  Inv'
<1>1. l \in Levels /\ l # 0 /\ 0 \in Levels
  BY LevelsTyped
<1>2. /\ out' = out /\ pc'[l] \in Working /\ pc' \in [Levels -> Places]
      /\ \A m \in Levels \ {l} : pc'[m] = pc[m]
  BY <1>1 DEF GoesOn, Inv, TypeOK, Places, Working
<1>3. TypeOK'
  BY <1>2 DEF Inv, TypeOK, Counters, clientVars
<1>4. NoOrphanStage'
  BY <1>1, <1>2, NoChild, OrphansOf DEF Working
<1>5. \A m \in Levels : QueueOK(m)'
  <2>1. ASSUME NEW m \in Levels \ {l} PROVE QueueOK(m)'
    <3>1. QueueOK(m)
      BY DEF Inv
    <3> QED BY <1>1, <1>2, <3>1 DEF QueueOK, clientVars
  <2>2. QueueOK(l)'
    <3>1. QueueOK(l)
      BY <1>1 DEF Inv
    <3> QED BY <1>1, <1>2, <3>1 DEF QueueOK, clientVars, Working
  <2> QED BY <2>1, <2>2
<1>6. AskedOK' /\ ClientOK'
  BY <1>1, <1>2 DEF Inv, AskedOK, ClientOK, clientVars
<1> QED BY <1>3, <1>4, <1>5, <1>6 DEF Inv

\* A prompt goes into the queue with its future registered at the same level.
LEMMA AsksInv ==
  ASSUME Inv, NEW l \in Levels, pc[l] = "next", Asks(l),
         left' \in [Levels -> 0 .. MaxPerTurn],
         UNCHANGED <<cancel, turn, finished, clientVars, stages>>
  PROVE  Inv'
<1> DEFINE c == asked + 1
           e == Event("tool_confirm", c)
<1>1. l \in Levels /\ 0 \in Levels
  BY LevelsTyped
<1>2. pc[l] = "next" /\ asked < MaxConfirms /\ UNCHANGED <<cancel, turn, finished, clientVars, stages>>
  BY DEF Asks
<1>3. asked \in Nat /\ c \in Confirms /\ c \notin 1 .. asked /\ 1 .. c = (1 .. asked) \cup {c} /\ c \in 0 .. MaxConfirms
  BY <1>2, BoundsAssumption DEF Inv, TypeOK, Confirms
<1>4. /\ asked' = c /\ out' = [out EXCEPT ![l] = Append(@, e)]
      /\ pending' = [pending EXCEPT ![l] = @ \cup {c}]
      /\ future' = [future EXCEPT ![c] = "open"] /\ cur' = [cur EXCEPT ![l] = c]
      /\ pc' = [pc EXCEPT ![l] = "asking"]
  BY DEF Asks
<1>5. e \in EventSet /\ e.type = "tool_confirm" /\ e.confirm = c /\ c # 0
  BY <1>3, EventsTyped DEF Event
<1> HIDE DEF e
<1>6. /\ out'[l] \in Seq(EventSet) /\ Elems(out'[l]) = Elems(out[l]) \cup {e}
      /\ \A m \in Levels \ {l} : out'[m] = out[m]
  <2>1. out[l] \in Seq(EventSet)
    BY <1>1 DEF Inv, TypeOK
  <2>2. out'[l] = Append(out[l], e) /\ \A m \in Levels \ {l} : out'[m] = out[m]
    BY <1>1, <1>4 DEF Inv, TypeOK
  <2> QED BY <1>5, <2>1, <2>2, ElemsAppend
<1> HIDE DEF c
<1>7. pc'[l] = "asking" /\ \A m \in Levels \ {l} : pc'[m] = pc[m]
  BY <1>1, <1>4 DEF Inv, TypeOK
<1>8. TypeOK'
  <2>1. out' \in [Levels -> Seq(EventSet)]
    BY <1>1, <1>4, <1>6 DEF Inv, TypeOK
  <2>2. pc' \in [Levels -> Places]
    BY <1>1, <1>4 DEF Inv, TypeOK, Places
  <2>3. pending' \in [Levels -> SUBSET Confirms] /\ cur' \in [Levels -> Confirms \cup {0}] /\ asked' \in 0 .. MaxConfirms
    BY <1>1, <1>3, <1>4 DEF Inv, TypeOK
  <2>4. future' \in [Confirms -> {"none", "open", "yes", "no", "cancelled"}]
    BY <1>3, <1>4 DEF Inv, TypeOK
  <2> QED BY <1>2, <2>1, <2>2, <2>3, <2>4 DEF Inv, TypeOK, clientVars
<1>9. NoOrphanStage'
  BY <1>1, <1>2, <1>7, NoChild, OrphansOf
<1>10. \A m \in Levels : pending'[m] = IF m = l THEN pending[m] \cup {c} ELSE pending[m]
  BY <1>1, <1>4 DEF Inv, TypeOK
<1>11. \A m \in Levels : QueueOK(m)'
  <2>1. ASSUME NEW m \in Levels \ {l} PROVE QueueOK(m)'
    <3>1. QueueOK(m)
      BY DEF Inv
    <3> QED BY <1>2, <1>3, <1>4, <1>6, <1>7, <1>10, <3>1 DEF QueueOK, clientVars
  <2>2. QueueOK(l)'
    <3>1. QueueOK(l)
      BY <1>1 DEF Inv
    <3>2. \A x \in Elems(out[l]) : (l # 0 => x.type # "_stage_done") /\ (l = 0 => ~IsTerminal(x))
      BY <1>1, <1>2, <3>1 DEF QueueOK
    <3>3. asked' = c /\ pending'[l] = pending[l] \cup {c} /\ c \in 1 .. c /\ replied' = replied
      BY <1>1, <1>2, <1>3, <1>4, <1>10 DEF clientVars
    <3>4. \A x \in Elems(out[l]) :
            /\ x.type = "tool_confirm" <=> x.confirm # 0
            /\ x.confirm # 0 => /\ x.confirm \in 1 .. asked
                                /\ x.confirm \in pending[l] \/ (l = 0 /\ x.confirm \in replied)
      BY <1>1, <3>1 DEF QueueOK
    <3>5. \A x \in Elems(out'[l]) :
            /\ x.type = "tool_confirm" <=> x.confirm # 0
            /\ x.confirm # 0 => /\ x.confirm \in 1 .. asked'
                                /\ x.confirm \in pending'[l] \/ (l = 0 /\ x.confirm \in replied')
      BY <1>3, <1>5, <1>6, <3>3, <3>4
    <3>6. \A x \in Elems(out'[l]) : (l # 0 => x.type # "_stage_done") /\ (l = 0 => ~IsTerminal(x))
      BY <1>5, <1>6, <3>2 DEF IsTerminal
    <3> QED BY <1>1, <3>5, <3>6 DEF QueueOK
  <2> QED BY <2>1, <2>2
<1>12. AskedOK'
  <2>1. \A x \in 1 .. asked' : future'[x] # "none"
    <3>1. \A x \in Confirms : future'[x] = IF x = c THEN "open" ELSE future[x]
      BY <1>3, <1>4 DEF Inv, TypeOK
    <3>2. \A x \in 1 .. asked : x \in Confirms
      BY <1>3, BoundsAssumption DEF Inv, TypeOK, Confirms
    <3>3. \A x \in 1 .. asked : future[x] # "none"
      BY DEF Inv, AskedOK
    <3>4. 1 .. asked' = (1 .. asked) \cup {c} /\ c \in Confirms
      BY <1>3, <1>4
    <3> QED BY <3>1, <3>2, <3>3, <3>4
  <2> QED BY <1>3, <1>4, <1>10, <2>1 DEF Inv, AskedOK
<1>13. ClientOK'
  <2>1. \A x \in replied : future'[x] = future[x]
    BY <1>3, <1>4 DEF Inv, TypeOK, ClientOK
  <2> QED BY <1>1, <1>2, <1>3, <1>4, <1>7, <1>10, <2>1 DEF Inv, ClientOK, clientVars
<1> QED BY <1>8, <1>9, <1>11, <1>12, <1>13 DEF Inv

\* A stage starts with an empty queue and no confirmation, below a task that then waits.
LEMMA StartsStageInv ==
  ASSUME Inv, NEW l \in Levels, l < Depth, StartsStage(l), pc[l] = "next",
         left' \in [Levels -> 0 .. MaxPerTurn], stages' \in 0 .. MaxStages,
         UNCHANGED <<future, asked, cur, clientVars>>
  PROVE  Inv'
<1> DEFINE n == l + 1
<1>1. n \in StageLevels /\ n \in Levels /\ n # l /\ n # 0 /\ 0 \in Levels
  BY LevelsTyped
<1>2. /\ pc' = [pc EXCEPT ![l] = "stage", ![n] = "llm"] /\ out' = [out EXCEPT ![n] = <<>>]
      /\ pending' = [pending EXCEPT ![n] = {}]
  BY DEF StartsStage
<1>3. /\ pc'[l] = "stage" /\ pc'[n] = "llm" /\ \A m \in Levels \ {l, n} : pc'[m] = pc[m]
      /\ out'[n] = <<>> /\ \A m \in Levels \ {n} : out'[m] = out[m] /\ pending'[m] = pending[m]
      /\ pending'[n] = {}
  BY <1>1, <1>2 DEF Inv, TypeOK
<1>4. TypeOK'
  <2>1. /\ pc' \in [Levels -> Places] /\ out' \in [Levels -> Seq(EventSet)]
        /\ pending' \in [Levels -> SUBSET Confirms]
    <3>1. <<>> \in Seq(EventSet)
      OBVIOUS
    <3>2. out' \in [Levels -> Seq(EventSet)]
      BY <1>1, <1>2, <3>1 DEF Inv, TypeOK
    <3>3. pending' \in [Levels -> SUBSET Confirms]
      BY <1>1, <1>2 DEF Inv, TypeOK
    <3>4. pc' \in [Levels -> Places]
      BY <1>1, <1>2 DEF Inv, TypeOK, Places
    <3> QED BY <3>2, <3>3, <3>4
  <2>2. /\ cancel' \in [Levels -> BOOLEAN] /\ finished' \in [Levels -> BOOLEAN]
        /\ turn' \in [Levels -> 0 .. MaxTurns - 1]
    <3>1. 0 \in 0 .. MaxTurns - 1
      BY BoundsAssumption
    <3> QED BY <1>1, <3>1 DEF StartsStage, Inv, TypeOK
  <2> QED BY <2>1, <2>2 DEF Inv, TypeOK, clientVars
<1>5. NoOrphanStage'
  <2> SUFFICES ASSUME NEW m \in StageLevels, pc'[m] \notin {"none", "over"}
               PROVE  pc'[m - 1] \in {"stage", "joining"}
    BY DEF NoOrphanStage, Alive
  <2>1. m \in Levels /\ m - 1 \in Levels
    BY LevelsTyped
  <2>2. CASE m = n
    <3>1. m - 1 = l
      BY <2>2 DEF Levels
    <3> QED BY <1>3, <3>1
  <2>3. CASE m # n
    <3>1. Alive(m) \/ m = l
      BY <1>3, <2>1, <2>3 DEF Alive
    <3>2. Alive(m)
      BY <3>1 DEF Alive
    <3>3. pc[m - 1] \in {"stage", "joining"}
      BY <3>2 DEF Inv, NoOrphanStage
    <3>4. m - 1 # l
      BY <3>3
    <3>5. m - 1 # n
      <4>1. ~Alive(n)
        <5>1. n - 1 = l
          BY DEF Levels
        <5> QED BY <1>1, <5>1, NoChild
      <4> QED BY <3>3, <4>1 DEF Alive
    <3> QED BY <1>3, <2>1, <3>3, <3>4, <3>5
  <2> QED BY <2>2, <2>3
<1>6. \A m \in Levels : QueueOK(m)'
  <2>1. QueueOK(n)'
    BY <1>3, ElemsEmpty DEF QueueOK
  <2>2. ASSUME NEW m \in Levels \ {l, n} PROVE QueueOK(m)'
    <3>1. QueueOK(m)
      BY DEF Inv
    <3> QED BY <1>3, <3>1 DEF QueueOK, clientVars
  <2>3. QueueOK(l)'
    <3>1. QueueOK(l)
      BY DEF Inv
    <3> QED BY <1>1, <1>3, <3>1 DEF QueueOK, clientVars
  <2> QED BY <2>1, <2>2, <2>3
<1>7. \A m \in Levels : pending'[m] = IF m = n THEN {} ELSE pending[m]
  BY <1>3
<1>8. AskedOK'
  BY <1>7 DEF Inv, AskedOK
<1>9. ClientOK'
  BY <1>1, <1>3, <1>7 DEF Inv, ClientOK, clientVars
<1> QED BY <1>4, <1>5, <1>6, <1>8, <1>9 DEF Inv

\* An event goes up one level with its confirmation, which can be answered there from then
\* on; tagged with the stage it is not terminal.
LEMMA ForwardsInv ==
  ASSUME Inv, NEW l \in Levels, l < Depth, Forwards(l)
  PROVE  Inv'
<1> DEFINE n == l + 1
           e == First(l)
           tagged == [e EXCEPT !.path = <<n>> \o @]
<1>1. n \in StageLevels /\ n \in Levels /\ n # l /\ n # 0 /\ 0 \in Levels
  BY LevelsTyped
<1>2. pc[l] = "stage" /\ out[n] # <<>> /\ e.type # "_stage_done"
  BY DEF Forwards, Receives, Runs
<1>3. /\ out[n] \in Seq(EventSet) /\ e \in EventSet /\ e \in Elems(out[n])
      /\ Tail(out[n]) \in Seq(EventSet) /\ Elems(Tail(out[n])) \subseteq Elems(out[n])
  <2>1. out[n] \in Seq(EventSet)
    BY <1>1 DEF Inv, TypeOK
  <2> QED BY <1>2, <2>1, ElemsTail DEF First
<1>4. /\ tagged \in EventSet /\ tagged.type = e.type /\ tagged.confirm = e.confirm
      /\ tagged.path # <<>>
  <2>1. e.path \in Seq(StageLevels) /\ <<n>> \in Seq(StageLevels)
    BY <1>1, <1>3 DEF EventSet
  <2>2. <<n>> \o e.path \in Seq(StageLevels) /\ <<n>> \o e.path # <<>>
    <3>1. <<n>> \o e.path \in Seq(StageLevels) /\ Len(<<n>> \o e.path) = 1 + Len(e.path) /\ Len(e.path) \in Nat
      BY <2>1
    <3>2. Len(<<n>> \o e.path) # 0 /\ Len(<<>>) = 0
      BY <3>1
    <3> QED BY <3>1, <3>2
  <2> HIDE DEF n, e
  <2> QED BY <1>3, <2>2 DEF EventSet
<1>5. /\ out' = [out EXCEPT ![n] = Tail(@), ![l] = Append(@, tagged)]
      /\ pending' = IF e.confirm \in pending[n] THEN [pending EXCEPT ![l] = @ \cup {e.confirm}] ELSE pending
      /\ UNCHANGED <<taskVars, future, asked, clientVars, stages>>
  BY DEF Forwards
<1> HIDE DEF tagged, e
<1>6. /\ out'[n] = Tail(out[n]) /\ out'[l] = Append(out[l], tagged)
      /\ \A m \in Levels \ {l, n} : out'[m] = out[m]
  BY <1>1, <1>5 DEF Inv, TypeOK
<1>7. /\ out'[l] \in Seq(EventSet) /\ Elems(out'[l]) = Elems(out[l]) \cup {tagged}
  <2>1. out[l] \in Seq(EventSet)
    BY DEF Inv, TypeOK
  <2> QED BY <1>4, <1>6, <2>1, ElemsAppend
<1>8. /\ QueueOK(n) /\ pending[n] \subseteq Confirms /\ pending[n] \subseteq 1 .. asked
  BY <1>1 DEF Inv, TypeOK, AskedOK
<1>9. /\ e.type = "tool_confirm" <=> e.confirm # 0
      /\ e.confirm # 0 => e.confirm \in 1 .. asked /\ e.confirm \in pending[n]
  BY <1>1, <1>3, <1>8 DEF QueueOK
<1>10. /\ \A m \in Levels : pending[m] \subseteq pending'[m] /\ pending'[m] \subseteq pending[m] \cup pending[n]
       /\ e.confirm # 0 => e.confirm \in pending'[l]
       /\ pending' \in [Levels -> SUBSET Confirms]
  BY <1>5, <1>8, <1>9 DEF Inv, TypeOK
<1>11. TypeOK'
  <2>1. out' \in [Levels -> Seq(EventSet)]
    BY <1>1, <1>3, <1>5, <1>6, <1>7 DEF Inv, TypeOK
  <2> QED BY <1>5, <1>10, <2>1 DEF Inv, TypeOK, taskVars, clientVars
<1>12. NoOrphanStage'
  BY <1>5 DEF Inv, NoOrphanStage, Alive, taskVars
<1>13. \A m \in Levels : QueueOK(m)'
  <2>1. UNCHANGED <<pc, asked, replied>>
    BY <1>5 DEF taskVars, clientVars
  <2>2. ASSUME NEW m \in Levels \ {l} PROVE QueueOK(m)'
    <3>1. QueueOK(m) /\ Elems(out'[m]) \subseteq Elems(out[m]) /\ pending[m] \subseteq pending'[m]
      BY <1>1, <1>3, <1>6, <1>10 DEF Inv
    <3> QED BY <2>1, <3>1 DEF QueueOK
  <2>3. QueueOK(l)'
    <3>1. QueueOK(l) /\ pending[l] \subseteq pending'[l]
      BY <1>10 DEF Inv
    <3>2. ~IsTerminal(tagged)
      BY <1>4 DEF IsTerminal
    <3>3. /\ tagged.type = "tool_confirm" <=> tagged.confirm # 0
          /\ tagged.confirm # 0 => tagged.confirm \in 1 .. asked /\ tagged.confirm \in pending'[l]
          /\ tagged.type # "_stage_done"
      BY <1>2, <1>4, <1>9, <1>10
    <3> QED BY <1>7, <2>1, <3>1, <3>2, <3>3 DEF QueueOK
  <2> QED BY <2>2, <2>3
<1>14. AskedOK'
  BY <1>5, <1>8, <1>10 DEF Inv, AskedOK
<1>15. ClientOK'
  BY <1>1, <1>5, <1>10 DEF Inv, ClientOK, taskVars, clientVars
<1> QED BY <1>11, <1>12, <1>13, <1>14, <1>15 DEF Inv

\* The task goes on after its stage, whose loop is over.
LEMMA ReturnsInv ==
  ASSUME Inv, NEW l \in Levels, l < Depth, Receives(l), First(l).type = "_stage_done",
         out' = IF finished[l + 1] THEN Consumed(l) ELSE [Consumed(l) EXCEPT ![l] = Append(@, Unfinished(l))],
         NEW p \in {"next", "tool"}, pc' = [pc EXCEPT ![l] = p],
         UNCHANGED <<cancel, turn, left, finished, cur, pending, future, asked, clientVars, stages>>
  PROVE  Inv'
<1> DEFINE n == l + 1
           e == Unfinished(l)
<1>1. n \in StageLevels /\ n \in Levels /\ n # l /\ n # 0 /\ 0 \in Levels /\ n - 1 = l
  BY LevelsTyped DEF Levels
<1>2. pc[l] = "stage" /\ out[n] # <<>>
  BY DEF Receives, Runs
<1>3. /\ First(l) \in Elems(out[n])
      /\ Tail(out[n]) \in Seq(EventSet) /\ Elems(Tail(out[n])) \subseteq Elems(out[n])
  <2>1. out[n] \in Seq(EventSet)
    BY <1>1 DEF Inv, TypeOK
  <2> QED BY <1>2, <2>1, ElemsTail DEF First
<1>4. pc[n] = "over"
  <2>1. QueueOK(n)
    BY <1>1 DEF Inv
  <2> QED BY <1>1, <1>3, <2>1 DEF QueueOK
<1>5. e \in EventSet /\ e.type = "error" /\ e.confirm = 0 /\ e.path # <<>>
  <2>1. <<n>> \in Seq(StageLevels) /\ <<n>> # <<>>
    BY <1>1
  <2> HIDE DEF n
  <2>2. e = [Event("error", 0) EXCEPT !.path = <<n>>]
    BY DEF Unfinished, n
  <2> HIDE DEF e
  <2> QED BY <2>1, <2>2 DEF Event, EventSet
<1>6. /\ out'[n] = Tail(out[n])
      /\ out'[l] = out[l] \/ out'[l] = Append(out[l], e)
      /\ \A m \in Levels \ {l, n} : out'[m] = out[m]
      /\ DOMAIN out' = Levels /\ out' = [m \in Levels |-> out'[m]]
  BY <1>1 DEF Inv, TypeOK, Consumed
<1> HIDE DEF e
<1>7. out'[l] \in Seq(EventSet) /\ Elems(out'[l]) \subseteq Elems(out[l]) \cup {e}
  <2>1. out[l] \in Seq(EventSet)
    BY DEF Inv, TypeOK
  <2>2. Append(out[l], e) \in Seq(EventSet) /\ Elems(Append(out[l], e)) = Elems(out[l]) \cup {e}
    BY <1>5, <2>1, ElemsAppend
  <2> QED BY <1>6, <2>1, <2>2
<1>8. pc'[l] = p /\ \A m \in Levels \ {l} : pc'[m] = pc[m]
  BY DEF Inv, TypeOK
<1>9. TypeOK'
  <2>1. \A m \in Levels : out'[m] \in Seq(EventSet)
    BY <1>3, <1>6, <1>7 DEF Inv, TypeOK
  <2>2. out' \in [Levels -> Seq(EventSet)]
    BY <1>6, <2>1
  <2>3. pc' \in [Levels -> Places]
    BY DEF Inv, TypeOK, Places
  <2> QED BY <2>2, <2>3 DEF Inv, TypeOK, clientVars
<1>10. NoOrphanStage'
  <2>1. \A m \in StageLevels : m - 1 = l => m = n
    BY DEF StageLevels, Levels
  <2>2. \A m \in StageLevels : m - 1 = l => ~Alive(m)
    BY <1>4, <2>1 DEF Alive
  <2> QED BY <1>2, <1>8, <2>2, OrphansOf
<1>11. \A m \in Levels : QueueOK(m)'
  <2>1. ASSUME NEW m \in Levels \ {l} PROVE QueueOK(m)'
    <3>1. QueueOK(m) /\ Elems(out'[m]) \subseteq Elems(out[m])
      BY <1>1, <1>3, <1>6 DEF Inv
    <3>2. pc'[m] = pc[m] /\ (m = 0 => pc'[0] = pc[0])
      BY <1>8
    <3> QED BY <3>1, <3>2 DEF QueueOK, clientVars
  <2>2. QueueOK(l)'
    <3>1. QueueOK(l)
      BY DEF Inv
    <3>2. ~IsTerminal(e)
      BY <1>5 DEF IsTerminal
    <3>3. \A x \in Elems(out[l]) : (l # 0 => x.type # "_stage_done") /\ (l = 0 => ~IsTerminal(x))
      BY <1>2, <3>1 DEF QueueOK
    <3> QED BY <1>5, <1>7, <3>1, <3>2, <3>3 DEF QueueOK, clientVars
  <2> QED BY <2>1, <2>2
<1>12. AskedOK'
  BY DEF Inv, AskedOK
<1>13. ClientOK'
  <2>1. client = "told" => l # 0
    BY <1>2 DEF Inv, ClientOK
  <2> QED BY <1>1, <1>8, <2>1 DEF Inv, ClientOK, clientVars
<1> QED BY <1>9, <1>10, <1>11, <1>12, <1>13 DEF Inv

-----------------------------------------------------------------------------
(* The client and cancellation *)

LEMMA CancelsTyped ==
  ASSUME TypeOK, NEW l, Cancels(l)
  PROVE  cancel' \in [Levels -> BOOLEAN]
<1>1. \A t : [cancel EXCEPT ![t] = @ \/ Alive(t)] \in [Levels -> BOOLEAN]
  BY DEF TypeOK
<1> QED BY <1>1 DEF Cancels

\* Cancelling is nothing the invariant depends on.
LEMMA CancelInv ==
  ASSUME Inv, cancel' \in [Levels -> BOOLEAN],
         client' \in {"on", "aborted", "left"} \/ client' = client,
         UNCHANGED <<pc, turn, left, finished, cur, sessionVars, shown, replied, stages>>
  PROVE  Inv'
<1>1. TypeOK'
  BY DEF Inv, TypeOK, sessionVars
<1>2. NoOrphanStage' /\ AskedOK' /\ ClientOK'
  BY DEF Inv, NoOrphanStage, Alive, AskedOK, ClientOK, sessionVars
<1>3. \A m \in Levels : QueueOK(m)'
  <2> SUFFICES ASSUME NEW m \in Levels PROVE QueueOK(m)'
    OBVIOUS
  <2>1. QueueOK(m)
    BY DEF Inv
  <2> QED BY <2>1 DEF QueueOK, sessionVars
<1> QED BY <1>1, <1>2, <1>3 DEF Inv

\* The client sees confirmations it can answer, and no terminal event before the last.
LEMMA SendEventInv ==
  ASSUME Inv, SendEvent
  PROVE  Inv'
<1> DEFINE e == Head(out[0])
<1>1. /\ 0 \in Levels /\ out[0] \in Seq(EventSet) /\ out[0] # <<>> /\ QueueOK(0)
  BY LevelsTyped DEF Inv, TypeOK, SendEvent
<1>2. /\ Tail(out[0]) \in Seq(EventSet) /\ e \in EventSet /\ e \in Elems(out[0])
      /\ Elems(Tail(out[0])) \subseteq Elems(out[0])
  BY <1>1, ElemsTail
<1>3. /\ out' = [out EXCEPT ![0] = Tail(@)]
      /\ shown' = IF e.type = "tool_confirm" THEN shown \cup {e.confirm} ELSE shown
      /\ IF IsTerminal(e) THEN client' = "told" /\ Cancels(0) ELSE UNCHANGED <<client, cancel>>
      /\ UNCHANGED <<pc, turn, left, finished, cur, pending, future, asked, replied, stages>>
  BY DEF SendEvent
<1> HIDE DEF e
<1>4. out'[0] = Tail(out[0]) /\ \A m \in Levels \ {0} : out'[m] = out[m]
  BY <1>1, <1>3 DEF Inv, TypeOK
<1>5. /\ e.type = "tool_confirm" => /\ e.confirm \in 1 .. asked
                                    /\ e.confirm \in pending[0] \/ e.confirm \in replied
      /\ IsTerminal(e) => pc[0] = "over"
  BY <1>1, <1>2 DEF QueueOK
<1>6. 1 .. asked \subseteq Confirms
  BY BoundsAssumption DEF Inv, TypeOK, Confirms
<1>7. shown' \subseteq shown \cup {x \in 1 .. asked : x \in pending[0] \/ x \in replied} /\ shown \subseteq shown'
  BY <1>3, <1>5
<1>8. TypeOK'
  <2>1. cancel' \in [Levels -> BOOLEAN] /\ client' \in {"on", "aborted", "left", "told"}
    BY <1>3, CancelsTyped DEF Inv, TypeOK
  <2>2. out' \in [Levels -> Seq(EventSet)]
    BY <1>1, <1>2, <1>3 DEF Inv, TypeOK
  <2>3. shown' \subseteq Confirms
    BY <1>6, <1>7 DEF Inv, TypeOK
  <2> QED BY <1>3, <2>1, <2>2, <2>3 DEF Inv, TypeOK
<1>9. NoOrphanStage' /\ AskedOK'
  BY <1>3 DEF Inv, NoOrphanStage, Alive, AskedOK
<1>10. \A m \in Levels : QueueOK(m)'
  <2> SUFFICES ASSUME NEW m \in Levels PROVE QueueOK(m)'
    OBVIOUS
  <2>1. QueueOK(m) /\ Elems(out'[m]) \subseteq Elems(out[m])
    BY <1>2, <1>4 DEF Inv
  <2> QED BY <1>3, <2>1 DEF QueueOK
<1>11. ClientOK'
  <2>1. client' = "told" => pc[0] = "over"
    BY <1>3, <1>5 DEF Inv, ClientOK
  <2> QED BY <1>3, <1>7, <2>1 DEF Inv, ClientOK
<1> QED BY <1>8, <1>9, <1>10, <1>11 DEF Inv

\* An answer finds its future, unless the task that waited for it was cancelled.
LEMMA RecvAnswerInv ==
  ASSUME Inv, NEW c \in Confirms, NEW v \in {"yes", "no"}, RecvAnswer(c, v)
  PROVE  Inv'
<1>1. /\ c \in shown /\ c \notin replied /\ replied' = replied \cup {c} /\ 0 \in Levels
      /\ pending' = [pending EXCEPT ![0] = @ \ {c}]
      /\ UNCHANGED <<taskVars, out, asked, shown, client, stages>>
      /\ future' = IF c \in pending[0] /\ future[c] = "open" THEN [future EXCEPT ![c] = v] ELSE future
  BY LevelsTyped DEF RecvAnswer
<1>2. c \in pending[0] /\ c \in 1 .. asked /\ future[c] # "none"
  BY <1>1 DEF Inv, ClientOK, AskedOK
<1>3. /\ future'[c] \in {"yes", "no", "cancelled"}
      /\ \A x \in Confirms \ {c} : future'[x] = future[x]
      /\ future' \in [Confirms -> {"none", "open", "yes", "no", "cancelled"}]
  BY <1>1, <1>2 DEF Inv, TypeOK
<1>4. /\ pending' \in [Levels -> SUBSET Confirms]
      /\ pending'[0] = pending[0] \ {c} /\ \A m \in Levels \ {0} : pending'[m] = pending[m]
  BY <1>1 DEF Inv, TypeOK
<1>5. TypeOK'
  BY <1>1, <1>3, <1>4 DEF Inv, TypeOK, taskVars
<1>6. NoOrphanStage'
  BY <1>1 DEF Inv, NoOrphanStage, Alive, taskVars
<1>7. \A m \in Levels : QueueOK(m)'
  <2> SUFFICES ASSUME NEW m \in Levels PROVE QueueOK(m)'
    OBVIOUS
  <2>1. QueueOK(m)
    BY DEF Inv
  <2> QED BY <1>1, <1>4, <2>1 DEF QueueOK, taskVars
<1>8. 1 .. asked \subseteq Confirms
  BY BoundsAssumption DEF Inv, TypeOK, Confirms
<1>9. AskedOK'
  BY <1>1, <1>3, <1>4, <1>8 DEF Inv, AskedOK
<1>10. ClientOK'
  BY <1>1, <1>3, <1>4, <1>8 DEF Inv, ClientOK, taskVars
<1> QED BY <1>5, <1>6, <1>7, <1>9, <1>10 DEF Inv

\* The finally of run_stage cancels the stage and waits for it.
LEMMA StageAbandonedInv ==
  ASSUME Inv, NEW l \in Levels, l < Depth, StageAbandoned(l)
  PROVE  Inv'
<1>1. l + 1 \in Levels /\ \A m \in StageLevels : m - 1 = l => m = l + 1
  BY LevelsTyped DEF StageLevels, Levels
<1>2. CASE Alive(l + 1)
  <2>1. /\ cancel' = [cancel EXCEPT ![l] = FALSE, ![l + 1] = TRUE]
        /\ pc' = [pc EXCEPT ![l] = "joining"] /\ pc[l] = "stage"
        /\ UNCHANGED <<out, future, turn, left, finished, cur, pending, asked, clientVars, stages>>
    BY <1>2 DEF StageAbandoned, CancelUnchanged
  <2>2. pc'[l] = "joining" /\ \A m \in Levels \ {l} : pc'[m] = pc[m]
    BY <2>1 DEF Inv, TypeOK
  <2>3. TypeOK'
    <3>1. cancel' \in [Levels -> BOOLEAN] /\ pc' \in [Levels -> Places]
      BY <2>1 DEF Inv, TypeOK, Places
    <3> QED BY <2>1, <3>1 DEF Inv, TypeOK, clientVars
  <2>4. NoOrphanStage'
    BY <2>1, <2>2, OrphansOf
  <2>5. \A m \in Levels : QueueOK(m)'
    <3> SUFFICES ASSUME NEW m \in Levels PROVE QueueOK(m)'
      OBVIOUS
    <3>1. QueueOK(m)
      BY DEF Inv
    <3>2. (pc[m] = "over" => pc'[m] = "over") /\ (m = 0 /\ pc[0] = "over" => pc'[0] = "over")
      BY <2>1, <2>2
    <3> QED BY <2>1, <3>1, <3>2 DEF QueueOK, IsTerminal, clientVars
  <2>6. AskedOK'
    BY <2>1 DEF Inv, AskedOK
  <2>7. ClientOK'
    <3>1. pc[0] = "over" => pc'[0] = "over"
      BY <2>1, <2>2, LevelsTyped
    <3> QED BY <2>1, <3>1 DEF Inv, ClientOK, clientVars
  <2> QED BY <2>3, <2>4, <2>5, <2>6, <2>7 DEF Inv
<1>3. CASE ~Alive(l + 1)
  <2>1. /\ Unwinds(l) /\ future' = future /\ cancel' = [cancel EXCEPT ![l] = FALSE]
        /\ UNCHANGED <<turn, left, finished, cur, pending, asked, clientVars, stages>>
    BY <1>3 DEF StageAbandoned, Cancelled, CancelUnchanged
  <2>2. cancel' \in [Levels -> BOOLEAN]
    BY <2>1 DEF Inv, TypeOK
  <2> QED BY <1>1, <1>3, <2>1, <2>2, UnwindsInv
<1> QED BY <1>2, <1>3

\* The caller goes on, its queue and its confirmations as they were.
LEMMA CallerAnsweredInv ==
  ASSUME Inv, CallerAnswered
  PROVE  Inv'
<1>1. 0 \in Levels
  BY LevelsTyped
<1>2. /\ pc[0] = "asking" /\ pc' = [pc EXCEPT ![0] = "next"]
      /\ UNCHANGED <<cancel, turn, left, finished, cur, out, pending, future, asked,
                     shown, replied, client, stages>>
  BY DEF CallerAnswered, Runs, sessionVars, clientVars
<1>3. pc'[0] = "next" /\ \A m \in Levels \ {0} : pc'[m] = pc[m]
  BY <1>1, <1>2 DEF Inv, TypeOK
<1>4. TypeOK'
  <2>1. pc' \in [Levels -> Places]
    BY <1>1, <1>2 DEF Inv, TypeOK, Places
  <2> QED BY <1>2, <2>1 DEF Inv, TypeOK
<1>5. NoOrphanStage'
  BY <1>1, <1>2, <1>3, NoChild, OrphansOf
<1>6. \A m \in Levels : QueueOK(m)'
  <2> SUFFICES ASSUME NEW m \in Levels PROVE QueueOK(m)'
    OBVIOUS
  <2>1. QueueOK(m)
    BY DEF Inv
  <2> QED BY <1>1, <1>2, <1>3, <2>1 DEF QueueOK
<1>7. AskedOK' /\ ClientOK'
  BY <1>1, <1>2, <1>3 DEF Inv, AskedOK, ClientOK
<1> QED BY <1>4, <1>5, <1>6, <1>7 DEF Inv

LEMMA InvStep == Inv /\ [Next]_vars => Inv'
<1> SUFFICES ASSUME Inv, [Next]_vars PROVE Inv'
  OBVIOUS
<1> USE LevelsTyped
<1>1. CASE UNCHANGED vars
  <2>1. cancel' \in [Levels -> BOOLEAN] /\ client' = client
    BY <1>1 DEF vars, taskVars, clientVars, Inv, TypeOK
  <2> QED BY <1>1, <2>1, CancelInv DEF vars, taskVars, sessionVars, clientVars
<1>2. ASSUME NEW l \in Levels, l < Depth, Forwards(l) PROVE Inv'
  BY <1>2, ForwardsInv
<1>3. ASSUME NEW l \in Levels, l < Depth, ExploreReturns(l) PROVE Inv'
  BY <1>3, ReturnsInv DEF ExploreReturns
<1>4. ASSUME NEW l \in Levels, l < Depth, StageAbandoned(l) PROVE Inv'
  BY <1>4, StageAbandonedInv
<1>5. ASSUME NEW l \in Levels, l < Depth, StageJoined(l) PROVE Inv'
  <2>1. \A m \in StageLevels : m - 1 = l => m = l + 1
    BY DEF StageLevels, Levels
  <2>2. /\ Unwinds(l) /\ future' = future /\ cancel' = cancel /\ ~Alive(l + 1)
        /\ UNCHANGED <<turn, left, finished, cur, pending, asked, clientVars, stages>>
    BY <1>5 DEF StageJoined, CancelUnchanged
  <2> QED BY <2>1, <2>2, UnwindsInv DEF Inv, TypeOK
<1>6. ASSUME NEW l \in Levels, LoopCancelled(l) PROVE Inv'
  <2>1. /\ Unwinds(l) /\ cancel' = [cancel EXCEPT ![l] = FALSE] /\ pc[l] \notin {"stage", "joining"}
        /\ UNCHANGED <<turn, left, finished, cur, pending, asked, clientVars, stages>>
        /\ future' = IF pc[l] = "asking" THEN [future EXCEPT ![cur[l]] = "cancelled"] ELSE future
    BY <1>6 DEF LoopCancelled, Cancelled, CancelUnchanged
  <2>2. cancel' \in [Levels -> BOOLEAN]
    BY <2>1 DEF Inv, TypeOK
  <2>3. \A m \in StageLevels : m - 1 = l => ~Alive(m)
    BY <2>1, NoChild
  <2> QED BY <2>1, <2>2, <2>3, UnwindsInv
<1>7. ASSUME NEW l \in Levels, l > 0, Loop(l) PROVE Inv'
  <2>1. l \in StageLevels
    BY <1>7
  <2>2. CASE PlainLoop(l)
    <3>1. /\ pc[l] \in Working /\ (EndsLoop(l) \/ GoesOn(l))
          /\ Counters'
          /\ UNCHANGED <<cancel, cur, pending, future, asked, clientVars, stages>>
      BY <2>1, <2>2, PlainLoopEffect DEF Inv
    <3>2. cancel' \in [Levels -> BOOLEAN] /\ pc[l] \notin {"stage", "joining"}
      BY <3>1 DEF Inv, TypeOK, Working
    <3> QED BY <2>1, <3>1, <3>2, EndsLoopInv, GoesOnInv
  <2>3. CASE CallsGuarded(l)
    <3>1. /\ pc[l] = "next" /\ left[l] > 0 /\ Taken(l) /\ Asks(l)
          /\ UNCHANGED <<cancel, turn, finished, clientVars, stages>>
      BY <2>3 DEF CallsGuarded, CallsAny, Calls, Runs
    <3>2. left' \in [Levels -> 0 .. MaxPerTurn]
      <4>1. left[l] - 1 \in 0 .. MaxPerTurn
        BY <1>7, <3>1, BoundsAssumption, SMTT(30) DEF Inv, TypeOK
      <4> QED BY <1>7, <3>1, <4>1 DEF Inv, TypeOK, Taken
    <3> QED BY <1>7, <3>1, <3>2, AsksInv
  <2>4. CASE CallsExplore(l)
    <3>1. pc[l] = "next" /\ left[l] > 0 /\ "explore" \in Kinds[l] /\ Taken(l) /\ StartsStage(l)
          /\ UNCHANGED <<future, asked, cur, clientVars, stages>>
      BY <2>4 DEF CallsExplore, CallsAny, Calls, Runs
    <3>2. l < Depth
      BY <2>1, <3>1, KindsAssumption, DepthAssumption DEF StageLevels
    <3>3. left' \in [Levels -> 0 .. MaxPerTurn]
      <4>1. left[l] - 1 \in 0 .. MaxPerTurn
        BY <1>7, <3>1, BoundsAssumption, SMTT(30) DEF Inv, TypeOK
      <4> QED BY <1>7, <3>1, <4>1 DEF Inv, TypeOK, Taken
    <3>4. stages' \in 0 .. MaxStages
      BY <3>1 DEF Inv, TypeOK
    <3> QED BY <1>7, <3>1, <3>2, <3>3, <3>4, StartsStageInv
  <2> QED BY <1>7, <2>2, <2>3, <2>4 DEF Loop, PlainLoop
<1>8. CASE CallerStarts
  <2>1. /\ pc[0] = "next" /\ StartsStage(0) /\ stages < MaxStages /\ stages' = stages + 1
        /\ UNCHANGED <<left, cur, future, asked, clientVars>>
    BY <1>8 DEF CallerStarts, Runs
  <2>2. stages' \in 0 .. MaxStages /\ 0 < Depth /\ left' \in [Levels -> 0 .. MaxPerTurn]
    BY <2>1, BoundsAssumption, DepthAssumption DEF Inv, TypeOK
  <2> QED BY <2>1, <2>2, StartsStageInv
<1>9. CASE CallerReturns
  <2>1. /\ pc[0] = "next" /\ \E t \in {"done", "error"} : CallerEnds(t)
        /\ UNCHANGED <<cancel, turn, left, finished, cur, pending, future, asked, clientVars, stages>>
    BY <1>9 DEF CallerReturns, Runs
  <2>2. cancel' \in [Levels -> BOOLEAN]
    BY <2>1 DEF Inv, TypeOK
  <2>3. \A m \in StageLevels : m - 1 = 0 => ~Alive(m)
    BY <2>1, NoChild
  <2> QED BY <2>1, <2>2, <2>3, CallerEndsInv
<1>10. CASE StageReturns
  <2>1. 0 \in Levels /\ 0 < Depth /\ 0 + 1 = 1
    BY LevelsTyped, DepthAssumption DEF Levels
  <2>2. /\ Receives(0) /\ First(0).type = "_stage_done"
        /\ out' = IF finished[0 + 1] THEN Consumed(0)
                  ELSE [Consumed(0) EXCEPT ![0] = Append(@, Unfinished(0))]
        /\ pc' = [pc EXCEPT ![0] = "next"]
        /\ UNCHANGED <<cancel, turn, left, finished, cur, pending, future, asked, clientVars, stages>>
    BY <1>10, <2>1, Zenon DEF StageReturns
  <2>3. "next" \in {"next", "tool"}
    OBVIOUS
  <2> QED BY <2>1, <2>2, <2>3, ReturnsInv, Zenon
<1>11. CASE SendEvent
  BY <1>11, SendEventInv
<1>12. CASE Answers
  BY <1>12, RecvAnswerInv DEF Answers
<1>13. CASE RecvAbort \/ ClientLeaves
  <2>1. cancel' \in [Levels -> BOOLEAN]
    BY <1>13, CancelsTyped DEF RecvAbort, ClientLeaves, Inv
  <2> QED BY <1>13, <2>1, CancelInv DEF RecvAbort, ClientLeaves
<1>14. CASE Idle
  BY <1>1, <1>14 DEF Idle
<1>15. CASE CallerAsks
  <2>1. /\ pc[0] = "next" /\ Asks(0)
        /\ UNCHANGED <<cancel, turn, left, finished, clientVars, stages>>
    BY <1>15 DEF CallerAsks, Runs
  <2>2. left' \in [Levels -> 0 .. MaxPerTurn] /\ 0 \in Levels
    BY <2>1 DEF Inv, TypeOK
  <2> QED BY <2>1, <2>2, AsksInv
<1>16. CASE CallerAnswered
  BY <1>16, CallerAnsweredInv
<1> QED
  BY <1>1, <1>2, <1>3, <1>4, <1>5, <1>6, <1>7, <1>8, <1>9, <1>10, <1>11, <1>12, <1>13, <1>14, <1>15, <1>16
     DEF Next, Task, Runner

LEMMA InvInit == Init => Inv
<1> SUFFICES ASSUME Init PROVE Inv
  OBVIOUS
<1>1. TypeOK
  <2>1. <<>> \in Seq(EventSet)
    OBVIOUS
  <2>2. /\ out \in [Levels -> Seq(EventSet)] /\ pending \in [Levels -> SUBSET Confirms]
        /\ pc \in [Levels -> Places]
    BY <2>1 DEF Init, Places
  <2>3. 0 \in 0 .. MaxTurns - 1 /\ 0 \in 0 .. MaxPerTurn /\ 0 \in 0 .. MaxConfirms /\ 0 \in 0 .. MaxStages
    BY BoundsAssumption
  <2> QED BY <2>2, <2>3 DEF Init, TypeOK
<1>2. NoOrphanStage
  BY LevelsTyped DEF Init, NoOrphanStage, Alive
<1>3. \A l \in Levels : QueueOK(l)
  BY ElemsEmpty DEF Init, QueueOK
<1>4. 1 .. 0 = {}
  OBVIOUS
<1>5. AskedOK /\ ClientOK
  BY <1>4 DEF Init, AskedOK, ClientOK
<1> QED BY <1>1, <1>2, <1>3, <1>5 DEF Inv

-----------------------------------------------------------------------------
(* What follows for every depth *)

LEMMA InvAlways == Spec => []Inv
BY InvInit, InvStep, PTL DEF Spec

\* No stage runs more turns than it is given, and all is of its type.
THEOREM TypeCorrect == Spec => []TypeOK
<1>1. Inv => TypeOK
  BY DEF Inv
<1> QED BY <1>1, InvAlways, PTL

\* A stage at any depth has the task that runs it above it, waiting for its events or for
\* its end: the finally of run_stage leaves no loop behind.
THEOREM StagesHaveParents == Spec => []NoOrphanStage
<1>1. Inv => NoOrphanStage
  BY DEF Inv
<1> QED BY <1>1, InvAlways, PTL

\* An answer that the server has read reaches the stage that asked, from any depth: its
\* confirmation was bridged up level by level before the client could see it.
THEOREM AnswersArrive == Spec => []ConfirmsArrive
<1>1. Inv => ConfirmsArrive
  BY DEF Inv, ClientOK, ConfirmsArrive
<1> QED BY <1>1, InvAlways, PTL

\* The client is told of the end by the caller's last event only, however many stages have
\* failed below: what they emit is tagged on its way up.
THEOREM StageErrorsNotFinal == Spec => []StageErrorsAreNotFinal
<1>1. Inv => StageErrorsAreNotFinal
  BY DEF Inv, ClientOK, StageErrorsAreNotFinal
<1> QED BY <1>1, InvAlways, PTL
=============================================================================
