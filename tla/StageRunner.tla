---------------------------- MODULE StageRunner ----------------------------
(***************************************************************************)
(* Isolated stages: run_stage and _run_stage_loop (backend/agent/          *)
(* pipeline.py), nested as the explore_codebase tool nests them.           *)
(*                                                                         *)
(* Level 0 is the task of the caller (an orchestrator, or a plain agent),  *)
(* whose session is the client's.  A stage at level l > 0 is a loop task   *)
(* with a session of its own; the run_stage that forwards its events runs  *)
(* in the task of level l - 1, which so waits for the stage to end.  What  *)
(* happens between two awaits that can suspend is one action.              *)
(***************************************************************************)
EXTENDS Naturals, Sequences

CONSTANTS
  Depth,      \* how deep stages nest
  Kinds,      \* Kinds[l]: kinds of tools a stage at level l is given
  MaxTurns,   \* max_iterations of a stage
  MaxPerTurn, \* bound: tool calls of one turn
  MaxConfirms,\* bound: confirmations asked for in one run
  MaxStages   \* bound: stages the caller runs, one after the other

Levels == 0 .. Depth
StageLevels == 1 .. Depth
ASSUME DepthAssumption == Depth \in Nat \ {0}
ASSUME BoundsAssumption ==
  {MaxTurns, MaxPerTurn} \subseteq Nat \ {0} /\ {MaxConfirms, MaxStages} \subseteq Nat
ASSUME KindsAssumption ==
  Kinds \in [StageLevels -> SUBSET {"plain", "guarded", "explore"}] /\ "explore" \notin Kinds[Depth]

VARIABLES
  pc,       \* pc[l]: where the task of level l is suspended
  cancel,   \* cancel[l]: its cancellation is on the way
  out,      \* out[l]: AgentSession.outbound of level l
  pending,  \* pending[l]: AgentSession._pending_confirms of level l
  future,   \* future[c]: the future confirmation c waits for
  cur,      \* cur[l]: the confirmation the task of level l waits for
  turn,     \* turn[l]: iteration of the stage's loop
  left,     \* left[l]: calls of the current turn still to execute
  finished, \* finished[l]: finish_result is set
  asked,    \* confirmations asked for so far
  stages,   \* stages the caller has started
  shown,    \* confirmations the client has seen
  replied,  \* answers of the client the server has read
  client    \* "on", "aborted", "left" or "told" (it received the terminal event)

taskVars == <<pc, cancel, turn, left, finished, cur>>
sessionVars == <<out, pending, future, asked>>
clientVars == <<shown, replied, client>>
vars == <<taskVars, sessionVars, clientVars, stages>>

Confirms == 1 .. MaxConfirms
\* An event carries the stages it came through, outermost first: _pipeline_stage.
Event(t, c) == [type |-> t, confirm |-> c, path |-> <<>>]
Alive(l) == pc[l] \notin {"none", "over"}
Runs(l, p) == pc[l] = p /\ ~cancel[l]

Init ==
  /\ pc = [l \in Levels |-> IF l = 0 THEN "next" ELSE "none"]
  /\ cancel = [l \in Levels |-> FALSE]
  /\ out = [l \in Levels |-> <<>>] /\ pending = [l \in Levels |-> {}]
  /\ future = [c \in Confirms |-> "none"] /\ cur = [l \in Levels |-> 0] /\ asked = 0
  /\ turn = [l \in Levels |-> 0] /\ left = [l \in Levels |-> 0]
  /\ finished = [l \in Levels |-> FALSE] /\ stages = 0
  /\ shown = {} /\ replied = {} /\ client = "on"

-----------------------------------------------------------------------------
(* The loop of a stage: _run_stage_loop *)

\* run_stage creates the stage's session and its loop task.
StartsStage(l) ==
  /\ pc' = [pc EXCEPT ![l] = "stage", ![l + 1] = "llm"]
  /\ cancel' = [cancel EXCEPT ![l + 1] = FALSE]
  /\ turn' = [turn EXCEPT ![l + 1] = 0]
  /\ finished' = [finished EXCEPT ![l + 1] = FALSE]
  /\ out' = [out EXCEPT ![l + 1] = <<>>]
  /\ pending' = [pending EXCEPT ![l + 1] = {}]

\* The finally of the loop: whatever ends it, run_stage is told.
LoopEnds(l, es) ==
  /\ out' = [out EXCEPT ![l] = @ \o es \o <<Event("_stage_done", 0)>>]
  /\ pc' = [pc EXCEPT ![l] = "over"]

LoopUnchanged(l) == UNCHANGED <<cancel, cur, pending, future, asked, clientVars, stages>>

\* Mutation of TurnEnds: one iteration more than max_iterations.
TurnEndsLate(l) ==
  /\ left' = [left EXCEPT ![l] = 0]
  /\ CASE finished'[l] -> LoopEnds(l, <<>>) /\ UNCHANGED turn
       [] ~finished'[l] /\ turn[l] = MaxTurns -> LoopEnds(l, <<Event("error", 0)>>) /\ UNCHANGED turn
       [] OTHER -> /\ turn' = [turn EXCEPT ![l] = @ + 1]
                   /\ pc' = [pc EXCEPT ![l] = "llm"]
                   /\ UNCHANGED out

\* The turn's calls are executed: the loop goes on unless the finish tool was called.
TurnEnds(l) ==
  /\ left' = [left EXCEPT ![l] = 0]
  /\ CASE finished'[l] -> LoopEnds(l, <<>>) /\ UNCHANGED turn
       [] ~finished'[l] /\ turn[l] + 1 = MaxTurns -> LoopEnds(l, <<Event("error", 0)>>) /\ UNCHANGED turn
       [] OTHER -> /\ turn' = [turn EXCEPT ![l] = @ + 1]
                   /\ pc' = [pc EXCEPT ![l] = "llm"]
                   /\ UNCHANGED out

\* A call has its result: the next one, the end of the turn, or of the stage because
\* its context is full (a stage never compresses).
Completes(l) ==
  \/ LoopEnds(l, <<Event("error", 0)>>) /\ UNCHANGED <<turn, left>>
  \/ left[l] > 0 /\ pc' = [pc EXCEPT ![l] = "next"] /\ UNCHANGED <<out, turn, left>>
  \/ left[l] = 0 /\ TurnEnds(l)

\* No call of the finish tool, or of any tool: the stage is over without a result.
ModelAnswers(l) ==
  /\ Runs(l, "llm")
  /\ LoopEnds(l, <<>>)
  /\ UNCHANGED <<turn, left, finished>> /\ LoopUnchanged(l)

\* Mutation of StageCrashes: the exception ends the loop task and nothing else.
StageCrashesSilently(l) ==
  /\ Runs(l, "llm") \/ Runs(l, "tool")
  /\ pc' = [pc EXCEPT ![l] = "over"]
  /\ UNCHANGED <<out, turn, left, finished>> /\ LoopUnchanged(l)

\* An exception of the backend or of a tool, or a generation cut off at the limit.
StageCrashes(l) ==
  /\ Runs(l, "llm") \/ Runs(l, "tool")
  /\ LoopEnds(l, <<Event("error", 0)>>)
  /\ UNCHANGED <<turn, left, finished>> /\ LoopUnchanged(l)

ModelCalls(l, n) ==
  /\ Runs(l, "llm")
  /\ left' = [left EXCEPT ![l] = n]
  /\ pc' = [pc EXCEPT ![l] = "next"]
  /\ UNCHANGED <<out, turn, finished>> /\ LoopUnchanged(l)

\* On the last turn only the finish tool is offered, but whatever registered tool the
\* model names is executed.
Calls(l) ==
  /\ Runs(l, "next") /\ left[l] > 0
  /\ UNCHANGED <<clientVars, stages>>
CallsAny(l, k) == Calls(l) /\ k \in Kinds[l]
Taken(l) == left' = [left EXCEPT ![l] = @ - 1]

CallsPlain(l) ==
  /\ CallsAny(l, "plain") /\ Taken(l)
  /\ pc' = [pc EXCEPT ![l] = "tool"]
  /\ UNCHANGED <<cancel, turn, finished, cur, sessionVars>>

\* request_confirm emits the prompt and registers the future without suspending.
Asks(l) ==
  /\ asked < MaxConfirms
  /\ LET c == asked + 1 IN
       /\ asked' = c
       /\ out' = [out EXCEPT ![l] = Append(@, Event("tool_confirm", c))]
       /\ pending' = [pending EXCEPT ![l] = @ \cup {c}]
       /\ future' = [future EXCEPT ![c] = "open"]
       /\ cur' = [cur EXCEPT ![l] = c]
  /\ pc' = [pc EXCEPT ![l] = "asking"]

CallsGuarded(l) ==
  /\ CallsAny(l, "guarded") /\ Taken(l) /\ Asks(l)
  /\ UNCHANGED <<cancel, turn, finished>>

CallsExplore(l) ==
  /\ CallsAny(l, "explore") /\ Taken(l)
  /\ StartsStage(l)
  /\ UNCHANGED <<future, asked, cur>>

\* BaseFinishTool.execute stores its arguments; calls that follow are executed too,
\* and like any other call it may fill the context.
CallsFinish(l) ==
  /\ Calls(l)
  /\ finished' = [finished EXCEPT ![l] = TRUE]
  /\ \/ LoopEnds(l, <<Event("error", 0)>>) /\ UNCHANGED <<turn, left>>
     \/ left[l] > 1 /\ Taken(l) /\ pc' = [pc EXCEPT ![l] = "next"] /\ UNCHANGED <<out, turn>>
     \/ left[l] = 1 /\ TurnEnds(l)
  /\ UNCHANGED <<cancel, cur, pending, future, asked>>

ToolReturns(l) ==
  /\ Runs(l, "tool")
  /\ UNCHANGED finished /\ Completes(l)
  /\ LoopUnchanged(l)

Approved(l) ==
  /\ Runs(l, "asking") /\ future[cur[l]] = "yes"
  /\ pc' = [pc EXCEPT ![l] = "tool"]
  /\ UNCHANGED <<out, turn, left, finished>> /\ LoopUnchanged(l)

Rejected(l) ==
  /\ Runs(l, "asking") /\ future[cur[l]] = "no"
  /\ UNCHANGED finished /\ Completes(l)
  /\ LoopUnchanged(l)

Loop(l) ==
  \/ ModelAnswers(l) \/ StageCrashes(l) \/ \E n \in 1 .. MaxPerTurn : ModelCalls(l, n)
  \/ CallsPlain(l) \/ CallsGuarded(l) \/ CallsExplore(l) \/ CallsFinish(l)
  \/ ToolReturns(l) \/ Approved(l) \/ Rejected(l)

-----------------------------------------------------------------------------
(* Forwarding the events of the stage at level l + 1: run_stage *)

Receives(l) == Runs(l, "stage") /\ out[l + 1] # <<>>
First(l) == Head(out[l + 1])

\* Mutation of Forwards: the event is passed on as it came.
ForwardsUntagged(l) ==
  /\ Receives(l) /\ First(l).type # "_stage_done"
  /\ out' = [out EXCEPT ![l + 1] = Tail(@), ![l] = Append(@, First(l))]
  /\ pending' = IF First(l).confirm \in pending[l + 1]
                THEN [pending EXCEPT ![l] = @ \cup {First(l).confirm}] ELSE pending
  /\ UNCHANGED <<taskVars, future, asked, clientVars, stages>>

\* Mutation of Forwards: the confirmation is not bridged.
ForwardsUnbridged(l) ==
  /\ Receives(l) /\ First(l).type # "_stage_done"
  /\ out' = [out EXCEPT ![l + 1] = Tail(@),
                        ![l] = Append(@, [First(l) EXCEPT !.path = <<l + 1>> \o @])]
  /\ UNCHANGED <<taskVars, pending, future, asked, clientVars, stages>>

\* A confirmation of the stage becomes answerable through the parent's session.
Forwards(l) ==
  /\ Receives(l) /\ First(l).type # "_stage_done"
  /\ out' = [out EXCEPT ![l + 1] = Tail(@),
                        ![l] = Append(@, [First(l) EXCEPT !.path = <<l + 1>> \o @])]
  /\ pending' = IF First(l).confirm \in pending[l + 1]
                THEN [pending EXCEPT ![l] = @ \cup {First(l).confirm}] ELSE pending
  /\ UNCHANGED <<taskVars, future, asked, clientVars, stages>>

Consumed(l) == [out EXCEPT ![l + 1] = Tail(@)]
Unfinished(l) == [Event("error", 0) EXCEPT !.path = <<l + 1>>]

\* The caller goes on: with the result, or with the error (it may retry the stage).
StageReturns ==
  /\ Receives(0) /\ First(0).type = "_stage_done"
  /\ out' = IF finished[1] THEN Consumed(0)
            ELSE [Consumed(0) EXCEPT ![0] = Append(@, Unfinished(0))]
  /\ pc' = [pc EXCEPT ![0] = "next"]
  /\ UNCHANGED <<cancel, turn, left, finished, cur, pending, future, asked, clientVars, stages>>

\* explore_codebase makes a tool result of either.
ExploreReturns(l) ==
  /\ l > 0 /\ Receives(l) /\ First(l).type = "_stage_done"
  /\ out' = IF finished[l + 1] THEN Consumed(l)
            ELSE [Consumed(l) EXCEPT ![l] = Append(@, Unfinished(l))]
  /\ pc' = [pc EXCEPT ![l] = "tool"]
  /\ UNCHANGED <<cancel, turn, left, finished, cur, pending, future, asked, clientVars, stages>>

-----------------------------------------------------------------------------
(* The caller, and the client behind its session *)

CallerStarts ==
  /\ Runs(0, "next") /\ stages < MaxStages
  /\ stages' = stages + 1
  /\ StartsStage(0)
  /\ UNCHANGED <<left, cur, future, asked, clientVars>>

\* When stages have run it asks before it runs the compile command, which it skips when
\* it may not: either way it goes on.
CallerAsks ==
  /\ Runs(0, "next") /\ stages > 0 /\ Asks(0)
  /\ UNCHANGED <<cancel, turn, left, finished, clientVars, stages>>
CallerAnswered ==
  /\ Runs(0, "asking") /\ future[cur[0]] \in {"yes", "no"}
  /\ pc' = [pc EXCEPT ![0] = "next"]
  /\ UNCHANGED <<cancel, turn, left, finished, cur, sessionVars, clientVars, stages>>

\* Every way out of the caller's task emits one event of its own.
CallerEnds(t) ==
  /\ pc' = [pc EXCEPT ![0] = "over"]
  /\ out' = [out EXCEPT ![0] = Append(@, Event(t, 0))]
CallerReturns ==
  /\ Runs(0, "next")
  /\ CallerEnds("done") \/ CallerEnds("error")
  /\ UNCHANGED <<cancel, turn, left, finished, cur, pending, future, asked, clientVars, stages>>

\* agent_task.cancel(): a task that awaits the end of a cancelled stage hands it down.
Cancels(l) ==
  LET t == CHOOSE k \in l .. Depth : /\ pc[k] # "joining"
                                     /\ \A j \in l .. k - 1 : pc[j] = "joining"
  IN cancel' = [cancel EXCEPT ![t] = @ \/ Alive(t)]

\* The websocket's send task.  The terminal event ends it, and the handler cancels
\* the caller; an event of a stage is never terminal.
IsTerminal(e) == e.type \in {"done", "error"} /\ e.path = <<>>
SendEvent ==
  /\ client \in {"on", "aborted"} /\ out[0] # <<>>
  /\ LET e == Head(out[0]) IN
       /\ out' = [out EXCEPT ![0] = Tail(@)]
       /\ shown' = IF e.type = "tool_confirm" THEN shown \cup {e.confirm} ELSE shown
       /\ IF IsTerminal(e) THEN client' = "told" /\ Cancels(0) ELSE UNCHANGED <<client, cancel>>
  /\ UNCHANGED <<pc, turn, left, finished, cur, pending, future, asked, replied, stages>>

\* resolve_confirm on the caller's session.
RecvAnswer(c, v) ==
  /\ client = "on" /\ c \in shown \ replied
  /\ replied' = replied \cup {c}
  /\ pending' = [pending EXCEPT ![0] = @ \ {c}]
  /\ future' = IF c \in pending[0] /\ future[c] = "open" THEN [future EXCEPT ![c] = v] ELSE future
  /\ UNCHANGED <<taskVars, out, asked, shown, client, stages>>

\* After an abort the receive task reads nothing more.
RecvAbort ==
  /\ client = "on"
  /\ client' = "aborted" /\ Cancels(0)
  /\ UNCHANGED <<pc, turn, left, finished, cur, sessionVars, shown, replied, stages>>

\* A send to a client that is gone raises, and the handler cancels the caller, which
\* may already be unwinding after an abort.
ClientLeaves ==
  /\ client \in {"on", "aborted"}
  /\ client' = "left" /\ Cancels(0)
  /\ UNCHANGED <<pc, turn, left, finished, cur, sessionVars, shown, replied, stages>>

-----------------------------------------------------------------------------
(* Cancellation *)

Cancelled(l) == cancel[l] /\ cancel' = [cancel EXCEPT ![l] = FALSE]
CancelUnchanged == UNCHANGED <<turn, left, finished, cur, pending, asked, clientVars, stages>>

\* CancelledError ends the task of level l: no except of the loop catches it.
Unwinds(l) ==
  IF l = 0 THEN CallerEnds("error") ELSE LoopEnds(l, <<>>)

\* Mutation of LoopCancelled: the exception is caught like any other, and retried.
LoopCancelledRetries(l) ==
  /\ Cancelled(l) /\ pc[l] \in {"llm", "next", "asking", "tool"}
  /\ IF l = 0 THEN Unwinds(l) ELSE pc' = [pc EXCEPT ![l] = "llm"] /\ UNCHANGED out
  /\ future' = IF pc[l] = "asking" THEN [future EXCEPT ![cur[l]] = "cancelled"] ELSE future
  /\ CancelUnchanged

LoopCancelled(l) ==
  /\ Cancelled(l) /\ pc[l] \in {"llm", "next", "asking", "tool"}
  /\ Unwinds(l)
  /\ future' = IF pc[l] = "asking" THEN [future EXCEPT ![cur[l]] = "cancelled"] ELSE future
  /\ CancelUnchanged

\* Mutation of StageAbandoned: the CancelledError unwinds past the loop task.
StageAbandonedUnseen(l) ==
  /\ pc[l] = "stage"
  /\ Cancelled(l) /\ Unwinds(l)
  /\ UNCHANGED future /\ CancelUnchanged

\* The finally of run_stage: cancel the stage's loop and wait for it to end.
StageAbandoned(l) ==
  /\ cancel[l] /\ pc[l] = "stage"
  /\ IF Alive(l + 1)
     THEN /\ cancel' = [cancel EXCEPT ![l] = FALSE, ![l + 1] = TRUE]
          /\ pc' = [pc EXCEPT ![l] = "joining"]
          /\ UNCHANGED out
     ELSE Cancelled(l) /\ Unwinds(l)
  /\ UNCHANGED future /\ CancelUnchanged

StageJoined(l) ==
  /\ pc[l] = "joining" /\ ~Alive(l + 1)
  /\ Unwinds(l)
  /\ UNCHANGED <<cancel, future>> /\ CancelUnchanged

-----------------------------------------------------------------------------
Runner(l) == Forwards(l) \/ ExploreReturns(l) \/ StageAbandoned(l) \/ StageJoined(l)

Task(l) ==
  \/ l < Depth /\ Runner(l)
  \/ l > 0 /\ Loop(l)
  \/ l = 0 /\ (CallerStarts \/ CallerAsks \/ CallerAnswered \/ CallerReturns \/ StageReturns)
  \/ LoopCancelled(l)

Answers == \E c \in Confirms, v \in {"yes", "no"} : RecvAnswer(c, v)

Idle == ~Alive(0) /\ client \notin {"on", "aborted"} /\ UNCHANGED vars

Next == (\E l \in Levels : Task(l)) \/ SendEvent \/ Answers \/ RecvAbort \/ ClientLeaves \/ Idle

Spec == Init /\ [][Next]_vars

\* The event loop runs every task that can go on; model calls and tools end.
FairSpec == Spec /\ \A l \in Levels : WF_vars(Task(l))

\* The client is read from, sent to, and answers what it is asked.
PatientSpec == FairSpec /\ WF_vars(SendEvent) /\ WF_vars(Answers)
-----------------------------------------------------------------------------
Places == {"none", "next", "llm", "asking", "tool", "stage", "joining", "over"}
EventSet == [type : {"tool_confirm", "error", "done", "_stage_done"},
             confirm : Confirms \cup {0}, path : Seq(StageLevels)]
\* Types and bounds: no stage runs more than max_iterations turns (pipeline.py:196).
TypeOK ==
  /\ pc \in [Levels -> Places] /\ cancel \in [Levels -> BOOLEAN]
  /\ out \in [Levels -> Seq(EventSet)]
  /\ pending \in [Levels -> SUBSET Confirms]
  /\ future \in [Confirms -> {"none", "open", "yes", "no", "cancelled"}]
  /\ cur \in [Levels -> Confirms \cup {0}] /\ asked \in 0 .. MaxConfirms
  /\ turn \in [Levels -> 0 .. MaxTurns - 1] /\ left \in [Levels -> 0 .. MaxPerTurn]
  /\ finished \in [Levels -> BOOLEAN] /\ stages \in 0 .. MaxStages
  /\ shown \subseteq Confirms /\ replied \subseteq Confirms
  /\ client \in {"on", "aborted", "left", "told"}

\* An answer the server has read reaches the stage that waits for it, however deep
\* it is nested: run_stage bridges its confirmations up (pipeline.py:313-316).
ConfirmsArrive == \A c \in replied : future[c] \in {"yes", "no", "cancelled"}

\* No stage outlives the task that runs it, the "orphaned task" of run_stage's finally
\* (pipeline.py:326-343).
NoOrphanStage ==
  \A l \in StageLevels : Alive(l) => pc[l - 1] \in {"stage", "joining"}

\* What fails inside a stage never ends the run for the client: only the caller's own
\* last event does (ws.py:184-191), and with it the caller is over.
StageErrorsAreNotFinal == client = "told" => pc[0] = "over"

\* run_stage always returns: it never waits for the events of a loop that has ended
\* without saying so (pipeline.py:186-191).
StagesEnd == pc[0] = "stage" ~> pc[0] # "stage"

\* Once the run is aborted, or its client is gone, every task ends, however deep.
AbortEndsAll == client \in {"aborted", "left"} ~> \A l \in Levels : ~Alive(l)
=============================================================================
