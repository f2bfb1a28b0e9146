--------------------------- MODULE WorkflowEngine ---------------------------
(***************************************************************************)
(* A workflow run and its resumption: CustomWorkflowOrchestrator           *)
(* (backend/agent/custom_workflow.py), the WorkflowRunRecorder that writes *)
(* the run's directory, and workflow_resume, which reads it back.          *)
(*                                                                         *)
(* The orchestrator is one task.  It suspends only inside a leaf stage (a  *)
(* model call, an agent, a coordinator action or a respond turn), so a     *)
(* cancellation reaches it only there; the other steps are the writes to   *)
(* the run's directory, one step each.                                     *)
(***************************************************************************)
EXTENDS Naturals, Sequences, FiniteSets

CONSTANTS
  Workflow,   \* the workflow definition: what describes each stage
  Root,       \* the stage whose body is the workflow's own stage list
  MaxResumes  \* bound: how often the user resumes the run

\* The definition of a stage (a name of its own: TLC evaluates this one only once).
Def == [s \in DOMAIN Workflow |-> Workflow[s]]
Types == {"leaf", "respond", "branch", "loop", "workflow"}

\* gate: the slot read by the (entry) condition; exit: the slot read by the loop's
\* exit_condition; out: the slot the stage writes.  "none" where there is none.
StageRecord == [type : Types, body : Seq(DOMAIN Def), gate : DOMAIN Def \cup {"none"},
                out : DOMAIN Def \cup {"none"}, exit : DOMAIN Def \cup {"none"},
                items : Nat, over : BOOLEAN, attempts : Nat \ {0},
                onMax : {"abort_workflow", "continue"}, independent : BOOLEAN,
                ifTrue : DOMAIN Def \cup {"none"}, ifFalse : DOMAIN Def \cup {"none"}]

ASSUME DefAssumption ==
  /\ Root \in DOMAIN Def /\ Def[Root].type = "workflow"
  /\ \A s \in DOMAIN Def : Def[s] \in StageRecord
ASSUME NamesAssumption == "none" \notin DOMAIN Def
ASSUME BodiesAssumption ==
  \* every stage but the root is in one body, once; only a loop or a (sub-)workflow has one
  /\ \A s \in DOMAIN Def \ {Root} :
       \E o \in DOMAIN Def : \E i \in DOMAIN Def[o].body :
         /\ Def[o].body[i] = s
         /\ \A q \in DOMAIN Def : \A k \in DOMAIN Def[q].body :
              Def[q].body[k] = s => q = o /\ k = i
  /\ \A s \in DOMAIN Def : Def[s].body # <<>> => Def[s].type \in {"loop", "workflow"}
ASSUME NestingAssumption ==
  \* the definition is a document, its stages are nested: of any of them, one is outermost
  \A S \in SUBSET DOMAIN Def :
    S # {} => \E s \in S : \A o \in S : \A i \in DOMAIN Def[o].body : Def[o].body[i] # s
ASSUME ResumesAssumption == MaxResumes \in Nat

VARIABLES
  frames,      \* the stages being run, outermost first: stage list or loop frames
  slots,       \* one slot registry per (sub-)workflow being run, outermost first
  pc,          \* "go", "leaf" (suspended), "raise" (an exception unwinds), "over", "dead"
  exc,         \* the exception that unwinds
  lastFailed,  \* WorkflowRunRecorder.last_failed_address
  stopAt,      \* the stage in flight when the client sent its abort
  status,      \* on disk: the status in meta.json (stages) or item_result.json (items)
  seen,        \* on disk: stage addresses in first-written order (meta.json "sequence")
  collected,   \* on disk: item_result.json's results, the producer of each value
  run,         \* on disk: run.json
  resumes,     \* number of resumptions so far
  from         \* history: where the last resumption started

engineVars == <<frames, slots, pc, exc, lastFailed, stopAt>>
diskVars == <<status, seen, collected, run>>
resumeVars == <<resumes, from>>
vars == <<engineVars, diskVars, resumeVars>>

-----------------------------------------------------------------------------
(* Addresses: a stage together with the item numbers of the loops around it.
   An item of a loop has one item number more than the loop itself. *)

Stages == DOMAIN Def
Body(s) == Def[s].body
Owner == [s \in Stages \ {Root} |-> CHOOSE o \in Stages : \E i \in DOMAIN Body(o) : Body(o)[i] = s]
Node(s, is) == [stage |-> s, items |-> is]
NoNode == Node("none", <<>>)

\* The item numbers a stage may run under.
Places[s \in Stages] ==
  IF s = Root THEN {<<>>}
  ELSE IF Def[Owner[s]].type = "loop"
       THEN {Append(p, i) : p \in Places[Owner[s]], i \in 1 .. Def[Owner[s]].items}
       ELSE Places[Owner[s]]

StageNodes == UNION {{Node(s, p) : p \in Places[s]} : s \in Stages \ {Root}}
ItemsOf(s) == {Node(s, Append(p, i)) : p \in Places[s], i \in 1 .. Def[s].items}
ItemNodes == UNION {ItemsOf(s) : s \in {t \in Stages : Def[t].type = "loop"}}
Nodes == StageNodes \cup ItemNodes

Front(seq) == SubSeq(seq, 1, Len(seq) - 1)
Index(seq, x) == CHOOSE i \in DOMAIN seq : seq[i] = x
Parent(n) ==
  IF n \in ItemNodes THEN Node(n.stage, Front(n.items)) ELSE Node(Owner[n.stage], n.items)

\* The stages around a stage, and the path from the run's directory down to n.
Around[s \in Stages] == IF s = Root THEN {} ELSE {s} \cup Around[Owner[s]]
Above == [n \in Nodes |->
           {m \in Nodes : /\ m.stage \in Around[n.stage]
                          /\ Len(m.items) <= Len(n.items)
                          /\ m.items = SubSeq(n.items, 1, Len(m.items))}]

Seen == {seen[i] : i \in DOMAIN seen}
Recorded == Seen \cup {n \in ItemNodes : status[n] # "absent"}

-----------------------------------------------------------------------------
(* The control state *)

Fr == frames[Len(frames)]
InLoop == Def[Fr.node.stage].type = "loop"
Frame(n, at, item, attempt, target, cursor) ==
  [node |-> n, at |-> at, item |-> item, attempt |-> attempt, target |-> target, cursor |-> cursor]

ItemNode == Node(Fr.node.stage, Append(Fr.node.items, Fr.item))
Cur == Node(Body(Fr.node.stage)[Fr.at], IF InLoop THEN ItemNode.items ELSE Fr.node.items)

\* The resume cursor this dispatch receives, if it is the first one of the resumed
\* level: of the sequence, or of the target item's first attempt.
Cursor == IF InLoop => Fr.item = Fr.target /\ Fr.attempt = 1 THEN Fr.cursor ELSE NoNode

Advance(fs) ==
  LET f == fs[Len(fs)] IN
  [fs EXCEPT ![Len(fs)] = [f EXCEPT
     !.at = @ + 1,
     !.cursor = IF Def[f.node.stage].type = "loop" /\ f.item # f.target THEN @ ELSE NoNode]]

Slots == slots[Len(slots)]
WithSlot(regs, s, v) ==
  IF s = "none" THEN regs
  ELSE LET r == regs[Len(regs)] IN
       [regs EXCEPT ![Len(regs)] = [x \in DOMAIN r \cup {s} |-> IF x = s THEN v ELSE r[x]]]

\* evaluate_condition over the slot c: undefined, or the None of a skipped stage that
\* a resumption restored, may raise; what a defined value says is not modelled.
MayRaise(c) == c # "none" /\ (c \in DOMAIN Slots => Slots[c] = NoNode)
MayHold(c) == c = "none" \/ c \in DOMAIN Slots
MayNotHold(c) == c # "none" /\ c \in DOMAIN Slots

\* on_stage_enter and on_stage_exit both write the stage's meta.json.
Write(n, st) ==
  /\ status' = [status EXCEPT ![n] = st]
  /\ seen' = IF n \in Seen THEN seen ELSE Append(seen, n)
  /\ lastFailed' = IF st \in {"failed", "stopped"} THEN n ELSE lastFailed

Raise(e) == pc' = "raise" /\ exc' = e
Resumes == pc' = "go" /\ exc' = "none"

Init ==
  /\ frames = <<Frame(Node(Root, <<>>), 1, 0, 1, 0, NoNode)>>
  /\ slots = <<[s \in {} |-> NoNode]>>
  /\ pc = "go" /\ exc = "none" /\ lastFailed = NoNode /\ stopAt = NoNode
  /\ status = [n \in Nodes |-> "absent"] /\ seen = <<>>
  /\ collected = [n \in ItemNodes |-> {}]
  /\ run = [status |-> "running", failed |-> NoNode]
  /\ resumes = 0 /\ from = NoNode

-----------------------------------------------------------------------------
(* Dispatching a stage: _run_stage_sequence, _dispatch, _run_by_type *)

Dispatches(types) ==
  /\ pc = "go" /\ Fr.attempt > 0 /\ Fr.at <= Len(Body(Fr.node.stage))
  /\ Def[Cur.stage].type \in types
  /\ UNCHANGED <<stopAt, collected, run, resumeVars>>

Gated == Types \ {"branch"}
Gate == Def[Cur.stage].gate

StageSkipped ==
  /\ Dispatches(Gated) /\ MayNotHold(Gate)
  /\ Write(Cur, "skipped")
  /\ frames' = Advance(frames)
  /\ UNCHANGED <<slots, pc, exc>>

\* The condition is evaluated before stage_enter: the stage leaves no record.
GateRaises ==
  /\ Dispatches(Gated) /\ MayRaise(Gate)
  /\ Raise("abort")
  /\ UNCHANGED <<frames, slots, lastFailed, status, seen>>

LeafEnters ==
  /\ Dispatches({"leaf", "respond"}) /\ MayHold(Gate)
  /\ Write(Cur, "running")
  /\ pc' = "leaf"
  /\ UNCHANGED <<frames, slots, exc>>

JumpTo(s) == [Advance(frames) EXCEPT ![Len(frames)].at = Index(Body(Fr.node.stage), s)]
Listed(s) == \E i \in DOMAIN Body(Fr.node.stage) : Body(Fr.node.stage)[i] = s
Target(holds) == IF holds THEN Def[Cur.stage].ifTrue ELSE Def[Cur.stage].ifFalse

\* The branch is done before its target is looked up.
BranchTaken(holds) ==
  /\ Dispatches({"branch"})
  /\ IF holds THEN MayHold(Gate) ELSE MayNotHold(Gate)
  /\ Write(Cur, "done")
  /\ UNCHANGED slots

\* Inside a loop the jump target of a branch is ignored.
BranchJumps(holds) ==
  /\ BranchTaken(holds) /\ (InLoop \/ Listed(Target(holds)))
  /\ frames' = IF InLoop THEN Advance(frames) ELSE JumpTo(Target(holds))
  /\ UNCHANGED <<pc, exc>>

\* "Branch target not found": the stage list raises, not the branch.
BranchMisses(holds) ==
  /\ BranchTaken(holds) /\ ~InLoop /\ ~Listed(Target(holds))
  /\ Raise("error")
  /\ UNCHANGED frames

BranchRaises ==
  /\ Dispatches({"branch"}) /\ MayRaise(Gate)
  /\ Write(Cur, "failed")
  /\ Raise("abort")
  /\ UNCHANGED <<frames, slots>>

\* A sub-workflow starts over a slot registry of its own.
SubWorkflowEnters ==
  /\ Dispatches({"workflow"}) /\ MayHold(Gate)
  /\ Write(Cur, "running")
  /\ frames' = Append(frames, Frame(Cur, 1, 0, 1, 0, NoNode))
  /\ slots' = Append(slots, [s \in {} |-> NoNode])
  /\ UNCHANGED <<pc, exc>>

\* Mutation of LoopEnters: the cursor is not handed down, the loop starts over.
LoopEntersAfresh ==
  /\ Dispatches({"loop"}) /\ MayHold(Gate)
  /\ Write(Cur, "running")
  /\ frames' = Append(frames, Frame(Cur, 1, 1, 0, 0, NoNode))
  /\ UNCHANGED <<slots, pc, exc>>

\* The rest of the cursor names the item to resume into and, below it, a stage.
LoopEnters ==
  /\ Dispatches({"loop"}) /\ MayHold(Gate)
  /\ Write(Cur, "running")
  /\ LET below == Cursor \notin {NoNode, Cur}
         target == IF below THEN Cursor.items[Len(Cur.items) + 1] ELSE 0
         inner == below /\ Cursor # Node(Cur.stage, Append(Cur.items, target))
     IN frames' = Append(frames, Frame(Cur, 1, 1, 0, target, IF inner THEN Cursor ELSE NoNode))
  /\ UNCHANGED <<slots, pc, exc>>

-----------------------------------------------------------------------------
(* A suspended leaf stage ends *)

Resumed == pc = "leaf" /\ UNCHANGED <<stopAt, collected, run, resumeVars>>
IsLeaf == Def[Cur.stage].type = "leaf"

LeafReturns ==
  /\ Resumed /\ IsLeaf /\ stopAt # Cur
  /\ Write(Cur, "done") /\ Resumes
  /\ slots' = WithSlot(slots, Def[Cur.stage].out, Cur)
  /\ frames' = Advance(frames)

\* run_agent turns every error, and the cancellation, into an event that
\* _RespondStageSession swallows: the stage is done either way.
RespondReturns ==
  /\ Resumed /\ ~IsLeaf
  /\ Write(Cur, "done") /\ Resumes
  /\ frames' = Advance(frames)
  /\ UNCHANGED slots

LeafFails ==
  /\ Resumed /\ IsLeaf /\ stopAt # Cur
  /\ Write(Cur, "failed") /\ Raise("error")
  /\ UNCHANGED <<frames, slots>>

\* Mutation of LeafCancelled: only Exceptions are reported, as CancelledError is none.
LeafCancelledUnseen ==
  /\ Resumed /\ IsLeaf /\ stopAt = Cur
  /\ Raise("cancel")
  /\ UNCHANGED <<frames, slots, lastFailed, status, seen>>

LeafCancelled ==
  /\ Resumed /\ IsLeaf /\ stopAt = Cur
  /\ Write(Cur, "stopped") /\ Raise("cancel")
  /\ UNCHANGED <<frames, slots>>

\* The receive task cancels the orchestrator; it reads nothing after that.
ClientAborts ==
  /\ pc = "leaf" /\ stopAt = NoNode
  /\ stopAt' = Cur
  /\ UNCHANGED <<frames, slots, pc, exc, lastFailed, diskVars, resumeVars>>

-----------------------------------------------------------------------------
(* Loops: _run_loop *)

BetweenItems == pc = "go" /\ InLoop /\ Fr.attempt = 0 /\ UNCHANGED <<stopAt, run, resumeVars, exc>>
Loop == Def[Fr.node.stage]
SetFrame(f) == frames' = [frames EXCEPT ![Len(frames)] = f]

\* An item the resumed loop reads back from disk instead of dispatching it.
Reused ==
  /\ Fr.target # 0 /\ Fr.item # Fr.target
  /\ Fr.item < Fr.target \/ Loop.independent
  /\ status[ItemNode] # "absent"

ItemReused ==
  /\ BetweenItems /\ Fr.item <= Loop.items /\ Reused
  /\ SetFrame([Fr EXCEPT !.item = @ + 1])
  /\ UNCHANGED <<slots, pc, lastFailed, status, seen, collected>>

StartIndex == CHOOSE i \in DOMAIN Body(Fr.node.stage) :
                Node(Body(Fr.node.stage)[i], ItemNode.items) \in Above[Fr.cursor]

\* Mutation of ItemStarts: the slots of the previous item are not cleared.
ItemStartsUncleared ==
  /\ BetweenItems /\ Fr.item <= Loop.items /\ ~Reused
  /\ LET into == Fr.cursor # NoNode /\ Fr.item = Fr.target
     IN SetFrame([Fr EXCEPT !.attempt = 1, !.at = IF into THEN StartIndex ELSE 1])
  /\ UNCHANGED <<slots, pc, lastFailed, status, seen, collected>>

ItemStarts ==
  /\ BetweenItems /\ Fr.item <= Loop.items /\ ~Reused
  /\ LET into == Fr.cursor # NoNode /\ Fr.item = Fr.target
         cleared == {Body(Fr.node.stage)[i] : i \in DOMAIN Body(Fr.node.stage)}
     IN /\ SetFrame([Fr EXCEPT !.attempt = 1, !.at = IF into THEN StartIndex ELSE 1])
        /\ slots' = IF into THEN slots
                    ELSE [slots EXCEPT ![Len(slots)] = [x \in DOMAIN Slots \ cleared |-> Slots[x]]]
  /\ UNCHANGED <<pc, lastFailed, status, seen, collected>>

\* The frame of a stage is left: the stage is written and its caller goes on.
Leaves(st, fs) ==
  /\ Write(Fr.node, st)
  /\ frames' = fs
Outer == Front(frames)

LoopReturns ==
  /\ BetweenItems /\ Fr.item > Loop.items
  /\ Leaves("done", Advance(Outer))
  /\ slots' = WithSlot(slots, IF Loop.over THEN Loop.out ELSE "none", Fr.node)
  /\ UNCHANGED <<pc, collected>>

Results == {<<s, Slots[s]>> : s \in {Body(Fr.node.stage)[i] : i \in DOMAIN Body(Fr.node.stage)}
                                       \cap DOMAIN Slots}

\* loop_item_exit, and what follows from it for the loop.
ItemEnds(st) ==
  /\ collected' = [collected EXCEPT ![ItemNode] = IF Loop.over THEN Results ELSE {}]
  /\ UNCHANGED seen
  /\ LET loopSt == IF st = "stopped" THEN "stopped"
                   ELSE IF st = "failed" /\ Loop.onMax = "abort_workflow" THEN "failed" ELSE "running"
     IN /\ status' = [status EXCEPT ![ItemNode] = st, ![Fr.node] = loopSt]
        /\ IF loopSt = "running"
           THEN /\ SetFrame([Fr EXCEPT !.item = @ + 1, !.attempt = 0, !.at = 1])
                /\ Resumes
                /\ UNCHANGED lastFailed
           ELSE /\ frames' = Outer
                /\ Raise(IF st = "stopped" THEN "cancel" ELSE "abort")
                /\ lastFailed' = Fr.node

\* Mutation of AttemptFails: one attempt more than max_retries + 1.
AttemptFailsOnceMore ==
  IF Fr.attempt <= Loop.attempts
  THEN /\ SetFrame([Fr EXCEPT !.attempt = @ + 1, !.at = 1])
       /\ Resumes
       /\ UNCHANGED <<lastFailed, status, seen, collected>>
  ELSE ItemEnds("failed")

\* Mutation of AttemptFails: the attempts are not counted.
AttemptFailsUncounted ==
  /\ SetFrame([Fr EXCEPT !.at = 1])
  /\ Resumes
  /\ UNCHANGED <<lastFailed, status, seen, collected>>

AttemptFails ==
  IF Fr.attempt < Loop.attempts
  THEN /\ SetFrame([Fr EXCEPT !.attempt = @ + 1, !.at = 1])
       /\ Resumes
       /\ UNCHANGED <<lastFailed, status, seen, collected>>
  ELSE ItemEnds("failed")

AttemptEnds ==
  /\ pc = "go" /\ InLoop /\ Fr.attempt > 0 /\ Fr.at > Len(Body(Fr.node.stage))
  /\ UNCHANGED <<slots, stopAt, run, resumeVars>>

ExitHolds == AttemptEnds /\ MayHold(Loop.exit) /\ ItemEnds("done")
ExitDoesNotHold == AttemptEnds /\ MayNotHold(Loop.exit) /\ AttemptFails
ExitRaises ==
  /\ AttemptEnds /\ MayRaise(Loop.exit)
  /\ Raise("abort")
  /\ UNCHANGED <<frames, lastFailed, status, seen, collected>>

Unwinds(e) == pc = "raise" /\ exc \in e /\ UNCHANGED <<stopAt, resumeVars>>

InnerStageFailed ==
  Unwinds({"error"}) /\ InLoop /\ AttemptFails /\ UNCHANGED <<slots, run>>

\* Mutation of ItemCancelled: the cancellation is a failed attempt like any other.
ItemCancelledRetries ==
  Unwinds({"cancel"}) /\ InLoop /\ AttemptFails /\ UNCHANGED <<slots, run>>

ItemCancelled ==
  Unwinds({"cancel"}) /\ InLoop /\ ItemEnds("stopped") /\ UNCHANGED <<slots, run>>

\* Mutation of LoopAborted: _WorkflowAbort is caught with every other exception.
LoopAbortedRetries ==
  Unwinds({"abort"}) /\ InLoop /\ AttemptFails /\ UNCHANGED <<slots, run>>

\* A condition that cannot be evaluated is not retried; the item leaves no result.
LoopAborted ==
  /\ Unwinds({"abort"}) /\ InLoop
  /\ Leaves("failed", Outer)
  /\ UNCHANGED <<slots, pc, exc, collected, run>>

-----------------------------------------------------------------------------
(* The end of a stage list: _run_sub_workflow, run *)

InSub == ~InLoop /\ Len(frames) > 1
SequenceEnds == pc = "go" /\ ~InLoop /\ Fr.at > Len(Body(Fr.node.stage))

SubWorkflowReturns ==
  /\ SequenceEnds /\ InSub
  /\ Leaves("done", Advance(Outer))
  /\ slots' = WithSlot(Front(slots), Fr.node.stage, Fr.node)
  /\ UNCHANGED <<pc, exc, stopAt, collected, run, resumeVars>>

\* Mutation of SubWorkflowRaises: no stage_exit for a stage that raises.
SubWorkflowRaisesUnrecorded ==
  /\ Unwinds({"error", "cancel", "abort"}) /\ InSub
  /\ frames' = Outer
  /\ slots' = Front(slots)
  /\ UNCHANGED <<pc, exc, lastFailed, status, seen, collected, run>>

SubWorkflowRaises ==
  /\ Unwinds({"error", "cancel", "abort"}) /\ InSub
  /\ Leaves(IF exc = "cancel" THEN "stopped" ELSE "failed", Outer)
  /\ slots' = Front(slots)
  /\ UNCHANGED <<pc, exc, collected, run>>

\* mark_done, mark_stopped or mark_failed: the run ends and says so.
Ends(st) ==
  /\ pc' = "over" /\ exc' = "none"
  /\ run' = [status |-> st, failed |-> IF st = "done" THEN NoNode ELSE lastFailed]
  /\ UNCHANGED <<frames, slots, lastFailed, stopAt, status, seen, collected, resumeVars>>

RunReturns == SequenceEnds /\ Len(frames) = 1 /\ Ends("done")
RunRaises == /\ Unwinds({"error", "cancel", "abort"}) /\ Len(frames) = 1
             /\ Ends(IF exc = "cancel" THEN "stopped" ELSE "failed")

-----------------------------------------------------------------------------
(* Resuming: workflow_resume and CustomWorkflowOrchestrator.resume *)

Before(m, n) == Index(seen, m) < Index(seen, n)

\* The siblings recorded after m: stages in first-written order, items by number.
Later(m, a) ==
  /\ m # a /\ Parent(m) = Parent(a)
  /\ IF m \in StageNodes THEN a \in Seen /\ Before(m, a)
     ELSE /\ m.items[Len(m.items)] < a.items[Len(a.items)]
          /\ a \in Recorded \/ \E s \in Seen : a \in Above[s]

\* next_address_after: the sibling right after n; failing that, after what n is in.
ComesNext(n, a) ==
  \E m \in Above[n] :
    /\ Later(m, a) /\ \A b \in Nodes : ~(Later(m, b) /\ Later(b, a))
    /\ \A o \in Above[n], b \in Nodes : m \in Above[o] /\ o # m => ~Later(o, b)

\* resolve_resume_address: what failed or was stopped is redone, what is done is not.
ResumesAt(n, a) == IF status[n] \in {"failed", "stopped"} THEN a = n ELSE ComesNext(n, a)

\* The slot writes of the stages recorded before a, level by level.
Replayed(a) == {p \in Seen : \E m \in Above[a] \cap StageNodes :
                                Parent(p) = Parent(m) /\ Before(p, m)}
SlotOf(p) ==
  CASE Def[p.stage].type = "leaf" -> Def[p.stage].out
    [] Def[p.stage].type = "workflow" -> p.stage
    [] Def[p.stage].type = "loop" /\ Def[p.stage].over -> Def[p.stage].out
    [] OTHER -> "none"
ValueOf(p) == IF Def[p.stage].type = "loop" \/ status[p] = "done" THEN p ELSE NoNode

Reconstructed(a) ==
  LET writers(s) == {p \in Replayed(a) : SlotOf(p) = s}
      last(s) == CHOOSE p \in writers(s) : \A q \in writers(s) : ~Before(p, q)
  IN [s \in {SlotOf(p) : p \in Replayed(a)} \ {"none"} |-> ValueOf(last(s))]

\* A stage inside a sub-workflow (its name is read as an item number), or inside an
\* ended item of a loop that iterates over no list (its result is None).
Unreadable(a) ==
  \E m \in Above[a] \ {a} :
    \/ m \in StageNodes /\ Def[m.stage].type = "workflow"
    \/ m \in ItemNodes /\ ~Def[m.stage].over /\ status[m] # "absent"

\* The stages before the resume point are narrated again, from disk.
Narrated(i) == {n \in Seen : n.items = <<>> /\ \E j \in 1 .. i - 1 : Body(Root)[j] = n.stage}

\* "Resume from here" on the node n, in a run that failed or was stopped.
ResumeRequested(a) ==
  /\ pc = "over" /\ run.status \in {"failed", "stopped"} /\ resumes < MaxResumes
  /\ \E n \in Recorded : ResumesAt(n, a)
  /\ resumes' = resumes + 1 /\ from' = a
  /\ run' = [status |-> "running", failed |-> NoNode]
  /\ stopAt' = NoNode /\ exc' = "none"
  /\ UNCHANGED <<status, seen, collected>>

Resume(a) ==
  /\ ResumeRequested(a) /\ ~Unreadable(a)
  /\ LET top == CHOOSE i \in DOMAIN Body(Root) : Node(Body(Root)[i], <<>>) \in Above[a]
         failed == {m \in Narrated(top) : status[m] \in {"failed", "stopped"}}
     IN /\ frames' = <<Frame(Node(Root, <<>>), top, 0, 1, 0, a)>>
        /\ lastFailed' = IF failed = {} THEN NoNode
                         ELSE CHOOSE m \in failed :
                                \A o \in failed : Index(Body(Root), o.stage) <= Index(Body(Root), m.stage)
  /\ slots' = <<Reconstructed(a)>>
  /\ pc' = "go"

\* reconstruct_slots raises before the try: the task dies and nobody is told.
ResumeDies(a) ==
  /\ ResumeRequested(a) /\ Unreadable(a)
  /\ pc' = "dead"
  /\ UNCHANGED <<frames, slots, lastFailed>>

-----------------------------------------------------------------------------
Engine == \/ StageSkipped \/ GateRaises \/ LeafEnters \/ BranchRaises
          \/ (\E holds \in BOOLEAN : BranchJumps(holds) \/ BranchMisses(holds))
          \/ SubWorkflowEnters \/ LoopEnters
          \/ LeafReturns \/ RespondReturns \/ LeafFails \/ LeafCancelled
          \/ ItemReused \/ ItemStarts \/ LoopReturns
          \/ ExitHolds \/ ExitDoesNotHold \/ ExitRaises
          \/ InnerStageFailed \/ ItemCancelled \/ LoopAborted
          \/ SubWorkflowReturns \/ SubWorkflowRaises \/ RunReturns \/ RunRaises

User == ClientAborts \/ \E a \in Nodes : Resume(a) \/ ResumeDies(a)

Idle == pc \in {"over", "dead"} /\ UNCHANGED vars

Next == Engine \/ User \/ Idle

Spec == Init /\ [][Next]_vars

\* The event loop runs the orchestrator, and every leaf stage ends in the end.
FairSpec == Spec /\ WF_vars(Engine)
-----------------------------------------------------------------------------
\* Types, and the bounds of the control state: no item is attempted more than
\* max_retries + 1 times (custom_workflow.py:857-914).
TypeOK ==
  /\ \A i \in DOMAIN frames :
       /\ frames[i].node \in Nodes \cup {Node(Root, <<>>)}
       /\ frames[i].at \in 1 .. Len(Body(frames[i].node.stage)) + 1
       /\ frames[i].attempt \in 0 .. Def[frames[i].node.stage].attempts
       /\ frames[i].cursor \in Nodes \cup {NoNode}
  /\ \A i \in DOMAIN slots : DOMAIN slots[i] \subseteq Stages
  /\ pc \in {"go", "leaf", "raise", "over", "dead"}
  /\ exc \in {"none", "error", "cancel", "abort"} /\ (exc = "none" <=> pc # "raise")
  /\ lastFailed \in StageNodes \cup {NoNode} /\ stopAt \in StageNodes \cup {NoNode}
  /\ status \in [Nodes -> {"absent", "running", "done", "failed", "stopped", "skipped"}]
  /\ Seen \subseteq StageNodes /\ Cardinality(Seen) = Len(seen)
  /\ run.status \in {"running", "done", "failed", "stopped"}
  /\ resumes \in 0 .. MaxResumes

\* Once the run has ended nothing on disk is left "running", whatever was in flight:
\* every stage_enter has its stage_exit (custom_workflow.py:594-639).
NothingLeftRunning == pc = "over" => \A n \in Nodes : status[n] # "running"

\* A loop item's result holds only what was produced in that very item: the slots of the
\* inner stages are cleared between items (custom_workflow.py:831-843).
ItemResultsAreOwn ==
  \A n \in ItemNodes : \A r \in collected[n] :
    \/ r[2] = NoNode
    \/ Len(n.items) <= Len(r[2].items) /\ SubSeq(r[2].items, 1, Len(n.items)) = n.items

\* A definition may give any stage an output of any name (action_output, loop_output).
\* Here a slot named like a stage of a loop is written by stages of that loop only.
OwnNames ==
  \A x, s \in Stages \ {Root} :
    SlotOf(Node(x, <<>>)) = s /\ Def[Owner[s]].type = "loop" => Owner[s] \in Around[Owner[x]]

\* An abort received while a leaf stage is in flight stops the run there, and no loop
\* retries it (custom_workflow.py:896-903, 947-951).
StopIsRecorded ==
  pc = "over" /\ stopAt # NoNode /\ Def[stopAt.stage].type = "leaf"
    => run.status = "stopped" /\ status[stopAt] = "stopped"

\* A condition that cannot be evaluated fails the run: whatever loops it unwinds
\* through, no attempt is spent on it and no stage runs any more
\* (_WorkflowAbort, custom_workflow.py:1157-1165).
AbortIsFinal == [][exc = "abort" => exc' = "abort" \/ run'.status = "failed"]_vars

\* The nodes that come before a in their list: the earlier stages of the workflow, the
\* earlier items of the loops a is in, and everything within them.  A loop in an item that
\* may be tried again is left out: the next attempt runs all of its items.
Earlier == [a \in Nodes |->
  {n \in Nodes : \E m \in Above[a], k \in Above[n] :
     \/ /\ {k, m} \subseteq ItemNodes /\ Parent(k) = Parent(m)
        /\ k.items[Len(k.items)] < m.items[Len(m.items)]
        /\ \A o \in Around[Owner[m.stage]] : Def[o].attempts = 1
     \/ /\ {k, m} \subseteq StageNodes /\ {Owner[k.stage], Owner[m.stage]} = {Root}
        /\ Index(Body(Root), k.stage) < Index(Body(Root), m.stage)}]

\* A branch of the workflow's own list may jump backwards (custom_workflow.py:472-477).
JumpsForward ==
  \A i \in DOMAIN Body(Root) :
    LET b == Def[Body(Root)[i]] IN
    \A k \in DOMAIN Body(Root) :
      b.type = "branch" /\ Body(Root)[k] \in {b.ifTrue, b.ifFalse} => i < k

\* A resumption leaves alone what comes before its resume point: resuming
\* (custom_workflow.py:345-409) neither redoes nor starts anything earlier in the run.
EarlierWorkKept ==
  [][from # NoNode => \A n \in Earlier[from] : status'[n] = status[n]]_vars

\* The record on disk is that of a tree of nested stages: what the recorder writes
\* (workflow_run_recorder.py:221-264), step by step, is what RunTree allows.
Enclosing == [n \in StageNodes |-> (Above[n] \cap StageNodes) \ {n}]
Tree == INSTANCE RunTree WITH
          Nodes <- StageNodes,
          record <- [n \in StageNodes |-> status[n]]
RecordIsTree == Tree!Spec

\* A run under way comes to its end, and says so: every loop runs out of attempts and
\* of items (custom_workflow.py:740-973).
EveryRunEnds == (pc \in {"go", "leaf", "raise"}) ~> (pc = "over")

\* CONTEXT.md:441: "whatever stage or loop item was in flight at the moment of
\* cancellation is shown as stopped".  A respond stage that the abort reaches is shown
\* as done instead, and the run goes on (custom_workflow.py:975-1029).
InFlightIsShownStopped == pc = "over" /\ stopAt # NoNode => status[stopAt] = "stopped"

\* CONTEXT.md:451: a resumed loop goes on "reusing already-completed later items'
\* results as-is".  It reuses every later item that has a result, a stopped one too.
OnlyCompletedItemsReused == [][ItemReused => status[ItemNode] # "stopped"]_vars

\* CONTEXT.md:451: "selecting any stopped or failed node ... and choosing 'Resume from
\* here'" resumes the run in place.  What resume() reads before its try may raise
\* (custom_workflow.py:371-373), and then the run is neither resumed nor ended.
ResumeIsAnswered == pc # "dead"
=============================================================================
