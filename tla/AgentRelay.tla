----------------------------- MODULE AgentRelay -----------------------------
(***************************************************************************)
(* One plain agent run behind its websocket (backend/routers/ws.py and the *)
(* AgentSession, run_agent and SubAgentTool it drives).                    *)
(*                                                                         *)
(* Five asyncio tasks share one AgentSession: the handler, its send task,  *)
(* its receive task, the agent task and, while the subagent tool runs, the *)
(* subagent's task.  outbound is an unbounded queue, so emit never         *)
(* suspends: everything between two awaits that can suspend is one action. *)
(* Cancelling a task makes its next resumption raise, whatever it awaits.  *)
(***************************************************************************)
EXTENDS Naturals, Sequences, FiniteSets

CONSTANTS
  MaxCalls,             \* bound: tool calls the model makes in one run
  MaxMsgs,              \* bound: aborts, mode changes and repeated answers sent
  CompressAfter,        \* WORKING_MEMORY_ITERATION_THRESHOLD
  Kinds,                \* kinds of tool calls the model makes
  Modes,                \* conversation modes the client may start in or set
  SubagentFails,        \* may the subagent's run end in an error?
  SubagentCompresses    \* may the subagent reach a compression point?

ASSUME BoundsAssumption == /\ MaxCalls \in Nat
                           /\ MaxMsgs \in Nat
                           /\ CompressAfter \in Nat \ {0}
ASSUME KindsAssumption == Kinds \subseteq {"plain", "guarded", "ask", "subagent"}
ASSUME ModesAssumption == Modes \subseteq {"standard", "auto", "yolo"} /\ Modes # {}
ASSUME SubagentAssumption == SubagentFails \in BOOLEAN /\ SubagentCompresses \in BOOLEAN

VARIABLES
  ws,        \* the connection: "open" or "closed"
  toServer,  \* control messages on their way to the server
  sent,      \* how many of the messages bounded by MaxMsgs were sent
  prompts,   \* calls whose prompt (confirmation or question) the client has seen
  chose,     \* chose[c]: the client's first answer to the prompt of c
  twice,     \* tool_ids under which it has sent an answer again
  shown,     \* calls whose tool_result the client has received
  asked,     \* the client was told to compress and has not replied yet
  told,      \* what ended the run for the client: "none" or the event's type
  outbound,  \* AgentSession.outbound
  pending,   \* pending[i]: the call whose future is registered under the id i, or 0
  answer,    \* answer[c]: what the client's reply resolved the future of c to
  woken,     \* AgentSession._compression_event is set
  mode,      \* AgentSession.mode
  pc,        \* where the agent task is suspended
  made,      \* tool calls started so far; the current call is number made
  kind,      \* kind[c] of call c
  name,      \* name[c]: the id the answer to c is matched by, the first call it was given to
  left,      \* calls of the current turn still to execute
  iter,      \* run_agent's iteration_count
  lenC,      \* turn.length_compressed of the last turn
  why,       \* which code awaits the compression, or "none"
  examined,  \* calls judged by the safety rules or the evaluator (auto, yolo)
  started,   \* calls whose tool has begun to act
  stopReq,   \* agent_task.cancel() has been called
  sub,       \* the subagent's task
  recvPc, sendPc, mainPc   \* the handler's tasks

clientVars == <<ws, toServer, sent, prompts, chose, twice, shown, asked, told>>
sessionVars == <<outbound, pending, answer, woken, mode>>
agentVars == <<pc, made, kind, name, left, iter, lenC, why, examined, started, sub>>
handlerVars == <<recvPc, sendPc, mainPc>>
vars == <<clientVars, sessionVars, agentVars, stopReq, handlerVars>>

Calls == 1 .. MaxCalls
Ev(t, c) == [type |-> t, call |-> c]
Msg(t, c, v) == [type |-> t, call |-> c, value |-> v]
Event == [type : {"prompt", "tool_result", "sub_error"}, call : Calls]
           \cup [type : {"compressing", "done", "error"}, call : {0}]
Message == [type : {"answer"}, call : Calls, value : {"yes", "no"}]
             \cup [type : {"compression_done", "set_mode", "abort"}, call : {0},
                   value : {"none", "unknown"} \cup Modes]

Init ==
  /\ ws = "open" /\ toServer = <<>> /\ sent = 0
  /\ prompts = {} /\ chose = [c \in Calls |-> "none"] /\ twice = {}
  /\ shown = {} /\ asked = FALSE /\ told = "none"
  /\ outbound = <<>> /\ pending = [i \in Calls |-> 0] /\ answer = [c \in Calls |-> "none"]
  /\ woken = FALSE /\ mode \in Modes
  /\ pc = "llm" /\ made = 0 /\ kind = [c \in Calls |-> "plain"]
  /\ name = [c \in Calls |-> c] /\ left = 0
  /\ iter = 0 /\ lenC = FALSE /\ why = "none" /\ examined = {} /\ started = {} /\ sub = "none"
  /\ stopReq = FALSE
  /\ recvPc = "recv" /\ sendPc = "relay" /\ mainPc = "await_send"

-----------------------------------------------------------------------------
(* The client *)

ClientSends(m) ==
  /\ ws = "open"
  /\ toServer' = Append(toServer, m)
  /\ UNCHANGED <<ws, prompts, shown, told, sessionVars, agentVars, stopReq, handlerVars>>

ClientSendsExtra(m) ==
  /\ sent < MaxMsgs /\ sent' = sent + 1
  /\ ClientSends(m)
  /\ UNCHANGED <<chose, asked>>

\* The end of the run removes the prompts and the stop button.
ClientAnswers(c, v) ==
  /\ told = "none"
  /\ c \in prompts /\ chose[c] = "none"
  /\ chose' = [chose EXCEPT ![c] = v]
  /\ ClientSends(Msg("answer", name[c], v))
  /\ UNCHANGED <<sent, twice, asked>>

\* The prompt is answered again, which nothing in the protocol rules out.
ClientRepeats(c, v) ==
  /\ told = "none"
  /\ c \in prompts /\ chose[c] # "none"
  /\ twice' = twice \cup {name[c]}
  /\ ClientSendsExtra(Msg("answer", name[c], v))

ClientCompressed ==
  /\ asked /\ asked' = FALSE
  /\ ClientSends(Msg("compression_done", 0, "none"))
  /\ UNCHANGED <<sent, chose, twice>>

ClientSetsMode(m) == ClientSendsExtra(Msg("set_mode", 0, m)) /\ UNCHANGED twice

ClientAborts == told = "none" /\ ClientSendsExtra(Msg("abort", 0, "none")) /\ UNCHANGED twice

\* A page reload or a dropped connection: the tail of what was sent may be lost.
ClientLeaves ==
  /\ ws = "open"
  /\ ws' = "closed"
  /\ \E k \in 0 .. Len(toServer) : toServer' = SubSeq(toServer, 1, k)
  /\ UNCHANGED <<sent, prompts, chose, twice, shown, asked, told, sessionVars, agentVars, stopReq, handlerVars>>

-----------------------------------------------------------------------------
(* The receive task: _ws_receive_messages_from_frontend *)

\* agent_task.cancel(): without effect once the task has ended.
CancelAgent == stopReq' = (stopReq \/ pc # "ended")

Receives(t) ==
  /\ recvPc = "recv" /\ toServer # <<>> /\ Head(toServer).type = t
  /\ toServer' = Tail(toServer)
  /\ UNCHANGED <<ws, sent, prompts, chose, twice, shown, asked, told, agentVars, sendPc, mainPc>>

\* Mutation of RecvAnswer: the future is not popped and its result is overwritten.
RecvAnswerTwice ==
  /\ Receives("answer")
  /\ LET m == Head(toServer) IN
       answer' = IF pending[m.call] = 0 THEN answer ELSE [answer EXCEPT ![pending[m.call]] = m.value]
  /\ UNCHANGED <<outbound, pending, woken, mode, stopReq, recvPc>>

\* resolve_confirm / resolve_plan_confirm / resolve_user_input: pop whatever future is
\* registered under the id, complete it if there is one.
RecvAnswer ==
  /\ Receives("answer")
  /\ LET m == Head(toServer) IN
       /\ pending' = [pending EXCEPT ![m.call] = 0]
       /\ answer' = IF pending[m.call] = 0 THEN answer
                    ELSE [answer EXCEPT ![pending[m.call]] = m.value]
  /\ UNCHANGED <<outbound, woken, mode, stopReq, recvPc>>

RecvCompressionDone ==
  /\ Receives("compression_done")
  /\ woken' = TRUE
  /\ UNCHANGED <<outbound, pending, answer, mode, stopReq, recvPc>>

\* Mutation of RecvSetMode: no check against _VALID_MODES.
RecvAnyMode ==
  /\ Receives("set_mode")
  /\ mode' = Head(toServer).value
  /\ UNCHANGED <<outbound, pending, answer, woken, stopReq, recvPc>>

\* A mode outside _VALID_MODES is ignored.
RecvSetMode ==
  /\ Receives("set_mode")
  /\ mode' = IF Head(toServer).value \in Modes THEN Head(toServer).value ELSE mode
  /\ UNCHANGED <<outbound, pending, answer, woken, stopReq, recvPc>>

\* Mutation of RecvAbort: the receive task returns without cancelling the agent.
RecvAbortOnlyReturns ==
  /\ Receives("abort")
  /\ recvPc' = "returned"
  /\ UNCHANGED <<sessionVars, stopReq>>

\* After an abort nothing the client sends is read any more.
RecvAbort ==
  /\ Receives("abort")
  /\ CancelAgent
  /\ recvPc' = "returned"
  /\ UNCHANGED sessionVars

RecvDisconnect ==
  /\ recvPc = "recv" /\ ws = "closed" /\ toServer = <<>>
  /\ CancelAgent
  /\ recvPc' = "returned"
  /\ UNCHANGED <<clientVars, sessionVars, agentVars, sendPc, mainPc>>

-----------------------------------------------------------------------------
(* The send task and the handler: _run_agent_event_loop *)

\* The relay ends the run on a done or error that carries no _pipeline_stage tag;
\* an error forwarded by the subagent tool carries only a _subagent tag.
IsTerminal(e) == e.type \in {"done", "error", "sub_error"}

SendEvent ==
  /\ sendPc = "relay" /\ outbound # <<>> /\ ws = "open"
  /\ LET e == Head(outbound) IN
       /\ outbound' = Tail(outbound)
       /\ prompts' = IF e.type = "prompt" THEN prompts \cup {e.call} ELSE prompts
       /\ shown' = IF e.type = "tool_result" THEN shown \cup {e.call} ELSE shown
       /\ asked' = (asked \/ e.type = "compressing")
       /\ told' = IF IsTerminal(e) THEN e.type ELSE told
       /\ sendPc' = IF IsTerminal(e) THEN "returned" ELSE "relay"
  /\ UNCHANGED <<ws, toServer, sent, chose, twice, pending, answer, woken, mode, agentVars, stopReq, recvPc, mainPc>>

\* A send to a gone client raises, or is dropped by the server unnoticed.
SendToNobody ==
  /\ sendPc = "relay" /\ outbound # <<>> /\ ws = "closed"
  /\ outbound' = Tail(outbound)
  /\ \/ sendPc' = "raised"
     \/ sendPc' = IF IsTerminal(Head(outbound)) THEN "returned" ELSE "relay"
  /\ UNCHANGED <<clientVars, pending, answer, woken, mode, agentVars, stopReq, recvPc, mainPc>>

\* Mutation of HandlerStopsReceiving: no finally, a failed send skips the cleanup.
HandlerSkipsCleanup ==
  /\ mainPc = "await_send" /\ sendPc # "relay"
  /\ recvPc' = IF recvPc = "recv" THEN "cancelled" ELSE recvPc
  /\ mainPc' = IF sendPc = "raised" THEN "returned" ELSE "stop_agent"
  /\ UNCHANGED <<clientVars, sessionVars, agentVars, stopReq, sendPc>>

\* finally: _cancel_and_wait(recv_task); the receive task swallows nothing.
HandlerStopsReceiving ==
  /\ mainPc = "await_send" /\ sendPc # "relay"
  /\ recvPc' = IF recvPc = "recv" THEN "cancelled" ELSE recvPc
  /\ mainPc' = "stop_agent"
  /\ UNCHANGED <<clientVars, sessionVars, agentVars, stopReq, sendPc>>

HandlerCancelsAgent ==
  /\ mainPc = "stop_agent"
  /\ CancelAgent
  /\ mainPc' = "await_agent"
  /\ UNCHANGED <<clientVars, sessionVars, agentVars, recvPc, sendPc>>

\* _cancel_and_wait: the agent task ended, or 5 s after its cancellation it is still
\* cleaning up.  Any other suspension ends with the cancellation itself.  The endpoint
\* returns, which closes the connection.
HandlerReturns ==
  /\ mainPc = "await_agent" /\ pc \in {"ended", "unwinding"}
  /\ mainPc' = "returned"
  /\ ws' = "closed" /\ toServer' = <<>>
  /\ UNCHANGED <<sent, prompts, chose, twice, shown, asked, told, sessionVars, agentVars, stopReq, recvPc, sendPc>>

-----------------------------------------------------------------------------
(* The agent task: run_agent, chat_with_tools, _execute_tool_calls *)

AgentRuns(p) == pc = p /\ ~stopReq
Emit(es) == outbound' = outbound \o es
otherVars == <<clientVars, stopReq, handlerVars>>

\* Mutation of LoopHead: the threshold is compared with >.
LoopHeadOffByOne(es, n, lc) ==
  IF n > CompressAfter /\ ~lc
  THEN /\ Emit(es \o <<Ev("compressing", 0)>>)
       /\ woken' = FALSE /\ pc' = "compress" /\ why' = "threshold"
       /\ iter' = n /\ lenC' = lc
  ELSE /\ Emit(es)
       /\ pc' = "llm" /\ why' = "none" /\ iter' = n /\ lenC' = lc
       /\ woken' = woken

\* run_agent's loop head, reached with n completed iterations and the last turn's
\* length_compressed flag lc, after emitting es.
LoopHead(es, n, lc) ==
  IF n >= CompressAfter /\ ~lc
  THEN /\ Emit(es \o <<Ev("compressing", 0)>>)
       /\ woken' = FALSE /\ pc' = "compress" /\ why' = "threshold"
       /\ iter' = n /\ lenC' = lc
  ELSE /\ Emit(es)
       /\ pc' = "llm" /\ why' = "none" /\ iter' = n /\ lenC' = lc
       /\ woken' = woken

\* The task is over, and with it the loop's local variables.
Ends(es) ==
  /\ Emit(es)
  /\ pc' = "ended" /\ left' = 0 /\ iter' = 0 /\ lenC' = FALSE /\ why' = "none"

\* No tool call: the turn is done and so is the run.
LlmAnswers ==
  /\ AgentRuns("llm")
  /\ Ends(<<Ev("done", 0)>>)
  /\ UNCHANGED <<pending, answer, woken, mode, made, kind, name, examined, started, sub, otherVars>>

\* Mutation of AgentFails: the exception ends the task without an error event.
AgentFailsSilently ==
  /\ AgentRuns("llm")
  /\ Ends(<<>>)
  /\ UNCHANGED <<pending, answer, woken, mode, made, kind, name, examined, started, sub, otherVars>>

\* Whatever the model call, the token counts, a tool, the evaluator or the database raises
\* is reported by run_agent; only an answer and a subagent's events cannot raise.
AgentFails ==
  /\ AgentRuns(pc) /\ pc \in {"llm", "next", "evaluating", "tool", "compress"}
  /\ pc = "compress" => woken
  /\ Ends(<<Ev("error", 0)>>)
  /\ UNCHANGED <<pending, answer, woken, mode, made, kind, name, examined, started, sub, otherVars>>

\* finish_reason "length": compress once, but not right after a length compression.
LlmHitsLimit ==
  /\ AgentRuns("llm")
  /\ IF lenC
     THEN /\ Ends(<<Ev("error", 0), Ev("done", 0)>>)
          /\ woken' = woken
     ELSE /\ Emit(<<Ev("compressing", 0)>>)
          /\ woken' = FALSE /\ pc' = "compress" /\ why' = "length"
          /\ UNCHANGED <<left, iter, lenC>>
  /\ UNCHANGED <<pending, answer, mode, made, kind, name, examined, started, sub, otherVars>>

LlmCallsTools(n) ==
  /\ AgentRuns("llm") /\ made + n <= MaxCalls
  /\ left' = n /\ pc' = "next"
  /\ UNCHANGED <<sessionVars, made, kind, name, iter, lenC, why, examined, started, sub, otherVars>>

\* request_confirm and its siblings emit the prompt and register the future, in place of any
\* registered under the same id, without suspending.
Prompt(c, i) ==
  /\ Emit(<<Ev("prompt", c)>>)
  /\ pending' = [pending EXCEPT ![i] = c]
  /\ pc' = "asking"

Act(c) == started' = started \cup {c} /\ pc' = "tool"

\* The tool_ids a confirmation can have: made of the file's path, the query, the image's
\* prompt or the address of the arguments, they repeat.
ToolIds(c) == {c} \cup {name[b] : b \in {b \in 1 .. made : kind[b] = "guarded"}}

StartCall(k) ==
  /\ AgentRuns("next") /\ left > 0
  /\ made' = made + 1 /\ left' = left - 1
  /\ kind' = [kind EXCEPT ![made + 1] = k]
  /\ IF k = "guarded" THEN \E i \in ToolIds(made + 1) : name' = [name EXCEPT ![made + 1] = i]
                      ELSE name' = name     \* questions and plans have a uuid
  /\ CASE k = "plain" -> Act(made + 1) /\ UNCHANGED <<outbound, pending, examined, sub>>
       [] k = "ask" -> Prompt(made + 1, name'[made + 1]) /\ UNCHANGED <<examined, started, sub>>
       [] k = "subagent" -> /\ pc' = "sub" /\ sub' = "run"
                            /\ started' = started \cup {made + 1}
                            /\ UNCHANGED <<outbound, pending, examined>>
       [] k = "guarded" /\ mode = "standard" ->
            Prompt(made + 1, name'[made + 1]) /\ UNCHANGED <<examined, started, sub>>
       [] k = "guarded" /\ mode # "standard" ->
            \* an in-workspace write is safe by rule, anything else is evaluated
            /\ examined' = examined \cup {made + 1}
            /\ \/ Act(made + 1)
               \/ pc' = "evaluating" /\ UNCHANGED started
            /\ UNCHANGED <<outbound, pending, sub>>
  /\ UNCHANGED <<answer, woken, mode, iter, lenC, why, otherVars>>

EvaluatorSafe ==
  /\ AgentRuns("evaluating")
  /\ Act(made)
  /\ UNCHANGED <<sessionVars, made, kind, name, left, iter, lenC, why, examined, sub, otherVars>>

\* self.mode is read again after the evaluation: only yolo rejects by itself.
EvaluatorDangerous ==
  /\ AgentRuns("evaluating") /\ mode # "yolo"
  /\ Prompt(made, name[made])
  /\ UNCHANGED <<answer, woken, mode, made, kind, name, left, iter, lenC, why, examined, started, sub, otherVars>>

\* Mutation of Completes: the compression request overtakes the result.
CompletesAfterCompressing ==
  LET result == Ev("tool_result", made) IN
  \/ /\ Emit(<<Ev("compressing", 0), result>>)
     /\ woken' = FALSE /\ pc' = "compress" /\ why' = "overflow"
     /\ UNCHANGED <<iter, lenC>>
  \/ /\ left > 0
     /\ Emit(<<result>>) /\ pc' = "next"
     /\ UNCHANGED <<woken, iter, lenC, why>>
  \/ /\ left = 0
     /\ LoopHead(<<result>>, iter + 1, FALSE)

\* Mutation of Completes: the overflow path reports no result.
CompletesWithoutResult ==
  LET result == Ev("tool_result", made) IN
  \/ /\ Emit(<<Ev("compressing", 0)>>)
     /\ woken' = FALSE /\ pc' = "compress" /\ why' = "overflow"
     /\ UNCHANGED <<iter, lenC>>
  \/ /\ left > 0
     /\ Emit(<<result>>) /\ pc' = "next"
     /\ UNCHANGED <<woken, iter, lenC, why>>
  \/ /\ left = 0
     /\ LoopHead(<<result>>, iter + 1, FALSE)

\* The call has a result: emit it, then compress if the context is over the
\* threshold, else execute the next call of the turn, else end the turn.
Completes ==
  LET result == Ev("tool_result", made) IN
  \/ /\ Emit(<<result, Ev("compressing", 0)>>)
     /\ woken' = FALSE /\ pc' = "compress" /\ why' = "overflow"
     /\ UNCHANGED <<iter, lenC>>
  \/ /\ left > 0
     /\ Emit(<<result>>) /\ pc' = "next"
     /\ UNCHANGED <<woken, iter, lenC, why>>
  \/ /\ left = 0
     /\ LoopHead(<<result>>, iter + 1, FALSE)

EvaluatorRejects ==
  /\ AgentRuns("evaluating") /\ mode = "yolo"
  /\ Completes
  /\ UNCHANGED <<pending, answer, mode, made, kind, name, left, examined, started, sub, otherVars>>

\* Mutation of Approved: any reply lets the tool act.
ApprovedByAnyReply ==
  /\ AgentRuns("asking") /\ answer[made] # "none" /\ kind[made] = "guarded"
  /\ Act(made)
  /\ UNCHANGED <<sessionVars, made, kind, name, left, iter, lenC, why, examined, sub, otherVars>>

Approved ==
  /\ AgentRuns("asking") /\ answer[made] = "yes" /\ kind[made] = "guarded"
  /\ Act(made)
  /\ UNCHANGED <<sessionVars, made, kind, name, left, iter, lenC, why, examined, sub, otherVars>>

\* A rejected tool, or the reply to a question or plan.
Answered ==
  /\ AgentRuns("asking")
  /\ answer[made] = "no" \/ (answer[made] = "yes" /\ kind[made] = "ask")
  /\ Completes
  /\ UNCHANGED <<pending, answer, mode, made, kind, name, left, examined, started, sub, otherVars>>

ToolReturns ==
  /\ AgentRuns("tool")
  /\ Completes
  /\ UNCHANGED <<pending, answer, mode, made, kind, name, left, examined, started, sub, otherVars>>

\* await_compression returned and the refreshed messages are in place.
Compressed ==
  /\ AgentRuns("compress") /\ woken
  /\ \/ /\ why = "threshold"
        /\ pc' = "llm" /\ iter' = 0 /\ why' = "none" /\ UNCHANGED <<outbound, woken, left, lenC>>
     \/ why = "length" /\ LoopHead(<<>>, iter + 1, TRUE) /\ left' = left
     \/ /\ why = "overflow"   \* still over the limit
        /\ Ends(<<Ev("error", 0), Ev("done", 0)>>)
        /\ woken' = woken
     \/ /\ why = "overflow" /\ left > 0
        /\ pc' = "next" /\ why' = "none" /\ UNCHANGED <<outbound, woken, left, iter, lenC>>
     \/ why = "overflow" /\ left = 0 /\ LoopHead(<<>>, iter + 1, FALSE) /\ left' = left
  /\ UNCHANGED <<pending, answer, mode, made, kind, name, examined, started, sub, otherVars>>

\* The cancellation is raised inside generate_image, whose finally waits for the chat
\* model's server to be up again.
AgentCleansUp ==
  /\ stopReq /\ pc = "tool" /\ kind[made] = "guarded"
  /\ pc' = "unwinding"
  /\ UNCHANGED <<sessionVars, made, kind, name, left, iter, lenC, why, examined, started, sub, otherVars>>

\* except asyncio.CancelledError: the abort is reported as an error, once any cleanup is
\* over, has failed or is itself cancelled.
AgentAborts ==
  /\ stopReq /\ pc # "ended"
  /\ Ends(<<Ev("error", 0)>>)
  /\ UNCHANGED <<pending, answer, woken, mode, made, kind, name, examined, started, sub, otherVars>>

-----------------------------------------------------------------------------
(* The subagent tool: its task runs run_agent over a session of its own *)

SubagentFinishes ==
  /\ sub = "run" /\ sub' = "over"
  /\ UNCHANGED <<clientVars, sessionVars, pc, made, kind, name, left, iter, lenC, why, examined, started, stopReq, handlerVars>>

SubagentErrs ==
  /\ SubagentFails
  /\ sub = "run" /\ sub' = "failed"
  /\ UNCHANGED <<clientVars, sessionVars, pc, made, kind, name, left, iter, lenC, why, examined, started, stopReq, handlerVars>>

\* "compressing" is not among the events the tool forwards.
SubagentAwaitsCompression ==
  /\ SubagentCompresses
  /\ sub = "run" /\ sub' = "compress"
  /\ UNCHANGED <<clientVars, sessionVars, pc, made, kind, name, left, iter, lenC, why, examined, started, stopReq, handlerVars>>

\* The tool reads the subagent's terminal event; an error is forwarded first, and
\* until _track_tokens has counted the result the agent task is suspended in "tool".
SubagentReturns ==
  /\ AgentRuns("sub") /\ sub \in {"over", "failed"}
  /\ Emit(IF sub = "failed" THEN <<Ev("sub_error", made)>> ELSE <<>>)
  /\ sub' = "none" /\ pc' = "tool"
  /\ UNCHANGED <<pending, answer, woken, mode, made, kind, name, left, iter, lenC, why, examined, started, otherVars>>

-----------------------------------------------------------------------------
Client == \/ \E c \in Calls, v \in {"yes", "no"} : ClientAnswers(c, v) \/ ClientRepeats(c, v)
          \/ ClientCompressed
          \/ \E m \in Modes \cup {"unknown"} : ClientSetsMode(m)
          \/ ClientAborts
          \/ ClientLeaves

Receive == RecvAnswer \/ RecvCompressionDone \/ RecvSetMode \/ RecvAbort \/ RecvDisconnect
Send == SendEvent \/ SendToNobody
Main == HandlerStopsReceiving \/ HandlerCancelsAgent \/ HandlerReturns

Agent == \/ LlmAnswers \/ AgentFails \/ LlmHitsLimit
         \/ \E n \in Calls : LlmCallsTools(n)
         \/ \E k \in Kinds : StartCall(k)
         \/ EvaluatorSafe \/ EvaluatorDangerous \/ EvaluatorRejects
         \/ Approved \/ Answered \/ ToolReturns \/ Compressed \/ AgentCleansUp \/ AgentAborts
         \/ SubagentReturns

Subagent == SubagentFinishes \/ SubagentErrs \/ SubagentAwaitsCompression

\* The handler has returned: the connection is closed and nothing is left to do.
Finished == mainPc = "returned" /\ UNCHANGED vars

Next == Client \/ Receive \/ Send \/ Main \/ Agent \/ Subagent \/ Finished

Spec == Init /\ [][Next]_vars

\* The event loop runs every ready task; the model and the tools answer in the end.
ServerFairness == /\ WF_vars(Receive) /\ WF_vars(Send) /\ WF_vars(Main)
                  /\ WF_vars(Agent) /\ WF_vars(SubagentFinishes)
ServerSpec == Spec /\ ServerFairness

\* A client that answers every prompt and compresses when told to.
PatientClient == /\ \A c \in Calls : WF_vars(\E v \in {"yes", "no"} : ClientAnswers(c, v))
                 /\ WF_vars(ClientCompressed)
PatientSpec == ServerSpec /\ PatientClient
-----------------------------------------------------------------------------
\* Types; the mode is always one of _VALID_MODES, whatever the client sends (ws.py:55-59).
TypeOK ==
  /\ ws \in {"open", "closed"}
  /\ toServer \in Seq(Message)
  /\ sent \in 0 .. MaxMsgs
  /\ prompts \subseteq Calls /\ chose \in [Calls -> {"none", "yes", "no"}] /\ twice \subseteq Calls
  /\ shown \subseteq Calls
  /\ asked \in BOOLEAN /\ told \in {"none", "done", "error", "sub_error"}
  /\ outbound \in Seq(Event)
  /\ pending \in [Calls -> {0} \cup Calls] /\ answer \in [Calls -> {"none", "yes", "no"}]
  /\ woken \in BOOLEAN /\ mode \in Modes
  /\ pc \in {"llm", "next", "evaluating", "asking", "tool", "sub", "compress", "unwinding", "ended"}
  /\ made \in 0 .. MaxCalls /\ left \in 0 .. MaxCalls /\ made + left <= MaxCalls
  /\ pc \in {"evaluating", "asking", "tool", "sub"} => made # 0
  /\ kind \in [Calls -> {"plain", "guarded", "ask", "subagent"}] /\ name \in [Calls -> Calls]
  /\ iter \in Nat /\ lenC \in BOOLEAN
  /\ why \in {"none", "threshold", "length", "overflow"}
  /\ examined \subseteq Calls /\ started \subseteq Calls
  /\ sub \in {"none", "run", "compress", "over", "failed"}
  /\ stopReq \in BOOLEAN
  /\ recvPc \in {"recv", "returned", "cancelled"}
  /\ sendPc \in {"relay", "returned", "raised"}
  /\ mainPc \in {"await_send", "stop_agent", "await_agent", "returned"}

\* An answer may be another call's: an earlier call was confirmed under the same tool_id,
\* and an answer under that id was sent again (edit_file.py:128, write_file.py:64,
\* search_web.py:37, generate_image.py:41, run_shell.py:48).
Borrowed(c) == name[c] \in twice /\ \E b \in 1 .. c - 1 : name[b] = name[c]

\* A tool that needs confirmation acts only if the client's first answer to the prompt of
\* this very call approved it or the safety rules examined it (request_confirm,
\* agent.py:381-431), also when calls share a tool_id; a repeated answer under a shared
\* tool_id is all that can approve a call for which it was not given.
GuardedWereAllowed ==
  \A c \in started : kind[c] = "guarded" =>
    c \in examined \/ chose[c] = "yes" \/ (answer[c] = "yes" /\ Borrowed(c))

\* The client is told to compress only when it has the result of every tool that
\* acted: "Emit tool_result first so frontend saves it to DB before compressing"
\* (agent.py:667).
ResultsBeforeCompression == asked => started \subseteq shown

\* A run reported done has delivered the result of every tool that acted: outbound keeps
\* the order of the events (agent.py:629-702, 946).
DoneAfterResults == told = "done" => started \subseteq shown

\* The model is never called with more than CompressAfter iterations uncompressed,
\* also when a length compression has postponed the threshold's (agent.py:895-918, 932-945).
CompressionKeepsUp == pc = "llm" => iter <= CompressAfter /\ (iter = CompressAfter => lenC)

\* When the handler returns, no agent task is left working for a gone client: it "must
\* be cancelled on every exit path" (ws.py:176-181).  What may be left, when 5 s were not
\* enough, is the cleanup of a tool the cancellation cut short.
NoHeadlessAgent == mainPc = "returned" => pc = "ended" \/ (pc = "unwinding" /\ stopReq)

\* Once the server has read an abort (or noticed the disconnect) no tool starts
\* (_ws_receive_messages_from_frontend, ws.py:41-64).
NoToolAfterAbort == [][recvPc = "returned" => started' = started]_vars

\* The first answer to a prompt is the one its call gets, however late the answers arrive,
\* whoever shares its id and however often it is answered (agent.py:433-463) - unless the
\* answer was borrowed.
FirstAnswerCounts ==
  \A c \in Calls : answer[c] # "none" => answer[c] = chose[c] \/ Borrowed(c)

\* With a client that answers every prompt the run ends, and it ends after an abort or a
\* disconnect that the server has read whatever it waited for (ws.py:60-64, 193-199): the
\* handler returns and the agent task, also one still cleaning up then, is over.  Only a
\* subagent that waits for a compression is left waiting: nothing forwards its request to
\* the client (subagent.py:61-74).
RunEnds ==
  []<>(\/ mainPc = "returned" /\ pc = "ended"
       \/ sub = "compress" /\ recvPc # "returned" /\ ws = "open")

-----------------------------------------------------------------------------
(* A claim of a comment that the code does not keep *)

\* ws.py:186 "Only a top-level done/error/stopped ends the run."
OnlyTopLevelEndsRun == told # "sub_error"
=============================================================================
