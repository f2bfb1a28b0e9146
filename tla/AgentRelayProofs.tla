-------------------------- MODULE AgentRelayProofs --------------------------
(***************************************************************************)
(* What holds of AgentRelay for any number of tool calls, any set of tool  *)
(* kinds and modes, and any compression threshold.                         *)
(***************************************************************************)
EXTENDS AgentRelay, SequenceTheorems, TLAPS

Whys == {"none", "threshold", "length", "overflow"}

-----------------------------------------------------------------------------
(* The queue of events *)

\* Emitting events keeps the queue a queue of events.
LEMMA EmitTyped ==
  ASSUME NEW es \in Seq(Event), outbound \in Seq(Event), Emit(es)
  PROVE  outbound' \in Seq(Event)
BY ConcatProperties DEF Emit

\* Where the elements of a concatenation are.
LEMMA ConcatAt ==
  ASSUME NEW S, NEW q \in Seq(S), NEW r \in Seq(S)
  PROVE  /\ q \o r \in Seq(S) /\ Len(q) \in Nat /\ Len(r) \in Nat
         /\ Len(q \o r) = Len(q) + Len(r)
         /\ \A i \in 1 .. Len(q) : (q \o r)[i] = q[i]
         /\ \A i \in 1 .. Len(r) : (q \o r)[Len(q) + i] = r[i]
OBVIOUS

\* The sequences of events the agent task emits at one step.
LEMMA EventsTyped ==
  /\ <<>> \in Seq(Event)
  /\ <<Ev("error", 0)>> \in Seq(Event) /\ <<Ev("done", 0)>> \in Seq(Event)
  /\ <<Ev("error", 0), Ev("done", 0)>> \in Seq(Event)
  /\ <<Ev("compressing", 0)>> \in Seq(Event)
  /\ \A c \in Calls : /\ <<Ev("prompt", c)>> \in Seq(Event)
                      /\ <<Ev("sub_error", c)>> \in Seq(Event)
                      /\ <<Ev("tool_result", c)>> \in Seq(Event)
                      /\ <<Ev("tool_result", c), Ev("compressing", 0)>> \in Seq(Event)
BY DEF Ev, Event

\* run_agent's loop head keeps the types of the variables it assigns.
LEMMA LoopHeadTyped ==
  ASSUME NEW n \in Nat, NEW lc \in BOOLEAN, NEW es \in Seq(Event),
         outbound \in Seq(Event), woken \in BOOLEAN, why \in Whys,
         LoopHead(es, n, lc)
  PROVE  /\ outbound' \in Seq(Event) /\ woken' \in BOOLEAN /\ why' \in Whys
         /\ pc' \in {"compress", "llm"} /\ iter' = n /\ lenC' = lc
<1>1. es \o <<Ev("compressing", 0)>> \in Seq(Event)
  BY EventsTyped, ConcatProperties
<1>2. outbound' \in Seq(Event)
  BY <1>1, EmitTyped DEF LoopHead
<1> QED BY <1>2 DEF LoopHead, Whys

\* So does the completion of a call.
LEMMA CompletesTyped ==
  ASSUME outbound \in Seq(Event), woken \in BOOLEAN, why \in Whys,
         iter \in Nat, lenC \in BOOLEAN, made \in Calls, Completes
  PROVE  /\ outbound' \in Seq(Event) /\ woken' \in BOOLEAN /\ why' \in Whys
         /\ pc' \in {"compress", "llm", "next"} /\ iter' \in Nat /\ lenC' \in BOOLEAN
<1> DEFINE result == Ev("tool_result", made)
<1>1. CASE LoopHead(<<result>>, iter + 1, FALSE)
  <2>1. <<result>> \in Seq(Event) /\ iter + 1 \in Nat
    BY EventsTyped
  <2>2. /\ outbound' \in Seq(Event) /\ woken' \in BOOLEAN /\ why' \in Whys
        /\ pc' \in {"compress", "llm"} /\ iter' = iter + 1 /\ lenC' = FALSE
    BY <1>1, <2>1, LoopHeadTyped
  <2> QED BY <2>1, <2>2
<1>2. CASE /\ Emit(<<result, Ev("compressing", 0)>>)
           /\ woken' = FALSE /\ pc' = "compress" /\ why' = "overflow"
           /\ UNCHANGED <<iter, lenC>>
  BY <1>2, EmitTyped, EventsTyped DEF Whys
<1>3. CASE /\ Emit(<<result>>) /\ pc' = "next" /\ UNCHANGED <<woken, iter, lenC, why>>
  BY <1>3, EmitTyped, EventsTyped
<1> QED BY <1>1, <1>2, <1>3 DEF Completes

-----------------------------------------------------------------------------
(* Type correctness *)

\* What the client and the handler may change keeps its type.
LEMMA ClientTyped == TypeOK /\ Client => TypeOK'
<1> SUFFICES ASSUME TypeOK, Client PROVE TypeOK'
  OBVIOUS
<1> USE ModesAssumption DEF TypeOK, sessionVars, agentVars, handlerVars
<1>1. ASSUME NEW m \in Message, ClientSends(m) PROVE toServer' \in Seq(Message)
  BY <1>1, AppendProperties DEF ClientSends
<1>2. ASSUME NEW c \in Calls, NEW v \in {"yes", "no"},
             ClientAnswers(c, v) \/ ClientRepeats(c, v)
      PROVE  TypeOK'
  <2>1. name[c] \in Calls /\ Msg("answer", name[c], v) \in Message  BY DEF Msg, Message
  <2>2. toServer' \in Seq(Message)
    BY <1>1, <1>2, <2>1 DEF ClientAnswers, ClientRepeats, ClientSendsExtra
  <2>3. /\ chose' \in [Calls -> {"none", "yes", "no"}] /\ twice' \subseteq Calls
        /\ sent' \in 0 .. MaxMsgs /\ asked' = asked
    BY <1>2, <2>1, BoundsAssumption DEF ClientAnswers, ClientRepeats, ClientSendsExtra
  <2>4. UNCHANGED <<ws, prompts, shown, told, sessionVars, agentVars, stopReq, handlerVars>>
    BY <1>2 DEF ClientAnswers, ClientRepeats, ClientSendsExtra, ClientSends
  <2> QED BY <2>2, <2>3, <2>4
<1>3. CASE ClientCompressed
  <2>1. Msg("compression_done", 0, "none") \in Message  BY DEF Msg, Message
  <2>2. toServer' \in Seq(Message)  BY <1>1, <1>3, <2>1 DEF ClientCompressed
  <2>3. asked' \in BOOLEAN /\ UNCHANGED <<sent, chose, twice>>  BY <1>3 DEF ClientCompressed
  <2>4. UNCHANGED <<ws, prompts, shown, told, sessionVars, agentVars, stopReq, handlerVars>>
    BY <1>3 DEF ClientCompressed, ClientSends
  <2> QED BY <2>2, <2>3, <2>4
<1>4. ASSUME NEW m \in Modes \cup {"unknown"}, ClientSetsMode(m) PROVE TypeOK'
  <2>1. Msg("set_mode", 0, m) \in Message  BY DEF Msg, Message
  <2>2. toServer' \in Seq(Message)
    BY <1>1, <1>4, <2>1 DEF ClientSetsMode, ClientSendsExtra
  <2> QED BY <1>4, <2>2, BoundsAssumption DEF ClientSetsMode, ClientSendsExtra, ClientSends
<1>5. CASE ClientAborts
  <2>1. Msg("abort", 0, "none") \in Message  BY DEF Msg, Message
  <2>2. toServer' \in Seq(Message)  BY <1>1, <1>5, <2>1 DEF ClientAborts, ClientSendsExtra
  <2> QED BY <1>5, <2>2, BoundsAssumption DEF ClientAborts, ClientSendsExtra, ClientSends
<1>6. CASE ClientLeaves
  <2>1. ASSUME NEW k \in 0 .. Len(toServer) PROVE SubSeq(toServer, 1, k) \in Seq(Message)
    BY <2>1, SubSeqProperties
  <2>2. toServer' \in Seq(Message)  BY <1>6, <2>1 DEF ClientLeaves
  <2> QED BY <1>6, <2>2 DEF ClientLeaves
<1> QED BY <1>2, <1>3, <1>4, <1>5, <1>6 DEF Client

LEMMA ReceiveTyped == TypeOK /\ Receive => TypeOK'
<1> SUFFICES ASSUME TypeOK, Receive PROVE TypeOK'
  OBVIOUS
<1> USE DEF TypeOK, clientVars, sessionVars, agentVars
<1>1. ASSUME toServer # <<>> PROVE Head(toServer) \in Message /\ Tail(toServer) \in Seq(Message)
  BY <1>1, HeadTailProperties
<1>2. CASE RecvAnswer
  <2>1. /\ Head(toServer).value \in {"yes", "no"} /\ Head(toServer).call \in Calls
        /\ toServer' \in Seq(Message)
    BY <1>1, <1>2 DEF RecvAnswer, Receives, Message
  <2>2. /\ pending' \in [Calls -> {0} \cup Calls] /\ answer' \in [Calls -> {"none", "yes", "no"}]
    BY <1>2, <2>1 DEF RecvAnswer
  <2>3. UNCHANGED <<outbound, woken, mode, stopReq, recvPc, ws, sent, prompts, chose, twice, shown,
                    asked, told, agentVars, sendPc, mainPc>>
    BY <1>2 DEF RecvAnswer, Receives
  <2> QED BY <2>1, <2>2, <2>3
<1>3. CASE RecvCompressionDone  BY <1>1, <1>3 DEF RecvCompressionDone, Receives
<1>4. CASE RecvSetMode          BY <1>1, <1>4 DEF RecvSetMode, Receives
<1>5. CASE RecvAbort            BY <1>1, <1>5 DEF RecvAbort, Receives, CancelAgent
<1>6. CASE RecvDisconnect       BY <1>6 DEF RecvDisconnect, CancelAgent
<1> QED BY <1>2, <1>3, <1>4, <1>5, <1>6 DEF Receive

LEMMA HandlerTyped == TypeOK /\ (Send \/ Main) => TypeOK'
<1> SUFFICES ASSUME TypeOK, Send \/ Main PROVE TypeOK'
  OBVIOUS
<1> USE DEF TypeOK, clientVars, sessionVars, agentVars
<1>1. ASSUME outbound # <<>> PROVE Head(outbound) \in Event /\ Tail(outbound) \in Seq(Event)
  BY <1>1, HeadTailProperties
<1>2. CASE SendEvent
  <2>1. IsTerminal(Head(outbound)) => Head(outbound).type \in {"done", "error", "sub_error"}
    BY DEF IsTerminal
  <2>2. Head(outbound).type \in {"prompt", "tool_result"} => Head(outbound).call \in Calls
    BY <1>1, <1>2 DEF SendEvent, Event
  <2> QED BY <1>1, <1>2, <2>1, <2>2 DEF SendEvent
<1>3. CASE SendToNobody           BY <1>1, <1>3 DEF SendToNobody
<1>4. CASE HandlerStopsReceiving  BY <1>4 DEF HandlerStopsReceiving
<1>5. CASE HandlerCancelsAgent    BY <1>5 DEF HandlerCancelsAgent, CancelAgent
<1>6. CASE HandlerReturns
  <2>1. toServer' \in Seq(Message)  BY <1>6 DEF HandlerReturns
  <2> QED BY <1>6, <2>1 DEF HandlerReturns
<1> QED BY <1>2, <1>3, <1>4, <1>5, <1>6 DEF Send, Main

\* The types of what the agent task may assign, and of the rest.
SessionTypes ==
  /\ outbound \in Seq(Event) /\ pending \in [Calls -> {0} \cup Calls]
  /\ answer \in [Calls -> {"none", "yes", "no"}] /\ woken \in BOOLEAN /\ mode \in Modes

AgentTypes ==
  /\ pc \in {"llm", "next", "evaluating", "asking", "tool", "sub", "compress", "unwinding", "ended"}
  /\ made \in 0 .. MaxCalls /\ left \in 0 .. MaxCalls /\ made + left <= MaxCalls
  /\ pc \in {"evaluating", "asking", "tool", "sub"} => made # 0
  /\ kind \in [Calls -> {"plain", "guarded", "ask", "subagent"}] /\ name \in [Calls -> Calls]
  /\ iter \in Nat /\ lenC \in BOOLEAN /\ why \in Whys
  /\ examined \subseteq Calls /\ started \subseteq Calls
  /\ sub \in {"none", "run", "compress", "over", "failed"}

OtherTypes ==
  /\ ws \in {"open", "closed"} /\ toServer \in Seq(Message) /\ sent \in 0 .. MaxMsgs
  /\ prompts \subseteq Calls /\ chose \in [Calls -> {"none", "yes", "no"}] /\ twice \subseteq Calls
  /\ shown \subseteq Calls /\ asked \in BOOLEAN /\ told \in {"none", "done", "error", "sub_error"}
  /\ stopReq \in BOOLEAN
  /\ recvPc \in {"recv", "returned", "cancelled"} /\ sendPc \in {"relay", "returned", "raised"}
  /\ mainPc \in {"await_send", "stop_agent", "await_agent", "returned"}

LEMMA TypeParts ==
  /\ TypeOK <=> SessionTypes /\ AgentTypes /\ OtherTypes
  /\ TypeOK' <=> SessionTypes' /\ AgentTypes' /\ OtherTypes'
BY DEF TypeOK, SessionTypes, AgentTypes, OtherTypes, Whys

\* The agent task assigns nothing else.
LEMMA AgentPartTyped ==
  ASSUME TypeOK, UNCHANGED otherVars, SessionTypes', AgentTypes'
  PROVE  TypeOK'
<1>1. UNCHANGED <<ws, toServer, sent, prompts, chose, twice, shown, asked, told, stopReq,
                  recvPc, sendPc, mainPc>>
  BY DEF otherVars, clientVars, handlerVars
<1>2. OtherTypes'
  BY <1>1, TypeParts DEF OtherTypes
<1> QED BY <1>2, TypeParts

\* The end of the run keeps every type.
LEMMA EndsTyped ==
  ASSUME TypeOK, NEW es \in Seq(Event), Ends(es), woken' = woken,
         UNCHANGED <<pending, answer, mode, made, kind, name, examined, started, sub, otherVars>>
  PROVE  TypeOK'
<1>1. outbound' \in Seq(Event)
  BY EmitTyped DEF TypeOK, Ends
<1>2. /\ pc' = "ended" /\ left' = 0 /\ iter' = 0 /\ lenC' = FALSE /\ why' = "none"
      /\ made' + left' <= MaxCalls /\ left' \in 0 .. MaxCalls
  BY BoundsAssumption DEF Ends, TypeOK
<1>3. SessionTypes' /\ AgentTypes'
  BY <1>1, <1>2, TypeParts DEF SessionTypes, AgentTypes, Whys
<1> QED BY <1>3, AgentPartTyped

LEMMA AgentTyped == TypeOK /\ Agent => TypeOK'
<1> SUFFICES ASSUME TypeOK, Agent PROVE TypeOK'
  OBVIOUS
<1>1. CASE LlmAnswers
  BY <1>1, EndsTyped, EventsTyped DEF LlmAnswers
<1>2. CASE AgentFails
  BY <1>2, EndsTyped, EventsTyped DEF AgentFails
<1>3. CASE AgentAborts
  BY <1>3, EndsTyped, EventsTyped DEF AgentAborts
<1>4. CASE LlmHitsLimit /\ lenC
  BY <1>4, EndsTyped, EventsTyped DEF LlmHitsLimit
<1>14. CASE Compressed /\ Ends(<<Ev("error", 0), Ev("done", 0)>>) /\ woken' = woken
  BY <1>14, EndsTyped, EventsTyped DEF Compressed
<1>16. UNCHANGED otherVars
  BY DEF Agent, LlmAnswers, AgentFails, LlmHitsLimit, LlmCallsTools, StartCall, EvaluatorSafe,
         EvaluatorDangerous, EvaluatorRejects, Approved, Answered, ToolReturns, Compressed,
         AgentCleansUp, AgentAborts, SubagentReturns
<1>17. SUFFICES ASSUME ~LlmAnswers, ~AgentFails, ~AgentAborts, ~(LlmHitsLimit /\ lenC),
                       ~(Compressed /\ Ends(<<Ev("error", 0), Ev("done", 0)>>) /\ woken' = woken)
                PROVE  SessionTypes' /\ AgentTypes'
  BY <1>1, <1>2, <1>3, <1>4, <1>14, <1>16, AgentPartTyped
<1>18. SessionTypes /\ AgentTypes
  BY TypeParts
<1> USE <1>18, BoundsAssumption DEF SessionTypes, AgentTypes, AgentRuns, Whys, sessionVars
<1>15. CASE LlmHitsLimit /\ ~lenC
  <2>1. outbound' \in Seq(Event)  BY <1>15, EmitTyped, EventsTyped DEF LlmHitsLimit
  <2> QED BY <1>15, <2>1 DEF LlmHitsLimit
<1>5. ASSUME NEW n \in Calls, LlmCallsTools(n) PROVE SessionTypes' /\ AgentTypes'
  BY <1>5 DEF LlmCallsTools, Calls
<1>6. ASSUME NEW k \in Kinds, StartCall(k) PROVE SessionTypes' /\ AgentTypes'
  <2>1. made + 1 \in Calls  BY <1>6 DEF StartCall, Calls
  <2>2. k \in {"plain", "guarded", "ask", "subagent"}  BY KindsAssumption
  <2>3. name' \in [Calls -> Calls]
    <3>1. ToolIds(made + 1) \subseteq Calls  BY <2>1 DEF ToolIds, Calls
    <3> QED BY <1>6, <2>1, <3>1 DEF StartCall
  <2>4. outbound' \in Seq(Event) /\ pending' \in [Calls -> {0} \cup Calls]
    <3>1. ASSUME NEW i \in Calls, Prompt(made + 1, i)
          PROVE  outbound' \in Seq(Event) /\ pending' \in [Calls -> {0} \cup Calls]
      BY <2>1, <3>1, EmitTyped, EventsTyped DEF Prompt
    <3>2. name'[made + 1] \in Calls  BY <2>1, <2>3
    <3> QED BY <1>6, <2>2, <3>1, <3>2 DEF StartCall
  <2>5. /\ made' \in 0 .. MaxCalls /\ left' \in 0 .. MaxCalls /\ made' + left' <= MaxCalls
        /\ made' # 0
    BY <1>6 DEF StartCall
  <2>6. /\ pc' \in {"tool", "asking", "sub", "evaluating"}
        /\ started' \subseteq Calls /\ examined' \subseteq Calls
        /\ sub' \in {"none", "run", "compress", "over", "failed"}
    <3>1. CASE k \in {"plain", "ask"}
      BY <1>6, <2>1, <3>1 DEF StartCall, Act, Prompt
    <3>2. CASE k = "subagent"
      BY <1>6, <2>1, <3>2 DEF StartCall
    <3>3. CASE k = "guarded" /\ mode = "standard"
      BY <1>6, <2>1, <3>3 DEF StartCall, Prompt
    <3>4. CASE k = "guarded" /\ mode # "standard"
      BY <1>6, <2>1, <3>4 DEF StartCall, Act
    <3> QED BY <2>2, <3>1, <3>2, <3>3, <3>4
  <2>7. kind' \in [Calls -> {"plain", "guarded", "ask", "subagent"}]
    BY <1>6, <2>1, <2>2 DEF StartCall
  <2>8. UNCHANGED <<answer, woken, mode, iter, lenC, why>>
    BY <1>6 DEF StartCall
  <2> QED BY <2>3, <2>4, <2>5, <2>6, <2>7, <2>8
<1>7. CASE EvaluatorSafe  BY <1>7 DEF EvaluatorSafe, Act, Calls
<1>8. CASE EvaluatorDangerous
  <2>1. made \in Calls /\ name[made] \in Calls  BY <1>8 DEF EvaluatorDangerous, Calls
  <2>2. outbound' \in Seq(Event)
    BY <1>8, <2>1, EmitTyped, EventsTyped DEF EvaluatorDangerous, Prompt
  <2>3. pending' \in [Calls -> {0} \cup Calls] /\ pc' = "asking" /\ made # 0
    BY <1>8, <2>1 DEF EvaluatorDangerous, Prompt
  <2>4. UNCHANGED <<answer, woken, mode, made, kind, name, left, iter, lenC, why, examined, started, sub>>
    BY <1>8 DEF EvaluatorDangerous
  <2> QED BY <2>2, <2>3, <2>4
<1>9. CASE Approved  BY <1>9 DEF Approved, Act, Calls
<1>10. CASE EvaluatorRejects \/ Answered \/ ToolReturns
  <2>1. made \in Calls /\ Completes
    BY <1>10 DEF EvaluatorRejects, Answered, ToolReturns, Calls
  <2>2. /\ outbound' \in Seq(Event) /\ woken' \in BOOLEAN /\ why' \in Whys
        /\ pc' \in {"compress", "llm", "next"} /\ iter' \in Nat /\ lenC' \in BOOLEAN
    BY <2>1, CompletesTyped DEF Whys
  <2> QED BY <1>10, <2>2 DEF EvaluatorRejects, Answered, ToolReturns, Whys
<1>11. CASE Compressed /\ ~(Ends(<<Ev("error", 0), Ev("done", 0)>>) /\ woken' = woken)
  <2>1. ASSUME NEW lc \in BOOLEAN, LoopHead(<<>>, iter + 1, lc)
        PROVE  /\ outbound' \in Seq(Event) /\ woken' \in BOOLEAN /\ why' \in Whys
               /\ pc' \in {"compress", "llm"} /\ iter' \in Nat /\ lenC' \in BOOLEAN
    <3>1. iter + 1 \in Nat /\ <<>> \in Seq(Event)  BY EventsTyped
    <3>2. outbound \in Seq(Event) /\ woken \in BOOLEAN /\ why \in Whys  BY DEF Whys
    <3>3. /\ outbound' \in Seq(Event) /\ woken' \in BOOLEAN /\ why' \in Whys
          /\ pc' \in {"compress", "llm"} /\ iter' = iter + 1 /\ lenC' = lc
      BY <2>1, <3>1, <3>2, LoopHeadTyped
    <3> QED BY <3>1, <3>3
  <2>3. /\ outbound' \in Seq(Event) /\ woken' \in BOOLEAN /\ why' \in Whys /\ left' = left
        /\ pc' \in {"compress", "llm", "next"} /\ iter' \in Nat /\ lenC' \in BOOLEAN
    <3>1. CASE /\ pc' = "llm" /\ iter' = 0 /\ why' = "none" /\ UNCHANGED <<outbound, woken, left, lenC>>
      BY <3>1 DEF Whys
    <3>3. CASE pc' = "next" /\ why' = "none" /\ UNCHANGED <<outbound, woken, left, iter, lenC>>
      BY <3>3 DEF Whys
    <3>4. CASE (LoopHead(<<>>, iter + 1, TRUE) \/ LoopHead(<<>>, iter + 1, FALSE)) /\ left' = left
      BY <3>4, <2>1
    <3> QED BY <1>11, <3>1, <3>3, <3>4 DEF Compressed
  <2>4. UNCHANGED <<pending, answer, mode, made, kind, name, examined, started, sub, otherVars>>
    BY <1>11 DEF Compressed
  <2> QED BY <2>3, <2>4 DEF Whys
<1>12. CASE SubagentReturns
  <2>1. made \in Calls  BY <1>12 DEF SubagentReturns, Calls
  <2>2. outbound' \in Seq(Event)  BY <1>12, <2>1, EmitTyped, EventsTyped DEF SubagentReturns
  <2> QED BY <1>12, <2>1, <2>2 DEF SubagentReturns
<1>13. CASE AgentCleansUp  BY <1>13 DEF AgentCleansUp
<1> QED BY <1>5, <1>6, <1>7, <1>8, <1>9, <1>10, <1>11, <1>12, <1>13, <1>15, <1>17 DEF Agent

\* Every variable keeps its type, however many calls, kinds and modes there are.
THEOREM TypeCorrect == Spec => []TypeOK
<1>1. Init => TypeOK
  <2> SUFFICES ASSUME Init PROVE TypeOK
    OBVIOUS
  <2>1. toServer \in Seq(Message) /\ outbound \in Seq(Event)
    BY DEF Init
  <2>2. sent \in 0 .. MaxMsgs /\ made \in 0 .. MaxCalls /\ left \in 0 .. MaxCalls /\ made + left <= MaxCalls
    BY BoundsAssumption DEF Init
  <2>3. /\ kind \in [Calls -> {"plain", "guarded", "ask", "subagent"}] /\ name \in [Calls -> Calls]
        /\ answer \in [Calls -> {"none", "yes", "no"}] /\ chose \in [Calls -> {"none", "yes", "no"}]
        /\ pending \in [Calls -> {0} \cup Calls]
    BY DEF Init
  <2> QED BY <2>1, <2>2, <2>3 DEF Init, TypeOK
<1>2. TypeOK /\ [Next]_vars => TypeOK'
  <2> SUFFICES ASSUME TypeOK, [Next]_vars PROVE TypeOK'
    OBVIOUS
  <2>1. CASE Subagent
    BY <2>1 DEF Subagent, SubagentFinishes, SubagentErrs, SubagentAwaitsCompression, TypeOK,
                clientVars, sessionVars, handlerVars
  <2>2. CASE UNCHANGED vars
    BY <2>2 DEF TypeOK, vars, clientVars, sessionVars, agentVars, handlerVars
  <2> QED BY <2>1, <2>2, ClientTyped, ReceiveTyped, HandlerTyped, AgentTyped DEF Next, Finished
<1> QED BY <1>1, <1>2, PTL DEF Spec
-----------------------------------------------------------------------------
(* The end of the handler *)

\* The agent task, once ended, stays ended.
LEMMA EndedStays == TypeOK /\ pc = "ended" /\ [Next]_vars => pc' = "ended"
<1> SUFFICES ASSUME TypeOK, pc = "ended", [Next]_vars PROVE pc' = "ended"
  OBVIOUS
<1> USE DEF agentVars
<1>1. CASE Client
  BY <1>1 DEF Client, ClientAnswers, ClientRepeats, ClientCompressed, ClientSetsMode,
              ClientAborts, ClientLeaves, ClientSendsExtra, ClientSends
<1>2. CASE Receive
  BY <1>2 DEF Receive, RecvAnswer, RecvCompressionDone, RecvSetMode, RecvAbort,
              RecvDisconnect, Receives
<1>3. CASE Send \/ Main
  BY <1>3 DEF Send, Main, SendEvent, SendToNobody, HandlerStopsReceiving,
              HandlerCancelsAgent, HandlerReturns
<1>4. CASE Agent
  BY <1>4 DEF Agent, AgentRuns, LlmAnswers, AgentFails, LlmHitsLimit, LlmCallsTools, StartCall,
              EvaluatorSafe, EvaluatorDangerous, EvaluatorRejects, Approved, Answered,
              ToolReturns, Compressed, AgentCleansUp, AgentAborts, SubagentReturns
<1>5. CASE Subagent
  BY <1>5 DEF Subagent, SubagentFinishes, SubagentErrs, SubagentAwaitsCompression
<1> QED BY <1>1, <1>2, <1>3, <1>4, <1>5 DEF Next, Finished, vars

\* The actions that are not the agent task's own leave its call records alone.
LEMMA OthersLeaveCalls ==
  Client \/ Receive \/ Send \/ Main \/ Subagent \/ UNCHANGED vars
    => UNCHANGED <<pc, made, kind, name, left, iter, lenC, why, examined, started>>
<1> USE DEF agentVars
<1>1. Client => UNCHANGED <<pc, made, kind, name, left, iter, lenC, why, examined, started>>
  BY DEF Client, ClientAnswers, ClientRepeats, ClientCompressed, ClientSetsMode,
         ClientAborts, ClientLeaves, ClientSendsExtra, ClientSends
<1>2. Receive => UNCHANGED <<pc, made, kind, name, left, iter, lenC, why, examined, started>>
  BY DEF Receive, RecvAnswer, RecvCompressionDone, RecvSetMode, RecvAbort, RecvDisconnect, Receives
<1>3. Send \/ Main => UNCHANGED <<pc, made, kind, name, left, iter, lenC, why, examined, started>>
  BY DEF Send, Main, SendEvent, SendToNobody, HandlerStopsReceiving, HandlerCancelsAgent, HandlerReturns
<1>4. Subagent => UNCHANGED <<pc, made, kind, name, left, iter, lenC, why, examined, started>>
  BY DEF Subagent, SubagentFinishes, SubagentErrs, SubagentAwaitsCompression
<1> QED BY <1>1, <1>2, <1>3, <1>4 DEF vars

\* Once the handler waits for the agent task, that task is cancelled or over; the cleanup a
\* cancellation starts never outlasts it in any other way.
Cancelled ==
  /\ mainPc \in {"await_agent", "returned"} => stopReq \/ pc = "ended"
  /\ pc = "unwinding" => stopReq

LEMMA CancelledStep == TypeOK /\ Cancelled /\ [Next]_vars => Cancelled'
<1> SUFFICES ASSUME TypeOK, Cancelled, [Next]_vars PROVE Cancelled'
  OBVIOUS
<1> USE DEF Cancelled, agentVars, handlerVars
<1>1. CASE Client
  BY <1>1 DEF Client, ClientAnswers, ClientRepeats, ClientCompressed, ClientSetsMode,
              ClientAborts, ClientLeaves, ClientSendsExtra, ClientSends
<1>2. CASE Receive
  BY <1>2 DEF Receive, RecvAnswer, RecvCompressionDone, RecvSetMode, RecvAbort,
              RecvDisconnect, Receives, CancelAgent
<1>3. CASE Send \/ Main
  BY <1>3 DEF Send, Main, SendEvent, SendToNobody, HandlerStopsReceiving,
              HandlerCancelsAgent, HandlerReturns, CancelAgent
<1>4. CASE Agent
  <2>1. UNCHANGED <<mainPc, stopReq>>
    BY <1>4 DEF Agent, otherVars, LlmAnswers, AgentFails, LlmHitsLimit, LlmCallsTools, StartCall,
                EvaluatorSafe, EvaluatorDangerous, EvaluatorRejects, Approved, Answered,
                ToolReturns, Compressed, AgentCleansUp, AgentAborts, SubagentReturns
  <2>2. pc = "ended" => pc' = "ended"
    BY EndedStays
  <2>3. pc' = "unwinding" => stopReq
    <3>1. ASSUME NEW k \in Kinds, StartCall(k) PROVE pc' # "unwinding"
      <4>1. k \in {"plain", "guarded", "ask", "subagent"}  BY KindsAssumption
      <4> QED BY <3>1, <4>1 DEF StartCall, Prompt, Act
    <3>2. CASE EvaluatorRejects \/ Answered \/ ToolReturns
      BY <3>2 DEF EvaluatorRejects, Answered, ToolReturns, Completes, LoopHead
    <3>3. CASE Compressed
      BY <3>3 DEF Compressed, LoopHead, Ends
    <3>4. CASE LlmAnswers \/ AgentFails \/ LlmHitsLimit \/ AgentAborts
      BY <3>4 DEF LlmAnswers, AgentFails, LlmHitsLimit, AgentAborts, Ends
    <3>5. CASE \E n \in Calls : LlmCallsTools(n)
      BY <3>5 DEF LlmCallsTools
    <3>6. CASE EvaluatorSafe \/ EvaluatorDangerous \/ Approved \/ SubagentReturns
      BY <3>6 DEF EvaluatorSafe, EvaluatorDangerous, Approved, SubagentReturns, Prompt, Act
    <3> QED BY <1>4, <3>1, <3>2, <3>3, <3>4, <3>5, <3>6 DEF Agent, AgentCleansUp
  <2> QED BY <2>1, <2>2, <2>3
<1>5. CASE Subagent
  BY <1>5 DEF Subagent, SubagentFinishes, SubagentErrs, SubagentAwaitsCompression
<1> QED BY <1>1, <1>2, <1>3, <1>4, <1>5 DEF Next, Finished, vars

\* A cancelled agent task only cleans up, if it must, and reports the abort: no tool
\* starts, no call is counted.
LEMMA CancelledOnlyAborts ==
  ASSUME Agent, stopReq \/ pc = "ended"
  PROVE  started' = started /\ (pc \in {"ended", "unwinding"} => pc' = "ended")
BY DEF Agent, AgentRuns, Ends, LlmAnswers, AgentFails, LlmHitsLimit, LlmCallsTools, StartCall,
       EvaluatorSafe, EvaluatorDangerous, EvaluatorRejects, Approved, Answered,
       ToolReturns, Compressed, AgentCleansUp, AgentAborts, SubagentReturns

\* Only the handler's last step makes it return, once the agent task is over or has
\* nothing left but its cleanup.
LEMMA ReturnWaits ==
  ASSUME [Next]_vars, mainPc' = "returned", mainPc # "returned"
  PROVE  pc \in {"ended", "unwinding"} /\ pc' = pc
<1> USE DEF handlerVars
<1>1. CASE Client
  BY <1>1 DEF Client, ClientAnswers, ClientRepeats, ClientCompressed, ClientSetsMode,
              ClientAborts, ClientLeaves, ClientSendsExtra, ClientSends
<1>2. CASE Receive
  BY <1>2 DEF Receive, RecvAnswer, RecvCompressionDone, RecvSetMode, RecvAbort,
              RecvDisconnect, Receives
<1>3. CASE Send \/ Main
  BY <1>3 DEF Send, Main, SendEvent, SendToNobody, HandlerStopsReceiving,
              HandlerCancelsAgent, HandlerReturns, agentVars
<1>4. CASE Agent
  BY <1>4 DEF Agent, otherVars, LlmAnswers, AgentFails, LlmHitsLimit, LlmCallsTools, StartCall,
              EvaluatorSafe, EvaluatorDangerous, EvaluatorRejects, Approved, Answered,
              ToolReturns, Compressed, AgentCleansUp, AgentAborts, SubagentReturns
<1>5. CASE Subagent
  BY <1>5 DEF Subagent, SubagentFinishes, SubagentErrs, SubagentAwaitsCompression
<1> QED BY <1>1, <1>2, <1>3, <1>4, <1>5 DEF Next, Finished, vars

\* The handler never returns with its agent task still at work: it leaves at most the
\* cleanup of a tool that its cancellation cut short.
THEOREM NoAgentOutlivesHandler == Spec => []NoHeadlessAgent
<1>1. Init => NoHeadlessAgent /\ Cancelled
  BY DEF Init, NoHeadlessAgent, Cancelled
<1>2. TypeOK /\ Cancelled /\ NoHeadlessAgent /\ [Next]_vars => NoHeadlessAgent'
  <2> SUFFICES ASSUME TypeOK, Cancelled, NoHeadlessAgent, [Next]_vars, mainPc' = "returned"
               PROVE  pc' = "ended" \/ (pc' = "unwinding" /\ stopReq')
    BY DEF NoHeadlessAgent
  <2>1. CASE mainPc # "returned"
    <3>1. Cancelled'
      BY CancelledStep
    <3> QED BY <2>1, <3>1, ReturnWaits DEF Cancelled
  <2>2. CASE mainPc = "returned"
    <3>1. CASE Agent
      BY <2>2, <3>1, CancelledOnlyAborts DEF NoHeadlessAgent
    <3>2. CASE ~Agent
      <4>1. pc' = pc
        BY <3>2, OthersLeaveCalls DEF Next, Finished
      <4>2. Cancelled'
        BY CancelledStep
      <4> QED BY <2>2, <4>1, <4>2 DEF NoHeadlessAgent, Cancelled
    <3> QED BY <3>1, <3>2
  <2> QED BY <2>1, <2>2
<1> QED BY <1>1, <1>2, CancelledStep, TypeCorrect, PTL DEF Spec

-----------------------------------------------------------------------------
(* Aborts *)

\* Once the receive task has returned, the agent task is cancelled or over.
AbortReached == recvPc = "returned" => stopReq \/ pc = "ended"

\* The agent task never touches the receive task nor its own cancellation.
LEMMA AgentLeavesHandler == Agent => UNCHANGED <<stopReq, recvPc>>
BY DEF Agent, otherVars, handlerVars, LlmAnswers, AgentFails, LlmHitsLimit, LlmCallsTools, StartCall,
       EvaluatorSafe, EvaluatorDangerous, EvaluatorRejects, Approved, Answered,
       ToolReturns, Compressed, AgentCleansUp, AgentAborts, SubagentReturns

LEMMA AbortReachedStep == TypeOK /\ AbortReached /\ [Next]_vars => AbortReached'
<1> SUFFICES ASSUME TypeOK, AbortReached, [Next]_vars PROVE AbortReached'
  OBVIOUS
<1> USE DEF AbortReached
<1>1. CASE Client
  <2>1. UNCHANGED <<stopReq, recvPc>>
    BY <1>1 DEF Client, ClientAnswers, ClientRepeats, ClientCompressed, ClientSetsMode,
                ClientAborts, ClientLeaves, ClientSendsExtra, ClientSends, handlerVars
  <2> QED BY <1>1, <2>1, OthersLeaveCalls
<1>2. CASE Receive
  <2>1. pc' = pc  BY <1>2, OthersLeaveCalls
  <2>2. CASE RecvAbort \/ RecvDisconnect
    BY <2>1, <2>2 DEF RecvAbort, RecvDisconnect, CancelAgent
  <2>3. CASE RecvAnswer \/ RecvCompressionDone \/ RecvSetMode
    BY <2>1, <2>3 DEF RecvAnswer, RecvCompressionDone, RecvSetMode
  <2> QED BY <1>2, <2>2, <2>3 DEF Receive
<1>3. CASE Send \/ Main
  <2>1. pc' = pc  BY <1>3, OthersLeaveCalls
  <2>2. CASE HandlerCancelsAgent
    BY <2>1, <2>2 DEF HandlerCancelsAgent, CancelAgent
  <2>3. CASE HandlerStopsReceiving
    BY <2>1, <2>3 DEF HandlerStopsReceiving, TypeOK
  <2>4. CASE Send \/ HandlerReturns
    BY <2>1, <2>4 DEF Send, SendEvent, SendToNobody, HandlerReturns
  <2> QED BY <1>3, <2>2, <2>3, <2>4 DEF Main
<1>4. CASE Agent
  <2>1. pc = "ended" => pc' = "ended"  BY <1>4, EndedStays DEF Next
  <2> QED BY <1>4, <2>1, AgentLeavesHandler
<1>5. CASE Subagent \/ UNCHANGED vars
  BY <1>5, OthersLeaveCalls
     DEF Subagent, SubagentFinishes, SubagentErrs, SubagentAwaitsCompression, vars, handlerVars
<1> QED BY <1>1, <1>2, <1>3, <1>4, <1>5 DEF Next, Finished

\* No tool starts once the server has read an abort or noticed the disconnect.
THEOREM AbortStopsTools == Spec => NoToolAfterAbort
<1>1. Init => AbortReached
  BY DEF Init, AbortReached
<1>2. AbortReached /\ [Next]_vars => [recvPc = "returned" => started' = started]_vars
  BY OthersLeaveCalls, CancelledOnlyAborts DEF AbortReached, Next, Finished
<1> QED BY <1>1, <1>2, AbortReachedStep, TypeCorrect, PTL DEF Spec, NoToolAfterAbort

-----------------------------------------------------------------------------
(* Compression *)

\* While a turn is under way the iterations stay under the threshold, except the one
\* turn after a length compression; only that turn may end above it.
CompressionDue ==
  /\ pc # "ended" /\ ~(pc = "compress" /\ why = "threshold")
       => iter <= CompressAfter /\ (iter = CompressAfter => lenC)
  /\ pc = "compress" /\ why = "length" => ~lenC

LEMMA LoopHeadKeepsUp ==
  ASSUME TypeOK, NEW n \in Nat, NEW lc \in BOOLEAN, NEW es, LoopHead(es, n, lc),
         lc => n <= CompressAfter
  PROVE  CompressionDue'
BY BoundsAssumption DEF LoopHead, CompressionDue, TypeOK

LEMMA CompletesKeepsUp ==
  ASSUME TypeOK, CompressionDue, pc \in {"evaluating", "asking", "tool"}, Completes
  PROVE  CompressionDue'
<1>1. iter + 1 \in Nat  BY DEF TypeOK
<1>2. CASE LoopHead(<<Ev("tool_result", made)>>, iter + 1, FALSE)
  BY <1>1, <1>2, LoopHeadKeepsUp
<1>3. CASE pc' = "compress" /\ why' = "overflow" /\ UNCHANGED <<iter, lenC>>
  BY <1>3 DEF CompressionDue
<1>4. CASE pc' = "next" /\ UNCHANGED <<woken, iter, lenC, why>>
  BY <1>4 DEF CompressionDue
<1> QED BY <1>2, <1>3, <1>4 DEF Completes

LEMMA CompressionDueStep == TypeOK /\ CompressionDue /\ [Next]_vars => CompressionDue'
<1> SUFFICES ASSUME TypeOK, CompressionDue, [Next]_vars PROVE CompressionDue'
  OBVIOUS
<1>1. CASE UNCHANGED <<pc, iter, lenC, why>>
  BY <1>1 DEF CompressionDue
<1>2. CASE LlmAnswers \/ AgentFails \/ AgentCleansUp \/ AgentAborts
  BY <1>2 DEF LlmAnswers, AgentFails, AgentCleansUp, AgentAborts, Ends, CompressionDue
<1>3. CASE LlmHitsLimit
  BY <1>3 DEF LlmHitsLimit, AgentRuns, Ends, CompressionDue
<1>4. ASSUME NEW n \in Calls, LlmCallsTools(n) PROVE CompressionDue'
  BY <1>4 DEF LlmCallsTools, AgentRuns, CompressionDue
<1>5. ASSUME NEW k \in Kinds, StartCall(k) PROVE CompressionDue'
  <2>1. pc' \in {"tool", "asking", "sub", "evaluating"} /\ UNCHANGED <<iter, lenC, why>> /\ pc = "next"
    BY <1>5, KindsAssumption DEF StartCall, Act, Prompt, AgentRuns
  <2> QED BY <2>1 DEF CompressionDue
<1>6. CASE EvaluatorSafe \/ EvaluatorDangerous \/ Approved \/ SubagentReturns
  BY <1>6 DEF EvaluatorSafe, EvaluatorDangerous, Approved, SubagentReturns, Act, Prompt,
              AgentRuns, CompressionDue
<1>7. CASE EvaluatorRejects \/ Answered \/ ToolReturns
  <2>1. pc \in {"evaluating", "asking", "tool"} /\ Completes
    BY <1>7 DEF EvaluatorRejects, Answered, ToolReturns, AgentRuns
  <2> QED BY <2>1, CompletesKeepsUp
<1>8. CASE Compressed
  <2>1. iter + 1 \in Nat /\ pc = "compress"  BY <1>8 DEF TypeOK, Compressed, AgentRuns
  <2>2. CASE pc' = "llm" /\ iter' = 0
    BY <2>2, BoundsAssumption DEF CompressionDue
  <2>3. CASE why = "length" /\ LoopHead(<<>>, iter + 1, TRUE)
    <3>1. iter + 1 <= CompressAfter
      BY <2>1, <2>3, BoundsAssumption DEF CompressionDue, TypeOK
    <3> QED BY <2>1, <2>3, <3>1, LoopHeadKeepsUp
  <2>4. CASE why = "overflow" /\ LoopHead(<<>>, iter + 1, FALSE)
    BY <2>1, <2>4, LoopHeadKeepsUp
  <2>5. CASE Ends(<<Ev("error", 0), Ev("done", 0)>>)
    BY <2>5 DEF CompressionDue, Ends
  <2>6. CASE why = "overflow" /\ pc' = "next" /\ UNCHANGED <<iter, lenC>>
    BY <2>1, <2>6 DEF CompressionDue
  <2> QED BY <1>8, <2>2, <2>3, <2>4, <2>5, <2>6 DEF Compressed
<1> QED BY <1>1, <1>2, <1>3, <1>4, <1>5, <1>6, <1>7, <1>8, OthersLeaveCalls DEF Next, Finished, Agent

\* The model is never called with more iterations uncompressed than the threshold
\* allows, whatever the threshold and however length and overflow compressions mix.
THEOREM CompressionAlwaysKeepsUp == Spec => []CompressionKeepsUp
<1>1. Init => CompressionDue
  BY BoundsAssumption DEF Init, CompressionDue
<1>2. CompressionDue => CompressionKeepsUp
  BY DEF CompressionDue, CompressionKeepsUp
<1> QED BY <1>1, <1>2, CompressionDueStep, TypeCorrect, PTL DEF Spec

-----------------------------------------------------------------------------
(* Approvals *)

\* The future of c is the one registered under its id.
Registered(c) == pending[name[c]] = c

\* The prompt of c is on its way to the client, or has reached it.
Awaited(c) == c \in prompts \/ \E i \in 1 .. Len(outbound) : outbound[i] = Ev("prompt", c)

StartedMade == started \subseteq 1 .. made

\* Only the current call has a future, and only while it asks or was cut short.
FutureOfCurrent ==
  \A i \in Calls : pending[i] # 0 => /\ pending[i] = made /\ name[made] = i
                                     /\ answer[made] = "none" /\ pc \in {"asking", "ended"}

\* Only calls made have answers, and a call whose prompt was sent has its future or its
\* answer.
AnsweredMade == \A c \in Calls : answer[c] # "none" => c <= made
AwaitedMade ==
  \A c \in Calls : Awaited(c) => c <= made /\ (Registered(c) \/ answer[c] # "none")

ChosePrompted == \A c \in Calls : chose[c] # "none" => c \in prompts

\* A call under evaluation has neither prompt nor answer.
EvaluatedFirst ==
  pc = "evaluating" => made \in examined /\ ~Awaited(made) /\ answer[made] = "none"

Futures == /\ StartedMade /\ FutureOfCurrent /\ AnsweredMade /\ AwaitedMade
           /\ ChosePrompted /\ EvaluatedFirst

\* Whether message number j of q answers under the id i; under the id of c.
Under(q, j, i) == q[j].type = "answer" /\ q[j].call = i
Replies(j, c) == Under(toServer, j, name[c])

\* An answer on its way is under the id of a call whose prompt was shown.
AnswersNamed ==
  \A j \in 1 .. Len(toServer), i \in Calls : Under(toServer, j, i) => \E c \in prompts : name[c] = i

\* Under an id never answered twice there is at most one answer on its way, the first one
\* to the prompt of the call registered under that id.
AnswersFresh ==
  \A j \in 1 .. Len(toServer), i \in Calls : Under(toServer, j, i) /\ i \notin twice =>
    /\ pending[i] # 0 /\ toServer[j].value = chose[pending[i]]
    /\ \A k \in 1 .. Len(toServer) : Under(toServer, k, i) => k = j

\* The first answer that can resolve a future is the first one to its prompt.
FirstInLine ==
  \A c \in Calls : Registered(c) /\ ~Borrowed(c) =>
    \A j \in 1 .. Len(toServer) : Replies(j, c) =>
      \E k \in 1 .. j : Replies(k, c) /\ toServer[k].value = chose[c]

\* A call still registered whose prompt was answered has that answer on its way.
StillComing ==
  \A c \in Calls : Registered(c) /\ chose[c] # "none" /\ ws = "open" =>
    \E j \in 1 .. Len(toServer) : Replies(j, c)

InFlight == AnswersNamed /\ AnswersFresh /\ FirstInLine /\ StillComing /\ FirstAnswerCounts

-----------------------------------------------------------------------------
(* Which events the agent task emits beside prompts *)

Quiet(es) == es \in Seq(Event) /\ \A i \in 1 .. Len(es) : es[i].type # "prompt"

LEMMA QuietEvents ==
  /\ Quiet(<<>>)
  /\ \A e \in Event : e.type # "prompt" => Quiet(<<e>>)
  /\ \A e, f \in Event : e.type # "prompt" /\ f.type # "prompt" => Quiet(<<e, f>>)
  /\ Ev("error", 0) \in Event /\ Ev("error", 0).type # "prompt"
  /\ Ev("done", 0) \in Event /\ Ev("done", 0).type # "prompt"
  /\ Ev("compressing", 0) \in Event /\ Ev("compressing", 0).type # "prompt"
  /\ \A c \in Calls : /\ Ev("tool_result", c) \in Event /\ Ev("tool_result", c).type # "prompt"
                      /\ Ev("sub_error", c) \in Event /\ Ev("sub_error", c).type # "prompt"
<1>1. Quiet(<<>>)
  BY DEF Quiet
<1>2. ASSUME NEW e \in Event, e.type # "prompt" PROVE Quiet(<<e>>)
  <2>1. <<e>> \in Seq(Event) /\ Len(<<e>>) = 1 /\ <<e>>[1] = e
    OBVIOUS
  <2> QED BY <1>2, <2>1 DEF Quiet
<1>3. ASSUME NEW e \in Event, NEW f \in Event, e.type # "prompt", f.type # "prompt"
      PROVE  Quiet(<<e, f>>)
  <2>1. <<e, f>> \in Seq(Event) /\ Len(<<e, f>>) = 2 /\ <<e, f>>[1] = e /\ <<e, f>>[2] = f
    OBVIOUS
  <2> QED BY <1>3, <2>1 DEF Quiet
<1> QED BY <1>1, <1>2, <1>3 DEF Ev, Event

LEMMA QuietConcat ==
  ASSUME NEW es, NEW fs, Quiet(es), Quiet(fs)
  PROVE  Quiet(es \o fs)
<1>1. es \in Seq(Event) /\ fs \in Seq(Event)
  BY DEF Quiet
<1>2. /\ es \o fs \in Seq(Event) /\ Len(es) \in Nat /\ Len(fs) \in Nat
      /\ Len(es \o fs) = Len(es) + Len(fs)
      /\ \A i \in 1 .. Len(es) : (es \o fs)[i] = es[i]
      /\ \A i \in 1 .. Len(fs) : (es \o fs)[Len(es) + i] = fs[i]
  BY <1>1
<1>3. ASSUME NEW i \in 1 .. Len(es \o fs), i \notin 1 .. Len(es)
      PROVE  i - Len(es) \in 1 .. Len(fs) /\ Len(es) + (i - Len(es)) = i
  BY <1>2, <1>3
<1> QED BY <1>2, <1>3 DEF Quiet

\* Emitting no prompt makes no call awaited.
LEMMA QuietAwaited ==
  ASSUME outbound \in Seq(Event), NEW es, Quiet(es), Emit(es), prompts' = prompts
  PROVE  \A c \in Calls : Awaited(c)' => Awaited(c)
<1>1. es \in Seq(Event)
  BY DEF Quiet
<1>2. /\ Len(outbound) \in Nat /\ Len(es) \in Nat /\ Len(outbound') = Len(outbound) + Len(es)
      /\ \A i \in 1 .. Len(outbound) : outbound'[i] = outbound[i]
      /\ \A i \in 1 .. Len(es) : outbound'[Len(outbound) + i] = es[i]
  BY <1>1, ConcatAt DEF Emit
<1>3. ASSUME NEW c \in Calls, NEW i \in 1 .. Len(outbound'), outbound'[i] = Ev("prompt", c)
      PROVE  i \in 1 .. Len(outbound)
  <2>1. SUFFICES ASSUME i \notin 1 .. Len(outbound) PROVE FALSE
    OBVIOUS
  <2>2. i - Len(outbound) \in 1 .. Len(es) /\ Len(outbound) + (i - Len(outbound)) = i
    BY <1>2, <2>1
  <2>3. es[i - Len(outbound)].type = "prompt"
    BY <1>2, <1>3, <2>2 DEF Ev
  <2> QED BY <2>2, <2>3 DEF Quiet
<1> QED BY <1>2, <1>3 DEF Awaited

\* Emitting a prompt makes its call awaited, and no other.
LEMMA PromptAwaited ==
  ASSUME TypeOK, NEW p \in Calls, NEW i \in Calls, Prompt(p, i), prompts' = prompts
  PROVE  \A c \in Calls : Awaited(c)' => Awaited(c) \/ c = p
<1> DEFINE es == <<Ev("prompt", p)>>
<1>1. es \in Seq(Event) /\ Len(es) = 1 /\ es[1] = Ev("prompt", p)
  BY EventsTyped
<1> HIDE DEF es
<1>2. Emit(es)
  BY DEF Prompt, es
<1>3. /\ Len(outbound) \in Nat /\ Len(outbound') = Len(outbound) + 1
      /\ \A j \in 1 .. Len(outbound) : outbound'[j] = outbound[j]
      /\ outbound'[Len(outbound) + 1] = Ev("prompt", p)
  <2>1. 1 \in 1 .. Len(es)
    BY <1>1
  <2>2. outbound \in Seq(Event) /\ es \in Seq(Event)
    BY <1>1 DEF TypeOK
  <2>4. outbound' = outbound \o es
    BY <1>2 DEF Emit
  <2>3. /\ Len(outbound) \in Nat /\ Len(outbound \o es) = Len(outbound) + Len(es)
        /\ \A j \in 1 .. Len(outbound) : (outbound \o es)[j] = outbound[j]
        /\ \A j \in 1 .. Len(es) : (outbound \o es)[Len(outbound) + j] = es[j]
    BY <2>2, ConcatAt
  <2> QED BY <1>1, <2>1, <2>3, <2>4
<1>4. ASSUME NEW c \in Calls, NEW j \in 1 .. Len(outbound'), outbound'[j] = Ev("prompt", c)
      PROVE  (j \in 1 .. Len(outbound) /\ outbound[j] = Ev("prompt", c)) \/ c = p
  <2>1. CASE j = Len(outbound) + 1
    BY <1>3, <1>4, <2>1 DEF Ev
  <2>2. CASE j # Len(outbound) + 1
    BY <1>3, <1>4, <2>2
  <2> QED BY <2>1, <2>2
<1> QED BY <1>4 DEF Awaited

\* No step of the agent task but a prompt makes a call awaited.
LEMMA AgentAwaited ==
  ASSUME TypeOK, NEW c \in Calls, Awaited(c)', ~Awaited(c),
         \/ LlmAnswers \/ AgentFails \/ LlmHitsLimit \/ AgentAborts
         \/ EvaluatorRejects \/ Answered \/ ToolReturns \/ Compressed \/ SubagentReturns
  PROVE  FALSE
<1>1. prompts' = prompts /\ outbound \in Seq(Event)
  BY DEF LlmAnswers, AgentFails, LlmHitsLimit, AgentAborts, EvaluatorRejects, Answered, ToolReturns,
         Compressed, SubagentReturns, otherVars, clientVars, TypeOK
<1>2. ASSUME NEW es, Quiet(es), Emit(es) PROVE FALSE
  BY <1>1, <1>2, QuietAwaited
<1>3. ASSUME NEW es, Quiet(es), NEW n, NEW lc, LoopHead(es, n, lc) PROVE FALSE
  <2>1. Quiet(es \o <<Ev("compressing", 0)>>)
    BY <1>3, QuietConcat, QuietEvents
  <2> QED BY <1>2, <1>3, <2>1 DEF LoopHead
<1>4. ASSUME Completes, made \in Calls PROVE FALSE
  <2>1. /\ Quiet(<<Ev("tool_result", made)>>)
        /\ Quiet(<<Ev("tool_result", made), Ev("compressing", 0)>>)
    BY <1>4, QuietEvents
  <2> QED BY <1>2, <1>3, <1>4, <2>1 DEF Completes
<1>5. ASSUME outbound' = outbound PROVE FALSE
  BY <1>1, <1>5 DEF Awaited
<1>6. /\ Quiet(<<Ev("error", 0)>>) /\ Quiet(<<Ev("done", 0)>>) /\ Quiet(<<Ev("compressing", 0)>>)
      /\ Quiet(<<Ev("error", 0), Ev("done", 0)>>) /\ Quiet(<<>>)
  BY QuietEvents
<1>7. CASE LlmAnswers \/ AgentFails \/ AgentAborts \/ LlmHitsLimit
  BY <1>2, <1>6, <1>7 DEF LlmAnswers, AgentFails, AgentAborts, LlmHitsLimit, Ends
<1>8. CASE EvaluatorRejects \/ Answered \/ ToolReturns
  <2>1. made \in Calls /\ Completes
    BY <1>8 DEF EvaluatorRejects, Answered, ToolReturns, AgentRuns, TypeOK, Calls
  <2> QED BY <1>4, <2>1
<1>9. CASE Compressed
  BY <1>2, <1>3, <1>5, <1>6, <1>9 DEF Compressed, Ends
<1>10. CASE SubagentReturns
  <2>1. made \in Calls
    BY <1>10 DEF SubagentReturns, AgentRuns, TypeOK, Calls
  <2>2. Quiet(<<Ev("sub_error", made)>>)
    BY <2>1, QuietEvents
  <2> QED BY <1>2, <1>6, <1>10, <2>2 DEF SubagentReturns
<1> QED BY <1>7, <1>8, <1>9, <1>10

-----------------------------------------------------------------------------
(* Futures: which calls are registered, prompted and answered *)

\* A call that does not ask, or that has its answer, leaves nothing registered.
LEMMA NoneRegistered ==
  ASSUME TypeOK, Futures, pc \notin {"asking", "ended"} \/ answer[made] # "none"
  PROVE  \A i \in Calls : pending[i] = 0
BY DEF Futures, FutureOfCurrent

\* Steps that neither prompt nor start a call, nor resolve a future.
LEMMA FuturesKept ==
  ASSUME TypeOK, Futures,
         UNCHANGED <<pending, answer, chose, prompts, made, name, examined>>,
         pc' = "ended" \/ \A i \in Calls : pending[i] = 0,
         \A c \in Calls : Awaited(c)' => Awaited(c),
         started' = started \/ (started' = started \cup {made} /\ made # 0),
         pc' # "evaluating", pc' # pc => pc' # "asking",
         pc' = "ended" => pc \in {"asking", "ended"} \/ \A i \in Calls : pending[i] = 0
  PROVE  Futures'
<1>1. StartedMade'
  <2>1. made \in Nat /\ (made # 0 => made \in 1 .. made) /\ made' = made
    BY DEF TypeOK
  <2>2. started \subseteq 1 .. made
    BY DEF Futures, StartedMade
  <2>3. started' \subseteq 1 .. made
    BY <2>1, <2>2
  <2> QED BY <2>1, <2>3 DEF StartedMade
<1>2. \A c \in Calls : Registered(c)' = Registered(c)
  BY DEF Registered
<1>3. FutureOfCurrent' /\ AnsweredMade' /\ ChosePrompted' /\ EvaluatedFirst'
  BY DEF Futures, FutureOfCurrent, AnsweredMade, ChosePrompted, EvaluatedFirst
<1>4. AwaitedMade'
  BY <1>2 DEF Futures, AwaitedMade
<1> QED BY <1>1, <1>3, <1>4 DEF Futures

\* The future of the current call is registered and its prompt sent.
LEMMA FuturesPrompted ==
  ASSUME TypeOK, Futures, \A i \in Calls : pending[i] = 0, NEW p \in Calls,
         made' = p, p = made \/ p = made + 1, made' \in 0 .. MaxCalls,
         \A c \in 1 .. made : name'[c] = name[c], name' \in [Calls -> Calls],
         Prompt(p, name'[p]), answer[p] = "none",
         UNCHANGED <<answer, chose, prompts, started>>
  PROVE  Futures'
<1>1. made \in Nat /\ made' \in Nat /\ name'[p] \in Calls /\ made <= made'
  BY DEF TypeOK
<1>2. /\ pending'[name'[p]] = p
      /\ \A i \in Calls : i # name'[p] => pending'[i] = 0
      /\ pc' = "asking"
  BY <1>1 DEF Prompt, TypeOK
<1>3. \A c \in Calls : Awaited(c)' => Awaited(c) \/ c = p
  BY <1>1, PromptAwaited
<1>4. ASSUME NEW c \in Calls, Awaited(c)'
      PROVE  c <= made' /\ (Registered(c)' \/ answer'[c] # "none")
  <2>1. CASE c = p
    BY <1>1, <1>2, <2>1 DEF Registered
  <2>2. CASE Awaited(c)
    <3>1. c <= made /\ ~Registered(c)
      BY <2>2 DEF Futures, AwaitedMade, Registered, TypeOK, Calls
    <3> QED BY <1>1, <2>2, <3>1 DEF Futures, AwaitedMade, Calls
  <2> QED BY <1>3, <1>4, <2>1, <2>2
<1>5. StartedMade'
  BY <1>1 DEF Futures, StartedMade
<1>6. AnsweredMade'
  BY <1>1 DEF Futures, AnsweredMade, Calls
<1>7. FutureOfCurrent' /\ ChosePrompted' /\ EvaluatedFirst'
  BY <1>2 DEF Futures, FutureOfCurrent, ChosePrompted, EvaluatedFirst
<1> QED BY <1>4, <1>5, <1>6, <1>7 DEF Futures, AwaitedMade

\* A new call is given an id; the others keep theirs.
LEMMA StartNames ==
  ASSUME TypeOK, NEW k \in Kinds, StartCall(k)
  PROVE  name' \in [Calls -> Calls] /\ \A c \in 1 .. made : name'[c] = name[c]
<1>0. made + 1 \in Calls /\ made \in Nat
  BY BoundsAssumption DEF StartCall, TypeOK, Calls
<1>1. ToolIds(made + 1) \subseteq Calls
  <2>1. name \in [Calls -> Calls] /\ made \in 0 .. MaxCalls
    BY DEF TypeOK
  <2>2. \A b \in 1 .. made : name[b] \in Calls
    BY <1>0, <2>1, BoundsAssumption DEF Calls
  <2>3. {name[b] : b \in {b \in 1 .. made : kind[b] = "guarded"}} \subseteq Calls
    BY <2>2
  <2> QED BY <1>0, <2>3 DEF ToolIds
<1>2. name' = name \/ \E i \in Calls : name' = [name EXCEPT ![made + 1] = i]
  BY <1>1 DEF StartCall
<1>3. name \in [Calls -> Calls] /\ 1 .. made \subseteq Calls \ {made + 1}
  <2>1. MaxCalls \in Nat /\ made + 1 <= MaxCalls
    BY <1>0, BoundsAssumption DEF Calls
  <2> QED BY <1>0, <2>1 DEF TypeOK, Calls
<1> QED BY <1>2, <1>3

\* The next call of the turn begins.
LEMMA StartFutures ==
  ASSUME TypeOK, Futures, NEW k \in Kinds, StartCall(k)
  PROVE  Futures'
<1>1. /\ made + 1 \in Calls /\ made' = made + 1 /\ made \in Nat /\ pc = "next"
      /\ UNCHANGED <<answer, chose, prompts>>
  BY BoundsAssumption DEF StartCall, AgentRuns, TypeOK, Calls, otherVars, clientVars
<1>2. \A i \in Calls : pending[i] = 0
  BY <1>1, NoneRegistered
<1>3. k \in {"plain", "guarded", "ask", "subagent"}
  BY KindsAssumption
<1>4. name' \in [Calls -> Calls] /\ \A c \in 1 .. made : name'[c] = name[c]
  BY StartNames
<1>5. answer[made + 1] = "none"
  BY <1>1 DEF Futures, AnsweredMade
<1>6. ASSUME UNCHANGED <<outbound, pending>>, started' = started \/ started' = started \cup {made + 1},
             pc' \in {"tool", "sub"} \/ (pc' = "evaluating" /\ made + 1 \in examined')
      PROVE  Futures'
  <2>1. \A c \in Calls : Awaited(c)' = Awaited(c)
    BY <1>1, <1>6 DEF Awaited
  <2>2. \A c \in Calls : Awaited(c) => c <= made /\ answer[c] # "none"
    <3>1. \A c \in Calls : ~Registered(c)
      BY <1>2 DEF Registered, TypeOK, Calls
    <3> QED BY <3>1 DEF Futures, AwaitedMade
  <2>3. ~Awaited(made + 1)
    BY <1>1, <2>2
  <2>4. StartedMade'
    <3>1. started \subseteq 1 .. made
      BY DEF Futures, StartedMade
    <3>2. 1 .. made \subseteq 1 .. made + 1 /\ made + 1 \in 1 .. made + 1
      BY <1>1
    <3> QED BY <1>1, <1>6, <3>1, <3>2 DEF StartedMade
  <2>5. AnsweredMade' /\ AwaitedMade'
    BY <1>1, <2>1, <2>2 DEF Futures, AnsweredMade, AwaitedMade, Calls
  <2>6. FutureOfCurrent'
    BY <1>2, <1>6 DEF FutureOfCurrent
  <2>7. ChosePrompted'
    BY <1>1 DEF Futures, ChosePrompted
  <2>8. EvaluatedFirst'
    BY <1>1, <1>5, <1>6, <2>1, <2>3 DEF EvaluatedFirst
  <2> QED BY <2>4, <2>5, <2>6, <2>7, <2>8 DEF Futures
<1>7. ASSUME Prompt(made + 1, name'[made + 1]), started' = started PROVE Futures'
  BY <1>1, <1>2, <1>4, <1>5, <1>7, FuturesPrompted DEF Calls
<1>8. CASE k = "plain"     BY <1>1, <1>6, <1>8 DEF StartCall, Act
<1>9. CASE k = "subagent"  BY <1>1, <1>6, <1>9 DEF StartCall
<1>10. CASE k = "ask"      BY <1>1, <1>7, <1>10 DEF StartCall
<1>11. CASE k = "guarded" /\ mode = "standard"  BY <1>1, <1>7, <1>11 DEF StartCall
<1>12. CASE k = "guarded" /\ mode # "standard"  BY <1>1, <1>6, <1>12 DEF StartCall, Act
<1> QED BY <1>3, <1>8, <1>9, <1>10, <1>11, <1>12

LEMMA AgentFutures == TypeOK /\ Futures /\ Agent => Futures'
<1> SUFFICES ASSUME TypeOK, Futures, Agent PROVE Futures'
  OBVIOUS
<1>1. CASE LlmAnswers \/ AgentFails \/ AgentAborts \/ LlmHitsLimit \/ EvaluatorRejects \/ Answered
           \/ ToolReturns \/ Compressed \/ SubagentReturns
  <2>1. UNCHANGED <<pending, answer, chose, prompts, made, name, examined, started>>
    BY <1>1 DEF LlmAnswers, AgentFails, AgentAborts, LlmHitsLimit, EvaluatorRejects, Answered,
                ToolReturns, Compressed, SubagentReturns, otherVars, clientVars
  <2>2. pc' \notin {"evaluating", "asking"} /\ (pc' = "ended" => pc # "ended")
    BY <1>1 DEF LlmAnswers, AgentFails, AgentAborts, LlmHitsLimit, EvaluatorRejects, Answered,
                ToolReturns, Compressed, SubagentReturns, Completes, LoopHead, Ends, AgentRuns
  <2>3. \A c \in Calls : Awaited(c)' => Awaited(c)
    BY <1>1, AgentAwaited
  <2>4. pc' = "ended" \/ \A i \in Calls : pending[i] = 0
    <3>1. CASE AgentAborts
      BY <3>1 DEF AgentAborts, Ends
    <3>2. CASE Answered
      BY <3>2, NoneRegistered DEF Answered
    <3>3. CASE ~AgentAborts /\ ~Answered
      <4>1. pc \in {"llm", "next", "evaluating", "tool", "compress", "sub"}
        BY <1>1, <3>3 DEF LlmAnswers, AgentFails, LlmHitsLimit, EvaluatorRejects,
                          ToolReturns, Compressed, SubagentReturns, AgentRuns
      <4> QED BY <4>1, NoneRegistered
    <3> QED BY <3>1, <3>2, <3>3
  <2>5. pc' = "ended" => pc \in {"asking", "ended"} \/ \A i \in Calls : pending[i] = 0
    BY NoneRegistered
  <2> QED BY <2>1, <2>2, <2>3, <2>4, <2>5, FuturesKept
<1>2. CASE (\E n \in Calls : LlmCallsTools(n)) \/ EvaluatorSafe \/ Approved \/ AgentCleansUp
  <2>1. UNCHANGED <<pending, answer, chose, prompts, made, name, examined, outbound>>
    BY <1>2 DEF LlmCallsTools, EvaluatorSafe, Approved, AgentCleansUp, otherVars, clientVars, sessionVars
  <2>2. /\ pc' \in {"next", "tool", "unwinding"}
        /\ started' = started \/ (started' = started \cup {made} /\ made # 0)
        /\ pc \notin {"asking", "ended"} \/ answer[made] # "none"
    BY <1>2 DEF LlmCallsTools, EvaluatorSafe, Approved, AgentCleansUp, AgentRuns, Act, TypeOK
  <2>3. \A c \in Calls : Awaited(c)' => Awaited(c)
    BY <2>1 DEF Awaited
  <2>4. \A i \in Calls : pending[i] = 0
    BY <2>2, NoneRegistered
  <2> QED BY <2>1, <2>2, <2>3, <2>4, FuturesKept
<1>3. CASE EvaluatorDangerous
  <2>1. /\ pc = "evaluating" /\ Prompt(made, name'[made])
        /\ UNCHANGED <<answer, chose, prompts, started, made, name>>
    BY <1>3 DEF EvaluatorDangerous, AgentRuns, otherVars, clientVars
  <2>2. made \in Calls /\ answer[made] = "none" /\ name' \in [Calls -> Calls] /\ made' \in 0 .. MaxCalls
    BY <2>1 DEF TypeOK, Calls, Futures, EvaluatedFirst
  <2>3. \A i \in Calls : pending[i] = 0
    BY <2>1, NoneRegistered
  <2> QED BY <2>1, <2>2, <2>3, FuturesPrompted
<1> QED BY <1>1, <1>2, <1>3, StartFutures DEF Agent

\* What the others do.
LEMMA FuturesStep == TypeOK /\ Futures /\ [Next]_vars => Futures'
<1> SUFFICES ASSUME TypeOK, Futures, [Next]_vars PROVE Futures'
  OBVIOUS
<1>1. ASSUME UNCHANGED <<started, made, name, pc, examined>>, UNCHANGED <<pending, answer>>,
             prompts \subseteq prompts', \A c \in Calls : chose'[c] # "none" => c \in prompts',
             \A c \in Calls : Awaited(c)' => Awaited(c)
      PROVE  Futures'
  <2>1. \A c \in Calls : Registered(c)' = Registered(c)
    BY <1>1 DEF Registered
  <2>2. StartedMade' /\ FutureOfCurrent' /\ AnsweredMade'
    BY <1>1 DEF Futures, StartedMade, FutureOfCurrent, AnsweredMade
  <2>3. pc = "evaluating" => made \in Calls
    BY DEF TypeOK, Calls
  <2>4. AwaitedMade'
    BY <1>1, <2>1 DEF Futures, AwaitedMade
  <2>5. EvaluatedFirst'
    BY <1>1, <2>3 DEF Futures, EvaluatedFirst
  <2> QED BY <1>1, <2>2, <2>4, <2>5 DEF Futures, ChosePrompted
<1>2. CASE Client
  <2>1. UNCHANGED <<pending, answer, prompts, outbound>>
    BY <1>2 DEF Client, ClientAnswers, ClientRepeats, ClientCompressed, ClientSetsMode, ClientAborts,
                ClientLeaves, ClientSendsExtra, ClientSends, sessionVars
  <2>2. \A c \in Calls : chose'[c] # "none" => c \in prompts
    <3>1. ASSUME NEW d \in Calls, NEW v \in {"yes", "no"}, ClientAnswers(d, v)
          PROVE  \A c \in Calls : chose'[c] # "none" => c \in prompts
      BY <3>1 DEF ClientAnswers, Futures, ChosePrompted, TypeOK
    <3>2. CASE chose' = chose
      BY <3>2 DEF Futures, ChosePrompted
    <3> QED BY <1>2, <3>1, <3>2 DEF Client, ClientRepeats, ClientCompressed, ClientSetsMode,
                ClientAborts, ClientLeaves, ClientSendsExtra
  <2> QED BY <1>1, <1>2, <2>1, <2>2, OthersLeaveCalls DEF Awaited
<1>3. CASE RecvAnswer
  <2>1. UNCHANGED <<started, made, name, pc, examined, chose, prompts, outbound>>
    BY <1>3, OthersLeaveCalls DEF Receive, RecvAnswer, Receives
  <2>2. PICK i \in Calls, v \in {"yes", "no"} :
          /\ pending' = [pending EXCEPT ![i] = 0]
          /\ answer' = IF pending[i] = 0 THEN answer ELSE [answer EXCEPT ![pending[i]] = v]
    <3>1. toServer # <<>> /\ Head(toServer) \in Message /\ Head(toServer).type = "answer"
      BY <1>3, HeadTailProperties DEF RecvAnswer, Receives, TypeOK
    <3>2. Head(toServer).call \in Calls /\ Head(toServer).value \in {"yes", "no"}
      BY <3>1 DEF Message
    <3> QED BY <1>3, <3>2 DEF RecvAnswer
  <2>3. \A c \in Calls : Awaited(c)' = Awaited(c)
    BY <2>1 DEF Awaited
  <2>4. CASE pending[i] = 0
    <3>1. pending' = pending /\ answer' = answer
      BY <2>2, <2>4 DEF TypeOK
    <3> QED BY <1>1, <2>1, <2>3, <3>1 DEF Futures, ChosePrompted
  <2>5. CASE pending[i] # 0
    <3>1. /\ pending[i] = made /\ pc \in {"asking", "ended"} /\ name[made] = i
          /\ answer' = [answer EXCEPT ![made] = v]
      BY <2>2, <2>5 DEF Futures, FutureOfCurrent
    <3>2. made \in Calls /\ made \in Nat
      BY <2>5, <3>1 DEF TypeOK
    <3>3. \A j \in Calls : pending'[j] = 0
      <4>1. pending \in [Calls -> {0} \cup Calls]
        BY DEF TypeOK
      <4> QED BY <2>2, <3>1, <4>1 DEF Futures, FutureOfCurrent
    <3>4. /\ answer'[made] = v /\ v # "none"
          /\ \A c \in Calls : c # made => answer'[c] = answer[c]
      BY <3>1, <3>2 DEF TypeOK
    <3>5. AnsweredMade'
      BY <2>1, <3>2, <3>4 DEF Futures, AnsweredMade
    <3>6. AwaitedMade'
      <4>1. SUFFICES ASSUME NEW c \in Calls, Awaited(c) PROVE c <= made /\ answer'[c] # "none"
        BY <2>1, <2>3 DEF AwaitedMade
      <4>2. CASE c = made
        BY <3>2, <3>4, <4>2
      <4>3. CASE c # made
        <5>1. ~Registered(c)
          BY <4>3 DEF Futures, FutureOfCurrent, Registered, TypeOK, Calls
        <5> QED BY <3>4, <4>1, <4>3, <5>1 DEF Futures, AwaitedMade
      <4> QED BY <4>2, <4>3
    <3>7. StartedMade' /\ FutureOfCurrent' /\ ChosePrompted'
      BY <2>1, <3>3 DEF Futures, StartedMade, FutureOfCurrent, ChosePrompted
    <3>8. EvaluatedFirst'
      BY <2>1, <3>1 DEF EvaluatedFirst
    <3> QED BY <3>5, <3>6, <3>7, <3>8 DEF Futures
  <2> QED BY <2>4, <2>5
<1>4. CASE RecvCompressionDone \/ RecvSetMode \/ RecvAbort \/ RecvDisconnect
  <2>1. UNCHANGED <<pending, answer, chose, prompts, outbound>>
    BY <1>4 DEF RecvCompressionDone, RecvSetMode, RecvAbort, RecvDisconnect, Receives, sessionVars, clientVars
  <2> QED BY <1>1, <1>4, <2>1, OthersLeaveCalls DEF Receive, Awaited, Futures, ChosePrompted
<1>5. CASE Send
  <2>1. /\ UNCHANGED <<pending, answer, chose>> /\ outbound # <<>> /\ outbound' = Tail(outbound)
        /\ prompts' = prompts \/ (prompts' = prompts \cup {Head(outbound).call} /\ Head(outbound).type = "prompt")
    BY <1>5 DEF Send, SendEvent, SendToNobody, clientVars
  <2>2. /\ Len(outbound) \in Nat /\ 1 \in 1 .. Len(outbound) /\ Len(outbound') = Len(outbound) - 1
        /\ \A i \in 1 .. Len(outbound') : i + 1 \in 1 .. Len(outbound) /\ outbound'[i] = outbound[i + 1]
        /\ Head(outbound) = outbound[1] /\ outbound[1] \in Event
    <3>1. outbound \in Seq(Event) /\ outbound # <<>> /\ outbound' = Tail(outbound)
      BY <2>1 DEF TypeOK
    <3> QED BY <3>1
  <2>3. Head(outbound).type = "prompt" => Head(outbound) = Ev("prompt", Head(outbound).call)
    BY <2>2 DEF Event, Ev
  <2>4. \A c \in Calls : Awaited(c)' => Awaited(c)
    BY <2>1, <2>2, <2>3 DEF Awaited
  <2>5. prompts \subseteq prompts' /\ \A c \in Calls : chose'[c] # "none" => c \in prompts'
    BY <2>1 DEF Futures, ChosePrompted
  <2> QED BY <1>1, <1>5, <2>1, <2>4, <2>5, OthersLeaveCalls
<1>6. CASE Main
  <2>1. UNCHANGED <<pending, answer, chose, prompts, outbound>>
    BY <1>6 DEF Main, HandlerStopsReceiving, HandlerCancelsAgent, HandlerReturns, sessionVars, clientVars
  <2> QED BY <1>1, <1>6, <2>1, OthersLeaveCalls DEF Awaited, Futures, ChosePrompted
<1>7. CASE Subagent \/ UNCHANGED vars
  <2>1. UNCHANGED <<pending, answer, chose, prompts, outbound>>
    BY <1>7 DEF Subagent, SubagentFinishes, SubagentErrs, SubagentAwaitsCompression, vars, sessionVars, clientVars
  <2> QED BY <1>1, <1>7, <2>1, OthersLeaveCalls DEF Awaited, Futures, ChosePrompted
<1> QED BY <1>2, <1>3, <1>4, <1>5, <1>6, <1>7, AgentFutures DEF Next, Finished, Receive


-----------------------------------------------------------------------------
(* Answers on their way *)

\* Whether an answer was borrowed depends on the calls made, and no borrowing is undone.
LEMMA BorrowedStays ==
  ASSUME NEW c \in Calls, c <= made, made \in Nat, twice \subseteq twice',
         \A b \in 1 .. made : name'[b] = name[b], Borrowed(c)
  PROVE  Borrowed(c)'
<1>1. c \in 1 .. made /\ 1 .. c - 1 \subseteq 1 .. made
  BY DEF Calls
<1> QED BY <1>1 DEF Borrowed

\* A message is read: what was behind it moves up.
LEMMA PoppedAnswers ==
  ASSUME TypeOK, Futures, InFlight, toServer # <<>>, toServer' = Tail(toServer),
         UNCHANGED <<chose, twice, prompts, name, made, ws>>,
         NEW r \in {0} \cup Calls,
         r # 0 => Under(toServer, 1, r) /\ pending' = [pending EXCEPT ![r] = 0],
         r = 0 => pending' = pending /\ toServer[1].type # "answer"
  PROVE  /\ AnswersNamed' /\ AnswersFresh' /\ FirstInLine' /\ StillComing'
<1>1. /\ Len(toServer) \in Nat /\ 1 \in 1 .. Len(toServer) /\ Len(toServer') = Len(toServer) - 1
      /\ \A j \in 1 .. Len(toServer') : j + 1 \in 1 .. Len(toServer) /\ toServer'[j] = toServer[j + 1]
  BY DEF TypeOK
<1>2. \A j \in 1 .. Len(toServer'), i \in Calls : Under(toServer', j, i) <=> Under(toServer, j + 1, i)
  BY <1>1 DEF Under
<1>3. \A c \in Calls : name[c] \in Calls /\ name'[c] = name[c] /\ (Borrowed(c)' <=> Borrowed(c))
  BY DEF TypeOK, Borrowed
<1>4. /\ \A i \in Calls : i # r => pending'[i] = pending[i] /\ ~Under(toServer, 1, i)
      /\ r \in Calls => pending'[r] = 0
  <2>1. pending \in [Calls -> {0} \cup Calls] /\ 0 \notin Calls
    BY DEF TypeOK, Calls
  <2>2. \A i \in Calls : i # r => pending'[i] = pending[i]
    BY <2>1
  <2>3. r \in Calls => pending'[r] = 0
    BY <2>1
  <2>4. \A i \in Calls : i # r => ~Under(toServer, 1, i)
    BY <2>1 DEF Under
  <2> QED BY <2>2, <2>3, <2>4
<1>5. \A c \in Calls : Registered(c)' => Registered(c) /\ name[c] # r
  BY <1>3, <1>4 DEF Registered, TypeOK, Calls
<1>6. AnswersNamed'
  BY <1>1, <1>2 DEF InFlight, AnswersNamed
<1>7. AnswersFresh'
  <2>1. SUFFICES ASSUME NEW j \in 1 .. Len(toServer'), NEW i \in Calls, Under(toServer, j + 1, i), i \notin twice
                 PROVE  /\ pending'[i] # 0 /\ toServer[j + 1].value = chose[pending'[i]]
                        /\ \A k \in 1 .. Len(toServer') : Under(toServer, k + 1, i) => k = j
    BY <1>1, <1>2 DEF AnswersFresh
  <2>2. /\ pending[i] # 0 /\ toServer[j + 1].value = chose[pending[i]]
        /\ \A k \in 1 .. Len(toServer) : Under(toServer, k, i) => k = j + 1
    BY <1>1, <2>1 DEF InFlight, AnswersFresh
  <2>3. i # r
    <3>1. SUFFICES ASSUME i = r PROVE FALSE
      OBVIOUS
    <3>2. Under(toServer, 1, i)
      BY <3>1 DEF Calls
    <3>3. 1 = j + 1 /\ j \in 1 .. Len(toServer')
      BY <1>1, <2>2, <3>2
    <3> QED BY <1>1, <3>3
  <2>4. ASSUME NEW k \in 1 .. Len(toServer'), Under(toServer, k + 1, i) PROVE k = j
    <3>1. k + 1 = j + 1
      BY <1>1, <2>2, <2>4
    <3> QED BY <3>1
  <2> QED BY <1>4, <2>2, <2>3, <2>4
<1>8. FirstInLine'
  <2>1. SUFFICES ASSUME NEW c \in Calls, Registered(c)', ~Borrowed(c)',
                        NEW j \in 1 .. Len(toServer'), Under(toServer', j, name[c])
                 PROVE  \E k \in 1 .. j : Under(toServer', k, name[c]) /\ toServer'[k].value = chose[c]
    BY <1>3 DEF FirstInLine, Replies
  <2>2. Registered(c) /\ name[c] # r /\ ~Borrowed(c) /\ Under(toServer, j + 1, name[c])
        /\ j + 1 \in 1 .. Len(toServer)
    BY <1>1, <1>2, <1>3, <1>5, <2>1
  <2>3. PICK k \in 1 .. j + 1 : Under(toServer, k, name[c]) /\ toServer[k].value = chose[c]
    BY <2>2 DEF InFlight, FirstInLine, Replies
  <2>4. k # 1
    BY <1>3, <1>4, <2>2, <2>3
  <2>5. k - 1 \in 1 .. j /\ k - 1 \in 1 .. Len(toServer') /\ (k - 1) + 1 = k
    BY <1>1, <2>3, <2>4
  <2>6. Under(toServer', k - 1, name[c]) /\ toServer'[k - 1].value = chose[c]
    BY <1>1, <1>2, <1>3, <2>3, <2>5
  <2> QED BY <2>5, <2>6
<1>9. StillComing'
  <2>1. SUFFICES ASSUME NEW c \in Calls, Registered(c)', chose[c] # "none", ws = "open"
                 PROVE  \E j \in 1 .. Len(toServer') : Under(toServer', j, name[c])
    BY <1>3 DEF StillComing, Replies
  <2>2. Registered(c) /\ name[c] # r
    BY <1>5, <2>1
  <2>3. PICK j \in 1 .. Len(toServer) : Under(toServer, j, name[c])
    BY <2>1, <2>2 DEF InFlight, StillComing, Replies
  <2>4. j # 1
    BY <1>3, <1>4, <2>2, <2>3
  <2>5. j - 1 \in 1 .. Len(toServer') /\ (j - 1) + 1 = j
    BY <1>1, <2>4
  <2> QED BY <1>2, <1>3, <2>3, <2>5
<1> QED BY <1>6, <1>7, <1>8, <1>9

\* The message at the end of the queue.
LEMMA Sent ==
  ASSUME TypeOK, NEW m \in Message, toServer' = Append(toServer, m)
  PROVE  /\ Len(toServer) \in Nat /\ Len(toServer') = Len(toServer) + 1
         /\ \A j \in 1 .. Len(toServer) : toServer'[j] = toServer[j]
         /\ toServer'[Len(toServer) + 1] = m
         /\ \A j \in 1 .. Len(toServer') : j \in 1 .. Len(toServer) \/ j = Len(toServer) + 1
         /\ \A j \in 1 .. Len(toServer), i \in Calls : Under(toServer', j, i) <=> Under(toServer, j, i)
         /\ \A i \in Calls : Under(toServer', Len(toServer) + 1, i) <=> m.type = "answer" /\ m.call = i
<1>1. toServer \in Seq(Message)
  BY DEF TypeOK
<1>2. /\ Len(toServer) \in Nat /\ Len(toServer') = Len(toServer) + 1
      /\ \A j \in 1 .. Len(toServer) : toServer'[j] = toServer[j]
      /\ toServer'[Len(toServer) + 1] = m
      /\ \A j \in 1 .. Len(toServer') : j \in 1 .. Len(toServer) \/ j = Len(toServer) + 1
  BY <1>1
<1> QED BY <1>2 DEF Under

\* A message that is no answer changes nothing.
LEMMA OtherSent ==
  ASSUME TypeOK, InFlight, NEW m \in Message, m.type # "answer", toServer' = Append(toServer, m),
         UNCHANGED <<ws, chose, twice, prompts, name, answer, pending>>
  PROVE  InFlight'
<1>1. /\ Len(toServer) \in Nat /\ Len(toServer') = Len(toServer) + 1
      /\ \A j \in 1 .. Len(toServer) : toServer'[j] = toServer[j]
      /\ \A j \in 1 .. Len(toServer') : j \in 1 .. Len(toServer) \/ j = Len(toServer) + 1
      /\ \A j \in 1 .. Len(toServer), i \in Calls : Under(toServer', j, i) <=> Under(toServer, j, i)
      /\ \A i \in Calls : ~Under(toServer', Len(toServer) + 1, i)
  BY Sent
<1>2. \A j \in 1 .. Len(toServer'), i \in Calls : Under(toServer', j, i) => j \in 1 .. Len(toServer) /\ Under(toServer, j, i)
  BY <1>1
<1>3. \A c \in Calls : /\ name[c] \in Calls /\ (Borrowed(c)' <=> Borrowed(c))
                       /\ Registered(c)' <=> Registered(c)
  BY DEF TypeOK, Borrowed, Registered
<1>4. AnswersNamed'
  BY <1>1, <1>2 DEF InFlight, AnswersNamed
<1>5. AnswersFresh'
  BY <1>1, <1>2 DEF InFlight, AnswersFresh
<1>6. FirstInLine'
  <2>1. SUFFICES ASSUME NEW c \in Calls, Registered(c), ~Borrowed(c),
                        NEW j \in 1 .. Len(toServer'), Under(toServer', j, name[c])
                 PROVE  \E k \in 1 .. j : Under(toServer', k, name[c]) /\ toServer'[k].value = chose[c]
    BY <1>3 DEF FirstInLine, Replies
  <2>2. j \in 1 .. Len(toServer) /\ Under(toServer, j, name[c])
    BY <1>2, <1>3, <2>1
  <2>3. PICK k \in 1 .. j : Under(toServer, k, name[c]) /\ toServer[k].value = chose[c]
    BY <2>1, <2>2 DEF InFlight, FirstInLine, Replies
  <2>4. k \in 1 .. Len(toServer)
    BY <1>1, <2>2
  <2> QED BY <1>1, <1>3, <2>3, <2>4
<1>7. StillComing'
  <2>1. SUFFICES ASSUME NEW c \in Calls, Registered(c), chose[c] # "none", ws = "open"
                 PROVE  \E j \in 1 .. Len(toServer') : Under(toServer', j, name[c])
    BY <1>3 DEF StillComing, Replies
  <2>2. PICK j \in 1 .. Len(toServer) : Under(toServer, j, name[c])
    BY <2>1 DEF InFlight, StillComing, Replies
  <2>3. j \in 1 .. Len(toServer')
    BY <1>1
  <2> QED BY <1>1, <1>3, <2>2, <2>3
<1>8. FirstAnswerCounts'
  BY <1>3 DEF InFlight, FirstAnswerCounts
<1> QED BY <1>4, <1>5, <1>6, <1>7, <1>8 DEF InFlight

\* The first answer to a prompt is sent.
LEMMA FirstSent ==
  ASSUME TypeOK, Futures, InFlight, NEW d \in Calls, NEW v \in {"yes", "no"}, ClientAnswers(d, v)
  PROVE  InFlight'
<1> DEFINE n == Len(toServer) + 1
<1>1. /\ d \in prompts /\ chose[d] = "none" /\ chose' = [chose EXCEPT ![d] = v]
      /\ toServer' = Append(toServer, Msg("answer", name[d], v))
      /\ UNCHANGED <<ws, twice, prompts, name, answer, pending, made>>
  BY DEF ClientAnswers, ClientSends, sessionVars, agentVars
<1>2. name[d] \in Calls /\ Msg("answer", name[d], v) \in Message
  BY DEF TypeOK, Msg, Message
<1>3. /\ Len(toServer) \in Nat /\ Len(toServer') = n
      /\ 1 .. Len(toServer) \subseteq 1 .. n /\ n \in 1 .. n
      /\ \A j \in 1 .. Len(toServer) : toServer'[j] = toServer[j]
      /\ toServer'[n].value = v
      /\ \A j \in 1 .. Len(toServer') : j \in 1 .. Len(toServer) \/ j = n
      /\ \A j \in 1 .. Len(toServer), i \in Calls : Under(toServer', j, i) <=> Under(toServer, j, i)
      /\ \A i \in Calls : Under(toServer', n, i) <=> i = name[d]
  BY <1>1, <1>2, Sent DEF Msg
<1> HIDE DEF n
<1>4. \A c \in Calls : /\ name[c] \in Calls /\ name'[c] = name[c] /\ (Borrowed(c)' <=> Borrowed(c))
                       /\ Registered(c)' <=> Registered(c)
  BY <1>1 DEF TypeOK, Borrowed, Registered
<1>5. /\ \A c \in Calls : c # d => chose'[c] = chose[c]
      /\ chose'[d] = v /\ v # "none"
  BY <1>1 DEF TypeOK
\* d is registered, or its answer was borrowed.
<1>6. d <= made /\ (Registered(d) \/ Borrowed(d))
  <2>1. Awaited(d)
    BY <1>1 DEF Awaited
  <2>2. d <= made /\ (Registered(d) \/ answer[d] # "none")
    BY <2>1 DEF Futures, AwaitedMade
  <2>3. answer[d] # "none" => Borrowed(d)
    BY <1>1 DEF InFlight, FirstAnswerCounts
  <2> QED BY <2>2, <2>3
<1>7. \A c \in Calls : Registered(c) => c = made
  BY DEF Futures, FutureOfCurrent, Registered, TypeOK, Calls
\* No other call registered under the same id escapes having borrowed.
<1>8. ASSUME NEW c \in Calls, c # d, name[c] = name[d], Registered(c) PROVE Borrowed(c)
  <2>1. ~Registered(d) /\ Borrowed(d)
    BY <1>6, <1>7, <1>8
  <2>2. c = made /\ d < c
    BY <1>6, <1>7, <1>8 DEF Calls, TypeOK
  <2>3. d \in 1 .. c - 1
    BY <2>2 DEF Calls
  <2> QED BY <1>8, <2>1, <2>3 DEF Borrowed
\* Nothing of value "none" is on its way.
<1>9. \A j \in 1 .. Len(toServer), i \in Calls : Under(toServer, j, i) => toServer[j].value # "none"
  <2>1. SUFFICES ASSUME NEW j \in 1 .. Len(toServer), toServer[j].type = "answer"
                 PROVE  toServer[j].value # "none"
    BY DEF Under
  <2>2. toServer[j] \in Message
    BY DEF TypeOK
  <2> QED BY <2>1, <2>2 DEF Message
<1>10. AnswersNamed'
  <2>1. SUFFICES ASSUME NEW j \in 1 .. Len(toServer'), NEW i \in Calls, Under(toServer', j, i)
                 PROVE  \E c \in prompts : name[c] = i
    BY <1>1 DEF AnswersNamed
  <2>2. CASE j = n
    BY <1>1, <1>3, <2>1, <2>2
  <2>3. CASE j \in 1 .. Len(toServer)
    BY <1>3, <2>1, <2>3 DEF InFlight, AnswersNamed
  <2> QED BY <1>3, <2>2, <2>3
<1>11. ASSUME NEW j \in 1 .. Len(toServer), Under(toServer, j, name[d]), name[d] \notin twice PROVE FALSE
  <2>1. Registered(d)
    BY <1>6, <1>11 DEF Borrowed
  <2>2. toServer[j].value = chose[d]
    BY <1>2, <1>11, <2>1 DEF InFlight, AnswersFresh, Registered
  <2> QED BY <1>1, <1>2, <1>9, <1>11, <2>2
<1>12. AnswersFresh'
  <2>1. SUFFICES ASSUME NEW j \in 1 .. Len(toServer'), NEW i \in Calls, Under(toServer', j, i), i \notin twice
                 PROVE  /\ pending[i] # 0 /\ toServer'[j].value = chose'[pending[i]]
                        /\ \A k \in 1 .. Len(toServer') : Under(toServer', k, i) => k = j
    BY <1>1 DEF AnswersFresh
  <2>2. CASE j = n
    <3>1. i = name[d] /\ Registered(d)
      BY <1>3, <1>6, <2>1, <2>2 DEF Borrowed
    <3>2. pending[i] = d
      BY <3>1 DEF Registered
    <3> QED BY <1>3, <1>5, <1>11, <2>1, <2>2, <3>1, <3>2 DEF Calls
  <2>3. CASE j \in 1 .. Len(toServer)
    <3>1. /\ pending[i] # 0 /\ toServer[j].value = chose[pending[i]]
          /\ \A k \in 1 .. Len(toServer) : Under(toServer, k, i) => k = j
      BY <1>3, <2>1, <2>3 DEF InFlight, AnswersFresh
    <3>2. i # name[d]
      BY <1>3, <1>11, <2>1, <2>3
    <3>3. pending[i] # d /\ pending[i] \in Calls
      BY <3>1, <3>2 DEF Futures, FutureOfCurrent, TypeOK
    <3> QED BY <1>3, <1>5, <2>1, <2>3, <3>1, <3>2, <3>3
  <2> QED BY <1>3, <2>2, <2>3
<1>13. FirstInLine'
  <2>1. SUFFICES ASSUME NEW c \in Calls, Registered(c), ~Borrowed(c),
                        NEW j \in 1 .. Len(toServer'), Under(toServer', j, name[c])
                 PROVE  \E k \in 1 .. j : Under(toServer', k, name[c]) /\ toServer'[k].value = chose'[c]
    BY <1>4 DEF FirstInLine, Replies
  <2>2. CASE c = d
    <3>1. ASSUME NEW k \in 1 .. Len(toServer), Under(toServer, k, name[d]) PROVE FALSE
      <4>1. PICK l \in 1 .. k : Under(toServer, l, name[d]) /\ toServer[l].value = "none"
        BY <1>1, <2>1, <2>2, <3>1 DEF InFlight, FirstInLine, Replies
      <4>2. l \in 1 .. Len(toServer)
        BY <1>3
      <4> QED BY <1>2, <1>9, <4>1, <4>2
    <3>2. j = n
      BY <1>2, <1>3, <2>1, <2>2, <3>1
    <3>3. n \in 1 .. n
      BY <1>3, <3>2
    <3> QED BY <1>2, <1>3, <1>5, <2>2, <3>2, <3>3
  <2>3. CASE c # d
    <3>1. name[c] # name[d]
      BY <1>8, <2>1, <2>3
    <3>2. j \in 1 .. Len(toServer) /\ Under(toServer, j, name[c])
      BY <1>3, <1>4, <2>1, <3>1
    <3>3. PICK k \in 1 .. j : Under(toServer, k, name[c]) /\ toServer[k].value = chose[c]
      BY <2>1, <3>2 DEF InFlight, FirstInLine, Replies
    <3>4. k \in 1 .. Len(toServer)
      BY <1>3, <3>2
    <3> QED BY <1>3, <1>4, <1>5, <2>3, <3>3, <3>4
  <2> QED BY <2>2, <2>3
<1>14. StillComing'
  <2>1. SUFFICES ASSUME NEW c \in Calls, Registered(c), chose'[c] # "none", ws = "open"
                 PROVE  \E j \in 1 .. Len(toServer') : Under(toServer', j, name[c])
    BY <1>1, <1>4 DEF StillComing, Replies
  <2>2. CASE c = d
    BY <1>2, <1>3, <2>2
  <2>3. CASE c # d
    <3>1. PICK j \in 1 .. Len(toServer) : Under(toServer, j, name[c])
      BY <1>5, <2>1, <2>3 DEF InFlight, StillComing, Replies
    <3>2. j \in 1 .. Len(toServer')
      BY <1>3
    <3> QED BY <1>3, <1>4, <3>1, <3>2
  <2> QED BY <2>2, <2>3
<1>15. FirstAnswerCounts'
  BY <1>1, <1>4, <1>5, <1>6 DEF InFlight, FirstAnswerCounts
<1> QED BY <1>10, <1>12, <1>13, <1>14, <1>15 DEF InFlight

\* An answer is sent again.
LEMMA RepeatSent ==
  ASSUME TypeOK, Futures, InFlight, NEW d \in Calls, NEW v \in {"yes", "no"}, ClientRepeats(d, v)
  PROVE  InFlight'
<1> DEFINE n == Len(toServer) + 1
<1>1. /\ d \in prompts /\ chose[d] # "none" /\ ws = "open" /\ twice' = twice \cup {name[d]}
      /\ toServer' = Append(toServer, Msg("answer", name[d], v))
      /\ UNCHANGED <<ws, chose, prompts, name, answer, pending, made>>
  BY DEF ClientRepeats, ClientSendsExtra, ClientSends, sessionVars, agentVars
<1>2. name[d] \in Calls /\ Msg("answer", name[d], v) \in Message
  BY DEF TypeOK, Msg, Message
<1>3. /\ Len(toServer) \in Nat /\ Len(toServer') = n
      /\ 1 .. Len(toServer) \subseteq 1 .. n /\ n \in 1 .. n
      /\ \A j \in 1 .. Len(toServer) : toServer'[j] = toServer[j]
      /\ \A j \in 1 .. Len(toServer') : j \in 1 .. Len(toServer) \/ j = n
      /\ \A j \in 1 .. Len(toServer), i \in Calls : Under(toServer', j, i) <=> Under(toServer, j, i)
      /\ \A i \in Calls : Under(toServer', n, i) <=> i = name[d]
  BY <1>1, <1>2, Sent DEF Msg
<1> HIDE DEF n
<1>4. \A c \in Calls : /\ name[c] \in Calls /\ name'[c] = name[c] /\ (Borrowed(c) => Borrowed(c)')
                       /\ Registered(c)' <=> Registered(c)
  BY <1>1 DEF TypeOK, Borrowed, Registered
<1>5. \A c \in Calls : Registered(c) => c = made
  BY DEF Futures, FutureOfCurrent, Registered, TypeOK, Calls
<1>6. AnswersNamed'
  <2>1. SUFFICES ASSUME NEW j \in 1 .. Len(toServer'), NEW i \in Calls, Under(toServer', j, i)
                 PROVE  \E c \in prompts : name[c] = i
    BY <1>1 DEF AnswersNamed
  <2>2. CASE j = n
    BY <1>1, <1>3, <2>1, <2>2
  <2>3. CASE j \in 1 .. Len(toServer)
    BY <1>3, <2>1, <2>3 DEF InFlight, AnswersNamed
  <2> QED BY <1>3, <2>2, <2>3
<1>7. AnswersFresh'
  <2>1. SUFFICES ASSUME NEW j \in 1 .. Len(toServer'), NEW i \in Calls, Under(toServer', j, i), i \notin twice'
                 PROVE  /\ pending[i] # 0 /\ toServer'[j].value = chose[pending[i]]
                        /\ \A k \in 1 .. Len(toServer') : Under(toServer', k, i) => k = j
    BY <1>1 DEF AnswersFresh
  <2>2. i # name[d] /\ i \notin twice
    BY <1>1, <2>1
  <2>3. j \in 1 .. Len(toServer) /\ Under(toServer, j, i)
    BY <1>3, <2>1, <2>2
  <2>4. /\ pending[i] # 0 /\ toServer[j].value = chose[pending[i]]
        /\ \A k \in 1 .. Len(toServer) : Under(toServer, k, i) => k = j
    BY <2>2, <2>3 DEF InFlight, AnswersFresh
  <2> QED BY <1>3, <2>2, <2>3, <2>4
<1>8. FirstInLine'
  <2>1. SUFFICES ASSUME NEW c \in Calls, Registered(c), ~Borrowed(c)',
                        NEW j \in 1 .. Len(toServer'), Under(toServer', j, name[c])
                 PROVE  \E k \in 1 .. j : Under(toServer', k, name[c]) /\ toServer'[k].value = chose[c]
    BY <1>1, <1>4 DEF FirstInLine, Replies
  <2>2. ASSUME NEW l \in 1 .. Len(toServer), Under(toServer, l, name[c]), l <= j
        PROVE  \E k \in 1 .. j : Under(toServer', k, name[c]) /\ toServer'[k].value = chose[c]
    <3>1. ~Borrowed(c)
      BY <1>4, <2>1
    <3>2. PICK k \in 1 .. l : Under(toServer, k, name[c]) /\ toServer[k].value = chose[c]
      BY <2>1, <2>2, <3>1 DEF InFlight, FirstInLine, Replies
    <3>3. k \in 1 .. Len(toServer) /\ k \in 1 .. j
      BY <1>3, <2>2
    <3> QED BY <1>3, <1>4, <3>2, <3>3
  <2>3. CASE j \in 1 .. Len(toServer)
    BY <1>3, <1>4, <2>1, <2>2, <2>3
  <2>4. CASE j = n
    <3>1. name[c] = name[d]
      BY <1>3, <1>4, <2>1, <2>4
    <3>2. Awaited(d)
      BY <1>1 DEF Awaited
    <3>3. d <= made /\ c = made
      BY <1>5, <2>1, <3>2 DEF Futures, AwaitedMade
    <3>4. c = d
      <4>1. SUFFICES ASSUME c # d PROVE FALSE
        OBVIOUS
      <4>2. d \in 1 .. c - 1
        BY <3>3, <4>1 DEF Calls
      <4>3. name[c] \in twice'
        BY <1>1, <3>1
      <4> QED BY <1>1, <2>1, <3>1, <4>2, <4>3 DEF Borrowed
    <3>5. PICK l \in 1 .. Len(toServer) : Under(toServer, l, name[c])
      BY <1>1, <2>1, <3>4 DEF InFlight, StillComing, Replies
    <3>6. l <= j
      BY <1>3, <2>4
    <3> QED BY <2>2, <3>5, <3>6
  <2> QED BY <1>3, <2>3, <2>4
<1>9. StillComing'
  <2>1. SUFFICES ASSUME NEW c \in Calls, Registered(c), chose[c] # "none"
                 PROVE  \E j \in 1 .. Len(toServer') : Under(toServer', j, name[c])
    BY <1>1, <1>4 DEF StillComing, Replies
  <2>2. PICK j \in 1 .. Len(toServer) : Under(toServer, j, name[c])
    BY <1>1, <2>1 DEF InFlight, StillComing, Replies
  <2>3. j \in 1 .. Len(toServer')
    BY <1>3
  <2> QED BY <1>3, <1>4, <2>2, <2>3
<1>10. FirstAnswerCounts'
  BY <1>1, <1>4 DEF InFlight, FirstAnswerCounts
<1> QED BY <1>6, <1>7, <1>8, <1>9, <1>10 DEF InFlight

\* The connection closes: what is left on its way is a first part of what was.
LEMMA Truncated ==
  ASSUME TypeOK, InFlight, ws' = "closed", Len(toServer') \in 0 .. Len(toServer),
         \A j \in 1 .. Len(toServer') : toServer'[j] = toServer[j],
         UNCHANGED <<chose, twice, prompts, name, answer, pending>>
  PROVE  InFlight'
<1>1. \A j \in 1 .. Len(toServer') :
        /\ j \in 1 .. Len(toServer) /\ 1 .. j \subseteq 1 .. Len(toServer')
        /\ \A i \in Calls : Under(toServer', j, i) <=> Under(toServer, j, i)
  BY DEF Under, TypeOK
<1>2. \A c \in Calls : /\ name[c] \in Calls /\ name'[c] = name[c] /\ (Borrowed(c)' <=> Borrowed(c))
                       /\ Registered(c)' <=> Registered(c)
  BY DEF TypeOK, Borrowed, Registered
<1>3. AnswersNamed' /\ AnswersFresh' /\ FirstAnswerCounts'
  BY <1>1, <1>2 DEF InFlight, AnswersNamed, AnswersFresh, FirstAnswerCounts
<1>4. FirstInLine'
  <2>1. SUFFICES ASSUME NEW c \in Calls, Registered(c), ~Borrowed(c),
                        NEW j \in 1 .. Len(toServer'), Under(toServer', j, name[c])
                 PROVE  \E k \in 1 .. j : Under(toServer', k, name[c]) /\ toServer'[k].value = chose[c]
    BY <1>2 DEF FirstInLine, Replies
  <2>2. PICK k \in 1 .. j : Under(toServer, k, name[c]) /\ toServer[k].value = chose[c]
    BY <1>1, <1>2, <2>1 DEF InFlight, FirstInLine, Replies
  <2> QED BY <1>1, <1>2, <2>2
<1>5. StillComing'
  BY DEF StillComing
<1> QED BY <1>3, <1>4, <1>5 DEF InFlight

\* Steps that leave answers and futures alone, but may show a prompt or name a new call.
LEMMA InFlightKept ==
  ASSUME TypeOK, Futures, InFlight, UNCHANGED <<toServer, chose, twice, answer, pending, ws>>,
         prompts \subseteq prompts', name' \in [Calls -> Calls],
         \A b \in 1 .. made : name'[b] = name[b],
         name' = name \/ \A i \in Calls : pending[i] = 0
  PROVE  InFlight'
<1>1. made \in Nat /\ \A c \in prompts : c \in 1 .. made
  <2>1. \A c \in prompts : c \in Calls /\ Awaited(c)
    BY DEF Awaited, TypeOK
  <2> QED BY <2>1 DEF Futures, AwaitedMade, TypeOK, Calls
<1>2. \A c \in Calls : c <= made => (Borrowed(c)' <=> Borrowed(c))
  <2>1. SUFFICES ASSUME NEW c \in Calls, c <= made PROVE Borrowed(c)' <=> Borrowed(c)
    OBVIOUS
  <2>2. c \in 1 .. made /\ 1 .. c - 1 \subseteq 1 .. made
    BY <1>1, <2>1 DEF Calls
  <2> QED BY <2>2 DEF Borrowed
<1>3. \A c \in Calls : Registered(c)' => Registered(c) /\ name' = name
  <2>1. ASSUME NEW c \in Calls, \A i \in Calls : pending[i] = 0 PROVE ~Registered(c)'
    <3>1. pending'[name'[c]] = 0 /\ c # 0
      BY <2>1 DEF Calls
    <3> QED BY <3>1 DEF Registered
  <2> QED BY <2>1 DEF Registered
<1>4. AnswersNamed'
  BY <1>1 DEF InFlight, AnswersNamed, Under
<1>5. AnswersFresh'
  BY DEF InFlight, AnswersFresh, Under
<1>6. FirstAnswerCounts'
  BY <1>2 DEF InFlight, FirstAnswerCounts, Futures, AnsweredMade
<1>7. CASE name' = name
  <2>1. \A c \in Calls : /\ Borrowed(c)' <=> Borrowed(c)
                         /\ Registered(c)' <=> Registered(c)
    BY <1>7 DEF Borrowed, Registered
  <2>2. FirstInLine' /\ StillComing'
    BY <1>7, <2>1 DEF InFlight, FirstInLine, StillComing, Replies, Under
  <2> QED BY <1>4, <1>5, <1>6, <2>2 DEF InFlight
<1>8. CASE name' # name
  <2>1. FirstInLine' /\ StillComing'
    BY <1>3, <1>8 DEF FirstInLine, StillComing
  <2> QED BY <1>4, <1>5, <1>6, <2>1 DEF InFlight
<1> QED BY <1>7, <1>8

\* A prompt: whatever is on its way under its id answered an earlier call, and again.
LEMMA PromptInFlight ==
  ASSUME TypeOK, Futures, InFlight, \A i \in Calls : pending[i] = 0,
         NEW p \in Calls, p = made \/ p = made + 1, p \notin prompts,
         UNCHANGED <<toServer, chose, twice, answer, prompts, ws>>, name' \in [Calls -> Calls],
         \A b \in 1 .. made : name'[b] = name[b],
         Prompt(p, name'[p])
  PROVE  InFlight'
<1>1. made \in Nat /\ \A c \in prompts : c \in 1 .. made
  <2>1. \A c \in prompts : c \in Calls /\ Awaited(c)
    BY DEF Awaited, TypeOK
  <2> QED BY <2>1 DEF Futures, AwaitedMade, TypeOK, Calls
<1>2. \A c \in Calls : c <= made => (Borrowed(c)' <=> Borrowed(c))
  <2>1. SUFFICES ASSUME NEW c \in Calls, c <= made PROVE Borrowed(c)' <=> Borrowed(c)
    OBVIOUS
  <2>2. c \in 1 .. made /\ 1 .. c - 1 \subseteq 1 .. made
    BY <1>1, <2>1 DEF Calls
  <2> QED BY <2>2 DEF Borrowed
<1>3. \A c \in Calls : Registered(c)' => c = p
  <2>1. pending' = [pending EXCEPT ![name'[p]] = p] /\ pending \in [Calls -> {0} \cup Calls]
    BY DEF Prompt, TypeOK
  <2>2. \A i \in Calls : pending'[i] \in {0, p}
    BY <2>1
  <2> QED BY <2>2 DEF Registered, Calls
<1>4. \A j \in 1 .. Len(toServer), i \in Calls : Under(toServer, j, i) => i \in twice
  BY DEF InFlight, AnswersFresh
<1>5. AnswersNamed'
  BY <1>1 DEF InFlight, AnswersNamed, Under
<1>6. AnswersFresh'
  BY <1>4 DEF AnswersFresh, Under
<1>7. FirstAnswerCounts'
  BY <1>2 DEF InFlight, FirstAnswerCounts, Futures, AnsweredMade
<1>8. ASSUME NEW j \in 1 .. Len(toServer), Under(toServer, j, name'[p]) PROVE Borrowed(p)'
  <2>1. name'[p] \in Calls /\ name'[p] \in twice
    BY <1>4, <1>8
  <2>2. PICK b \in prompts : name[b] = name'[p]
    BY <1>8, <2>1 DEF InFlight, AnswersNamed
  <2>3. b \in 1 .. made /\ b # p
    BY <1>1
  <2>4. b \in 1 .. p - 1
    BY <1>1, <2>3 DEF Calls
  <2> QED BY <2>1, <2>2, <2>3, <2>4 DEF Borrowed
<1>9. FirstInLine'
  BY <1>3, <1>8 DEF FirstInLine, Replies, Under
<1>10. StillComing'
  BY <1>3 DEF StillComing, Futures, ChosePrompted
<1> QED BY <1>5, <1>6, <1>7, <1>9, <1>10 DEF InFlight

LEMMA AgentInFlight == TypeOK /\ Futures /\ InFlight /\ Agent => InFlight'
<1> SUFFICES ASSUME TypeOK, Futures, InFlight, Agent PROVE InFlight'
  OBVIOUS
<1>1. UNCHANGED <<toServer, chose, twice, answer, prompts, ws>>
  BY DEF Agent, LlmAnswers, AgentFails, LlmHitsLimit, LlmCallsTools, StartCall, EvaluatorSafe,
         EvaluatorDangerous, EvaluatorRejects, Approved, Answered, ToolReturns, Compressed,
         AgentCleansUp, AgentAborts, SubagentReturns, otherVars, clientVars, sessionVars
<1>2. ASSUME UNCHANGED <<pending, name>> PROVE InFlight'
  <2>1. name' \in [Calls -> Calls]
    BY <1>2 DEF TypeOK
  <2> QED BY <1>1, <1>2, <2>1, InFlightKept
<1>3. ASSUME NEW k \in Kinds, StartCall(k) PROVE InFlight'
  <2>1. /\ made + 1 \in Calls /\ made' = made + 1 /\ made \in Nat /\ pc = "next"
    BY <1>3, BoundsAssumption DEF StartCall, AgentRuns, TypeOK, Calls
  <2>2. \A i \in Calls : pending[i] = 0
    BY <2>1, NoneRegistered
  <2>3. name' \in [Calls -> Calls] /\ \A c \in 1 .. made : name'[c] = name[c]
    BY <1>3, StartNames
  <2>4. made + 1 \notin prompts
    BY <2>1 DEF Futures, AwaitedMade, Awaited
  <2>5. CASE pending' = pending
    BY <1>1, <2>2, <2>3, <2>5, InFlightKept
  <2>6. CASE Prompt(made + 1, name'[made + 1])
    BY <1>1, <2>1, <2>2, <2>3, <2>4, <2>6, PromptInFlight
  <2>7. k \in {"plain", "guarded", "ask", "subagent"}
    BY KindsAssumption
  <2> QED BY <1>3, <2>5, <2>6, <2>7 DEF StartCall
<1>4. CASE EvaluatorDangerous
  <2>1. pc = "evaluating" /\ Prompt(made, name'[made]) /\ name' = name
    BY <1>4 DEF EvaluatorDangerous, AgentRuns
  <2>2. made \in Calls /\ made \notin prompts /\ name' \in [Calls -> Calls]
    BY <2>1 DEF TypeOK, Calls, Futures, EvaluatedFirst, Awaited
  <2>3. \A i \in Calls : pending[i] = 0
    BY <2>1, NoneRegistered
  <2> QED BY <1>1, <2>1, <2>2, <2>3, PromptInFlight
<1> QED
  BY <1>2, <1>3, <1>4 DEF Agent, LlmAnswers, AgentFails, LlmHitsLimit, LlmCallsTools, EvaluatorSafe,
         EvaluatorRejects, Approved, Answered, ToolReturns, Compressed, AgentCleansUp, AgentAborts,
         SubagentReturns, sessionVars

LEMMA ClientInFlight == TypeOK /\ Futures /\ InFlight /\ Client => InFlight'
<1> SUFFICES ASSUME TypeOK, Futures, InFlight, Client PROVE InFlight'
  OBVIOUS
<1>1. ASSUME NEW m \in Message, m.type # "answer", ClientSends(m), UNCHANGED <<chose, twice>>
      PROVE  InFlight'
  BY <1>1, OtherSent DEF ClientSends, sessionVars, agentVars
<1>2. CASE ClientCompressed
  <2>1. Msg("compression_done", 0, "none") \in Message
        /\ Msg("compression_done", 0, "none").type = "compression_done"
    BY DEF Msg, Message
  <2> QED BY <1>1, <1>2, <2>1 DEF ClientCompressed
<1>3. ASSUME NEW x \in Modes \cup {"unknown"}, ClientSetsMode(x) PROVE InFlight'
  <2>1. Msg("set_mode", 0, x) \in Message /\ Msg("set_mode", 0, x).type = "set_mode"
    BY DEF Msg, Message
  <2> QED BY <1>1, <1>3, <2>1 DEF ClientSetsMode, ClientSendsExtra
<1>4. CASE ClientAborts
  <2>1. Msg("abort", 0, "none") \in Message /\ Msg("abort", 0, "none").type = "abort"
    BY DEF Msg, Message
  <2> QED BY <1>1, <1>4, <2>1 DEF ClientAborts, ClientSendsExtra
<1>5. CASE ClientLeaves
  <2>1. PICK k \in 0 .. Len(toServer) : toServer' = SubSeq(toServer, 1, k)
    BY <1>5 DEF ClientLeaves
  <2>2. toServer \in Seq(Message)
    BY DEF TypeOK
  <2>3. Len(toServer') \in 0 .. Len(toServer) /\ \A j \in 1 .. Len(toServer') : toServer'[j] = toServer[j]
    BY <2>1, <2>2
  <2> QED BY <1>5, <2>3, Truncated DEF ClientLeaves, sessionVars, agentVars
<1> QED BY <1>2, <1>3, <1>4, <1>5, FirstSent, RepeatSent DEF Client

LEMMA ReceiveInFlight == TypeOK /\ Futures /\ InFlight /\ Receive => InFlight'
<1> SUFFICES ASSUME TypeOK, Futures, InFlight, Receive PROVE InFlight'
  OBVIOUS
<1>1. CASE RecvAnswer
  <2>1. /\ toServer # <<>> /\ toServer' = Tail(toServer) /\ Head(toServer).type = "answer"
        /\ UNCHANGED <<chose, twice, prompts, name, made, ws>>
    BY <1>1 DEF RecvAnswer, Receives, agentVars
  <2>2. /\ Head(toServer) = toServer[1] /\ toServer[1] \in Message /\ 1 \in 1 .. Len(toServer)
    <3>1. toServer \in Seq(Message) /\ toServer # <<>>
      BY <2>1 DEF TypeOK
    <3> QED BY <3>1
  <2> DEFINE r == toServer[1].call
             v == toServer[1].value
  <2>3. r \in Calls /\ v \in {"yes", "no"} /\ Under(toServer, 1, r)
    BY <2>1, <2>2 DEF Message, Under
  <2>4. /\ pending' = [pending EXCEPT ![r] = 0]
        /\ answer' = IF pending[r] = 0 THEN answer ELSE [answer EXCEPT ![pending[r]] = v]
    BY <1>1, <2>2 DEF RecvAnswer
  <2> HIDE DEF r, v
  <2>5. AnswersNamed' /\ AnswersFresh' /\ FirstInLine' /\ StillComing'
    <3>1. r \in {0} \cup Calls /\ r # 0
      BY <2>3 DEF Calls
    <3>2. /\ toServer # <<>> /\ toServer' = Tail(toServer)
          /\ UNCHANGED <<chose, twice, prompts, name, made, ws>>
      BY <2>1
    <3> QED BY <2>3, <2>4, <3>1, <3>2, PoppedAnswers
  <2>6. \A c \in Calls : Borrowed(c)' <=> Borrowed(c)
    BY <2>1 DEF Borrowed
  <2>7. CASE pending[r] = 0
    BY <2>1, <2>4, <2>5, <2>6, <2>7 DEF InFlight, FirstAnswerCounts
  <2>8. CASE pending[r] # 0
    <3>1. pending[r] = made /\ name[made] = r /\ made \in Calls
      BY <2>3, <2>8 DEF Futures, FutureOfCurrent, TypeOK
    <3>2. Registered(made)
      BY <3>1 DEF Registered
    <3>3. ~Borrowed(made) => v = chose[made]
      <4>1. SUFFICES ASSUME ~Borrowed(made) PROVE v = chose[made]
        OBVIOUS
      <4>2. PICK k \in 1 .. 1 : toServer[k].value = chose[made]
        BY <2>2, <2>3, <3>1, <3>2, <4>1 DEF InFlight, FirstInLine, Replies
      <4> QED BY <4>2 DEF v
    <3>4. /\ answer'[made] = v
          /\ \A c \in Calls : c # made => answer'[c] = answer[c]
      BY <2>4, <2>8, <3>1 DEF TypeOK
    <3>5. FirstAnswerCounts'
      BY <2>1, <2>6, <3>3, <3>4 DEF InFlight, FirstAnswerCounts
    <3> QED BY <2>5, <3>5 DEF InFlight
  <2> QED BY <2>7, <2>8
<1>2. CASE RecvCompressionDone \/ RecvSetMode \/ RecvAbort
  <2>1. /\ toServer # <<>> /\ toServer' = Tail(toServer) /\ Head(toServer).type # "answer"
        /\ UNCHANGED <<chose, twice, prompts, name, made, ws, answer, pending>>
    BY <1>2 DEF RecvCompressionDone, RecvSetMode, RecvAbort, Receives, agentVars, sessionVars
  <2>2. Head(toServer) = toServer[1]
    <3>1. toServer \in Seq(Message) /\ toServer # <<>>
      BY <2>1 DEF TypeOK
    <3> QED BY <3>1
  <2>3. AnswersNamed' /\ AnswersFresh' /\ FirstInLine' /\ StillComing'
    <3> DEFINE r == 0
    <3>1. r \in {0} \cup Calls /\ r = 0
      OBVIOUS
    <3> HIDE DEF r
    <3> QED BY <2>1, <2>2, <3>1, PoppedAnswers
  <2>4. \A c \in Calls : Borrowed(c)' <=> Borrowed(c)
    BY <2>1 DEF Borrowed
  <2> QED BY <2>1, <2>3, <2>4 DEF InFlight, FirstAnswerCounts
<1>3. CASE RecvDisconnect
  <2>1. UNCHANGED <<toServer, chose, twice, answer, pending, ws, prompts, name>>
    BY <1>3 DEF RecvDisconnect, clientVars, sessionVars, agentVars
  <2>2. name' \in [Calls -> Calls]
    BY <2>1 DEF TypeOK
  <2> QED BY <2>1, <2>2, InFlightKept
<1> QED BY <1>1, <1>2, <1>3 DEF Receive

LEMMA InFlightStep == TypeOK /\ Futures /\ InFlight /\ [Next]_vars => InFlight'
<1> SUFFICES ASSUME TypeOK, Futures, InFlight, [Next]_vars PROVE InFlight'
  OBVIOUS
<1>1. ASSUME UNCHANGED <<toServer, chose, twice, answer, pending, ws, name>>, prompts \subseteq prompts'
      PROVE  InFlight'
  <2>1. name' \in [Calls -> Calls]
    BY <1>1 DEF TypeOK
  <2> QED BY <1>1, <2>1, InFlightKept
<1>2. CASE Send
  <2>1. UNCHANGED <<toServer, chose, twice, answer, pending, ws, name>> /\ prompts \subseteq prompts'
    BY <1>2 DEF Send, SendEvent, SendToNobody, clientVars, agentVars
  <2> QED BY <1>1, <2>1
<1>3. CASE HandlerStopsReceiving \/ HandlerCancelsAgent \/ Subagent \/ UNCHANGED vars
  <2>1. UNCHANGED <<toServer, chose, twice, answer, pending, ws, name, prompts>>
    BY <1>3 DEF HandlerStopsReceiving, HandlerCancelsAgent, Subagent, SubagentFinishes, SubagentErrs,
                SubagentAwaitsCompression, vars, clientVars, sessionVars, agentVars
  <2> QED BY <1>1, <2>1
<1>4. CASE HandlerReturns
  <2>1. /\ toServer' = <<>> /\ ws' = "closed"
        /\ UNCHANGED <<chose, twice, prompts, name, answer, pending>>
    BY <1>4 DEF HandlerReturns, sessionVars, agentVars
  <2>2. Len(toServer') \in 0 .. Len(toServer) /\ \A j \in 1 .. Len(toServer') : toServer'[j] = toServer[j]
    <3>1. Len(toServer) \in Nat
      BY DEF TypeOK
    <3> QED BY <2>1, <3>1
  <2> QED BY <2>1, <2>2, Truncated
<1> QED BY <1>2, <1>3, <1>4, ClientInFlight, ReceiveInFlight, AgentInFlight DEF Next, Finished, Main

LEMMA AnswersAlways == Spec => [](Futures /\ InFlight)
<1>1. Init => Futures /\ InFlight
  <2> SUFFICES ASSUME Init PROVE Futures /\ InFlight
    OBVIOUS
  <2>1. Futures
    BY DEF Init, Futures, StartedMade, FutureOfCurrent, AnsweredMade, AwaitedMade, Awaited,
           ChosePrompted, EvaluatedFirst
  <2>2. InFlight
    BY DEF Init, InFlight, AnswersNamed, AnswersFresh, FirstInLine, StillComing, FirstAnswerCounts
  <2> QED BY <2>1, <2>2
<1> QED BY <1>1, FuturesStep, InFlightStep, TypeCorrect, PTL DEF Spec

\* The answer a call gets is the first one to its own prompt, however many calls share
\* its tool_id and however many repeats are in flight, unless an earlier call shared the id
\* and an answer under it was sent again.
THEOREM FirstAnswerAlwaysCounts == Spec => []FirstAnswerCounts
<1>1. InFlight => FirstAnswerCounts
  BY DEF InFlight
<1> QED BY <1>1, AnswersAlways, PTL

\* What allowed a started tool to act is never taken back.
LEMMA GuardedStep ==
  TypeOK /\ Futures /\ InFlight /\ GuardedWereAllowed /\ [Next]_vars => GuardedWereAllowed'
<1> DEFINE Allowed(c) == c \in examined \/ chose[c] = "yes" \/ (answer[c] = "yes" /\ Borrowed(c))
<1> SUFFICES ASSUME TypeOK, Futures, InFlight, GuardedWereAllowed, [Next]_vars,
                    NEW c \in started', kind'[c] = "guarded"
             PROVE  Allowed(c)'
  BY DEF GuardedWereAllowed
<1>1. started \subseteq 1 .. made /\ made \in Nat /\ 1 .. made \subseteq Calls
  BY BoundsAssumption DEF Futures, StartedMade, TypeOK, Calls
<1>2. ASSUME UNCHANGED <<chose, twice, answer>>, examined \subseteq examined',
             \A b \in 1 .. made : name'[b] = name[b], NEW d \in started, Allowed(d)
      PROVE  Allowed(d)'
  <2>1. Borrowed(d) => Borrowed(d)'
    BY <1>1, <1>2, BorrowedStays
  <2> QED BY <1>2, <2>1
<1>3. CASE UNCHANGED <<chose, twice, answer, started, kind, examined, name>>
  BY <1>2, <1>3 DEF GuardedWereAllowed
<1>4. CASE Agent
  <2>1. UNCHANGED <<chose, twice, answer>>
    BY <1>4 DEF Agent, LlmAnswers, AgentFails, LlmHitsLimit, LlmCallsTools, StartCall, EvaluatorSafe,
         EvaluatorDangerous, EvaluatorRejects, Approved, Answered, ToolReturns, Compressed,
         AgentCleansUp, AgentAborts, SubagentReturns, otherVars, clientVars, sessionVars
  <2>2. CASE UNCHANGED <<started, kind, examined, name>>
    BY <1>3, <2>1, <2>2
  <2>3. ASSUME NEW k \in Kinds, StartCall(k) PROVE Allowed(c)'
    <3>1. /\ examined \subseteq examined' /\ made + 1 \in Calls
          /\ kind' = [kind EXCEPT ![made + 1] = k] /\ started' \subseteq started \cup {made + 1}
          /\ k = "guarded" /\ made + 1 \in started' => made + 1 \in started \/ made + 1 \in examined'
      <4>1. made + 1 \in Calls
        BY <2>3, BoundsAssumption DEF StartCall, TypeOK, Calls
      <4>2. kind' = [kind EXCEPT ![made + 1] = k]  BY <2>3 DEF StartCall
      <4>3. CASE k # "guarded"
        BY <2>3, <4>1, <4>2, <4>3, KindsAssumption DEF StartCall, Act, Prompt
      <4>4. CASE k = "guarded" /\ mode = "standard"  BY <2>3, <4>1, <4>2, <4>4 DEF StartCall, Prompt
      <4>5. CASE k = "guarded" /\ mode # "standard"  BY <2>3, <4>1, <4>2, <4>5 DEF StartCall, Act
      <4> QED BY <4>3, <4>4, <4>5
    <3>2. \A b \in 1 .. made : name'[b] = name[b]
      BY <2>3, StartNames
    <3>3. CASE c \in started
      <4>1. kind'[c] = kind[c]
        BY <1>1, <3>1, <3>3 DEF TypeOK
      <4>2. Allowed(c)
        BY <3>3, <4>1 DEF GuardedWereAllowed
      <4> QED BY <1>2, <2>1, <3>1, <3>2, <3>3, <4>2
    <3>4. CASE c = made + 1 /\ c \notin started
      BY <3>1, <3>4 DEF TypeOK
    <3> QED BY <3>1, <3>3, <3>4
  <2>4. CASE EvaluatorSafe \/ Approved
    <3>1. /\ started' = started \cup {made} /\ UNCHANGED <<kind, examined, name>> /\ made \in Calls
      BY <2>4 DEF EvaluatorSafe, Approved, AgentRuns, Act, TypeOK, Calls
    <3>2. CASE c \in started
      <4>1. Allowed(c)
        BY <3>1, <3>2 DEF GuardedWereAllowed
      <4> QED BY <1>2, <2>1, <3>1, <3>2, <4>1
    <3>3. CASE c = made
      <4>1. Allowed(made)
        <5>1. CASE EvaluatorSafe
          BY <5>1 DEF EvaluatorSafe, AgentRuns, Futures, EvaluatedFirst
        <5>2. CASE Approved
          BY <3>1, <5>2 DEF Approved, InFlight, FirstAnswerCounts
        <5> QED BY <2>4, <5>1, <5>2
      <4>2. examined \subseteq examined' /\ made \in started' /\ \A b \in 1 .. made : name'[b] = name[b]
        BY <3>1
      <4>3. Borrowed(made) => Borrowed(c)'
        <5>1. twice' = twice /\ name' = name
          BY <2>1, <3>1
        <5> QED BY <3>3, <5>1 DEF Borrowed
      <4>4. \/ made \in examined' \/ chose'[made] = "yes"
            \/ (answer'[made] = "yes" /\ Borrowed(made))
        BY <2>1, <3>1, <4>1
      <4> QED BY <3>3, <4>3, <4>4
    <3> QED BY <3>1, <3>2, <3>3
  <2> QED BY <1>4, <2>2, <2>3, <2>4
      DEF Agent, LlmAnswers, AgentFails, LlmHitsLimit, LlmCallsTools, EvaluatorDangerous, EvaluatorRejects,
          Answered, ToolReturns, Compressed, AgentCleansUp, AgentAborts, SubagentReturns
<1>5. CASE ~Agent
  <2>1. UNCHANGED <<made, started, kind, examined, name>>
    BY <1>5, OthersLeaveCalls DEF Next, Finished
  <2>2. c \in started /\ c \in Calls /\ c <= made /\ Allowed(c)
    BY <1>1, <2>1 DEF GuardedWereAllowed, Calls
  <2>3. twice \subseteq twice'
    BY <1>5 DEF Next, Finished, Client, ClientAnswers, ClientRepeats, ClientCompressed, ClientSetsMode,
          ClientAborts, ClientLeaves, ClientSendsExtra, ClientSends, Receive, RecvAnswer,
          RecvCompressionDone, RecvSetMode, RecvAbort, RecvDisconnect, Receives, Send, SendEvent,
          SendToNobody, Main, HandlerStopsReceiving, HandlerCancelsAgent, HandlerReturns, Subagent,
          SubagentFinishes, SubagentErrs, SubagentAwaitsCompression, vars, clientVars
  <2>4. Borrowed(c) => Borrowed(c)'
    BY <1>1, <2>1, <2>2, <2>3, BorrowedStays
  <2>5. chose[c] = "yes" => chose'[c] = "yes"
    <3>1. ASSUME NEW d \in Calls, NEW v \in {"yes", "no"}, ClientAnswers(d, v), chose[c] = "yes"
          PROVE  chose'[c] = "yes"
      BY <2>2, <3>1 DEF ClientAnswers, TypeOK
    <3> QED BY <1>5, <3>1 DEF Next, Finished, Client, ClientRepeats, ClientCompressed, ClientSetsMode,
          ClientAborts, ClientLeaves, ClientSendsExtra, Receive, RecvAnswer,
          RecvCompressionDone, RecvSetMode, RecvAbort, RecvDisconnect, Receives, Send, SendEvent,
          SendToNobody, Main, HandlerStopsReceiving, HandlerCancelsAgent, HandlerReturns, Subagent,
          SubagentFinishes, SubagentErrs, SubagentAwaitsCompression, vars, clientVars
  <2>6. answer[c] = "yes" => answer'[c] = "yes"
    <3>1. CASE RecvAnswer
      <4>1. PICK i \in Calls, v \in {"yes", "no"} :
              answer' = IF pending[i] = 0 THEN answer ELSE [answer EXCEPT ![pending[i]] = v]
        <5>1. toServer # <<>> /\ Head(toServer) \in Message /\ Head(toServer).type = "answer"
          BY <3>1, HeadTailProperties DEF RecvAnswer, Receives, TypeOK
        <5>2. Head(toServer).call \in Calls /\ Head(toServer).value \in {"yes", "no"}
          BY <5>1 DEF Message
        <5> QED BY <3>1, <5>2 DEF RecvAnswer
      <4>2. pending[i] # 0 => pending[i] = made /\ answer[made] = "none"
        BY DEF Futures, FutureOfCurrent
      <4> QED BY <2>2, <4>1, <4>2 DEF TypeOK
    <3>2. CASE ~RecvAnswer
      BY <1>5, <3>2 DEF Next, Finished, Client, ClientAnswers, ClientRepeats, ClientCompressed,
          ClientSetsMode, ClientAborts, ClientLeaves, ClientSendsExtra, ClientSends, Receive,
          RecvCompressionDone, RecvSetMode, RecvAbort, RecvDisconnect, Receives, Send, SendEvent,
          SendToNobody, Main, HandlerStopsReceiving, HandlerCancelsAgent, HandlerReturns, Subagent,
          SubagentFinishes, SubagentErrs, SubagentAwaitsCompression, vars, sessionVars
    <3> QED BY <3>1, <3>2
  <2> QED BY <2>1, <2>2, <2>4, <2>5, <2>6
<1> QED BY <1>4, <1>5

\* A tool that needs confirmation acts only if the first answer to its own prompt approved
\* it or the safety rules examined it, whatever ids calls share and whatever the client
\* sends and repeats; a borrowed answer is the one exception.
THEOREM GuardedToolsWereAllowed == Spec => []GuardedWereAllowed
<1>1. Init => GuardedWereAllowed
  BY DEF Init, GuardedWereAllowed
<1> QED BY <1>1, GuardedStep, AnswersAlways, TypeCorrect, PTL DEF Spec


-----------------------------------------------------------------------------
(* The order of what the client is told: results come before a request to compress and
   before the end, for any number of calls, client messages and modes. *)

Result(c) == Ev("tool_result", c)

\* The result of c is among the first n events of the queue, or has been shown.
Reported(c, n) == c \in shown \/ \E j \in 1 .. n : outbound[j] = Result(c)

\* What the results of earlier calls must come before.
Ordered ==
  ws = "open" =>
    \A i \in 1 .. Len(outbound) :
      outbound[i].type \in {"compressing", "done"} =>
        \A c \in started : Reported(c, i - 1)

\* Where the current call may be at work, or its cleanup under way.
Acting == {"tool", "sub", "unwinding"}

\* Until the run ends only the call that is still acting has no result.
Delivered ==
  ws = "open" /\ pc # "ended" =>
    \A c \in started : Reported(c, Len(outbound)) \/ (c = made /\ pc \in Acting)

CompressionTold == \E j \in 1 .. Len(toServer) : toServer[j].type = "compression_done"

\* The one token of a compression is the request in outbound, the client's knowledge of
\* it, its reply, or the event that wakes the agent: nothing passes through twice.
Token ==
  pc # "ended" =>
    /\ \A i \in 1 .. Len(outbound) :
         /\ outbound[i].type # "done"
         /\ outbound[i].type = "compressing" =>
              pc = "compress" /\ i = Len(outbound) /\ ~asked /\ ~CompressionTold /\ ~woken
    /\ asked => pc = "compress" /\ ~CompressionTold /\ ~woken
    /\ CompressionTold => pc = "compress" /\ ~woken
    /\ \A i, j \in 1 .. Len(toServer) :
         toServer[i].type = "compression_done" /\ toServer[j].type = "compression_done" => i = j
    /\ told # "done"

Order == Ordered /\ Delivered /\ Token /\ ResultsBeforeCompression /\ DoneAfterResults

-----------------------------------------------------------------------------
(* What the agent task emits *)

\* A request to compress or the end follows the results of all calls that have acted.
LEMMA EmitOrder ==
  ASSUME TypeOK, Order, NEW es \in Seq(Event), Emit(es), UNCHANGED clientVars,
         pc # "ended", pc = "compress" => woken,
         \A i \in 1 .. Len(es) : es[i].type = "done" => pc' = "ended",
         \A i \in 1 .. Len(es) :
           es[i].type = "compressing" => pc' = "compress" /\ i = Len(es) /\ ~woken',
         \A i \in 1 .. Len(es) :
           es[i].type \in {"compressing", "done"} =>
             /\ started' = started
             /\ pc \in Acting => \E j \in 1 .. i - 1 : es[j] = Result(made),
         pc' # "ended" =>
           \A c \in started' :
             \/ /\ c \in started
                /\ \/ pc \notin Acting \/ c # made
                   \/ \E j \in 1 .. Len(es) : es[j] = Result(made)
             \/ c = made' /\ pc' \in Acting
  PROVE  Order'
<1>1. /\ outbound \in Seq(Event) /\ outbound' = outbound \o es
      /\ Len(outbound) \in Nat /\ Len(es) \in Nat
      /\ Len(outbound') = Len(outbound) + Len(es)
      /\ \A i \in 1 .. Len(outbound) : outbound'[i] = outbound[i]
      /\ \A i \in 1 .. Len(es) : outbound'[Len(outbound) + i] = es[i]
  BY ConcatAt DEF TypeOK, Emit
<1>2. /\ \A i \in 1 .. Len(outbound) : outbound[i].type \notin {"compressing", "done"}
      /\ ~asked /\ ~CompressionTold /\ told # "done"
  BY DEF Order, Token
<1>3. /\ ws' = ws /\ shown' = shown /\ asked' = asked /\ told' = told /\ toServer' = toServer
  BY DEF clientVars
<1>4. \A i \in 1 .. Len(outbound') :
        i \in 1 .. Len(outbound) \/ \E k \in 1 .. Len(es) : i = Len(outbound) + k
  <2>1. SUFFICES ASSUME NEW i \in 1 .. Len(outbound'), i \notin 1 .. Len(outbound)
                 PROVE  \E k \in 1 .. Len(es) : i = Len(outbound) + k
    OBVIOUS
  <2>2. i - Len(outbound) \in 1 .. Len(es) /\ i = Len(outbound) + (i - Len(outbound))
    BY <1>1, <2>1
  <2> QED BY <2>2
<1>5. Ordered'
  <2>1. SUFFICES ASSUME ws = "open", NEW i \in 1 .. Len(outbound'),
                        outbound'[i].type \in {"compressing", "done"}, NEW c \in started'
                 PROVE  c \in shown \/ \E j \in 1 .. i - 1 : outbound'[j] = Result(c)
    BY <1>3 DEF Ordered, Reported, Result, Ev
  <2>2. PICK k \in 1 .. Len(es) : i = Len(outbound) + k
    BY <1>1, <1>2, <1>4, <2>1
  <2>3. /\ c \in started
        /\ pc \in Acting => \E j \in 1 .. k - 1 : es[j] = Result(made)
    BY <1>1, <2>1, <2>2
  <2>4. Reported(c, Len(outbound)) \/ (c = made /\ pc \in Acting)
    BY <2>1, <2>3 DEF Order, Delivered
  <2>5. CASE Reported(c, Len(outbound))
    <3>1. 1 .. Len(outbound) \subseteq 1 .. i - 1
      BY <1>1, <2>2
    <3> QED BY <1>1, <2>5, <3>1 DEF Reported
  <2>6. CASE c = made /\ pc \in Acting
    <3>1. PICK j \in 1 .. k - 1 : es[j] = Result(c)
      BY <2>3, <2>6
    <3>2. j \in 1 .. Len(es) /\ Len(outbound) + j \in 1 .. i - 1
      BY <1>1, <2>2
    <3> QED BY <1>1, <3>1, <3>2
  <2> QED BY <2>4, <2>5, <2>6
<1>6. Delivered'
  <2>1. SUFFICES ASSUME ws = "open", pc' # "ended", NEW c \in started',
                        c # made' \/ pc' \notin Acting
                 PROVE  c \in shown \/ \E j \in 1 .. Len(outbound') : outbound'[j] = Result(c)
    BY <1>3 DEF Delivered, Reported, Result, Ev
  <2>2. /\ c \in started
        /\ \/ pc \notin Acting \/ c # made
           \/ \E j \in 1 .. Len(es) : es[j] = Result(made)
    BY <2>1
  <2>3. Reported(c, Len(outbound)) \/ (c = made /\ pc \in Acting)
    BY <2>1, <2>2 DEF Order, Delivered
  <2>4. CASE Reported(c, Len(outbound))
    <3>1. 1 .. Len(outbound) \subseteq 1 .. Len(outbound')
      BY <1>1
    <3> QED BY <1>1, <2>4, <3>1 DEF Reported
  <2>5. CASE c = made /\ pc \in Acting
    <3>1. PICK j \in 1 .. Len(es) : es[j] = Result(c)
      BY <2>2, <2>5
    <3>2. Len(outbound) + j \in 1 .. Len(outbound')
      BY <1>1
    <3> QED BY <1>1, <3>1, <3>2
  <2> QED BY <2>3, <2>4, <2>5
<1>7. Token'
  <2>1. ASSUME pc' # "ended", NEW i \in 1 .. Len(outbound')
        PROVE  /\ outbound'[i].type # "done"
               /\ outbound'[i].type = "compressing" =>
                    pc' = "compress" /\ i = Len(outbound') /\ ~woken'
    <3>1. CASE i \in 1 .. Len(outbound)
      BY <1>1, <1>2, <3>1
    <3>2. ASSUME NEW k \in 1 .. Len(es), i = Len(outbound) + k
          PROVE  /\ outbound'[i].type # "done"
                 /\ outbound'[i].type = "compressing" =>
                      pc' = "compress" /\ i = Len(outbound') /\ ~woken'
      BY <1>1, <2>1, <3>2
    <3> QED BY <1>4, <3>1, <3>2
  <2>2. CompressionTold' = CompressionTold
    BY <1>3 DEF CompressionTold
  <2>3. \A i, j \in 1 .. Len(toServer) :
          toServer[i].type = "compression_done" /\ toServer[j].type = "compression_done" => i = j
    BY <1>2 DEF CompressionTold
  <2> QED BY <1>2, <1>3, <2>1, <2>2, <2>3 DEF Token
<1>8. ResultsBeforeCompression' /\ DoneAfterResults'
  BY <1>2, <1>3 DEF ResultsBeforeCompression, DoneAfterResults
<1> QED BY <1>5, <1>6, <1>7, <1>8 DEF Order

\* Nothing is emitted that others must come before.
LEMMA QuietOrder ==
  ASSUME TypeOK, Order, NEW es \in Seq(Event), Emit(es), UNCHANGED clientVars,
         pc # "ended", pc = "compress" => woken,
         \A i \in 1 .. Len(es) : es[i].type \notin {"compressing", "done"},
         pc' # "ended" =>
           \A c \in started' :
             \/ /\ c \in started
                /\ \/ pc \notin Acting \/ c # made
                   \/ \E j \in 1 .. Len(es) : es[j] = Result(made)
             \/ c = made' /\ pc' \in Acting
  PROVE  Order'
BY EmitOrder

\* The loop head emits what the call that ended left to emit, and its request after it.
LEMMA LoopHeadOrder ==
  ASSUME TypeOK, Order, NEW es \in Seq(Event), NEW n, NEW lc, LoopHead(es, n, lc),
         UNCHANGED clientVars, started' = started,
         pc # "ended", pc = "compress" => woken,
         \A i \in 1 .. Len(es) : es[i].type \notin {"compressing", "done"},
         pc \in Acting => \E j \in 1 .. Len(es) : es[j] = Result(made)
  PROVE  Order'
<1>1. CASE n >= CompressAfter /\ ~lc
  <2> DEFINE fs == es \o <<Ev("compressing", 0)>>
  <2>1. /\ Emit(fs) /\ woken' = FALSE /\ pc' = "compress"
    BY <1>1 DEF LoopHead
  <2>2. /\ <<Ev("compressing", 0)>> \in Seq(Event)
        /\ Len(<<Ev("compressing", 0)>>) = 1
        /\ <<Ev("compressing", 0)>>[1] = Ev("compressing", 0)
    BY EventsTyped
  <2>3. /\ fs \in Seq(Event) /\ Len(es) \in Nat /\ Len(fs) = Len(es) + 1
        /\ \A i \in 1 .. Len(es) : fs[i] = es[i]
        /\ fs[Len(es) + 1].type = "compressing"
    BY <2>2, ConcatAt DEF Ev
  <2>4. \A i \in 1 .. Len(fs) :
          /\ fs[i].type # "done"
          /\ fs[i].type = "compressing" => i = Len(es) + 1
    <3>1. \A i \in 1 .. Len(fs) : i \in 1 .. Len(es) \/ i = Len(es) + 1
      BY <2>3
    <3> QED BY <2>3, <3>1
  <2> HIDE DEF fs
  <2>5. ASSUME NEW i \in 1 .. Len(fs), fs[i].type \in {"compressing", "done"}, pc \in Acting
        PROVE  \E j \in 1 .. i - 1 : fs[j] = Result(made)
    <3>1. i - 1 = Len(es)
      BY <2>3, <2>4, <2>5
    <3> QED BY <2>3, <2>5, <3>1
  <2>6. pc \in Acting => \E j \in 1 .. Len(fs) : fs[j] = Result(made)
    <3>1. 1 .. Len(es) \subseteq 1 .. Len(fs)
      BY <2>3
    <3> QED BY <2>3, <3>1
  <2> QED BY <2>1, <2>3, <2>4, <2>5, <2>6, EmitOrder
<1>2. CASE ~(n >= CompressAfter /\ ~lc)
  <2>1. Emit(es) /\ pc' = "llm"
    BY <1>2 DEF LoopHead
  <2> QED BY <2>1, QuietOrder
<1> QED BY <1>1, <1>2

\* The queues of at most two events.
LEMMA EmptyAndOne ==
  /\ Len(<<>>) = 0 /\ <<>> \in Seq(Event)
  /\ \A e \in Event : <<e>> \in Seq(Event) /\ Len(<<e>>) = 1 /\ <<e>>[1] = e
  /\ \A e, f \in Event : /\ <<e, f>> \in Seq(Event) /\ Len(<<e, f>>) = 2
                         /\ <<e, f>>[1] = e /\ <<e, f>>[2] = f
OBVIOUS

LEMMA CompletesOrder ==
  ASSUME TypeOK, Order, Completes, UNCHANGED clientVars, started' = started,
         pc \in {"evaluating", "asking", "tool"}
  PROVE  Order'
<1> DEFINE result == Ev("tool_result", made)
<1>1. made \in Calls
  BY DEF TypeOK, Calls
<1> DEFINE rs == <<result>>
<1>2. /\ rs \in Seq(Event) /\ Len(rs) = 1 /\ rs[1] = Result(made) /\ rs[1].type = "tool_result"
  <2>1. result \in Event /\ result.type = "tool_result" /\ result = Result(made)
    BY <1>1 DEF Result, Ev, Event
  <2> QED BY <2>1, EmptyAndOne
<1> HIDE DEF rs
<1>3. /\ \A i \in 1 .. Len(rs) : rs[i].type \notin {"compressing", "done"}
      /\ \E j \in 1 .. Len(rs) : rs[j] = Result(made)
  <2>1. \A i \in 1 .. Len(rs) : i = 1
    BY <1>2
  <2>2. 1 \in 1 .. Len(rs)
    BY <1>2
  <2> QED BY <1>2, <2>1, <2>2
<1>4. CASE LoopHead(rs, iter + 1, FALSE)
  <2>1. pc # "ended" /\ pc # "compress"
    OBVIOUS
  <2> QED BY <1>2, <1>4, <1>3, <2>1, LoopHeadOrder
<1>5. CASE /\ Emit(<<result, Ev("compressing", 0)>>)
           /\ woken' = FALSE /\ pc' = "compress"
  <2> DEFINE es == <<result, Ev("compressing", 0)>>
  <2>1. /\ es \in Seq(Event) /\ Len(es) = 2
        /\ es[1] = Result(made) /\ es[1].type = "tool_result" /\ es[2].type = "compressing"
    BY <1>1, EventsTyped DEF Result, Ev
  <2> HIDE DEF es
  <2>2. \A i \in 1 .. Len(es) : es[i].type # "done" /\ (es[i].type = "compressing" => i = 2)
    BY <2>1
  <2>3. Emit(es)
    BY <1>5 DEF es
  <2>4. \A i \in 1 .. Len(es) : es[i].type \in {"compressing", "done"} =>
          \E j \in 1 .. i - 1 : es[j] = Result(made)
    BY <2>1, <2>2
  <2>5. \E j \in 1 .. Len(es) : es[j] = Result(made)
    BY <2>1
  <2> QED BY <1>5, <2>1, <2>2, <2>3, <2>4, <2>5, EmitOrder
<1>6. CASE Emit(rs) /\ pc' = "next"
  BY <1>2, <1>6, <1>3, QuietOrder
<1> QED BY <1>4, <1>5, <1>6 DEF Completes, rs

\* The run ends with no call acting.
LEMMA EndsOrder ==
  ASSUME TypeOK, Order, UNCHANGED clientVars, started' = started,
         pc \in {"llm", "compress"}, pc = "compress" => woken,
         \/ Ends(<<Ev("done", 0)>>) \/ Ends(<<Ev("error", 0)>>)
         \/ Ends(<<Ev("error", 0), Ev("done", 0)>>)
  PROVE  Order'
<1>1. PICK es \in Seq(Event) :
        Ends(es) /\ \A i \in 1 .. Len(es) : es[i].type # "compressing"
  <2>1. /\ Ev("done", 0) \in Event /\ Ev("error", 0) \in Event
        /\ Ev("done", 0).type = "done" /\ Ev("error", 0).type = "error"
    BY DEF Ev, Event
  <2>2. CASE Ends(<<Ev("done", 0)>>)
    <3> DEFINE es == <<Ev("done", 0)>>
    <3>1. es \in Seq(Event) /\ Len(es) = 1 /\ es[1].type = "done"
      BY <2>1, EmptyAndOne
    <3> HIDE DEF es
    <3>2. \A i \in 1 .. Len(es) : es[i].type # "compressing"
      BY <3>1
    <3> QED BY <2>2, <3>1, <3>2 DEF es
  <2>3. CASE Ends(<<Ev("error", 0)>>)
    <3> DEFINE es == <<Ev("error", 0)>>
    <3>1. es \in Seq(Event) /\ Len(es) = 1 /\ es[1].type = "error"
      BY <2>1, EmptyAndOne
    <3> HIDE DEF es
    <3>2. \A i \in 1 .. Len(es) : es[i].type # "compressing"
      BY <3>1
    <3> QED BY <2>3, <3>1, <3>2 DEF es
  <2>4. CASE Ends(<<Ev("error", 0), Ev("done", 0)>>)
    <3> DEFINE es == <<Ev("error", 0), Ev("done", 0)>>
    <3>1. es \in Seq(Event) /\ Len(es) = 2 /\ es[1].type = "error" /\ es[2].type = "done"
      BY <2>1, EmptyAndOne
    <3> HIDE DEF es
    <3>2. \A i \in 1 .. Len(es) : es[i].type # "compressing"
      BY <3>1
    <3> QED BY <2>4, <3>1, <3>2 DEF es
  <2> QED BY <2>2, <2>3, <2>4
<1> QED BY <1>1, EmitOrder DEF Ends, Acting

LEMMA AgentOrder == TypeOK /\ Order /\ Agent => Order'
<1> SUFFICES ASSUME TypeOK, Order, Agent PROVE Order'
  OBVIOUS
<1>1. UNCHANGED clientVars
  BY DEF Agent, LlmAnswers, AgentFails, LlmHitsLimit, LlmCallsTools, StartCall, EvaluatorSafe,
         EvaluatorDangerous, EvaluatorRejects, Approved, Answered, ToolReturns, Compressed,
         AgentCleansUp, AgentAborts, SubagentReturns, otherVars, clientVars, handlerVars
<1>2. ASSUME NEW e \in Event, e.type \notin {"compressing", "done"}, Emit(<<e>>),
             pc # "ended", pc = "compress" => woken,
             pc' # "ended" => /\ pc \notin Acting \/ (pc' \in Acting /\ made' = made)
                              /\ \A c \in started' : c \in started \/ (c = made' /\ pc' \in Acting)
      PROVE  Order'
  <2> DEFINE es == <<e>>
  <2>1. es \in Seq(Event) /\ Len(es) = 1 /\ es[1] = e
    BY EmptyAndOne
  <2> HIDE DEF es
  <2>2. \A i \in 1 .. Len(es) : es[i].type \notin {"compressing", "done"}
    BY <1>2, <2>1
  <2>3. Emit(es)
    BY <1>2 DEF es
  <2> QED BY <1>1, <1>2, <2>1, <2>2, <2>3, QuietOrder
<1>3. ASSUME outbound' = outbound, pc # "ended", pc = "compress" => woken, pc' # "ended",
             pc \notin Acting,
             \A c \in started' : c \in started \/ (c = made' /\ pc' \in Acting)
      PROVE  Order'
  <2> DEFINE es == <<>>
  <2>1. es \in Seq(Event) /\ Len(es) = 0 /\ outbound \o es = outbound
    BY DEF TypeOK
  <2>2. Emit(es)
    BY <1>3, <2>1 DEF Emit
  <2> HIDE DEF es
  <2>3. \A i \in 1 .. Len(es) : es[i].type \notin {"compressing", "done"}
    BY <2>1
  <2> QED BY <1>1, <1>3, <2>1, <2>2, <2>3, QuietOrder
<1>4. CASE LlmAnswers \/ AgentFails
  <2>1. CASE LlmAnswers
    BY <1>1, <2>1, EndsOrder DEF LlmAnswers, AgentRuns
  <2>2. CASE AgentFails
    <3>1. Ev("error", 0) \in Event /\ Ev("error", 0).type = "error"
      BY DEF Ev, Event
    <3>2. /\ Emit(<<Ev("error", 0)>>) /\ pc # "ended" /\ pc' = "ended"
          /\ pc = "compress" => woken
      BY <2>2 DEF AgentFails, AgentRuns, Ends
    <3> QED BY <1>2, <3>1, <3>2
  <2> QED BY <1>4, <2>1, <2>2
<1>5. CASE LlmHitsLimit
  <2>1. pc = "llm" /\ started' = started
    BY <1>5 DEF LlmHitsLimit, AgentRuns
  <2>2. CASE lenC
    BY <1>1, <1>5, <2>1, <2>2, EndsOrder DEF LlmHitsLimit
  <2>3. CASE ~lenC
    <3> DEFINE es == <<Ev("compressing", 0)>>
    <3>1. Emit(es) /\ woken' = FALSE /\ pc' = "compress"
      BY <1>5, <2>3 DEF LlmHitsLimit
    <3>2. es \in Seq(Event) /\ Len(es) = 1 /\ es[1].type = "compressing"
      BY EventsTyped DEF Ev
    <3> HIDE DEF es
    <3>3. \A i \in 1 .. Len(es) : es[i].type = "compressing" /\ i = Len(es)
      BY <3>2
    <3> QED BY <1>1, <2>1, <3>1, <3>2, <3>3, EmitOrder DEF Acting
  <2> QED BY <2>2, <2>3
<1>6. ASSUME NEW n \in Calls, LlmCallsTools(n) PROVE Order'
  BY <1>3, <1>6 DEF LlmCallsTools, AgentRuns, sessionVars, Acting
<1>7. ASSUME NEW k \in Kinds, StartCall(k) PROVE Order'
  <2>1. pc = "next" /\ left > 0 /\ made' = made + 1
    BY <1>7 DEF StartCall, AgentRuns
  <2>2. made + 1 \in Calls
    BY <2>1, BoundsAssumption DEF TypeOK, Calls
  <2>3. \/ Act(made + 1) /\ UNCHANGED outbound
        \/ Prompt(made + 1, name'[made + 1]) /\ UNCHANGED started
        \/ pc' = "sub" /\ started' = started \cup {made + 1} /\ UNCHANGED outbound
        \/ pc' = "evaluating" /\ UNCHANGED <<outbound, started>>
    BY <1>7, KindsAssumption DEF StartCall
  <2>4. CASE Prompt(made + 1, name'[made + 1]) /\ UNCHANGED started
    <3>1. Ev("prompt", made + 1) \in Event /\ Ev("prompt", made + 1).type = "prompt"
      BY <2>2 DEF Ev, Event
    <3> QED BY <1>2, <2>1, <2>4, <3>1 DEF Prompt, Acting
  <2>5. CASE pc' \in Acting /\ started' = started \cup {made + 1} /\ UNCHANGED outbound
    BY <1>3, <2>1, <2>5 DEF Acting
  <2>6. CASE pc' = "evaluating" /\ UNCHANGED <<outbound, started>>
    BY <1>3, <2>1, <2>6 DEF Acting
  <2> QED BY <2>3, <2>4, <2>5, <2>6 DEF Act, Acting
<1>8. CASE EvaluatorSafe \/ Approved
  BY <1>3, <1>8 DEF EvaluatorSafe, Approved, AgentRuns, Act, sessionVars, Acting
<1>9. CASE EvaluatorDangerous
  <2>1. /\ pc = "evaluating" /\ Emit(<<Ev("prompt", made)>>) /\ pc' = "asking"
        /\ UNCHANGED <<started, made>>
    BY <1>9 DEF EvaluatorDangerous, AgentRuns, Prompt
  <2>2. Ev("prompt", made) \in Event /\ Ev("prompt", made).type = "prompt"
    BY <2>1 DEF Ev, Event, TypeOK, Calls
  <2> QED BY <1>2, <2>1, <2>2 DEF Acting
<1>10. CASE EvaluatorRejects \/ Answered \/ ToolReturns
  BY <1>1, <1>10, CompletesOrder DEF EvaluatorRejects, Answered, ToolReturns, AgentRuns
<1>11. CASE Compressed
  <2>1. pc = "compress" /\ woken /\ started' = started /\ made' = made
    BY <1>11 DEF Compressed, AgentRuns
  <2>2. CASE pc' \in {"llm", "next"} /\ outbound' = outbound
    BY <1>3, <2>1, <2>2 DEF Acting
  <2>3. CASE Ends(<<Ev("error", 0), Ev("done", 0)>>)
    BY <1>1, <2>1, <2>3, EndsOrder
  <2>4. ASSUME NEW lc, LoopHead(<<>>, iter + 1, lc) PROVE Order'
    <3> DEFINE es == <<>>
    <3>1. es \in Seq(Event) /\ \A i \in 1 .. Len(es) : es[i].type \notin {"compressing", "done"}
      BY EmptyAndOne
    <3>2. LoopHead(es, iter + 1, lc)
      BY <2>4
    <3> HIDE DEF es
    <3> QED BY <1>1, <2>1, <3>1, <3>2, LoopHeadOrder DEF Acting
  <2> QED BY <1>11, <2>2, <2>3, <2>4 DEF Compressed
<1>12. CASE SubagentReturns
  <2>1. pc = "sub" /\ pc' = "tool" /\ UNCHANGED <<started, made>>
    BY <1>12 DEF SubagentReturns, AgentRuns
  <2>2. CASE sub = "failed"
    <3>1. Ev("sub_error", made) \in Event /\ Ev("sub_error", made).type = "sub_error"
      BY <2>1 DEF Ev, Event, TypeOK, Calls
    <3>2. Emit(<<Ev("sub_error", made)>>)
      BY <1>12, <2>2 DEF SubagentReturns
    <3> QED BY <1>2, <2>1, <3>1, <3>2 DEF Acting
  <2>3. CASE sub # "failed"
    <3> DEFINE es == <<>>
    <3>1. es \in Seq(Event) /\ \A i \in 1 .. Len(es) : es[i].type \notin {"compressing", "done"}
      BY EmptyAndOne
    <3>2. Emit(es)
      BY <1>12, <2>3 DEF SubagentReturns
    <3> HIDE DEF es
    <3> QED BY <1>1, <2>1, <3>1, <3>2, QuietOrder DEF Acting
  <2> QED BY <2>2, <2>3
<1>13. CASE AgentAborts
  <2> DEFINE es == <<Ev("error", 0)>>
  <2>1. /\ pc # "ended" /\ pc' = "ended" /\ outbound' = outbound \o es /\ started' = started
    BY <1>13 DEF AgentAborts, Ends, Emit
  <2>2. Ev("error", 0) \in Event /\ Ev("error", 0).type = "error"
    BY DEF Ev, Event
  <2>3. es \in Seq(Event) /\ Len(es) = 1 /\ es[1].type = "error"
    BY <2>2, EmptyAndOne
  <2> HIDE DEF es
  <2>4. /\ Len(outbound) \in Nat /\ Len(outbound') = Len(outbound) + 1
        /\ \A i \in 1 .. Len(outbound) : outbound'[i] = outbound[i]
        /\ outbound'[Len(outbound) + 1].type = "error"
    <3>1. outbound \in Seq(Event) /\ 1 \in 1 .. Len(es)
      BY <2>3 DEF TypeOK
    <3>2. /\ Len(outbound) \in Nat /\ Len(outbound \o es) = Len(outbound) + Len(es)
          /\ \A i \in 1 .. Len(outbound) : (outbound \o es)[i] = outbound[i]
          /\ \A i \in 1 .. Len(es) : (outbound \o es)[Len(outbound) + i] = es[i]
      <4>1. es \in Seq(Event)
        BY <2>3
      <4> QED BY <3>1, <4>1
    <3> QED BY <2>1, <2>3, <3>1, <3>2
  <2>5. Ordered'
    <3>1. SUFFICES ASSUME ws = "open", NEW i \in 1 .. Len(outbound'),
                          outbound'[i].type \in {"compressing", "done"}, NEW c \in started
                   PROVE  c \in shown \/ \E j \in 1 .. i - 1 : outbound'[j] = Result(c)
      BY <1>1, <2>1 DEF Ordered, Reported, Result, Ev, clientVars
    <3>2. i \in 1 .. Len(outbound) /\ 1 .. i - 1 \subseteq 1 .. Len(outbound)
      <4>1. i # Len(outbound) + 1
        BY <2>4, <3>1
      <4> QED BY <2>4, <4>1
    <3>3. Reported(c, i - 1)
      BY <2>4, <3>1, <3>2 DEF Order, Ordered
    <3> QED BY <2>4, <3>2, <3>3 DEF Reported
  <2>6. Delivered' /\ Token'
    BY <2>1 DEF Delivered, Token
  <2>7. ResultsBeforeCompression' /\ DoneAfterResults'
    BY <1>1, <2>1 DEF Order, ResultsBeforeCompression, DoneAfterResults, clientVars
  <2> QED BY <2>5, <2>6, <2>7 DEF Order
<1>14. CASE AgentCleansUp
  <2>1. pc = "tool" /\ pc' = "unwinding" /\ UNCHANGED <<clientVars, outbound, woken, made, started>>
    BY <1>1, <1>14 DEF AgentCleansUp, sessionVars
  <2>2. Ordered' /\ Delivered'
    BY <2>1 DEF Order, Ordered, Delivered, Reported, Result, Ev, Acting, clientVars
  <2>3. Token' /\ ResultsBeforeCompression' /\ DoneAfterResults'
    BY <2>1 DEF Order, Token, CompressionTold, ResultsBeforeCompression, DoneAfterResults, clientVars
  <2> QED BY <2>2, <2>3 DEF Order
<1> QED
  BY <1>4, <1>5, <1>6, <1>7, <1>8, <1>9, <1>10, <1>11, <1>12, <1>13, <1>14 DEF Agent

-----------------------------------------------------------------------------
(* What the client and the handler do with it *)

\* What the client sends: only its reply to a request to compress moves the token.
LEMMA ClientOrder == TypeOK /\ Order /\ Client => Order'
<1> SUFFICES ASSUME TypeOK, Order, Client PROVE Order'
  OBVIOUS
<1>1. /\ UNCHANGED <<shown, told, sessionVars, agentVars>>
      /\ ws' = ws \/ ws' = "closed"
  BY DEF Client, ClientAnswers, ClientRepeats, ClientSendsExtra, ClientSends, ClientCompressed,
         ClientSetsMode, ClientAborts, ClientLeaves
<1>2. Ordered' /\ Delivered'
  BY <1>1 DEF Order, Ordered, Delivered, Reported, Result, Ev, sessionVars, agentVars
<1>3. ASSUME asked' = asked, CompressionTold' => CompressionTold,
             \A i, j \in 1 .. Len(toServer') :
               toServer'[i].type = "compression_done" /\ toServer'[j].type = "compression_done" =>
                 i = j \/ pc = "ended"
      PROVE  Order'
  <2>1. Token'
    BY <1>1, <1>3 DEF Order, Token, sessionVars, agentVars
  <2>2. ResultsBeforeCompression' /\ DoneAfterResults'
    BY <1>1, <1>3 DEF Order, ResultsBeforeCompression, DoneAfterResults, agentVars
  <2> QED BY <1>2, <2>1, <2>2 DEF Order
<1>4. ASSUME NEW m \in Message, toServer' = Append(toServer, m)
      PROVE  /\ Len(toServer) \in Nat /\ Len(toServer') = Len(toServer) + 1
             /\ \A i \in 1 .. Len(toServer) : toServer'[i] = toServer[i]
             /\ toServer'[Len(toServer) + 1] = m
             /\ \A i \in 1 .. Len(toServer') : i \in 1 .. Len(toServer) \/ i = Len(toServer) + 1
  <2>1. toServer \in Seq(Message)
    BY DEF TypeOK
  <2> QED BY <1>4, <2>1
<1>5. ASSUME NEW m \in Message, m.type # "compression_done", toServer' = Append(toServer, m),
             asked' = asked
      PROVE  Order'
  <2>1. \A i \in 1 .. Len(toServer') : toServer'[i].type = "compression_done" =>
          i \in 1 .. Len(toServer) /\ toServer[i].type = "compression_done"
    BY <1>4, <1>5
  <2>2. CompressionTold' => CompressionTold
    BY <2>1 DEF CompressionTold
  <2> QED BY <1>3, <1>5, <2>1, <2>2 DEF Order, Token
<1>6. ASSUME NEW c \in Calls, NEW v \in {"yes", "no"}, ClientAnswers(c, v) \/ ClientRepeats(c, v)
      PROVE  Order'
  <2>1. Msg("answer", name[c], v) \in Message /\ Msg("answer", name[c], v).type = "answer"
    BY DEF Msg, Message, TypeOK
  <2>2. toServer' = Append(toServer, Msg("answer", name[c], v)) /\ asked' = asked
    BY <1>6 DEF ClientAnswers, ClientRepeats, ClientSendsExtra, ClientSends
  <2> QED BY <1>5, <2>1, <2>2
<1>7. CASE ClientCompressed
  <2> DEFINE m == Msg("compression_done", 0, "none")
  <2>1. m \in Message /\ toServer' = Append(toServer, m) /\ asked /\ asked' = FALSE
    BY <1>7 DEF Msg, Message, ClientCompressed, ClientSends
  <2>2. pc # "ended" => pc = "compress" /\ ~CompressionTold /\ ~woken
    BY <2>1 DEF Order, Token
  <2>3. ASSUME pc # "ended", NEW i \in 1 .. Len(toServer'), toServer'[i].type = "compression_done"
        PROVE  i = Len(toServer) + 1
    BY <1>4, <2>1, <2>2, <2>3 DEF CompressionTold
  <2>4. ASSUME pc # "ended", NEW i \in 1 .. Len(outbound) PROVE outbound[i].type # "compressing"
    BY <2>1, <2>4 DEF Order, Token
  <2>5. Token'
    BY <1>1, <2>1, <2>2, <2>3, <2>4 DEF Order, Token, sessionVars, agentVars
  <2>6. ResultsBeforeCompression' /\ DoneAfterResults'
    BY <1>1, <2>1 DEF Order, ResultsBeforeCompression, DoneAfterResults, agentVars
  <2> QED BY <1>2, <2>5, <2>6 DEF Order
<1>8. ASSUME NEW x \in Modes \cup {"unknown"}, ClientSetsMode(x) PROVE Order'
  <2>1. Msg("set_mode", 0, x) \in Message /\ Msg("set_mode", 0, x).type = "set_mode"
    BY DEF Msg, Message
  <2>2. toServer' = Append(toServer, Msg("set_mode", 0, x)) /\ asked' = asked
    BY <1>8 DEF ClientSetsMode, ClientSendsExtra, ClientSends
  <2> QED BY <1>5, <2>1, <2>2
<1>9. CASE ClientAborts
  <2>1. Msg("abort", 0, "none") \in Message /\ Msg("abort", 0, "none").type = "abort"
    BY DEF Msg, Message
  <2>2. toServer' = Append(toServer, Msg("abort", 0, "none")) /\ asked' = asked
    BY <1>9 DEF ClientAborts, ClientSendsExtra, ClientSends
  <2> QED BY <1>5, <2>1, <2>2
<1>10. CASE ClientLeaves
  <2>1. PICK k \in 0 .. Len(toServer) : toServer' = SubSeq(toServer, 1, k)
    BY <1>10 DEF ClientLeaves
  <2>2. toServer \in Seq(Message)
    BY DEF TypeOK
  <2>3. /\ Len(toServer') = k /\ 1 .. k \subseteq 1 .. Len(toServer)
        /\ \A i \in 1 .. k : toServer'[i] = toServer[i]
    BY <2>1, <2>2
  <2>4. asked' = asked /\ (CompressionTold' => CompressionTold)
    BY <1>10, <2>3 DEF ClientLeaves, CompressionTold
  <2> QED BY <1>3, <2>3, <2>4 DEF Order, Token
<1> QED BY <1>6, <1>7, <1>8, <1>9, <1>10 DEF Client

LEMMA ReceiveOrder == TypeOK /\ Order /\ Receive => Order'
<1> SUFFICES ASSUME TypeOK, Order, Receive PROVE Order'
  OBVIOUS
<1>1. UNCHANGED <<ws, shown, asked, told, outbound, agentVars>>
  BY DEF Receive, RecvAnswer, RecvCompressionDone, RecvSetMode, RecvAbort, RecvDisconnect,
         Receives, sessionVars, clientVars
<1>2. Ordered' /\ Delivered' /\ ResultsBeforeCompression' /\ DoneAfterResults'
  BY <1>1 DEF Order, Ordered, Delivered, Reported, Result, Ev, ResultsBeforeCompression,
              DoneAfterResults, agentVars
<1>3. CASE RecvDisconnect
  <2>1. UNCHANGED <<toServer, woken>>
    BY <1>3 DEF RecvDisconnect, clientVars, sessionVars
  <2>2. Token'
    BY <1>1, <2>1 DEF Order, Token, CompressionTold, agentVars
  <2> QED BY <1>2, <2>2 DEF Order
<1>4. CASE ~RecvDisconnect
  <2>1. toServer # <<>> /\ toServer' = Tail(toServer)
    BY <1>4 DEF Receive, RecvAnswer, RecvCompressionDone, RecvSetMode, RecvAbort, Receives
  <2>2. toServer \in Seq(Message)
    BY DEF TypeOK
  <2>3. /\ Len(toServer) \in Nat /\ Len(toServer') = Len(toServer) - 1 /\ 1 \in 1 .. Len(toServer)
        /\ \A i \in 1 .. Len(toServer') : i + 1 \in 1 .. Len(toServer) /\ toServer'[i] = toServer[i + 1]
        /\ Head(toServer) = toServer[1]
    BY <2>1, <2>2
  <2>4. CompressionTold' => CompressionTold
    BY <2>3 DEF CompressionTold
  <2>5. \/ woken' = woken
        \/ woken' = TRUE /\ toServer[1].type = "compression_done"
    BY <1>4, <2>3 DEF Receive, RecvAnswer, RecvCompressionDone, RecvSetMode, RecvAbort, Receives,
                      sessionVars
  <2>6. ASSUME pc # "ended", toServer[1].type = "compression_done"
        PROVE  /\ ~CompressionTold' /\ ~asked /\ pc = "compress"
               /\ \A i \in 1 .. Len(outbound) : outbound[i].type # "compressing"
    <3>1. CompressionTold
      BY <2>3, <2>6 DEF CompressionTold
    <3>2. ~asked /\ \A i \in 1 .. Len(outbound) : outbound[i].type # "compressing"
      BY <2>6, <3>1 DEF Order, Token
    <3>3. ASSUME NEW i \in 1 .. Len(toServer'), toServer'[i].type = "compression_done" PROVE FALSE
      <4>1. i + 1 \in 1 .. Len(toServer) /\ toServer[i + 1].type = "compression_done" /\ i + 1 # 1
        BY <2>3, <3>3
      <4> QED BY <2>3, <2>6, <4>1 DEF Order, Token
    <3> QED BY <2>6, <3>1, <3>2, <3>3 DEF CompressionTold, Order, Token
  <2>7. ASSUME pc # "ended", NEW i \in 1 .. Len(toServer'), NEW j \in 1 .. Len(toServer'),
               toServer'[i].type = "compression_done", toServer'[j].type = "compression_done"
        PROVE  i = j
    <3>1. i + 1 = j + 1
      BY <2>3, <2>7 DEF Order, Token
    <3> QED BY <3>1
  <2>8. Token'
    <3>1. CASE woken' = woken
      BY <1>1, <2>4, <2>7, <3>1 DEF Order, Token, agentVars
    <3>2. CASE toServer[1].type = "compression_done"
      BY <1>1, <2>6, <2>7, <3>2 DEF Order, Token, agentVars
    <3> QED BY <2>5, <3>1, <3>2
  <2> QED BY <1>2, <2>8 DEF Order
<1> QED BY <1>3, <1>4

\* The handler's own steps close the connection, if anything.
LEMMA MainOrder == TypeOK /\ Order /\ Main => Order'
<1> SUFFICES ASSUME TypeOK, Order, Main PROVE Order'
  OBVIOUS
<1>1. CASE HandlerStopsReceiving \/ HandlerCancelsAgent
  <2>1. UNCHANGED <<clientVars, sessionVars, agentVars>>
    BY <1>1 DEF HandlerStopsReceiving, HandlerCancelsAgent
  <2>2. Ordered' /\ Delivered' /\ Token'
    BY <2>1 DEF Order, Ordered, Delivered, Reported, Result, Ev, Token, CompressionTold,
                clientVars, sessionVars, agentVars
  <2> QED BY <2>1, <2>2 DEF Order, ResultsBeforeCompression, DoneAfterResults, clientVars, agentVars
<1>2. CASE HandlerReturns
  <2>1. ws' = "closed" /\ toServer' = <<>> /\ UNCHANGED <<shown, asked, told, sessionVars, agentVars>>
    BY <1>2 DEF HandlerReturns
  <2>2. Ordered' /\ Delivered'
    BY <2>1 DEF Ordered, Delivered
  <2>3. 1 .. Len(toServer') = {}
    BY <2>1
  <2>4. Token'
    BY <2>1, <2>3 DEF Order, Token, CompressionTold, sessionVars, agentVars
  <2> QED BY <2>1, <2>2, <2>4 DEF Order, ResultsBeforeCompression, DoneAfterResults, agentVars
<1> QED BY <1>1, <1>2 DEF Main

LEMMA SendOrder == TypeOK /\ Order /\ Send => Order'
<1> SUFFICES ASSUME TypeOK, Order, Send PROVE Order'
  OBVIOUS
<1>1. UNCHANGED <<ws, toServer, woken, agentVars>>
  BY DEF Send, SendEvent, SendToNobody, clientVars, sessionVars
<1>3. ASSUME outbound # <<>>, outbound' = Tail(outbound)
      PROVE  /\ Len(outbound) \in Nat /\ Len(outbound') = Len(outbound) - 1 /\ 1 \in 1 .. Len(outbound)
             /\ \A i \in 1 .. Len(outbound') : i + 1 \in 1 .. Len(outbound) /\ outbound'[i] = outbound[i + 1]
             /\ Head(outbound) = outbound[1] /\ outbound[1] \in Event
  <2>1. outbound \in Seq(Event)
    BY DEF TypeOK
  <2> QED BY <1>3, <2>1
<1>4. CASE SendEvent
  <2> DEFINE e == outbound[1]
  <2>1. /\ ws = "open" /\ outbound # <<>> /\ outbound' = Tail(outbound)
        /\ shown' = IF e.type = "tool_result" THEN shown \cup {e.call} ELSE shown
        /\ asked' = (asked \/ e.type = "compressing")
        /\ told' = told \/ (told' = e.type /\ e.type \in {"done", "error", "sub_error"})
    BY <1>3, <1>4 DEF SendEvent, IsTerminal
  <2>2. \A c \in Calls : e = Result(c) => c \in shown'
    BY <2>1 DEF Result, Ev
  <2>3. started \subseteq Calls
    BY DEF TypeOK
  <2>4. ASSUME NEW c \in started, NEW n \in 1 .. Len(outbound), Reported(c, n)
        PROVE  c \in shown' \/ \E j \in 1 .. n - 1 : outbound'[j] = Result(c)
    <3>1. CASE c \in shown
      BY <2>1, <3>1
    <3>2. ASSUME NEW j \in 1 .. n, outbound[j] = Result(c), j # 1
          PROVE  \E i \in 1 .. n - 1 : outbound'[i] = Result(c)
      <4>1. j - 1 \in 1 .. n - 1 /\ j - 1 \in 1 .. Len(outbound') /\ (j - 1) + 1 = j
        BY <1>3, <2>1, <3>2
      <4> QED BY <1>3, <2>1, <3>2, <4>1
    <3> QED BY <2>2, <2>3, <2>4, <3>1, <3>2 DEF Reported
  <2>5. Ordered'
    <3>1. SUFFICES ASSUME NEW i \in 1 .. Len(outbound'),
                          outbound'[i].type \in {"compressing", "done"}, NEW c \in started
                   PROVE  c \in shown' \/ \E j \in 1 .. i - 1 : outbound'[j] = Result(c)
      BY <1>1 DEF Ordered, Reported, Result, Ev, agentVars
    <3>2. i + 1 \in 1 .. Len(outbound) /\ outbound[i + 1] = outbound'[i] /\ (i + 1) - 1 = i
      BY <1>3, <2>1
    <3>3. Reported(c, i) /\ i \in 1 .. Len(outbound)
      BY <1>3, <2>1, <3>1, <3>2 DEF Order, Ordered
    <3> QED BY <2>4, <3>3
  <2>6. Delivered'
    <3>1. SUFFICES ASSUME pc # "ended", NEW c \in started, c # made \/ pc \notin Acting
                   PROVE  c \in shown' \/ \E j \in 1 .. Len(outbound') : outbound'[j] = Result(c)
      BY <1>1 DEF Delivered, Reported, Result, Ev, agentVars
    <3>2. Reported(c, Len(outbound)) /\ Len(outbound) \in 1 .. Len(outbound)
          /\ Len(outbound') = Len(outbound) - 1
      BY <1>3, <2>1, <3>1 DEF Order, Delivered
    <3> QED BY <2>4, <3>2
  <2>7. CompressionTold' = CompressionTold
    BY <1>1 DEF CompressionTold
  <2>8. Token'
    <3>1. CASE e.type = "compressing" /\ pc # "ended"
      <4>1. Len(outbound) = 1 /\ pc = "compress" /\ ~CompressionTold /\ ~woken
        BY <1>3, <2>1, <3>1 DEF Order, Token
      <4>2. 1 .. Len(outbound') = {}
        BY <1>3, <2>1, <4>1
      <4>3. told' # "done"
        BY <2>1, <3>1 DEF Order, Token
      <4> QED BY <1>1, <2>7, <4>1, <4>2, <4>3 DEF Order, Token, agentVars
    <3>2. CASE e.type # "compressing" /\ pc # "ended"
      <4>1. asked' = asked
        <5>1. asked \in BOOLEAN
          BY DEF TypeOK
        <5> QED BY <2>1, <3>2, <5>1
      <4>2. told' # "done"
        BY <1>3, <2>1, <3>2 DEF Order, Token
      <4>3. \A i \in 1 .. Len(outbound') :
              /\ outbound'[i].type # "done"
              /\ outbound'[i].type = "compressing" =>
                   pc = "compress" /\ i = Len(outbound') /\ ~asked /\ ~CompressionTold /\ ~woken
        BY <1>3, <2>1, <3>2 DEF Order, Token
      <4> QED BY <1>1, <2>7, <4>1, <4>2, <4>3 DEF Order, Token, agentVars
    <3>3. CASE pc = "ended"
      BY <1>1, <3>3 DEF Token, agentVars
    <3> QED BY <3>1, <3>2, <3>3
  <2>9. ASSUME e.type \in {"compressing", "done"} PROVE started \subseteq shown
    BY <1>3, <2>1, <2>9 DEF Order, Ordered, Reported
  <2>10. shown \subseteq shown'
    BY <2>1
  <2>11. ResultsBeforeCompression' /\ DoneAfterResults'
    BY <1>1, <2>1, <2>9, <2>10 DEF Order, ResultsBeforeCompression, DoneAfterResults, agentVars
  <2> QED BY <2>5, <2>6, <2>8, <2>11 DEF Order
<1>5. CASE SendToNobody
  <2>1. ws = "closed" /\ outbound # <<>> /\ outbound' = Tail(outbound) /\ UNCHANGED clientVars
    BY <1>5 DEF SendToNobody
  <2>2. Ordered' /\ Delivered'
    BY <1>1, <2>1 DEF Ordered, Delivered
  <2>3. CompressionTold' = CompressionTold
    BY <1>1 DEF CompressionTold
  <2>4. ASSUME pc # "ended"
        PROVE  \A i \in 1 .. Len(outbound') :
                 /\ outbound'[i].type # "done"
                 /\ outbound'[i].type = "compressing" =>
                      pc = "compress" /\ i = Len(outbound') /\ ~asked /\ ~CompressionTold /\ ~woken
    BY <1>3, <2>1, <2>4 DEF Order, Token
  <2>5. Token'
    BY <1>1, <2>1, <2>3, <2>4 DEF Order, Token, clientVars, agentVars
  <2> QED BY <1>1, <2>1, <2>2, <2>5
      DEF Order, ResultsBeforeCompression, DoneAfterResults, clientVars, agentVars
<1> QED BY <1>4, <1>5 DEF Send

-----------------------------------------------------------------------------
(* What follows *)

LEMMA OrderStep == TypeOK /\ Order /\ [Next]_vars => Order'
<1> SUFFICES ASSUME TypeOK, Order, [Next]_vars PROVE Order'
  OBVIOUS
<1>1. ASSUME UNCHANGED <<clientVars, outbound, woken, pc, made, started>> PROVE Order'
  BY <1>1 DEF Order, Ordered, Delivered, Reported, Result, Ev, Token, CompressionTold,
              ResultsBeforeCompression, DoneAfterResults, clientVars
<1>2. CASE Subagent
  BY <1>1, <1>2 DEF Subagent, SubagentFinishes, SubagentErrs, SubagentAwaitsCompression, sessionVars
<1>3. CASE Finished \/ UNCHANGED vars
  BY <1>1, <1>3 DEF Finished, vars, sessionVars, agentVars
<1> QED
  BY <1>2, <1>3, ClientOrder, ReceiveOrder, SendOrder, MainOrder, AgentOrder DEF Next

LEMMA OrderAlways == Spec => []Order
<1>1. Init => Order
  BY DEF Init, Order, Ordered, Delivered, Token, CompressionTold, ResultsBeforeCompression,
         DoneAfterResults
<1> QED BY <1>1, OrderStep, TypeCorrect, PTL DEF Spec

\* The client is asked to compress only when it has shown, and so can have stored, the
\* result of every call that has acted: a call's result precedes the request in outbound,
\* and a second request waits for the reply to the first.
THEOREM CompressionAfterResults == Spec => []ResultsBeforeCompression
<1>1. Order => ResultsBeforeCompression
  BY DEF Order
<1> QED BY <1>1, OrderAlways, PTL

\* Nor is it told that the run is done before that.
THEOREM ResultsBeforeDone == Spec => []DoneAfterResults
<1>1. Order => DoneAfterResults
  BY DEF Order
<1> QED BY <1>1, OrderAlways, PTL
=============================================================================
