----------------------------- MODULE Completion -----------------------------
(***************************************************************************)
(* The turns of an agent at the model server: how a completion is          *)
(* requested, gated by the closing of </think>, split live into prose and  *)
(* a preview of a tool call, parsed at its end, and what the agent and the *)
(* transcript make of its events (backend/llm/llama_server.py, llm/base.py,*)
(* agent/agent.py, agent/workflow_run_recorder.py).                        *)
(*                                                                         *)
(* Text is a sequence of pieces: "<" and "t" are the two parts into which  *)
(* <tool_call> may be cut by the chunks of the stream, "n" stands for      *)
(* <function=NAME>, "e" for </function></tool_call>.  Outside a call each  *)
(* of them is prose: the grammar bans the special token <tool_call>, not   *)
(* the same characters written as ordinary tokens.                         *)
(***************************************************************************)
EXTENDS Naturals, Sequences

CONSTANTS
  MaxText,    \* bound: pieces of a response
  MaxChunk,   \* bound: pieces of a chunk
  MaxTurns    \* bound: turns of the agent

ASSUME BoundsAssumption == MaxText \in Nat /\ MaxChunk \in Nat \ {0} /\ MaxTurns \in Nat \ {0}

VARIABLES
  server,      \* the llama-server process: "down", "loading" or "up"
  pc,          \* where stream_completion is
  ask,         \* how it was called
  text,        \* what has been read of the response to be split or parsed
  shown,       \* how many pieces of it have been sent as content
  live,        \* the splitter: in "prose", in the "tag" of a call without a name, in a "call"
  acc,         \* the agent's tool_calls_acc: for each index the fragments of its arguments
  transcript,  \* the recorded activity of the turns
  turn,
  reason       \* finish_reason of the last turn, "none" without a done, "raised"

stream == <<pc, ask, text, shown, live, acc, transcript, turn, reason>>

Symbols == {"<", "t", "n", "e"}
Call == <<"<", "t", "n", "e">>
Requests == [tools : BOOLEAN, thinking : BOOLEAN, must : BOOLEAN]

NoRequest == [tools |-> FALSE, thinking |-> FALSE, must |-> FALSE]

InitStream ==
  /\ pc = "idle" /\ ask = NoRequest /\ reason = "none"
  /\ text = <<>> /\ shown = 0 /\ live = "prose" /\ acc = <<>>
  /\ transcript = <<>> /\ turn = 0

-----------------------------------------------------------------------------
(* The texts and their pieces *)

Places(t, from, symbol) == {i \in from .. Len(t) : t[i] = symbol}
Tags(t, from) == {i \in Places(t, from, "<") : i < Len(t) /\ t[i + 1] = "t"}
First(S) == CHOOSE i \in S : \A k \in S : i <= k

\* parse_all_tool_calls: from each <tool_call> to the next </tool_call>, those with a name.
Calls(t) ==
  LET count[k \in 1 .. Len(t) + 1] ==
        IF Tags(t, k) = {} THEN 0
        ELSE LET i == First(Tags(t, k))
                 ends == Places(t, i + 2, "e")
             IN IF ends = {} THEN 0
                ELSE (IF \E n \in Places(t, i + 2, "n") : n < First(ends) THEN 1 ELSE 0)
                     + count[First(ends) + 1]
  IN count[1]

\* The prose of a text: what comes before its first tag.
Prose(t) == IF Tags(t, 1) = {} THEN Len(t) ELSE First(Tags(t, 1)) - 1
HasName(t, tag) == Places(t, tag + 2, "n") # {}
Named(t) == Tags(t, 1) # {} /\ HasName(t, Prose(t) + 1)

-----------------------------------------------------------------------------
(* The events, as the agent and the recorder take them *)

Entry(kind, id, args) == [kind |-> kind, id |-> id, args |-> args]

\* Fragments of content or thinking join the block before them.
Told(tr) == IF tr # <<>> /\ tr[Len(tr)].kind = "text" THEN tr
            ELSE Append(tr, Entry("text", 0, <<>>))

IsCall(e, id) == e.kind = "call" /\ e.id = id

\* tool_call_start: the entry with this id is reset in place.  Ids are per turn ("tc-0").
Started(tr, id) ==
  IF \E k \in DOMAIN tr : IsCall(tr[k], id)
  THEN LET k == First({i \in DOMAIN tr : IsCall(tr[i], id)}) IN [tr EXCEPT ![k].args = <<>>]
  ELSE Append(tr, Entry("call", id, <<>>))

\* tool_call_raw carries no id: it goes to the last entry, if that is a call (raw
\* fragments in a row count as one).
Previewed(tr) ==
  LET k == Len(tr) IN
  IF tr # <<>> /\ tr[k].kind = "call" /\ (tr[k].args = <<>> \/ tr[k].args[Len(tr[k].args)] # "raw")
  THEN [tr EXCEPT ![k].args = Append(@, "raw")] ELSE tr

Argued(tr, id, fragment) ==
  [k \in DOMAIN tr |-> IF IsCall(tr[k], id) THEN [tr[k] EXCEPT !.args = Append(@, fragment)]
                       ELSE tr[k]]

\* The calls of a parsed text, each with its name and then all of its arguments; the ids
\* of a series follow each other.
AllStarted(tr, first, n) ==
  LET upTo[k \in 0 .. n] ==
        IF k = 0 THEN tr
        ELSE Argued(Started(upTo[k - 1], first + k - 1), first + k - 1, "all")
  IN upTo[n]

Recovered == MaxText + 1    \* the series "tc-recovered-0", ... beside "tc-0", ...

Ends(why) == pc' = "ended" /\ reason' = why

-----------------------------------------------------------------------------
(* Requests and their failures *)

\* use_think_gate: tools that could be called and a <think> block they could hide in.
Gated(q) == q.tools /\ q.thinking

\* _stream_llm: a turn starts; tool_choice is only given with tools.  Requests without
\* thinking are made by the compression and the safety evaluator: they take the arguments
\* of the call, as the agent does, and execute nothing.
Requested ==
  /\ pc = "idle" /\ turn < MaxTurns
  /\ \E q \in Requests :
       /\ q.must => q.tools
       /\ ask' = q
       /\ pc' = IF Gated(q) THEN "probe" ELSE "chat"
  /\ turn' = turn + 1
  /\ UNCHANGED <<server, text, shown, live, acc, transcript, reason>>

Requesting == {"probe", "think", "tail", "chat", "chatting", "force_probe", "force"}

\* The server ends: a response in flight is cut, nothing more of it will be read.
ServerEnds ==
  /\ server # "down" /\ server' = "down"
  /\ IF pc \in Requesting
     THEN /\ pc' = "cut" /\ ask' = NoRequest
          /\ text' = <<>> /\ shown' = 0 /\ live' = "prose" /\ acc' = <<>>
          /\ UNCHANGED <<transcript, turn, reason>>
     ELSE UNCHANGED stream

\* No server answers, or the response is cut: aiohttp's exception ends the turn.
Raises ==
  /\ pc = "cut" \/ (pc \in Requesting /\ server # "up")
  /\ Ends("raised")
  /\ UNCHANGED <<server, ask, text, shown, live, acc, transcript, turn>>

\* Another status than 200 (or no __verbose block): done "error", except for the plain
\* stream, which just ends.  A status comes before anything else of the response.
Refused ==
  /\ pc \in Requesting \ {"chatting"} /\ server = "up" /\ text = <<>>
  /\ Ends(IF pc = "chat" THEN "none" ELSE "error")
  /\ UNCHANGED <<server, ask, text, shown, live, acc, transcript, turn>>

Probed ==
  /\ pc \in {"probe", "force_probe"} /\ server = "up"
  /\ pc' = IF pc = "probe" THEN "think" ELSE "force"
  /\ UNCHANGED <<server, ask, text, shown, live, acc, transcript, turn, reason>>

\* Phase 1 streams thinking until </think>, or until its budget is spent.
Thinks ==
  /\ pc = "think" /\ server = "up"
  /\ transcript' = Told(transcript)
  /\ \/ pc' = "tail" /\ UNCHANGED reason
     \/ Ends("error")
  /\ UNCHANGED <<server, ask, text, shown, live, acc, turn>>

-----------------------------------------------------------------------------
(* Phase 2: the gated stream *)

\* What the model may have written: a call and nothing else when it must make one.
Possible(t) == Len(t) <= MaxText /\ (ask.must => \E k \in 0 .. Len(Call) : t = SubSeq(Call, 1, k))

Chunks(t) == {c \in UNION {[1 .. k -> Symbols] : k \in 1 .. MaxChunk} : Possible(t \o c)}

\* Mutation of Safe: nothing is held back for a tag cut in two.
SafeAll(t) == Len(t)

\* How much of a text without a tag can be sent: all but what may begin one.
Safe(t) == IF shown >= Len(t) - 1 THEN shown ELSE Len(t) - 1

\* split_prose_and_tool_call_live: content up to the tag; behind it nothing until the
\* name is known, then the start of call 0 and, raw, everything from the tag on.
Split(t) ==
  LET tagged == live # "prose" \/ Tags(t, shown + 1) # {}
      sent == IF live # "prose" THEN shown
              ELSE IF tagged THEN First(Tags(t, shown + 1)) - 1 ELSE Safe(t)
      named == tagged /\ (live = "call" \/ HasName(t, sent + 1))
      spoken == IF sent > shown THEN Told(transcript) ELSE transcript
  IN /\ text' = t
     /\ shown' = sent
     /\ live' = IF named THEN "call" ELSE IF tagged THEN "tag" ELSE "prose"
     /\ acc' = IF named /\ live # "call" THEN <<<<>>>> ELSE acc
     /\ transcript' = IF ~named THEN spoken
                      ELSE Previewed(IF live = "call" THEN spoken ELSE Started(spoken, 0))

\* A chunk of the stream is read.
Streams ==
  /\ pc = "tail" /\ server = "up"
  /\ \E c \in Chunks(text) : Split(text \o c)
  /\ UNCHANGED <<server, pc, ask, turn, reason>>

\* Mutation of Announced: the start that was sent live is not repeated.
AnnouncedOnce(tr, n) == IF live = "call" THEN Argued(tr, 0, "all") ELSE AllStarted(tr, 0, n)

\* The calls of the whole text, the first one again: it replaces the live preview.
Announced(tr, n) == AllStarted(tr, 0, n)

\* The stream ends, by itself or because its budget is spent.  A parsed argument may not be
\* of its declared type: the cast (int(), json.loads) raises before any call is announced.
StreamEnds ==
  /\ pc = "tail" /\ server = "up"
  /\ LET n == Calls(text) IN
     IF n > 0 THEN
       /\ \/ /\ acc' = [i \in 1 .. n |-> <<"all">>]
             /\ transcript' = Announced(transcript, n)
             /\ Ends("tool_calls")
          \/ Ends("raised") /\ UNCHANGED <<acc, transcript>>
       /\ UNCHANGED shown
     ELSE IF ask.must THEN Ends("error") /\ UNCHANGED <<acc, transcript, shown>>
     ELSE
       /\ shown' = IF live = "prose" THEN Len(text) ELSE shown
       /\ transcript' = IF shown' > shown THEN Told(transcript) ELSE transcript
       /\ Ends("stop")
       /\ UNCHANGED acc
  /\ UNCHANGED <<server, ask, text, live, turn>>

-----------------------------------------------------------------------------
(* The plain stream, and a call forced behind it *)

\* The server parses; its events are passed on: content and thinking, the start of a
\* call, its arguments in fragments.  One call at most: parallel calls are not asked for.
\* (Its id may be the server's own; "tc-0", which repeats, is the harder case.)
ChatStreams ==
  /\ pc \in {"chat", "chatting"} /\ server = "up"
  /\ pc' = "chatting"
  /\ \/ transcript' = Told(transcript) /\ UNCHANGED acc
     \/ /\ ask.tools /\ acc = <<>>
        /\ acc' = <<<<>>>> /\ transcript' = Started(transcript, 0)
     \/ /\ acc # <<>> /\ Len(acc[1]) < 2
        /\ acc' = [acc EXCEPT ![1] = Append(@, "half")]
        /\ transcript' = Argued(transcript, 0, "half")
  /\ UNCHANGED <<server, ask, text, shown, live, turn, reason>>

Whole(args) == args \in {<<"all">>, <<"half", "half">>}

\* finish_reason is the server's.  A call asked for and not made is looked for in the
\* thinking (for n calls in it) before it is forced.  Casting its arguments may raise.
ChatEnds(n) ==
  /\ pc = "chatting" /\ server = "up"
  /\ IF acc # <<>> \/ ~ask.must THEN
       /\ \/ Ends("length")
          \/ (\A i \in DOMAIN acc : Whole(acc[i])) /\ Ends(IF acc = <<>> THEN "stop" ELSE "tool_calls")
       /\ UNCHANGED <<acc, transcript>>
     ELSE IF n > 0 THEN
       \/ /\ acc' = [i \in 1 .. n |-> <<"all">>]
          /\ transcript' = AllStarted(transcript, Recovered, n)
          /\ Ends("tool_calls")
       \/ Ends("raised") /\ UNCHANGED <<acc, transcript>>
     ELSE pc' = "force_probe" /\ UNCHANGED <<acc, transcript, reason>>
  /\ UNCHANGED <<server, ask, text, shown, live, turn>>

\* _force_tool_call: thinking is shown, the text of the call only kept; it is whole or not.
ForceEnds ==
  /\ pc = "force" /\ server = "up"
  /\ \/ \E why \in {"error", "raised"} : Ends(why) /\ UNCHANGED <<text, acc, transcript>>
     \/ /\ text' = Call /\ acc' = <<<<"all">>>>
        /\ transcript' = AllStarted(Told(transcript), 0, Calls(text'))
        /\ Ends("tool_calls")
  /\ UNCHANGED <<server, ask, shown, live, turn>>

-----------------------------------------------------------------------------
(* The agent *)

\* _parse_tool_calls: no arguments at all stand for {}, arguments that are no JSON are
\* skipped.  Only "length" and an exception keep the agent from looking at the calls.
Executed == IF reason \in {"raised", "length"} THEN {}
            ELSE {i \in DOMAIN acc : acc[i] = <<>> \/ Whole(acc[i])}

NextTurn ==
  /\ pc' = "idle" /\ ask' = NoRequest /\ reason' = "none"
  /\ text' = <<>> /\ shown' = 0 /\ live' = "prose" /\ acc' = <<>>
  /\ UNCHANGED server

\* The calls are executed, one result each, and the next turn begins.
TurnEnds ==
  /\ pc = "ended" /\ Executed # {}
  /\ transcript' = Append(transcript, Entry("result", 0, <<>>))
  /\ UNCHANGED turn
  /\ NextTurn

\* Without a call to execute, after an exception, or at the bound the run is over; the
\* next one has a transcript of its own.
RunEnds ==
  /\ \/ pc = "ended" /\ Executed = {}
     \/ pc = "idle" /\ turn = MaxTurns
  /\ transcript' = <<>> /\ turn' = 0
  /\ NextTurn

NextStream ==
  \/ Requested \/ Raises \/ Refused \/ Probed \/ Thinks \/ Streams \/ StreamEnds
  \/ ChatStreams \/ (\E n \in 0 .. 1 : ChatEnds(n)) \/ ForceEnds
  \/ TurnEnds \/ RunEnds

-----------------------------------------------------------------------------
(* Properties *)

\* A gated response is shown once, wherever its chunks are cut: no piece of a tool call as
\* content, and at the end all of the prose; the rest is a parsed call or the live preview.
\* (After a tag without a name nothing more of the text is shown at all.)
ProseIsShownOnce ==
  pc \in {"tail", "ended"} /\ Gated(ask) =>
    /\ shown <= Prose(text)
    /\ pc = "ended" /\ reason \in {"stop", "tool_calls"} => shown = Prose(text)
    /\ pc = "ended" /\ reason = "stop" /\ Named(text) => acc # <<>>

\* A call whose text was cut after its name had been shown: the start of the preview is
\* all the agent has of it.
CutShort == Gated(ask) /\ Named(text) /\ Calls(text) = 0

\* Where the ids of the turn's calls begin.  The arguments of a plain stream come in
\* fragments; in one piece they are those of recovered calls, for which nothing is parsed.
FirstId == IF ~Gated(ask) /\ text = <<>> /\ acc # <<>> /\ acc[1] = <<"all">>
           THEN Recovered ELSE 0

\* Calls that the agent executes have the arguments the model has finished writing, all of
\* the model's calls are among them, and the transcript has each of them once, with these
\* arguments and without the preview.  In one case it is otherwise: a call cut short after
\* its name was shown is executed with no arguments, against what base.py says of the
\* preview ("unaffected by this"); it is then the only one of its turn.
CallsAreComplete ==
  pc = "ended" /\ Executed # {} =>
    IF CutShort THEN acc = <<<<>>>>
    ELSE /\ Gated(ask) => Len(acc) = Calls(text)
         /\ \A i \in Executed :
              /\ Whole(acc[i])
              /\ \E k \in DOMAIN transcript :
                   /\ IsCall(transcript[k], FirstId + i - 1) /\ transcript[k].args = acc[i]
                   /\ \A l \in DOMAIN transcript :
                        IsCall(transcript[l], FirstId + i - 1) => l = k
=============================================================================
