-------------------------- MODULE ModelServerProofs --------------------------
(***************************************************************************)
(* What holds of ModelServer for any number of image tools, any length of  *)
(* the responses and of their chunks, and any number of turns.             *)
(*                                                                         *)
(* First the GPU, which passes between the server and the image tools;     *)
(* then the completions: what the parser makes of a text (recursive, so by *)
(* the lemmas of Recursion), what the events leave in the transcript, and  *)
(* the invariant of a turn.                                                *)
(***************************************************************************)
EXTENDS ModelServer, Recursion, SequenceTheorems, TLAPS

Phases == {"ready", "stopping", "generate", "check", "launch", "wait", "over"}

Typed ==
  /\ image \in [Images -> Phases]
  /\ sd \subseteq Images

\* A tool that no other has met, and that began on a free GPU, has it until it is done.
HasGpu == \A i \in Images \ shared : image[i] = "generate" => server = "down"

\* Some tool will start the server again, unless it has been lost.
WillRestart ==
  server = "down" /\ ~lost =>
    \E i \in Images : image[i] \in {"stopping", "generate", "check", "launch"}

\* Tools that overlap share the GPU.
Overlaps == \A i, k \in Busy : i # k => i \in shared

RoomInv == Typed /\ HasGpu /\ WillRestart /\ Overlaps

\* The completions leave the server's process alone: only the tools and the server end it.
LEMMA StreamLeavesServer == NextStream => UNCHANGED server
<1> SUFFICES ASSUME NextStream PROVE server' = server
  OBVIOUS
<1>1. CASE Requested \/ Raises \/ Refused \/ Probed \/ Thinks
  BY <1>1 DEF Requested, Raises, Refused, Probed, Thinks
<1>2. CASE Streams \/ StreamEnds \/ ChatStreams \/ ForceEnds
  BY <1>2 DEF Streams, StreamEnds, ChatStreams, ForceEnds
<1>3. ASSUME NEW n \in 0 .. 1, ChatEnds(n) PROVE server' = server
  BY <1>3 DEF ChatEnds
<1>4. CASE TurnEnds \/ RunEnds
  BY <1>4 DEF TurnEnds, RunEnds, NextTurn
<1> QED BY <1>1, <1>2, <1>3, <1>4 DEF NextStream

\* A tool that goes from one phase to the next of its work changes nobody else's.
LEMMA ToolGoes ==
  ASSUME Typed, NEW i \in Images, NEW phase \in Phases, Goes(i, phase)
  PROVE  /\ image' \in [Images -> Phases]
         /\ image'[i] = phase
         /\ \A k \in Images \ {i} : image'[k] = image[k]
BY DEF Typed, Goes

\* A tool that is over shares the GPU with nobody any more.
LEMMA ToolOver ==
  ASSUME RoomInv, NEW i \in Images, Over(i), UNCHANGED server, sd' \subseteq Images,
         \/ server # "down" \/ lost'
         \/ image[i] = "wait" /\ lost' = lost
  PROVE  RoomInv'
<1>1. /\ image' \in [Images -> Phases] /\ image'[i] = "over" /\ shared' = shared \ {i}
      /\ \A k \in Images \ {i} : image'[k] = image[k]
  BY ToolGoes DEF Over, RoomInv, Phases
<1>2. Typed'
  BY <1>1 DEF Typed
<1>3. HasGpu'
  BY <1>1 DEF RoomInv, HasGpu
<1>4. WillRestart'
  BY <1>1 DEF RoomInv, WillRestart
<1>5. Overlaps'
  BY <1>1 DEF RoomInv, Overlaps, Busy
<1> QED BY <1>2, <1>3, <1>4, <1>5 DEF RoomInv

\* No step of the tools, the server or the completions breaks it.
LEMMA RoomStep == RoomInv /\ [Next]_vars => RoomInv'
<1> SUFFICES ASSUME RoomInv, [Next]_vars PROVE RoomInv'
  OBVIOUS
<1> USE DEF RoomInv
<1>1. CASE UNCHANGED vars
  BY <1>1 DEF vars, images, Typed, HasGpu, WillRestart, Overlaps, Busy
<1>2. CASE NextStream /\ UNCHANGED images
  BY <1>2, StreamLeavesServer DEF images, Typed, HasGpu, WillRestart, Overlaps, Busy
<1>3. CASE Loaded
  BY <1>3 DEF Loaded, images, Typed, HasGpu, WillRestart, Overlaps, Busy
<1>4. CASE Dies \/ Terminated
  <2>1. server' = "down" /\ UNCHANGED <<image, sd, shared>>
    BY <1>4 DEF Dies, Terminated, ServerEnds
  <2>2. lost' \/ \E i \in Images : image[i] = "stopping"
    BY <1>4 DEF Dies, Terminated
  <2> QED BY <2>1, <2>2 DEF Typed, HasGpu, WillRestart, Overlaps, Busy
<1>5. ASSUME NEW i \in Images, StopServer(i) PROVE RoomInv'
  <2>1. PICK phase \in {"stopping", "generate"} : Goes(i, phase)
    BY <1>5 DEF StopServer, Generates
  <2>2. /\ image' \in [Images -> Phases] /\ image'[i] = phase
        /\ \A k \in Images \ {i} : image'[k] = image[k]
    BY <2>1, ToolGoes DEF Phases
  <2>3. UNCHANGED <<server, lost>> /\ sd' \subseteq Images
    BY <1>5 DEF StopServer, Generates, Typed
  <2>4. shared \cup Meets(i) \subseteq shared'
    BY <1>5 DEF StopServer
  <2>5. phase = "generate" => server = "down" \/ i \in shared'
    BY <1>5, <2>1, <2>2 DEF StopServer, Goes, Beside, Typed
  <2>6. Overlaps'
    <3>1. Busy' = Busy \cup {i}
      BY <2>1, <2>2 DEF Busy
    <3> QED BY <2>4, <3>1 DEF Overlaps, Meets
  <2>7. HasGpu'
    BY <2>1, <2>2, <2>3, <2>4, <2>5 DEF HasGpu
  <2> QED BY <2>1, <2>2, <2>3, <2>6, <2>7 DEF Typed, WillRestart
<1>6. ASSUME NEW i \in Images, Stopped(i) PROVE RoomInv'
  <2>1. /\ image' \in [Images -> Phases] /\ image'[i] = "generate"
        /\ \A k \in Images \ {i} : image'[k] = image[k]
    BY <1>6, ToolGoes DEF Stopped, Generates, Phases
  <2>2. sd' \subseteq Images /\ UNCHANGED <<server, lost>>
    BY <1>6 DEF Stopped, Generates, Typed
  <2>3. shared \subseteq shared' /\ (server = "down" \/ i \in shared')
    BY <1>6 DEF Stopped, Beside
  <2>4. HasGpu'
    BY <2>1, <2>2, <2>3 DEF HasGpu
  <2>5. Overlaps'
    BY <1>6, <2>1, <2>3 DEF Stopped, Overlaps, Busy
  <2> QED BY <2>1, <2>2, <2>4, <2>5 DEF Typed, WillRestart
<1>7. ASSUME NEW i \in Images, SdEnds(i) PROVE RoomInv'
  <2>1. sd' \subseteq Images /\ UNCHANGED <<server, shared, lost>>
    BY <1>7 DEF SdEnds, Typed
  <2>2. CASE image[i] = "generate"
    <3>1. /\ image' \in [Images -> Phases] /\ image'[i] = "check"
          /\ \A k \in Images \ {i} : image'[k] = image[k]
      BY <1>7, <2>2, ToolGoes DEF SdEnds, Goes, Phases
    <3> QED BY <2>1, <2>2, <3>1 DEF Typed, HasGpu, WillRestart, Overlaps, Busy
  <2>3. CASE image[i] # "generate"
    BY <1>7, <2>1, <2>3 DEF SdEnds, Typed, HasGpu, WillRestart, Overlaps, Busy
  <2> QED BY <2>2, <2>3
<1>8. ASSUME NEW i \in Images, Check(i) PROVE RoomInv'
  <2>1. CASE server = "up"
    BY <1>8, <2>1, ToolOver DEF Check, Typed
  <2>2. CASE server # "up"
    <3>1. /\ image' \in [Images -> Phases] /\ image'[i] = "launch" /\ shared' = shared
          /\ \A k \in Images \ {i} : image'[k] = image[k]
      BY <1>8, <2>2, ToolGoes DEF Check, Stays, Phases
    <3> QED BY <1>8, <3>1 DEF Check, Typed, HasGpu, WillRestart, Overlaps, Busy
  <2> QED BY <2>1, <2>2
<1>9. ASSUME NEW i \in Images, Launch(i) PROVE RoomInv'
  <2>1. CASE server = "down"
    <3>1. /\ image' \in [Images -> Phases] /\ image'[i] = "wait" /\ shared' = shared
          /\ \A k \in Images \ {i} : image'[k] = image[k]
      BY <1>9, <2>1, ToolGoes DEF Launch, Stays, Phases
    <3>2. server' = "loading" /\ UNCHANGED sd /\ image[i] = "launch"
      BY <1>9, <2>1 DEF Launch
    <3>3. Overlaps'
      BY <3>1, <3>2 DEF Overlaps, Busy
    <3>4. \A k \in Images \ shared : image'[k] \notin {"stopping", "generate"}
      BY <3>1, <3>2 DEF Overlaps, Busy
    <3> QED BY <3>1, <3>2, <3>3, <3>4 DEF Typed, HasGpu, WillRestart
  <2>2. CASE server # "down"
    BY <1>9, <2>2, ToolOver DEF Launch, Typed
  <2> QED BY <2>1, <2>2
<1>10. ASSUME NEW i \in Images, Waited(i) PROVE RoomInv'
  BY <1>10, ToolOver DEF Waited, Typed
<1>11. ASSUME NEW i \in Images, AbortTool(i) PROVE RoomInv'
  <2>1. CASE image[i] = "generate"
    <3>1. /\ image' \in [Images -> Phases] /\ image'[i] = "check" /\ shared' = shared
          /\ \A k \in Images \ {i} : image'[k] = image[k]
      BY <1>11, <2>1, ToolGoes DEF AbortTool, Phases
    <3>2. UNCHANGED <<server, sd>> /\ (lost' <=> lost)
      BY <1>11, <2>1, Zenon DEF AbortTool
    <3> QED BY <2>1, <3>1, <3>2 DEF Typed, HasGpu, WillRestart, Overlaps, Busy
  <2>2. CASE image[i] \in {"stopping", "check"}
    <3>1. server # "down" \/ lost'
      BY <1>11, <2>2 DEF AbortTool
    <3>2. Over(i) /\ UNCHANGED server /\ sd' \subseteq Images
      BY <1>11, <2>2 DEF AbortTool, Typed
    <3> QED BY <3>1, <3>2, ToolOver
  <2>3. CASE image[i] = "wait"
    <3>1. lost' <=> lost
      BY <1>11, <2>3, Zenon DEF AbortTool
    <3>2. WillRestart => (server = "down" /\ ~lost' => \E k \in Images \ {i} :
            image[k] \in {"stopping", "generate", "check", "launch"})
      BY <2>3, <3>1 DEF WillRestart
    <3>3. /\ image' \in [Images -> Phases] /\ image'[i] = "over" /\ shared' = shared \ {i}
          /\ \A k \in Images \ {i} : image'[k] = image[k]
      BY <1>11, <2>3, ToolGoes DEF AbortTool, Over, Phases
    <3>4. UNCHANGED <<server, sd>>
      BY <1>11 DEF AbortTool
    <3>5. HasGpu' /\ Overlaps' /\ Typed'
      BY <3>3, <3>4 DEF HasGpu, Overlaps, Busy, Typed
    <3> QED BY <3>2, <3>3, <3>4, <3>5 DEF WillRestart
  <2> QED BY <1>11, <2>1, <2>2, <2>3 DEF AbortTool
<1> QED
  BY <1>1, <1>2, <1>3, <1>4, <1>5, <1>6, <1>7, <1>8, <1>9, <1>10, <1>11 DEF Next, ImageTool

\* A tool that waits for sd-cli has the GPU for itself, unless another overlaps or stop()
\* went on beside a server (it still answers after 10 s, or may not be terminated); and when
\* all are over there is a server again, unless it was lost on the way.
THEOREM ServerAlwaysMakesRoom == Spec => []ServerMakesRoom
<1>1. Init => RoomInv
  BY DEF Init, RoomInv, Typed, HasGpu, WillRestart, Overlaps, Busy, Phases
<1>2. RoomInv => ServerMakesRoom
  BY DEF RoomInv, Typed, HasGpu, WillRestart, Busy, ServerMakesRoom
<1> QED BY <1>1, <1>2, RoomStep, PTL DEF Spec

-----------------------------------------------------------------------------
(* The texts: what the recursion of Calls computes *)

\* First takes the least element of a set of places that is not empty.
LEMMA FirstIsLeast ==
  ASSUME NEW S \in SUBSET Nat, S # {}
  PROVE  First(S) \in S /\ \A k \in S : First(S) <= k
BY LeastNumber DEF First

Texts == Seq(Symbols)

\* The places at which a text has a tag or a symbol.
LEMMA TagsOf ==
  ASSUME NEW t \in Texts, NEW from \in Nat
  PROVE  /\ Len(t) \in Nat
         /\ Tags(t, from) = {i \in from .. Len(t) : t[i] = "<" /\ i < Len(t) /\ t[i + 1] = "t"}
         /\ Tags(t, from) \in SUBSET Nat
         /\ \A x : Places(t, from, x) \in SUBSET Nat
BY DEF Texts, Tags, Places

\* The number of calls in t from the place k on, when count says it behind k.
CallsFrom(t, count, k) ==
  IF Tags(t, k) = {} THEN 0
  ELSE LET i == First(Tags(t, k))
           ends == Places(t, i + 2, "e")
       IN IF ends = {} THEN 0
          ELSE (IF \E n \in Places(t, i + 2, "n") : n < First(ends) THEN 1 ELSE 0)
               + count[First(ends) + 1]

\* parse_all_tool_calls goes on behind the end of each call: its recursion is over the
\* places of the text, upwards, and has a solution.
LEMMA CallsRecursion ==
  ASSUME NEW t \in Texts
  PROVE  \E count \in [1 .. Len(t) + 1 -> Nat] :
           /\ Calls(t) = count[1]
           /\ \A k \in 1 .. Len(t) + 1 : count[k] = CallsFrom(t, count, k)
<1> DEFINE S == 1 .. Len(t) + 1
           F == [k \in S |-> [g \in [S -> Nat] |-> CallsFrom(t, g, k)]]
           count == CHOOSE c : c = [k \in S |-> CallsFrom(t, c, k)]
<1>1. ASSUME NEW k \in S
      PROVE  /\ \A g \in [S -> Nat] : CallsFrom(t, g, k) \in Nat
             /\ \A g, h : (\A y \in S : k < y => g[y] = h[y])
                            => CallsFrom(t, g, k) = CallsFrom(t, h, k)
  <2>1. CASE Tags(t, k) = {}
    BY <2>1 DEF CallsFrom
  <2>2. CASE Tags(t, k) # {} /\ Places(t, First(Tags(t, k)) + 2, "e") = {}
    BY <2>2 DEF CallsFrom
  <2>3. CASE Tags(t, k) # {} /\ Places(t, First(Tags(t, k)) + 2, "e") # {}
    <3> DEFINE i == First(Tags(t, k))
               e == First(Places(t, i + 2, "e"))
    <3>1. i \in Tags(t, k)
      BY <2>3, FirstIsLeast, TagsOf
    <3>2. e \in Places(t, i + 2, "e")
      <4>1. i + 2 \in Nat
        BY <3>1, TagsOf
      <4>2. Places(t, i + 2, "e") \in SUBSET Nat
        BY <4>1, TagsOf
      <4> QED BY <2>3, <4>2, FirstIsLeast
    <3>3. e + 1 \in S /\ k < e + 1
      BY <3>1, <3>2 DEF Places, Tags, Texts
    <3> HIDE DEF i, e
    <3>4. \A g : CallsFrom(t, g, k) = (IF \E n \in Places(t, i + 2, "n") : n < e THEN 1 ELSE 0) + g[e + 1]
      BY <2>3 DEF CallsFrom, i, e
    <3> HIDE DEF S
    <3> QED BY <3>3, <3>4
  <2> QED BY <2>1, <2>2, <2>3
<1>2. Solvable(F, S, Nat)
  <2>1. F \in [S -> [[S -> Nat] -> Nat]]
    BY <1>1
  <2>2. \A x \in S : \A g, h \in [S -> Nat] : (\A y \in S : x < y => g[y] = h[y]) => F[x][g] = F[x][h]
    BY <1>1
  <2>3. Len(t) + 1 \in Nat /\ S \in SUBSET (0 .. Len(t) + 1) /\ Nat # {}
    BY DEF Texts
  <2> HIDE DEF F, S
  <2> QED BY <2>1, <2>2, <2>3, RecursionDown
<1>3. PICK f \in [S -> Nat] : \A k \in S : f[k] = CallsFrom(t, f, k)
  BY <1>2 DEF Solvable
<1>4. f = [k \in S |-> CallsFrom(t, f, k)]
  BY <1>3
<1>5. count = [k \in S |-> CallsFrom(t, count, k)]
  <2> HIDE DEF S
  <2> QED BY <1>4
<1>7. count \in [S -> Nat]
  <2> DEFINE P == {k \in S : count[k] \in Nat}
  <2> HIDE DEF count
  <2>1. ASSUME NEW k \in S, \A y \in S : k < y => y \in P PROVE k \in P
    <3> DEFINE g == [y \in S |-> IF k < y THEN count[y] ELSE 0]
    <3>1. g \in [S -> Nat] /\ \A y \in S : k < y => g[y] = count[y]
      BY <2>1
    <3> HIDE DEF g
    <3>2. CallsFrom(t, g, k) = CallsFrom(t, count, k) /\ CallsFrom(t, g, k) \in Nat
      BY <1>1, <3>1
    <3> HIDE DEF S
    <3> QED BY <1>5, <3>2
  <2>2. Len(t) + 1 \in Nat /\ S \in SUBSET (0 .. Len(t) + 1)
    BY DEF Texts
  <2> HIDE DEF S, P
  <2>3. S \subseteq P
    BY <2>1, <2>2, InductionDown
  <2> QED BY <1>5, <2>3 DEF P
<1>6. Calls(t) = count[1]
  BY DEF Calls, CallsFrom
<1> HIDE DEF count, S
<1> QED BY <1>5, <1>6, <1>7 DEF S

Fragments == {"raw", "all", "half"}
Entries == [kind : {"text", "call", "result"}, id : Nat, args : Seq(Fragments)]

\* A transcript that has every call once.
Once(tr) ==
  /\ tr \in Seq(Entries)
  /\ \A k, l \in DOMAIN tr : \A id \in Nat : IsCall(tr[k], id) /\ IsCall(tr[l], id) => k = l

Has(tr, id, args) == \E k \in DOMAIN tr : IsCall(tr[k], id) /\ tr[k].args = args

\* Whatever Entry is given, it makes an entry of the transcript.
LEMMA EntryType ==
  ASSUME NEW kind \in {"text", "call", "result"}, NEW id \in Nat, NEW args \in Seq(Fragments)
  PROVE  /\ Entry(kind, id, args) \in Entries
         /\ \A i : IsCall(Entry(kind, id, args), i) <=> kind = "call" /\ id = i
         /\ Entry(kind, id, args).args = args
BY DEF Entry, Entries, IsCall

\* Something else at the end, that is no call.
LEMMA AppendOther ==
  ASSUME NEW tr, Once(tr), NEW kind \in {"text", "result"}
  PROVE  /\ Once(Append(tr, Entry(kind, 0, <<>>)))
         /\ \A i \in Nat : \A a : Has(tr, i, a) => Has(Append(tr, Entry(kind, 0, <<>>)), i, a)
<1> DEFINE e == Entry(kind, 0, <<>>)
           ta == Append(tr, e)
<1>0. 0 \in Nat /\ <<>> \in Seq(Fragments)
  OBVIOUS
<1>1. e \in Entries /\ \A i : ~IsCall(e, i)
  BY <1>0, EntryType
<1> HIDE DEF e
<1>2. /\ ta \in Seq(Entries) /\ DOMAIN ta = DOMAIN tr \cup {Len(tr) + 1} /\ ta[Len(tr) + 1] = e
      /\ \A k \in DOMAIN tr : ta[k] = tr[k]
  BY <1>1 DEF Once
<1> HIDE DEF ta
<1> QED BY <1>1, <1>2 DEF Once, Has, e, ta

\* Content and thinking leave the calls of the transcript as they are.
LEMMA ToldKeeps ==
  ASSUME NEW tr, Once(tr)
  PROVE  Once(Told(tr)) /\ \A i \in Nat : \A a : Has(tr, i, a) => Has(Told(tr), i, a)
BY AppendOther DEF Told

\* Entries that are changed in their arguments only.
LEMMA ArgsChange ==
  ASSUME NEW tr, NEW ta, Once(tr), ta \in Seq(Entries), DOMAIN ta = DOMAIN tr,
         \A k \in DOMAIN tr : ta[k].kind = tr[k].kind /\ ta[k].id = tr[k].id
  PROVE  Once(ta) /\ \A k \in DOMAIN tr : \A i : IsCall(ta[k], i) <=> IsCall(tr[k], i)
BY DEF Once, IsCall

\* A raw fragment leaves every call but the last entry as it is.
LEMMA PreviewedKeeps ==
  ASSUME NEW tr, Once(tr)
  PROVE  Once(Previewed(tr))
<1>1. CASE Previewed(tr) = tr
  BY <1>1
<1>2. CASE Previewed(tr) # tr
  <2>1. tr # <<>> /\ Previewed(tr) = [tr EXCEPT ![Len(tr)].args = Append(@, "raw")]
    BY <1>2 DEF Previewed
  <2>2. Len(tr) \in DOMAIN tr /\ tr \in Seq(Entries)
    BY <2>1 DEF Once
  <2>3. tr[Len(tr)] \in Entries
    BY <2>2
  <2>4. [tr[Len(tr)] EXCEPT !.args = Append(@, "raw")] \in Entries
    BY <2>3, SMTT(30) DEF Entries, Fragments
  <2>5. /\ Previewed(tr) \in Seq(Entries) /\ DOMAIN Previewed(tr) = DOMAIN tr
        /\ \A k \in DOMAIN tr : Previewed(tr)[k].kind = tr[k].kind /\ Previewed(tr)[k].id = tr[k].id
    BY <2>1, <2>2, <2>3, <2>4 DEF Entries
  <2> QED BY <2>5, ArgsChange
<1> QED BY <1>1, <1>2

\* The start of a call makes or empties its one entry, and no other.
LEMMA StartedKeeps ==
  ASSUME NEW tr, Once(tr), NEW id \in Nat
  PROVE  /\ Once(Started(tr, id)) /\ Has(Started(tr, id), id, <<>>)
         /\ \A i \in Nat \ {id} : \A a : Has(tr, i, a) => Has(Started(tr, id), i, a)
<1> DEFINE ta == Started(tr, id)
<1>1. CASE \E k \in DOMAIN tr : IsCall(tr[k], id)
  <2> DEFINE k == First({i \in DOMAIN tr : IsCall(tr[i], id)})
  <2>1. k \in DOMAIN tr /\ IsCall(tr[k], id)
    <3> DEFINE T == {i \in DOMAIN tr : IsCall(tr[i], id)}
    <3>1. T \in SUBSET Nat /\ T # {}
      BY <1>1 DEF Once
    <3>2. First(T) \in T
      BY <3>1, FirstIsLeast
    <3> QED BY <3>2
  <2>2. ta = [tr EXCEPT ![k].args = <<>>]
    BY <1>1 DEF Started
  <2>3. tr \in Seq(Entries) /\ tr[k] \in Entries
    BY <2>1 DEF Once
  <2> HIDE DEF k
  <2>4. [tr[k] EXCEPT !.args = <<>>] \in Entries
    <3>1. <<>> \in Seq(Fragments)
      OBVIOUS
    <3> QED BY <2>3, <3>1 DEF Entries
  <2>9. DOMAIN tr = 1 .. Len(tr)
    BY <2>3
  <2>5. /\ ta \in Seq(Entries) /\ DOMAIN ta = DOMAIN tr /\ ta[k].args = <<>>
        /\ \A j \in DOMAIN tr : ta[j].kind = tr[j].kind /\ ta[j].id = tr[j].id
        /\ \A j \in DOMAIN tr \ {k} : ta[j] = tr[j]
    <3>1. ta[k] = [tr[k] EXCEPT !.args = <<>>]
      BY <2>1, <2>2
    <3>2. \A j \in DOMAIN tr \ {k} : ta[j] = tr[j]
      BY <2>2
    <3>3. [tr[k] EXCEPT !.args = <<>>].args = <<>>
      BY <2>3 DEF Entries
    <3>4. /\ [tr[k] EXCEPT !.args = <<>>].kind = tr[k].kind
          /\ [tr[k] EXCEPT !.args = <<>>].id = tr[k].id
      BY <2>3 DEF Entries
    <3>5. ta \in Seq(Entries) /\ DOMAIN ta = DOMAIN tr
      BY <2>1, <2>2, <2>3, <2>4
    <3> HIDE DEF ta
    <3> QED BY <3>1, <3>2, <3>3, <3>4, <3>5
  <2> HIDE DEF ta
  <2>6. Once(ta) /\ \A j \in DOMAIN tr : \A i : IsCall(ta[j], i) <=> IsCall(tr[j], i)
    BY <2>5, ArgsChange
  <2>7. Has(ta, id, <<>>)
    BY <2>1, <2>5, <2>6 DEF Has
  <2>8. ASSUME NEW i \in Nat \ {id}, NEW a, Has(tr, i, a) PROVE Has(ta, i, a)
    <3>1. PICK j \in DOMAIN tr : IsCall(tr[j], i) /\ tr[j].args = a
      BY <2>8 DEF Has
    <3>2. j # k
      BY <2>1, <3>1 DEF IsCall
    <3> QED BY <2>5, <2>6, <3>1, <3>2 DEF Has
  <2> QED BY <2>6, <2>7, <2>8 DEF ta
<1>2. CASE ~ \E k \in DOMAIN tr : IsCall(tr[k], id)
  <2> DEFINE e == Entry("call", id, <<>>)
  <2>1. e \in Entries /\ (\A i : IsCall(e, i) <=> id = i) /\ e.args = <<>>
    <3>1. <<>> \in Seq(Fragments)
      OBVIOUS
    <3> QED BY <3>1, EntryType
  <2>2. ta = Append(tr, e)
    BY <1>2 DEF Started
  <2> HIDE DEF e
  <2>3. /\ ta \in Seq(Entries) /\ DOMAIN ta = DOMAIN tr \cup {Len(tr) + 1} /\ ta[Len(tr) + 1] = e
        /\ \A k \in DOMAIN tr : ta[k] = tr[k]
    BY <2>1, <2>2 DEF Once
  <2> HIDE DEF ta
  <2> QED BY <1>2, <2>1, <2>3 DEF Once, Has, ta
<1> QED BY <1>1, <1>2

\* The arguments of a call go to its entry, and to no other.
LEMMA ArguedKeeps ==
  ASSUME NEW tr, Once(tr), NEW id \in Nat, NEW fragment \in Fragments
  PROVE  /\ Once(Argued(tr, id, fragment))
         /\ \A a : Has(tr, id, a) => Has(Argued(tr, id, fragment), id, Append(a, fragment))
         /\ \A i \in Nat \ {id} : \A a : Has(tr, i, a) => Has(Argued(tr, id, fragment), i, a)
<1> DEFINE ta == Argued(tr, id, fragment)
<1>1. tr \in Seq(Entries) /\ \A k \in DOMAIN tr : tr[k] \in Entries
  BY DEF Once
<1>2. ASSUME NEW k \in DOMAIN tr
      PROVE  /\ ta[k] \in Entries /\ ta[k].kind = tr[k].kind /\ ta[k].id = tr[k].id
             /\ ta[k].args = IF IsCall(tr[k], id) THEN Append(tr[k].args, fragment) ELSE tr[k].args
  <2>1. tr[k] \in Entries
    BY <1>1
  <2>2. Append(tr[k].args, fragment) \in Seq(Fragments)
    BY <2>1 DEF Entries
  <2> DEFINE e == [tr[k] EXCEPT !.args = Append(@, fragment)]
  <2>3. e \in Entries /\ e.kind = tr[k].kind /\ e.id = tr[k].id /\ e.args = Append(tr[k].args, fragment)
    BY <2>1, <2>2 DEF Entries
  <2>4. ta[k] = IF IsCall(tr[k], id) THEN e ELSE tr[k]
    BY DEF Argued
  <2> HIDE DEF ta, e
  <2> QED BY <2>1, <2>3, <2>4
<1>3. ta \in Seq(Entries) /\ DOMAIN ta = DOMAIN tr
  <2>1. DOMAIN ta = DOMAIN tr /\ DOMAIN tr = 1 .. Len(tr) /\ Len(tr) \in Nat
    BY <1>1 DEF Argued
  <2>2. ta = [k \in 1 .. Len(tr) |-> ta[k]]
    BY <2>1 DEF Argued
  <2> HIDE DEF ta
  <2> QED BY <1>2, <2>1, <2>2
<1> HIDE DEF ta
<1>4. Once(ta) /\ \A k \in DOMAIN tr : \A i : IsCall(ta[k], i) <=> IsCall(tr[k], i)
  BY <1>2, <1>3, ArgsChange
<1>5. \A a : Has(tr, id, a) => Has(ta, id, Append(a, fragment))
  BY <1>2, <1>3, <1>4 DEF Has
<1>6. \A i \in Nat \ {id} : \A a : Has(tr, i, a) => Has(ta, i, a)
  BY <1>2, <1>3, <1>4 DEF Has, IsCall
<1> QED BY <1>4, <1>5, <1>6 DEF ta

\* The calls of a text are in the transcript afterwards, each once and with its arguments.
LEMMA AllStartedKeeps ==
  ASSUME NEW tr, Once(tr), NEW first \in Nat, NEW n \in Nat
  PROVE  /\ Once(AllStarted(tr, first, n))
         /\ \A id \in first .. first + n - 1 : Has(AllStarted(tr, first, n), id, <<"all">>)
<1> DEFINE S == 0 .. n
           T == {t \in Seq(Entries) : Once(t)}
           Value(g, k) == IF k = 0 THEN tr
                          ELSE Argued(Started(g[k - 1], first + k - 1), first + k - 1, "all")
           F == [k \in S |-> [g \in [S -> T] |-> Value(g, k)]]
           upTo == CHOOSE f : f = [k \in S |-> Value(f, k)]
<1>1. ASSUME NEW t, Once(t), NEW k \in S, k # 0
      PROVE  LET id == first + k - 1
                 after == Argued(Started(t, id), id, "all")
             IN /\ Once(after) /\ Has(after, id, <<"all">>)
                /\ \A i \in Nat \ {id} : \A a : Has(t, i, a) => Has(after, i, a)
  <2> DEFINE id == first + k - 1
  <2>1. id \in Nat /\ "all" \in Fragments /\ Append(<<>>, "all") = <<"all">>
    BY <1>1 DEF Fragments
  <2> HIDE DEF id
  <2> DEFINE ta == Started(t, id)
  <2>2. /\ Once(ta) /\ Has(ta, id, <<>>)
        /\ \A i \in Nat \ {id} : \A a : Has(t, i, a) => Has(ta, i, a)
    BY <1>1, <2>1, StartedKeeps
  <2> HIDE DEF ta
  <2>3. /\ Once(Argued(ta, id, "all"))
        /\ \A a : Has(ta, id, a) => Has(Argued(ta, id, "all"), id, Append(a, "all"))
        /\ \A i \in Nat \ {id} : \A a : Has(ta, i, a) => Has(Argued(ta, id, "all"), i, a)
    BY <2>1, <2>2, ArguedKeeps
  <2> QED BY <2>1, <2>2, <2>3 DEF ta, id
<1>2. Solvable(F, S, T)
  <2>1. T # {} /\ S \in SUBSET Nat
    BY DEF Once
  <2>2. ASSUME NEW k \in S, NEW g \in [S -> T] PROVE Value(g, k) \in T
    <3>1. CASE k = 0
      BY <3>1 DEF Once
    <3>2. CASE k # 0
      <4>1. k - 1 \in S
        BY <3>2
      <4>2. Once(g[k - 1])
        BY <4>1
      <4>3. Once(Value(g, k))
        BY <1>1, <3>2, <4>2
      <4> QED BY <4>3 DEF Once
    <3> QED BY <3>1, <3>2
  <2>3. F \in [S -> [[S -> T] -> T]]
    <3> HIDE DEF T, Value, S
    <3> QED BY <2>2
  <2>4. \A x \in S : \A g, h \in [S -> T] : (\A y \in S : y < x => g[y] = h[y]) => F[x][g] = F[x][h]
    <3>1. ASSUME NEW x \in S, NEW g \in [S -> T], NEW h \in [S -> T],
                 \A y \in S : y < x => g[y] = h[y]
          PROVE  Value(g, x) = Value(h, x)
      <4>1. x # 0 => x - 1 \in S /\ x - 1 < x
        OBVIOUS
      <4> HIDE DEF S, T
      <4> QED BY <3>1, <4>1
    <3> HIDE DEF T, Value, S
    <3> QED BY <3>1
  <2> HIDE DEF F, S, T
  <2> QED BY <2>1, <2>3, <2>4, RecursionUp
<1>3. PICK f \in [S -> T] : \A k \in S : f[k] = Value(f, k)
  <2> HIDE DEF S, T, Value
  <2>1. PICK f \in [S -> T] : \A k \in S : f[k] = F[k][f]
    BY <1>2 DEF Solvable
  <2> QED BY <2>1
<1>4. f = [k \in S |-> Value(f, k)]
  <2> HIDE DEF S, T, Value
  <2> QED BY <1>3
<1>5. upTo = [k \in S |-> Value(upTo, k)]
  <2> HIDE DEF S, T, Value
  <2> QED BY <1>4
<1>6. AllStarted(tr, first, n) = upTo[n]
  BY DEF AllStarted
<1> HIDE DEF upTo, F
<1> DEFINE Good == {k \in S : Once(upTo[k]) /\ \A id \in first .. first + k - 1 : Has(upTo[k], id, <<"all">>)}
<1>7. ASSUME NEW k \in S, \A y \in S : y < k => y \in Good PROVE k \in Good
  <2>1. upTo[k] = Value(upTo, k)
    <3> HIDE DEF S, Value
    <3> QED BY <1>5
  <2>2. CASE k = 0
    BY <2>1, <2>2
  <2>3. CASE k # 0
    <3>1. k - 1 \in S /\ k - 1 < k /\ k - 1 \in Nat
      BY <2>3
    <3>2. Once(upTo[k - 1]) /\ \A id \in first .. first + k - 2 : Has(upTo[k - 1], id, <<"all">>)
      BY <1>7, <3>1
    <3>3. upTo[k] = Argued(Started(upTo[k - 1], first + k - 1), first + k - 1, "all")
      BY <2>1, <2>3
    <3>4. /\ Once(upTo[k]) /\ Has(upTo[k], first + k - 1, <<"all">>)
          /\ \A i \in Nat \ {first + k - 1} : \A a : Has(upTo[k - 1], i, a) => Has(upTo[k], i, a)
      BY <1>1, <2>3, <3>2, <3>3
    <3>5. ASSUME NEW id \in first .. first + k - 1 PROVE Has(upTo[k], id, <<"all">>)
      <4>1. id = first + k - 1 \/ (id \in first .. first + k - 2 /\ id \in Nat \ {first + k - 1})
        OBVIOUS
      <4> QED BY <3>2, <3>4, <4>1
    <3> QED BY <3>4, <3>5
  <2> QED BY <2>2, <2>3
<1>8. S \subseteq Good
  <2>1. S \in SUBSET Nat
    OBVIOUS
  <2> HIDE DEF S, Good
  <2> QED BY <1>7, <2>1, InductionUp
<1>9. n \in S
  OBVIOUS
<1>10. Once(upTo[n]) /\ \A id \in first .. first + n - 1 : Has(upTo[n], id, <<"all">>)
  BY <1>8, <1>9
<1> QED BY <1>6, <1>10

\* The prose of a text ends before its first tag, or with the text.
LEMMA TagsFirst ==
  ASSUME NEW t \in Texts
  PROVE  /\ Prose(t) \in Nat /\ Prose(t) <= Len(t)
         /\ Tags(t, 1) = {} => Prose(t) = Len(t)
         /\ Tags(t, 1) # {} => Prose(t) = First(Tags(t, 1)) - 1 /\ Prose(t) + 1 \in Tags(t, 1)
<1>1. CASE Tags(t, 1) = {}
  BY <1>1 DEF Prose, Texts
<1>2. CASE Tags(t, 1) # {}
  <2>1. First(Tags(t, 1)) \in Tags(t, 1)
    BY <1>2, TagsOf, FirstIsLeast
  <2>2. First(Tags(t, 1)) \in 1 .. Len(t) /\ Len(t) \in Nat
    BY <2>1, TagsOf
  <2> QED BY <1>2, <2>1, <2>2 DEF Prose
<1> QED BY <1>1, <1>2

\* What is read behind a text leaves its first tag where it is; a tag that was not there
\* before begins with the last piece at the earliest.
LEMMA TagsGrow ==
  ASSUME NEW t \in Texts, NEW c \in Texts
  PROVE  /\ t \o c \in Texts /\ Len(t \o c) >= Len(t)
         /\ Tags(t, 1) # {} => Tags(t \o c, 1) # {} /\ Prose(t \o c) = Prose(t)
         /\ Tags(t, 1) = {} => \A i \in Tags(t \o c, 1) : i >= Len(t)
<1> DEFINE b == t \o c
<1>1. /\ b \in Texts /\ Len(b) = Len(t) + Len(c) /\ Len(t) \in Nat /\ Len(c) \in Nat
      /\ \A i \in 1 .. Len(t) : b[i] = t[i]
  BY DEF Texts
<1> HIDE DEF b
<1>2. /\ Tags(b, 1) = {i \in 1 .. Len(b) : b[i] = "<" /\ i < Len(b) /\ b[i + 1] = "t"}
      /\ Tags(t, 1) = {i \in 1 .. Len(t) : t[i] = "<" /\ i < Len(t) /\ t[i + 1] = "t"}
  BY <1>1, TagsOf
<1>3. \A i \in Tags(t, 1) : i \in Tags(b, 1)
  BY <1>1, <1>2
<1>4. \A i \in Tags(b, 1) : i \in Tags(t, 1) \/ i >= Len(t)
  BY <1>1, <1>2
<1>5. ASSUME Tags(t, 1) # {} PROVE Tags(b, 1) # {} /\ Prose(b) = Prose(t)
  <2> DEFINE i == First(Tags(t, 1))
             k == First(Tags(b, 1))
  <2>1. Tags(b, 1) # {} /\ Tags(b, 1) \in SUBSET Nat /\ Tags(t, 1) \in SUBSET Nat
    BY <1>1, <1>3, <1>5, TagsOf
  <2>2. i \in Tags(t, 1) /\ \A m \in Tags(t, 1) : i <= m
    BY <1>5, <2>1, FirstIsLeast
  <2>3. k \in Tags(b, 1) /\ \A m \in Tags(b, 1) : k <= m
    BY <2>1, FirstIsLeast
  <2> HIDE DEF i, k
  <2>4. i \in Nat /\ k \in Nat /\ i < Len(t)
    BY <1>2, <2>1, <2>2, <2>3
  <2>5. i = k
    BY <1>1, <1>3, <1>4, <2>2, <2>3, <2>4
  <2> QED BY <1>5, <2>1, <2>5 DEF Prose, i, k
<1> QED BY <1>1, <1>4, <1>5 DEF b

\* A text has some number of calls, none without a tag.
LEMMA CallsOf ==
  ASSUME NEW t \in Texts
  PROVE  Calls(t) \in Nat /\ (Tags(t, 1) = {} => Calls(t) = 0)
<1>1. PICK count \in [1 .. Len(t) + 1 -> Nat] :
        /\ Calls(t) = count[1]
        /\ \A k \in 1 .. Len(t) + 1 : count[k] = CallsFrom(t, count, k)
  BY CallsRecursion
<1>2. 1 \in 1 .. Len(t) + 1
  BY DEF Texts
<1> QED BY <1>1, <1>2 DEF CallsFrom

\* The text a forced call is made of has exactly one call.
LEMMA OneCall == Call \in Texts /\ Calls(Call) = 1
<1>1. Call \in Texts /\ Len(Call) = 4 /\ Call[1] = "<" /\ Call[2] = "t" /\ Call[3] = "n" /\ Call[4] = "e"
  BY DEF Call, Texts, Symbols
<1>8. Len(Call) + 1 = 5
  BY <1>1
<1>2. PICK count \in [1 .. Len(Call) + 1 -> Nat] :
        /\ Calls(Call) = count[1]
        /\ \A k \in 1 .. Len(Call) + 1 : count[k] = CallsFrom(Call, count, k)
  BY <1>1, CallsRecursion
<1>3. Tags(Call, 1) = {1} /\ Tags(Call, 5) = {}
  BY <1>1 DEF Tags, Places
<1>4. Places(Call, 3, "e") = {4} /\ Places(Call, 3, "n") = {3}
  BY <1>1 DEF Places
<1>5. \A S \in SUBSET Nat : \A k \in S : (\A m \in S : m = k) => First(S) = k
  BY FirstIsLeast
<1>6. count[5] = 0
  BY <1>2, <1>3, <1>8 DEF CallsFrom
<1>7. count[1] = 1 + count[5]
  <2>1. count[1] = CallsFrom(Call, count, 1)
    BY <1>2, <1>8
  <2>2. \E n \in {3} : n < 4
    OBVIOUS
  <2>3. First(Tags(Call, 1)) + 2 = 3 /\ Tags(Call, 1) # {}
    <3>1. Tags(Call, 1) \in SUBSET Nat /\ 1 \in Tags(Call, 1) /\ \A m \in Tags(Call, 1) : m = 1
      BY <1>3
    <3>2. First(Tags(Call, 1)) = 1
      BY <1>5, <3>1
    <3> QED BY <3>1, <3>2
  <2> DEFINE ends == Places(Call, First(Tags(Call, 1)) + 2, "e")
             names == Places(Call, First(Tags(Call, 1)) + 2, "n")
  <2>4. ends = {4} /\ names = {3}
    BY <1>4, <2>3
  <2>5. First(ends) = 4 /\ First(ends) + 1 = 5 /\ ends # {}
    <3>1. ends \in SUBSET Nat /\ 4 \in ends /\ \A m \in ends : m = 4
      BY <2>4
    <3> HIDE DEF ends
    <3>2. First(ends) = 4
      BY <1>5, <3>1
    <3> QED BY <3>1, <3>2
  <2>6. CallsFrom(Call, count, 1) =
          (IF \E n \in names : n < First(ends) THEN 1 ELSE 0) + count[First(ends) + 1]
    BY <2>3, <2>5 DEF CallsFrom
  <2> HIDE DEF ends, names
  <2> QED BY <2>1, <2>2, <2>4, <2>5, <2>6
<1> QED BY <1>1, <1>2, <1>6, <1>7

-----------------------------------------------------------------------------
(* The inductive invariant of a turn *)

\* The splitter has sent the prose it has read but for what may begin a tag; once there is
\* a tag, all of the prose before it, and once the call has a name, its start.
SplitInv ==
  /\ live = "prose" <=> Tags(text, 1) = {}
  /\ live = "prose" => shown <= Len(text) /\ (text # <<>> => shown < Len(text))
  /\ live # "prose" => shown = Prose(text)
  /\ live \in {"prose", "tag", "call"}
  /\ live = "call" <=> Named(text)
  /\ acc = IF live = "call" THEN <<<<>>>> ELSE <<>>

Halves == {<<>>, <<"half">>, <<"half", "half">>}

StreamInv ==
  /\ text \in Texts /\ shown \in Nat /\ acc \in Seq(Seq(Fragments)) /\ Once(transcript)
  /\ ask \in Requests
  /\ pc \in {"probe", "think", "tail"} => Gated(ask)
  /\ pc \in {"idle", "cut", "chat", "chatting", "force_probe", "force"} => ~Gated(ask)
  /\ pc \notin {"tail", "ended"} => text = <<>> /\ shown = 0 /\ live = "prose"
  /\ pc \notin {"tail", "ended", "chatting"} => acc = <<>>
  /\ pc = "tail" => SplitInv
  /\ pc = "chatting" /\ acc # <<>> =>
       Len(acc) = 1 /\ acc[1] \in Halves /\ Has(transcript, 0, acc[1])
  /\ ProseIsShownOnce /\ CallsAreComplete

\* Before anything of a response has been read, there is nothing to show and no call.
LEMMA EmptyText ==
  <<>> \in Texts /\ Tags(<<>>, 1) = {} /\ Prose(<<>>) = 0 /\ Calls(<<>>) = 0 /\ ~Named(<<>>)
<1>1. <<>> \in Texts /\ Tags(<<>>, 1) = {}
  BY DEF Texts, Tags, Places
<1> QED BY <1>1, TagsFirst, CallsOf DEF Named

\* A turn that has ended without a call to execute, and has shown no more than its prose.
LEMMA EndsBare ==
  ASSUME StreamInv, pc' = "ended", UNCHANGED <<ask, text, shown, acc, transcript>>,
         reason' \notin {"stop", "tool_calls"},
         acc = <<>> \/ reason' = "raised", Gated(ask) => shown <= Prose(text)
  PROVE  StreamInv'
<1>1. Executed' = {}
  BY DEF Executed
<1>2. ProseIsShownOnce'
  BY DEF ProseIsShownOnce, Named, Gated
<1>3. CallsAreComplete'
  BY <1>1 DEF CallsAreComplete
<1> QED BY <1>2, <1>3 DEF StreamInv, Once, Has, Gated

\* Where pc is neither "tail" nor "ended" the properties ask for nothing.
LEMMA Elsewhere == pc \notin {"tail", "ended"} => ProseIsShownOnce /\ CallsAreComplete
BY DEF ProseIsShownOnce, CallsAreComplete

\* At the start no turn has begun.
LEMMA StreamStarts == InitStream => StreamInv
<1>1. <<>> \in Seq(Entries) /\ <<>> \in Seq(Seq(Fragments)) /\ DOMAIN <<>> = {}
  OBVIOUS
<1> QED BY <1>1, EmptyText, Elsewhere DEF InitStream, StreamInv, Once, NoRequest, Requests, Gated

\* A request.
LEMMA RequestedKeeps == StreamInv /\ Requested => StreamInv'
<1> SUFFICES ASSUME StreamInv, Requested PROVE StreamInv'
  OBVIOUS
<1>1. PICK q \in Requests : ask' = q /\ pc' = IF Gated(q) THEN "probe" ELSE "chat"
  BY DEF Requested
<1>2. pc = "idle" /\ UNCHANGED <<text, shown, live, acc, transcript, reason>>
  BY DEF Requested
<1>3. pc' \notin {"tail", "ended"}
  BY <1>1
<1>4. (ProseIsShownOnce /\ CallsAreComplete)'
  BY <1>3 DEF ProseIsShownOnce, CallsAreComplete
<1> QED BY <1>1, <1>2, <1>4 DEF StreamInv, Once, Gated

\* Reset for the next turn, or for a response that is cut.
LEMMA ResetKeeps ==
  ASSUME StreamInv, pc' \in {"idle", "cut"}, ask' = NoRequest,
         text' = <<>>, shown' = 0, live' = "prose", acc' = <<>>, Once(transcript')
  PROVE  StreamInv'
<1>1. (ProseIsShownOnce /\ CallsAreComplete)'
  BY DEF ProseIsShownOnce, CallsAreComplete
<1>2. ask' \in Requests /\ ~Gated(ask')
  BY DEF NoRequest, Requests, Gated
<1>3. text' \in Texts /\ acc' \in Seq(Seq(Fragments)) /\ shown' \in Nat
  BY EmptyText
<1> QED BY <1>1, <1>2, <1>3 DEF StreamInv, Gated

\* What leaves the completion alone.
LEMMA StreamStays == StreamInv /\ UNCHANGED stream => StreamInv'
<1> SUFFICES ASSUME StreamInv, UNCHANGED stream PROVE StreamInv'
  OBVIOUS
<1>1. UNCHANGED <<pc, ask, text, shown, live, acc, transcript, reason>>
  BY DEF stream
<1>2. UNCHANGED <<Executed, CutShort, FirstId>>
  BY <1>1 DEF Executed, CutShort, FirstId, Gated, Named
<1>3. CallsAreComplete'
  BY <1>1, <1>2 DEF StreamInv, CallsAreComplete, Gated, IsCall
<1>4. ProseIsShownOnce'
  BY <1>1 DEF StreamInv, ProseIsShownOnce, Gated, Named
<1>5. SplitInv => SplitInv'
  BY <1>1 DEF SplitInv, Named
<1> QED BY <1>1, <1>3, <1>4, <1>5 DEF StreamInv, Once, Has, IsCall, Gated

\* The server ends under a response, or while none is read.
LEMMA ServerEndsKeeps == StreamInv /\ ServerEnds => StreamInv'
<1> SUFFICES ASSUME StreamInv, ServerEnds PROVE StreamInv'
  OBVIOUS
<1>1. CASE pc \in Requesting
  BY <1>1, ResetKeeps DEF ServerEnds, StreamInv
<1>2. CASE pc \notin Requesting
  <2>1. UNCHANGED stream
    BY <1>2 DEF ServerEnds
  <2> QED BY <2>1, StreamStays
<1> QED BY <1>1, <1>2

\* What comes before the text of a gated response, and what fails before it.
LEMMA ThinkingKeeps == StreamInv /\ (Raises \/ Refused \/ Probed \/ Thinks) => StreamInv'
<1> SUFFICES ASSUME StreamInv, Raises \/ Refused \/ Probed \/ Thinks PROVE StreamInv'
  OBVIOUS
<1>0. Prose(text) \in Nat /\ shown \in Nat
  BY TagsFirst DEF StreamInv
<1>1. CASE Raises
  <2>1. Gated(ask) => shown <= Prose(text)
    BY <1>1, <1>0, EmptyText DEF Raises, StreamInv, Requesting, ProseIsShownOnce
  <2> QED BY <1>1, <2>1, EndsBare DEF Raises, Ends
<1>2. CASE Refused
  <2>1. acc = <<>>
    BY <1>2, EmptyText DEF Refused, StreamInv, Requesting, SplitInv
  <2>2. Gated(ask) => shown <= Prose(text)
    BY <1>2, <1>0, EmptyText DEF Refused, StreamInv, Requesting, ProseIsShownOnce
  <2> QED BY <1>2, <2>1, <2>2, EndsBare DEF Refused, Ends
<1>3. CASE Probed
  <2>1. (ProseIsShownOnce /\ CallsAreComplete)'
    BY <1>3 DEF Probed, ProseIsShownOnce, CallsAreComplete
  <2> QED BY <1>3, <2>1 DEF Probed, StreamInv, Gated, Once, Requesting
<1>4. CASE Thinks
  <2>1. Once(transcript') /\ text = <<>> /\ acc = <<>> /\ shown = 0 /\ live = "prose"
    BY <1>4, ToldKeeps DEF Thinks, StreamInv
  <2>2. UNCHANGED <<ask, text, shown, live, acc>>
    BY <1>4 DEF Thinks
  <2>3. CASE pc' = "tail"
    <3>1. SplitInv' /\ (ProseIsShownOnce /\ CallsAreComplete)'
      BY <2>1, <2>2, <2>3, EmptyText DEF SplitInv, ProseIsShownOnce, CallsAreComplete, Named
    <3> QED BY <1>4, <2>1, <2>2, <2>3, <3>1 DEF Thinks, StreamInv, Gated
  <2>4. CASE pc' = "ended" /\ reason' = "error"
    <3>1. Executed' = {}
      BY <2>1, <2>2 DEF Executed
    <3>2. (ProseIsShownOnce /\ CallsAreComplete)'
      BY <2>1, <2>2, <2>4, <3>1, EmptyText DEF ProseIsShownOnce, CallsAreComplete
    <3> QED BY <1>4, <2>1, <2>2, <2>4, <3>2 DEF Thinks, StreamInv, Gated
  <2> QED BY <1>4, <2>3, <2>4 DEF Thinks, Ends
<1> QED BY <1>1, <1>2, <1>3, <1>4

\* A chunk of a gated response, wherever it is cut.
LEMMA StreamsKeeps == StreamInv /\ Streams => StreamInv'
<1> SUFFICES ASSUME StreamInv, Streams PROVE StreamInv'
  OBVIOUS
<1>1. PICK c \in Chunks(text) : Split(text \o c)
  BY DEF Streams
<1> DEFINE t == text \o c
<1>2. c \in Texts
  <2>1. PICK k \in 1 .. MaxChunk : c \in [1 .. k -> Symbols]
    BY DEF Chunks
  <2>2. k \in Nat
    BY BoundsAssumption
  <2> QED BY <2>1, <2>2 DEF Texts
<1>3. SplitInv /\ text \in Texts /\ shown \in Nat /\ Gated(ask) /\ Once(transcript)
  BY DEF StreamInv, Streams
<1>4. /\ t \in Texts /\ Len(t) >= Len(text) /\ Len(t) \in Nat /\ Len(text) \in Nat
      /\ Tags(text, 1) # {} => Tags(t, 1) # {} /\ Prose(t) = Prose(text)
      /\ Tags(text, 1) = {} => \A i \in Tags(t, 1) : i >= Len(text)
  BY <1>2, <1>3, TagsGrow DEF Texts
<1>5. UNCHANGED <<pc, ask, reason>> /\ pc = "tail"
  BY DEF Streams
<1> HIDE DEF t
<1> DEFINE tagged == live # "prose" \/ Tags(t, shown + 1) # {}
           sent == IF live # "prose" THEN shown
                   ELSE IF tagged THEN First(Tags(t, shown + 1)) - 1 ELSE Safe(t)
           named == tagged /\ (live = "call" \/ HasName(t, sent + 1))
           spoken == IF sent > shown THEN Told(transcript) ELSE transcript
<1>6. /\ text' = t /\ shown' = sent
      /\ live' = IF named THEN "call" ELSE IF tagged THEN "tag" ELSE "prose"
      /\ acc' = IF named /\ live # "call" THEN <<<<>>>> ELSE acc
      /\ transcript' = IF ~named THEN spoken
                       ELSE Previewed(IF live = "call" THEN spoken ELSE Started(spoken, 0))
  BY <1>1 DEF Split, t
<1>7. live = "prose" => Tags(t, shown + 1) = Tags(t, 1)
  <2>1. ASSUME live = "prose", NEW i \in Tags(t, 1) PROVE i \in Tags(t, shown + 1)
    <3>1. i >= Len(text) /\ i \in Nat /\ i >= 1
      BY <1>3, <1>4, <2>1, TagsOf DEF SplitInv
    <3>2. i >= shown + 1
      BY <1>3, <1>4, <2>1, <3>1 DEF SplitInv, Texts
    <3> QED BY <1>3, <1>4, <2>1, <3>1, <3>2, TagsOf
  <2>2. ASSUME NEW i \in Tags(t, shown + 1) PROVE i \in Tags(t, 1)
    BY <1>3, <1>4, TagsOf
  <2> QED BY <2>1, <2>2
<1>8. tagged <=> Tags(t, 1) # {}
  BY <1>3, <1>4, <1>7 DEF SplitInv
<1>9. /\ tagged => sent = Prose(t)
      /\ ~tagged => sent \in Nat /\ sent <= Len(t) /\ (t # <<>> => sent < Len(t))
  <2>1. CASE live # "prose"
    BY <1>3, <1>4, <2>1 DEF SplitInv
  <2>2. CASE live = "prose" /\ tagged
    BY <1>4, <1>7, <1>8, <2>2, TagsFirst
  <2>3. CASE live = "prose" /\ ~tagged
    <3>1. sent = Safe(t) /\ shown <= Len(text) /\ (text # <<>> => shown < Len(text))
      BY <1>3, <2>3 DEF SplitInv
    <3>2. t # <<>> => Len(t) > 0
      BY <1>4 DEF Texts
    <3>3. text = <<>> => Len(text) = 0
      OBVIOUS
    <3> QED BY <1>3, <1>4, <2>3, <3>1, <3>2, <3>3 DEF Safe
  <2> QED BY <2>1, <2>2, <2>3
<1>10. named <=> Named(t)
  <2>1. CASE ~tagged
    BY <1>8, <2>1 DEF Named
  <2>2. CASE tagged /\ live # "call"
    BY <1>8, <1>9, <2>2 DEF Named
  <2>3. CASE tagged /\ live = "call"
    <3>1. Named(text) /\ Tags(text, 1) # {} /\ Prose(t) = Prose(text) /\ Prose(text) \in Nat
      BY <1>3, <1>4, <2>3, TagsFirst DEF SplitInv
    <3>2. PICK i \in Places(text, Prose(text) + 1 + 2, "n") : TRUE
      BY <3>1 DEF Named, HasName
    <3>3. i \in Places(t, Prose(t) + 1 + 2, "n")
      <4>1. i \in Prose(text) + 1 + 2 .. Len(text) /\ text[i] = "n"
        BY <3>2 DEF Places
      <4>2. t[i] = text[i]
        BY <1>2, <1>3, <3>1, <4>1 DEF t, Texts
      <4> QED BY <1>4, <3>1, <4>1, <4>2 DEF Places
    <3> QED BY <1>8, <2>3, <3>3 DEF Named, HasName
  <2> QED BY <2>1, <2>2, <2>3
<1>11. Once(transcript')
  <2>1. Once(spoken)
    BY <1>3, ToldKeeps
  <2>2. Once(Started(spoken, 0))
    <3> HIDE DEF spoken
    <3> QED BY <2>1, StartedKeeps
  <2> HIDE DEF spoken, named
  <2> QED BY <1>6, <2>1, <2>2, PreviewedKeeps
<1>12. shown' \in Nat
  BY <1>4, <1>6, <1>9, TagsFirst
<1> HIDE DEF sent, named, spoken
<1>13. SplitInv'
  <2>1. live' = "call" <=> Named(t)
    BY <1>6, <1>10
  <2>2. live' = "prose" <=> Tags(t, 1) = {}
    BY <1>6, <1>8, <1>10 DEF Named
  <2>3. live' = "prose" => ~tagged
    BY <1>8, <2>2
  <2>4. acc' = IF live' = "call" THEN <<<<>>>> ELSE <<>>
    <3>1. live = "call" => named
      <4>1. live = "call" => Named(text)
        BY <1>3 DEF SplitInv
      <4> QED BY <4>1 DEF named
    <3> QED BY <1>3, <1>6, <3>1 DEF SplitInv
  <2>5. live' # "prose" => shown' = Prose(t)
    BY <1>6, <1>8, <1>9, <2>2
  <2>6. live' = "prose" => shown' <= Len(t) /\ (t # <<>> => shown' < Len(t))
    BY <1>6, <1>9, <2>3
  <2> QED BY <1>6, <2>1, <2>2, <2>4, <2>5, <2>6 DEF SplitInv
<1>14. acc' \in Seq(Seq(Fragments))
  BY <1>13 DEF SplitInv
<1>15. ProseIsShownOnce'
  <2>1. Tags(t, 1) = {} => Prose(t) = Len(t)
    BY <1>4, TagsFirst
  <2>2. shown' <= Prose(t)
    BY <1>4, <1>6, <1>13, <2>1, TagsFirst DEF SplitInv
  <2> QED BY <1>5, <1>6, <2>2 DEF ProseIsShownOnce
<1>16. CallsAreComplete'
  BY <1>5 DEF CallsAreComplete
<1> QED BY <1>3, <1>4, <1>5, <1>6, <1>11, <1>12, <1>13, <1>14, <1>15, <1>16 DEF StreamInv, Gated

\* Each call of a finished turn is in its transcript, once.
LEMMA EndsWithCalls ==
  ASSUME StreamInv, pc' = "ended", Once(transcript'), acc' \in Seq(Seq(Fragments)),
         NEW first \in Nat, FirstId' = first,
         \A i \in DOMAIN acc' : Has(transcript', first + i - 1, acc'[i]),
         \A i \in DOMAIN acc' : Whole(acc'[i]),
         Gated(ask') => Len(acc') = Calls(text') /\ Calls(text') # 0
  PROVE  CallsAreComplete'
<1>1. ASSUME NEW i \in DOMAIN acc'
      PROVE  /\ Whole(acc'[i])
             /\ \E k \in DOMAIN transcript' :
                  /\ IsCall(transcript'[k], first + i - 1) /\ transcript'[k].args = acc'[i]
                  /\ \A l \in DOMAIN transcript' : IsCall(transcript'[l], first + i - 1) => l = k
  <2> DEFINE id == first + i - 1
  <2>1. id \in Nat /\ Has(transcript', id, acc'[i])
    OBVIOUS
  <2> HIDE DEF id
  <2>2. PICK k \in DOMAIN transcript' : IsCall(transcript'[k], id) /\ transcript'[k].args = acc'[i]
    BY <2>1 DEF Has
  <2>3. \A l \in DOMAIN transcript' : IsCall(transcript'[l], id) => l = k
    BY <2>1, <2>2 DEF Once
  <2> QED BY <2>2, <2>3 DEF id
<1>2. \A i \in Executed' : i \in DOMAIN acc'
  BY DEF Executed
<1>3. ~CutShort'
  BY DEF CutShort
<1> QED BY <1>1, <1>2, <1>3 DEF CallsAreComplete

\* The calls of a text, all of them announced.
LEMMA AllAnnounced ==
  ASSUME NEW tr, Once(tr), NEW first \in Nat, NEW n \in Nat
  PROVE  /\ [i \in 1 .. n |-> <<"all">>] \in Seq(Seq(Fragments))
         /\ Len([i \in 1 .. n |-> <<"all">>]) = n /\ DOMAIN [i \in 1 .. n |-> <<"all">>] = 1 .. n
         /\ \A i \in 1 .. n :
              /\ Whole([k \in 1 .. n |-> <<"all">>][i])
              /\ Has(AllStarted(tr, first, n), first + i - 1, [k \in 1 .. n |-> <<"all">>][i])
         /\ Once(AllStarted(tr, first, n))
<1>1. /\ Once(AllStarted(tr, first, n))
      /\ \A id \in first .. first + n - 1 : Has(AllStarted(tr, first, n), id, <<"all">>)
  BY AllStartedKeeps
<1>2. \A i \in 1 .. n : Has(AllStarted(tr, first, n), first + i - 1, <<"all">>)
  <2>1. \A i \in 1 .. n : first + i - 1 \in first .. first + n - 1
    OBVIOUS
  <2> QED BY <1>1, <2>1
<1>3. <<"all">> \in Seq(Fragments)
  BY DEF Fragments
<1> QED BY <1>1, <1>2, <1>3 DEF Whole

\* The end of a gated response.
LEMMA StreamEndsKeeps == StreamInv /\ StreamEnds => StreamInv'
<1> SUFFICES ASSUME StreamInv, StreamEnds PROVE StreamInv'
  OBVIOUS
<1> DEFINE n == Calls(text)
<1>1. /\ pc = "tail" /\ SplitInv /\ Gated(ask) /\ text \in Texts /\ shown \in Nat /\ Once(transcript)
      /\ UNCHANGED <<server, ask, text, live, turn>>
  BY DEF StreamInv, StreamEnds
<1>2. /\ n \in Nat /\ (Tags(text, 1) = {} => n = 0 /\ Prose(text) = Len(text))
      /\ Prose(text) \in Nat /\ Len(text) \in Nat
  BY <1>1, CallsOf, TagsFirst DEF Texts
<1>3. shown <= Prose(text)
  BY <1>1, <1>2 DEF SplitInv
<1>4. CASE n > 0 /\ reason' = "raised"
  <2>1. pc' = "ended" /\ UNCHANGED <<acc, transcript, shown>>
    BY <1>4 DEF StreamEnds, Ends
  <2> QED BY <1>1, <1>3, <1>4, <2>1, EndsBare
<1>5. CASE n > 0 /\ reason' # "raised"
  <2>1. /\ acc' = [i \in 1 .. n |-> <<"all">>] /\ transcript' = AllStarted(transcript, 0, n)
        /\ pc' = "ended" /\ reason' = "tool_calls" /\ shown' = shown
    BY <1>5 DEF StreamEnds, Announced, Ends
  <2> HIDE DEF n
  <2>2. CallsAreComplete' /\ Once(transcript') /\ acc' \in Seq(Seq(Fragments))
    <3>1. /\ acc' \in Seq(Seq(Fragments)) /\ Len(acc') = n /\ DOMAIN acc' = 1 .. n
          /\ \A i \in 1 .. n : Whole(acc'[i]) /\ Has(transcript', 0 + i - 1, acc'[i])
          /\ Once(transcript')
      <4> DEFINE all == [i \in 1 .. n |-> <<"all">>]
                 told == AllStarted(transcript, 0, n)
      <4>1. /\ all \in Seq(Seq(Fragments)) /\ Len(all) = n /\ DOMAIN all = 1 .. n
            /\ \A i \in 1 .. n : Whole(all[i]) /\ Has(told, 0 + i - 1, all[i])
            /\ Once(told)
        BY <1>1, <1>2, AllAnnounced
      <4>2. acc' = all /\ transcript' = told
        BY <2>1
      <4> HIDE DEF all, told
      <4> QED BY <4>1, <4>2
    <3>2. Calls(text') = n /\ n # 0 /\ FirstId' = 0
      BY <1>1, <1>5 DEF n, FirstId
    <3> QED BY <2>1, <3>1, <3>2, EndsWithCalls
  <2>3. ProseIsShownOnce'
    <3>1. shown = Prose(text)
      BY <1>1, <1>2, <1>5 DEF SplitInv
    <3> QED BY <1>1, <1>3, <2>1, <3>1 DEF ProseIsShownOnce
  <2> QED BY <1>1, <2>1, <2>2, <2>3 DEF StreamInv
<1>6. CASE n = 0 /\ ask.must
  <2>1. pc' = "ended" /\ reason' = "error" /\ UNCHANGED <<acc, transcript, shown>>
    BY <1>6 DEF StreamEnds, Ends
  <2>2. CallsAreComplete'
    <3>1. CASE live = "call"
      <4>1. CutShort' /\ acc' = <<<<>>>>
        BY <1>1, <1>6, <2>1, <3>1 DEF SplitInv, CutShort, Named, HasName, Gated
      <4> QED BY <4>1 DEF CallsAreComplete
    <3>2. CASE live # "call"
      <4>1. acc' = <<>>
        BY <1>1, <2>1, <3>2 DEF SplitInv
      <4>2. Executed' = {}
        BY <4>1 DEF Executed
      <4> QED BY <4>2 DEF CallsAreComplete
    <3> QED BY <3>1, <3>2
  <2>3. ProseIsShownOnce'
    BY <1>1, <1>3, <2>1 DEF ProseIsShownOnce
  <2> QED BY <1>1, <2>1, <2>2, <2>3 DEF StreamInv, Once
<1>7. CASE n = 0 /\ ~ask.must
  <2>1. /\ pc' = "ended" /\ reason' = "stop" /\ acc' = acc
        /\ shown' = IF live = "prose" THEN Len(text) ELSE shown
        /\ transcript' = IF shown' > shown THEN Told(transcript) ELSE transcript
    BY <1>7 DEF StreamEnds, Ends
  <2>2. CallsAreComplete'
    <3>1. CASE live = "call"
      <4>1. CutShort' /\ acc' = <<<<>>>>
        BY <1>1, <1>7, <2>1, <3>1 DEF SplitInv, CutShort, Named, HasName, Gated
      <4> QED BY <4>1 DEF CallsAreComplete
    <3>2. CASE live # "call"
      <4>1. acc' = <<>>
        BY <1>1, <2>1, <3>2 DEF SplitInv
      <4>2. Executed' = {}
        BY <4>1 DEF Executed
      <4> QED BY <4>2 DEF CallsAreComplete
    <3> QED BY <3>1, <3>2
  <2>3. shown' = Prose(text) /\ shown' \in Nat
    BY <1>1, <1>2, <2>1 DEF SplitInv
  <2>4. ProseIsShownOnce'
    <3>1. Named(text) => acc # <<>>
      BY <1>1 DEF SplitInv
    <3> QED BY <1>1, <1>2, <2>1, <2>3, <3>1 DEF ProseIsShownOnce, Named, HasName
  <2>5. Once(transcript')
    BY <1>1, <2>1, ToldKeeps
  <2>6. acc' \in Seq(Seq(Fragments))
    BY <2>1 DEF StreamInv
  <2> QED BY <1>1, <2>1, <2>2, <2>3, <2>4, <2>5, <2>6 DEF StreamInv
<1> QED BY <1>2, <1>4, <1>5, <1>6, <1>7

\* An event of the plain stream.
LEMMA ChatStreamsKeeps == StreamInv /\ ChatStreams => StreamInv'
<1> SUFFICES ASSUME StreamInv, ChatStreams PROVE StreamInv'
  OBVIOUS
<1>1. /\ pc \in {"chat", "chatting"} /\ ~Gated(ask) /\ pc' = "chatting" /\ Once(transcript)
      /\ text = <<>> /\ shown = 0 /\ live = "prose"
      /\ UNCHANGED <<ask, text, shown, live>>
      /\ acc \in Seq(Seq(Fragments)) /\ (pc = "chat" => acc = <<>>)
  BY DEF StreamInv, ChatStreams
<1>2. (ProseIsShownOnce /\ CallsAreComplete)'
  BY <1>1 DEF ProseIsShownOnce, CallsAreComplete
<1>3. /\ Once(transcript') /\ acc' \in Seq(Seq(Fragments))
      /\ acc' # <<>> => Len(acc') = 1 /\ acc'[1] \in Halves /\ Has(transcript', 0, acc'[1])
  <2>1. CASE transcript' = Told(transcript) /\ UNCHANGED acc
    <3>1. acc # <<>> => Len(acc) = 1 /\ acc[1] \in Halves /\ Has(transcript, 0, acc[1])
      BY <1>1 DEF StreamInv
    <3>2. Once(Told(transcript)) /\ \A a : Has(transcript, 0, a) => Has(Told(transcript), 0, a)
      BY <1>1, ToldKeeps
    <3> QED BY <1>1, <2>1, <3>1, <3>2
  <2>2. CASE acc' = <<<<>>>> /\ transcript' = Started(transcript, 0)
    <3>1. Once(Started(transcript, 0)) /\ Has(Started(transcript, 0), 0, <<>>)
      BY <1>1, StartedKeeps
    <3>2. acc' \in Seq(Seq(Fragments)) /\ Len(acc') = 1 /\ acc'[1] = <<>>
      BY <2>2
    <3> QED BY <2>2, <3>1, <3>2 DEF Halves
  <2>3. CASE /\ acc # <<>> /\ Len(acc[1]) < 2 /\ acc' = [acc EXCEPT ![1] = Append(@, "half")]
             /\ transcript' = Argued(transcript, 0, "half")
    <3>1. Len(acc) = 1 /\ acc[1] \in Halves /\ Has(transcript, 0, acc[1])
      BY <1>1, <2>3 DEF StreamInv
    <3>2. Append(acc[1], "half") \in Halves
      <4>1. Append(<<>>, "half") = <<"half">> /\ Append(<<"half">>, "half") = <<"half", "half">>
        <5>1. <<>> \in Seq(Fragments) /\ <<"half">> \in Seq(Fragments)
          BY DEF Fragments
        <5>2. /\ Len(Append(<<>>, "half")) = 1 /\ Append(<<>>, "half")[1] = "half"
              /\ Append(<<>>, "half") \in Seq(Fragments)
          BY <5>1 DEF Fragments
        <5>3. LET a == Append(<<"half">>, "half")
              IN /\ Len(a) = 2 /\ a[1] = "half" /\ a[2] = "half" /\ a \in Seq(Fragments)
          BY <5>1 DEF Fragments
        <5>4. Append(<<>>, "half") = <<"half">>
          BY <5>2
        <5>5. Append(<<"half">>, "half") = <<"half", "half">>
          <6>1. <<"half", "half">> \in Seq(Fragments)
            BY DEF Fragments
          <6> DEFINE a == Append(<<"half">>, "half")
                     b == <<"half", "half">>
          <6>2. /\ a \in Seq(Fragments) /\ b \in Seq(Fragments) /\ Len(a) = Len(b)
                /\ \A i \in 1 .. Len(a) : a[i] = b[i]
            BY <5>3, <6>1
          <6> HIDE DEF a, b
          <6>3. a = b
            BY <6>2, SeqEqual
          <6> QED BY <6>3 DEF a, b
        <5> QED BY <5>4, <5>5
      <4>2. acc[1] = <<>> \/ acc[1] = <<"half">>
        BY <2>3, <3>1 DEF Halves
      <4> QED BY <4>1, <4>2 DEF Halves
    <3>3. acc'[1] = Append(acc[1], "half") /\ Len(acc') = 1
      BY <1>1, <2>3, <3>1
    <3>4. acc' \in Seq(Seq(Fragments))
      <4>1. acc[1] \in Seq(Fragments) /\ "half" \in Fragments
        BY <1>1, <2>3, <3>1 DEF Fragments
      <4>2. Append(acc[1], "half") \in Seq(Fragments)
        BY <4>1
      <4> QED BY <1>1, <2>3, <3>1, <4>2
    <3>5. Once(transcript') /\ Has(transcript', 0, Append(acc[1], "half"))
      BY <1>1, <2>3, <3>1, ArguedKeeps DEF Fragments
    <3> QED BY <3>2, <3>3, <3>4, <3>5
  <2> QED BY <2>1, <2>2, <2>3 DEF ChatStreams
<1> QED BY <1>1, <1>2, <1>3, EmptyText DEF StreamInv, Gated

\* The end of the plain stream.
LEMMA ChatEndsKeeps == ASSUME StreamInv, NEW n \in 0 .. 1, ChatEnds(n) PROVE StreamInv'
<1>1. /\ pc = "chatting" /\ ~Gated(ask) /\ Once(transcript) /\ acc \in Seq(Seq(Fragments))
      /\ text = <<>> /\ shown = 0 /\ live = "prose"
      /\ UNCHANGED <<ask, text, shown, live>>
      /\ acc # <<>> => Len(acc) = 1 /\ acc[1] \in Halves /\ Has(transcript, 0, acc[1])
  BY DEF StreamInv, ChatEnds
<1>2. ProseIsShownOnce' /\ ~Gated(ask') /\ text' \in Texts /\ shown' \in Nat /\ ask' \in Requests
  BY <1>1, EmptyText DEF ProseIsShownOnce, Gated, StreamInv
<1>3. CASE pc' = "force_probe" /\ UNCHANGED <<acc, transcript, reason>> /\ acc = <<>>
  <2>1. CallsAreComplete'
    BY <1>3 DEF CallsAreComplete
  <2> QED BY <1>1, <1>2, <1>3, <2>1 DEF StreamInv, Once
<1>4. ASSUME pc' = "ended", CallsAreComplete', Once(transcript'), acc' \in Seq(Seq(Fragments))
      PROVE  StreamInv'
  BY <1>1, <1>2, <1>4 DEF StreamInv
<1>5. CASE acc # <<>> \/ ~ask.must
  <2>1. pc' = "ended" /\ UNCHANGED <<acc, transcript>>
    BY <1>5 DEF ChatEnds, Ends
  <2>2. CASE reason' = "length"
    <3>1. Executed' = {}
      BY <2>2 DEF Executed
    <3> QED BY <1>1, <1>4, <2>1, <3>1 DEF CallsAreComplete, Once
  <2>3. CASE reason' # "length"
    <3>1. \A i \in DOMAIN acc : Whole(acc[i])
      BY <1>5, <2>3 DEF ChatEnds, Ends
    <3>2. \A i \in DOMAIN acc : i = 1 /\ Has(transcript, 0 + i - 1, acc[i])
      BY <1>1
    <3>3. FirstId' = 0
      <4>1. <<"all">> \notin Halves
        BY DEF Halves
      <4> QED BY <1>1, <2>1, <4>1 DEF FirstId
    <3>4. CallsAreComplete'
      BY <1>1, <1>2, <2>1, <3>1, <3>2, <3>3, EndsWithCalls DEF Once
    <3> QED BY <1>1, <1>4, <2>1, <3>4 DEF Once
  <2> QED BY <2>2, <2>3
<1>6. CASE acc = <<>> /\ ask.must /\ n > 0 /\ reason' = "raised"
  <2>1. pc' = "ended" /\ UNCHANGED <<acc, transcript>>
    BY <1>6 DEF ChatEnds, Ends
  <2> QED BY <1>1, <1>6, <2>1, EndsBare
<1>7. CASE acc = <<>> /\ ask.must /\ n > 0 /\ reason' # "raised"
  <2>1. /\ pc' = "ended" /\ acc' = [i \in 1 .. n |-> <<"all">>]
        /\ transcript' = AllStarted(transcript, Recovered, n)
    BY <1>7 DEF ChatEnds, Ends
  <2>2. /\ acc' \in Seq(Seq(Fragments)) /\ DOMAIN acc' = 1 .. n
        /\ \A i \in 1 .. n : Whole(acc'[i]) /\ Has(transcript', Recovered + i - 1, acc'[i])
        /\ Once(transcript') /\ Recovered \in Nat
    <3>1. n \in Nat /\ Recovered \in Nat
      BY BoundsAssumption DEF Recovered
    <3> DEFINE all == [i \in 1 .. n |-> <<"all">>]
               told == AllStarted(transcript, Recovered, n)
    <3>2. /\ all \in Seq(Seq(Fragments)) /\ DOMAIN all = 1 .. n
          /\ \A i \in 1 .. n : Whole(all[i]) /\ Has(told, Recovered + i - 1, all[i])
          /\ Once(told)
      BY <1>1, <3>1, AllAnnounced
    <3>3. acc' = all /\ transcript' = told
      BY <2>1
    <3> HIDE DEF all, told
    <3> QED BY <3>1, <3>2, <3>3
  <2>3. FirstId' = Recovered
    <3>1. acc'[1] = <<"all">> /\ acc' # <<>>
      BY <1>7, <2>1
    <3> QED BY <1>1, <3>1 DEF FirstId
  <2>4. CallsAreComplete'
    BY <1>2, <2>1, <2>2, <2>3, EndsWithCalls
  <2> QED BY <1>4, <2>1, <2>2, <2>4
<1> QED BY <1>3, <1>5, <1>6, <1>7 DEF ChatEnds

\* The end of a forced call.
LEMMA ForceEndsKeeps == StreamInv /\ ForceEnds => StreamInv'
<1> SUFFICES ASSUME StreamInv, ForceEnds PROVE StreamInv'
  OBVIOUS
<1>1. /\ pc = "force" /\ ~Gated(ask) /\ Once(transcript) /\ acc = <<>> /\ text = <<>> /\ shown = 0
      /\ UNCHANGED <<ask, shown, live>> /\ pc' = "ended"
  BY DEF StreamInv, ForceEnds, Ends
<1>2. ProseIsShownOnce' /\ ~Gated(ask') /\ shown' \in Nat /\ ask' \in Requests
  BY <1>1 DEF ProseIsShownOnce, Gated, StreamInv
<1>3. CASE reason' \in {"error", "raised"} /\ UNCHANGED <<text, acc, transcript>>
  <2>1. Executed' = {}
    BY <1>1, <1>3 DEF Executed
  <2>2. CallsAreComplete'
    BY <2>1 DEF CallsAreComplete
  <2> QED BY <1>1, <1>2, <1>3, <2>2, EmptyText DEF StreamInv, Once
<1>4. CASE text' = Call /\ acc' = <<<<"all">>>> /\ transcript' = AllStarted(Told(transcript), 0, Calls(text'))
  <2>1. transcript' = AllStarted(Told(transcript), 0, 1)
    BY <1>4, OneCall
  <2>2. Once(Told(transcript))
    BY <1>1, ToldKeeps
  <2> DEFINE tr == Told(transcript)
  <2> HIDE DEF tr
  <2>3. Once(AllStarted(tr, 0, 1)) /\ \A id \in 0 .. 0 + 1 - 1 : Has(AllStarted(tr, 0, 1), id, <<"all">>)
    BY <2>2, AllStartedKeeps DEF tr
  <2>4. Once(transcript') /\ Has(transcript', 0, <<"all">>)
    BY <2>1, <2>3 DEF tr
  <2>5. acc' \in Seq(Seq(Fragments)) /\ DOMAIN acc' = {1} /\ acc'[1] = <<"all">>
    BY <1>4 DEF Fragments
  <2>6. CallsAreComplete'
    <3>1. FirstId' = 0
      BY <1>4 DEF FirstId, Call
    <3>2. \A i \in DOMAIN acc' : Whole(acc'[i]) /\ Has(transcript', 0 + i - 1, acc'[i])
      BY <2>4, <2>5 DEF Whole
    <3> QED BY <1>1, <1>2, <2>4, <2>5, <3>1, <3>2, EndsWithCalls
  <2>7. text' \in Texts
    BY <1>4, OneCall
  <2> HIDE DEF tr
  <2>8. pc' = "ended" /\ Once(transcript') /\ acc' \in Seq(Seq(Fragments))
    BY <1>1, <2>4, <2>5
  <2> QED BY <1>2, <2>6, <2>7, <2>8 DEF StreamInv
<1> QED BY <1>3, <1>4 DEF ForceEnds, Ends

\* The next turn begins, or the next run.
LEMMA NextTurnKeeps == StreamInv /\ (TurnEnds \/ RunEnds) => StreamInv'
<1> SUFFICES ASSUME StreamInv, TurnEnds \/ RunEnds PROVE StreamInv'
  OBVIOUS
<1>1. Once(transcript')
  <2>1. Once(Append(transcript, Entry("result", 0, <<>>))) /\ Once(<<>>)
    BY AppendOther DEF StreamInv, Once
  <2> QED BY <2>1 DEF TurnEnds, RunEnds
<1> QED BY <1>1, ResetKeeps DEF TurnEnds, RunEnds, NextTurn

\* Any step of a completion, or of others that leave it alone.
LEMMA StreamStep == StreamInv /\ (NextStream \/ ServerEnds \/ UNCHANGED stream) => StreamInv'
<1> QED
  BY StreamStays, RequestedKeeps, ServerEndsKeeps, ThinkingKeeps, StreamsKeeps, StreamEndsKeeps,
     ChatStreamsKeeps, ChatEndsKeeps, ForceEndsKeeps, NextTurnKeeps DEF NextStream

\* A step of the whole is one of the completions, an end of the server under them, or
\* leaves them alone.
LEMMA StreamAlways == Spec => []StreamInv
<1>1. Init => StreamInv
  BY StreamStarts DEF Init
<1>2. StreamInv /\ [Next]_vars => StreamInv'
  <2> SUFFICES ASSUME StreamInv, [Next]_vars PROVE NextStream \/ ServerEnds \/ UNCHANGED stream
    BY StreamStep
  <2>1. ASSUME NEW i \in Images, ImageTool(i) PROVE ServerEnds \/ UNCHANGED stream
    BY <2>1 DEF ImageTool, StopServer, Stopped, SdEnds, Check, Launch, Waited, AbortTool
  <2> QED BY <2>1 DEF Next, Loaded, Dies, Terminated, vars
<1> QED BY <1>1, <1>2, PTL DEF Spec

\* However a response is cut into chunks, no piece of a tool call is shown as content, and
\* at the end all of its prose has been, once.
THEOREM ProseIsAlwaysShownOnce == Spec => []ProseIsShownOnce
<1>1. StreamInv => ProseIsShownOnce
  BY DEF StreamInv
<1> QED BY <1>1, StreamAlways, PTL

\* Whatever the agent executes has the arguments the model finished writing, and the
\* transcript has exactly one entry for it, with these arguments and without the preview;
\* but for a call cut short after its name was shown, which is executed with no arguments
\* and is the only one of its turn.
THEOREM CallsAreAlwaysComplete == Spec => []CallsAreComplete
<1>1. StreamInv => CallsAreComplete
  BY DEF StreamInv
<1> QED BY <1>1, StreamAlways, PTL
=============================================================================
