-------------------------- MODULE ChatClientProofs --------------------------
(***************************************************************************)
(* What holds of ChatClient for any number of runs, conversations, messages*)
(* and failures: where what a run says is stored, in which order, and what *)
(* a suspended run has waited for when it goes on.                         *)
(***************************************************************************)
EXTENDS ChatClient, TLAPS

Hows == {"none", "send", "edit", "rag"}
Phases == {"unused", "creating", "posting", "asking", "started", "over"}
Places == 0 .. MaxConvs
RunRecord == [how : Hows, phase : Phases, conv : Places, works : Places, saves : Places]
Within(r, top) == r.conv \in 0 .. top /\ r.works \in 0 .. top /\ r.saves \in 0 .. top
TaskSet == [do : {"save"}, run : Runs, n : Nat]
             \cup [do : {"compress", "finish"}, run : {NoRun}, n : {0}]
EventSet == [type : EventTypes, n : Nat]

\* The types of what TypeOK says less about.
Typed ==
  /\ created \in 1 .. MaxConvs /\ here \in 0 .. created /\ opening \subseteq 1 .. created
  /\ run \in [Runs -> RunRecord]
  /\ \A k \in Runs : Within(run[k], created)
  /\ socket \in [Runs -> {"none", "connecting", "open", "closed"}]
  /\ cur \in Runs \cup {NoRun} /\ sub \in {cur, NoRun} /\ running \in BOOLEAN
  /\ queue \in [Runs -> Seq(TaskSet)] /\ tries \in [Runs -> 0 .. Attempts - 1]
  /\ server \in [Runs -> {"off", "running", "suspended", "ended"}]
  /\ signals \in [Runs -> SUBSET {"abort", "compression_done"}]
  /\ down \in [Runs -> Seq(EventSet)]
  /\ sent \in [Runs -> Nat] /\ pauses \in [Runs -> Nat]
  /\ \A k \in Runs : sent[k] <= MaxMessages[k] /\ pauses[k] <= MaxPauses[k]
  /\ db \in [Runs -> Seq(Messages)] /\ lapses \in [Runs -> SUBSET Lapses]

\* A run that has begun has a conversation: the one on display, unless the user moved.
Follows(k) ==
  /\ run[k].phase \in {"unused", "creating"} => run[k].conv = NoConv
  /\ run[k].phase = "creating" => run[k].how # "edit"
  /\ run[k].phase \in {"posting", "asking"} =>
       run[k].conv # NoConv /\ ("moved" \in lapses[k] \/ run[k].conv = here)
  /\ run[k].phase = "posting" /\ run[k].how = "edit" => run[k].works = run[k].conv
  /\ run[k].phase = "started" =>
       "moved" \in lapses[k] \/ (run[k].saves = run[k].conv /\ run[k].works = run[k].conv)

\* The socket of a run is there once it has started.  When it has been closed, or before
\* it is open, the run has nothing to say; and what it says ends with the close.
Connected(k) ==
  /\ socket[k] # "none" => run[k].phase = "started"
  /\ socket[k] \in {"none", "connecting"} => down[k] = <<>> /\ server[k] = "off"
  /\ socket[k] # "open" =>
       /\ server[k] \in {"off", "ended"}
       /\ \A i \in 1 .. Len(down[k]) : down[k][i].type \notin {"message", "compressing"}
  /\ \A i \in 1 .. Len(down[k]) :
       down[k][i].type = "close" => i = Len(down[k]) /\ server[k] \in {"off", "ended"}

\* The subscription is that of the run started last; an earlier one whose socket is not
\* closed has been overtaken, and only its messages can be in another's queue.
Subscribed(k) ==
  /\ cur = k \/ queue[k] # <<>> => run[k].phase = "started"
  /\ run[k].phase = "started" /\ socket[k] # "closed" /\ cur # k => "overtaken" \in lapses[k]
  /\ \A i \in 1 .. Len(queue[k]) :
       queue[k][i].do = "save" /\ queue[k][i].run # k => "overtaken" \in lapses[queue[k][i].run]

AnswersInv ==
  Typed /\ (\A k \in Runs : Follows(k) /\ Connected(k) /\ Subscribed(k)) /\ AnswersStay

-----------------------------------------------------------------------------
(* Types *)

LEMMA BoundsTyped ==
  /\ MaxRuns \in Nat /\ MaxMessages \in [Runs -> Nat] /\ MaxPauses \in [Runs -> Nat]
  /\ MaxConvs \in Nat \ {0} /\ Attempts \in Nat \ {0}
BY BoundsAssumption

LEMMA LapseTyped ==
  ASSUME Typed, NEW ks, NEW why \in Lapses
  PROVE  /\ Lapse(ks, why) \in [Runs -> SUBSET Lapses]
         /\ \A k \in Runs : lapses[k] \subseteq Lapse(ks, why)[k]
         /\ \A k \in Runs : k \in ks => why \in Lapse(ks, why)[k]
BY DEF Lapse, Typed

LEMMA EnqueueTyped ==
  ASSUME Typed, NEW ts \in Seq(TaskSet)
  PROVE  Enqueue(ts) \in [Runs -> Seq(TaskSet)]
<1>1. \A s \in Runs : queue[s] \o ts \in Seq(TaskSet)
  BY DEF Typed
<1> QED BY <1>1 DEF Enqueue, Typed

LEMMA SignalTyped ==
  ASSUME Typed, NEW sig \in {"abort", "compression_done"}
  PROVE  Signal(sig) \in [Runs -> SUBSET {"abort", "compression_done"}]
BY DEF Signal, Typed

LEMMA StoreTyped ==
  ASSUME Typed, NEW s \in Runs, NEW m \in Messages
  PROVE  Store(s, m) \in [Runs -> Seq(Messages)]
<1>1. Append(db[s], m) \in Seq(Messages)
  BY DEF Typed
<1> QED BY <1>1 DEF Store, Typed

LEMMA EmitsTyped ==
  ASSUME Typed, NEW k \in Runs, NEW es \in Seq(EventSet), Emits(k, es)
  PROVE  down' \in [Runs -> Seq(EventSet)]
<1>1. down[k] \o es \in Seq(EventSet)
  BY DEF Typed
<1> QED BY <1>1 DEF Emits, Typed

LEMMA EventsTyped ==
  /\ <<Event("over", 0), Event("close", 0)>> \in Seq(EventSet)
  /\ <<Event("stopped", 0), Event("close", 0)>> \in Seq(EventSet)
  /\ <<Event("compressing", 0)>> \in Seq(EventSet) /\ <<Event("stage", 0)>> \in Seq(EventSet)
  /\ \A n \in Nat : <<Event("message", n)>> \in Seq(EventSet)
BY DEF Event, EventSet, EventTypes

LEMMA TasksTyped ==
  /\ <<Task("compress")>> \in Seq(TaskSet) /\ <<Task("finish")>> \in Seq(TaskSet)
  /\ \A k \in Runs, n \in Nat : <<Save(k, n)>> \in Seq(TaskSet)
BY DEF Task, Save, TaskSet, NoRun

LEMMA InitTyped == Init => Typed
<1> SUFFICES ASSUME Init PROVE Typed
  OBVIOUS
<1>1. MaxConvs \in Nat \ {0} /\ 0 \in 0 .. Attempts - 1
  BY BoundsAssumption
<1>2. 1 \in 1 .. MaxConvs /\ 0 \in Places
  BY <1>1 DEF Places
<1>3. run \in [Runs -> RunRecord]
  BY <1>2 DEF Init, RunRecord, Hows, Phases, NoConv
<1>4. \A k \in Runs : Within(run[k], 1)
  BY DEF Init, NoConv, Within
<1>5. /\ created \in 1 .. MaxConvs /\ here \in 0 .. created /\ opening \subseteq 1 .. created
      /\ \A k \in Runs : Within(run[k], created)
      /\ cur \in Runs \cup {NoRun} /\ sub \in {cur, NoRun} /\ running \in BOOLEAN
  <2>1. created = 1 /\ here = 1 /\ opening = {} /\ cur = NoRun /\ sub = NoRun /\ running = FALSE
    BY DEF Init
  <2>2. 1 \in 0 .. 1 /\ {} \subseteq 1 .. 1 /\ NoRun \in Runs \cup {NoRun}
    OBVIOUS
  <2> QED BY <1>2, <1>4, <2>1, <2>2
<1>6. /\ queue \in [Runs -> Seq(TaskSet)] /\ down \in [Runs -> Seq(EventSet)]
      /\ db \in [Runs -> Seq(Messages)]
  BY DEF Init
<1>7. /\ socket \in [Runs -> {"none", "connecting", "open", "closed"}]
      /\ tries \in [Runs -> 0 .. Attempts - 1]
      /\ server \in [Runs -> {"off", "running", "suspended", "ended"}]
      /\ signals \in [Runs -> SUBSET {"abort", "compression_done"}]
      /\ sent \in [Runs -> Nat] /\ pauses \in [Runs -> Nat]
      /\ \A k \in Runs : sent[k] <= MaxMessages[k] /\ pauses[k] <= MaxPauses[k]
      /\ lapses \in [Runs -> SUBSET Lapses]
  BY <1>1, BoundsTyped DEF Init
<1> QED BY <1>3, <1>5, <1>6, <1>7 DEF Typed

\* The records of runs: what is written there keeps their types.
LEMMA RunTyped ==
  ASSUME Typed, NEW k \in Runs, NEW r \in RunRecord, NEW top \in 1 .. MaxConvs, created <= top,
         Within(r, top)
  PROVE  /\ [run EXCEPT ![k] = r] \in [Runs -> RunRecord]
         /\ \A j \in Runs : Within([run EXCEPT ![k] = r][j], top)
<1>1. 0 .. created \subseteq 0 .. top
  BY BoundsAssumption DEF Typed
<1>2. \A j \in Runs : Within(run[j], top)
  BY <1>1 DEF Typed, Within
<1> QED BY <1>2 DEF Typed

LEMMA StartsTyped ==
  ASSUME Typed, NEW how \in {"send", "edit", "rag"}, Starts(how)
  PROVE  Typed'
<1>1. PICK k \in Runs :
        run' = [run EXCEPT ![k] =
          [how |-> how, phase |-> IF here = NoConv THEN "creating" ELSE "posting",
           conv |-> here, works |-> here, saves |-> NoConv]]
  BY DEF Starts
<1> DEFINE r == [how |-> how, phase |-> IF here = NoConv THEN "creating" ELSE "posting",
                 conv |-> here, works |-> here, saves |-> NoConv]
<1>2. /\ r \in RunRecord /\ Within(r, created)
      /\ created \in 1 .. MaxConvs /\ created <= created
  <2>1. here \in 0 .. created /\ created \in 1 .. MaxConvs /\ 0 \in 0 .. created
    BY BoundsAssumption DEF Typed
  <2>2. here \in Places /\ 0 \in Places /\ created <= created
    BY <2>1, BoundsAssumption DEF Places
  <2>3. r.phase \in Phases
    BY DEF Phases
  <2> QED BY <2>1, <2>2, <2>3 DEF RunRecord, Hows, Phases, NoConv, Within
<1>3. run' = [run EXCEPT ![k] = r]
  BY <1>1
<1> HIDE DEF r
<1>4. run' \in [Runs -> RunRecord]
      /\ \A j \in Runs : Within(run'[j], created)
  BY <1>2, <1>3, RunTyped
<1>5. UNCHANGED <<here, opening, created, socket, cur, running, sub, tasks, backend, db, lapses>>
  BY DEF Starts
<1> QED BY <1>4, <1>5 DEF Typed, tasks, backend

LEMMA SubscribesTyped ==
  ASSUME Typed, NEW k \in Runs, NEW works \in 0 .. created, Subscribes(k, works)
  PROVE  /\ run' \in [Runs -> RunRecord]
         /\ \A j \in Runs : Within(run'[j], created)
         /\ socket' \in [Runs -> {"none", "connecting", "open", "closed"}]
         /\ cur' = k /\ sub' = k /\ running' = TRUE
         /\ lapses' \in [Runs -> SUBSET Lapses]
<1> DEFINE r == [run[k] EXCEPT !.how = "none", !.phase = "started", !.works = works, !.saves = here]
<1>1. run' = [run EXCEPT ![k] = r]
  BY DEF Subscribes, Typed
<1>2. run[k] \in RunRecord /\ Within(run[k], created) /\ created \in 1 .. MaxConvs
      /\ here \in 0 .. created /\ created <= created
  BY BoundsAssumption DEF Typed
<1>3. works \in Places /\ here \in Places
  BY <1>2, BoundsAssumption DEF Places
<1>4. r \in RunRecord /\ Within(r, created)
  BY <1>2, <1>3 DEF RunRecord, Hows, Phases, Within
<1> HIDE DEF r
<1>5. run' \in [Runs -> RunRecord]
      /\ \A j \in Runs : Within(run'[j], created)
  BY <1>1, <1>2, <1>4, RunTyped
<1> QED BY <1>5, LapseTyped DEF Subscribes, Typed, Lapses

\* A run's conversation is set once; what it has begun in stays as it is.
LEMMA PhaseTyped ==
  ASSUME Typed, NEW k \in Runs, NEW p \in Phases,
         \/ run' = [run EXCEPT ![k].phase = p]
         \/ run' = [run EXCEPT ![k].phase = p, ![k].saves = here]
  PROVE  /\ run' \in [Runs -> RunRecord]
         /\ \A j \in Runs : Within(run'[j], created)
<1>1. run[k] \in RunRecord /\ Within(run[k], created)
      /\ created \in 1 .. MaxConvs /\ here \in 0 .. created /\ created <= created
  BY BoundsAssumption DEF Typed
<1>2. here \in Places
  BY <1>1, BoundsAssumption DEF Places
<1>3. CASE run' = [run EXCEPT ![k].phase = p]
  <2> DEFINE r == [run[k] EXCEPT !.phase = p]
  <2>1. run' = [run EXCEPT ![k] = r]
    BY <1>3 DEF Typed
  <2>2. r \in RunRecord /\ Within(r, created)
    BY <1>1 DEF RunRecord, Within
  <2> HIDE DEF r
  <2> QED BY <1>1, <2>1, <2>2, RunTyped
<1>4. CASE run' = [run EXCEPT ![k].phase = p, ![k].saves = here]
  <2> DEFINE r == [run[k] EXCEPT !.phase = p, !.saves = here]
  <2>1. run' = [run EXCEPT ![k] = r]
    BY <1>4 DEF Typed
  <2>2. r \in RunRecord /\ Within(r, created)
    BY <1>1, <1>2 DEF RunRecord, Within
  <2> HIDE DEF r
  <2> QED BY <1>1, <2>1, <2>2, RunTyped
<1> QED BY <1>3, <1>4

LEMMA UserTyped == Typed /\ User => Typed'
<1> SUFFICES ASSUME Typed, User PROVE Typed'
  OBVIOUS
<1>1. CASE \E how \in {"send", "edit", "rag"} : Starts(how)
  BY <1>1, StartsTyped
<1>2. CASE AbortAgent
  BY <1>2, SignalTyped DEF AbortAgent, Typed, client, tasks
<1>3. ASSUME StopAgentAndClearSub
      PROVE  signals' \in [Runs -> SUBSET {"abort", "compression_done"}] /\ sub' = NoRun
  BY <1>3, SignalTyped DEF StopAgentAndClearSub, Typed
<1>4. CASE StartNewChat
  <2>1. lapses' \in [Runs -> SUBSET Lapses]
    BY <1>4 DEF StartNewChat, Typed, Lapses
  <2>2. here' \in 0 .. created
    BY <1>4, BoundsAssumption DEF StartNewChat, Typed, NoConv
  <2> QED BY <1>3, <1>4, <2>1, <2>2 DEF StartNewChat, Typed, tasks
<1>5. ASSUME NEW c \in Convs, SelectConversation(c) PROVE Typed'
  <2>1. lapses' \in [Runs -> SUBSET Lapses]
    BY <1>5, LapseTyped DEF SelectConversation, Lapses
  <2>2. opening' \subseteq 1 .. created
    BY <1>5, BoundsAssumption DEF SelectConversation, Typed, Convs
  <2> QED BY <1>3, <1>5, <2>1, <2>2 DEF SelectConversation, Typed, tasks
<1> QED BY <1>1, <1>2, <1>4, <1>5 DEF User

LEMMA ServerTyped ==
  ASSUME Typed, NEW k \in Runs, Server(k)
  PROVE  Typed'
<1>1. CASE ServerWorks(k)
  <2>1. UNCHANGED <<client, tasks, signals, db, lapses>>
    BY <1>1 DEF ServerWorks
  <2>2. /\ down' \in [Runs -> Seq(EventSet)] /\ sent' \in [Runs -> Nat]
        /\ pauses' \in [Runs -> Nat]
        /\ \A j \in Runs : sent'[j] <= MaxMessages[j] /\ pauses'[j] <= MaxPauses[j]
        /\ server' \in [Runs -> {"off", "running", "suspended", "ended"}]
    <3>1. CASE /\ sent[k] < MaxMessages[k] /\ sent' = [sent EXCEPT ![k] = @ + 1]
               /\ Emits(k, <<Event("message", sent'[k])>>) /\ UNCHANGED <<server, pauses>>
      <4>1. sent[k] + 1 \in Nat /\ sent[k] + 1 <= MaxMessages[k] /\ sent'[k] = sent[k] + 1
        <5>1. sent[k] \in Nat /\ MaxMessages[k] \in Nat
          BY BoundsTyped DEF Typed
        <5> QED BY <3>1, <5>1 DEF Typed
      <4>2. <<Event("message", sent'[k])>> \in Seq(EventSet)
        BY <4>1, EventsTyped
      <4> QED BY <3>1, <4>1, <4>2, EmitsTyped DEF Typed
    <3>2. CASE /\ pauses[k] < MaxPauses[k] /\ pauses' = [pauses EXCEPT ![k] = @ + 1]
               /\ server' = [server EXCEPT ![k] = "suspended"]
               /\ Emits(k, <<Event("compressing", 0)>>) /\ UNCHANGED sent
      <4>1. pauses[k] + 1 \in Nat /\ pauses[k] + 1 <= MaxPauses[k]
        <5>1. pauses[k] \in Nat /\ MaxPauses[k] \in Nat
          BY BoundsTyped DEF Typed
        <5> QED BY <3>2, <5>1
      <4> QED BY <3>2, <4>1, EventsTyped, EmitsTyped DEF Typed
    <3>3. CASE /\ server' = [server EXCEPT ![k] = "ended"]
               /\ Emits(k, <<Event("over", 0), Event("close", 0)>>) /\ UNCHANGED <<sent, pauses>>
      BY <3>3, EventsTyped, EmitsTyped DEF Typed
    <3> QED BY <1>1, <3>1, <3>2, <3>3 DEF ServerWorks
  <2> QED BY <2>1, <2>2 DEF Typed, client, tasks
<1>2. CASE ServerReads(k)
  <2>1. UNCHANGED <<client, tasks, sent, pauses, db, lapses>>
        /\ signals' \in [Runs -> SUBSET {"abort", "compression_done"}]
    BY <1>2, SMTT(30) DEF ServerReads, Typed
  <2>2. \/ UNCHANGED <<server, down>>
        \/ /\ server' = [server EXCEPT ![k] = "ended"]
           /\ \E how \in {"over", "stopped"} : Emits(k, <<Event(how, 0), Event("close", 0)>>)
        \/ server' = [server EXCEPT ![k] = "running"] /\ UNCHANGED down
    BY <1>2 DEF ServerReads
  <2>3. down' \in [Runs -> Seq(EventSet)]
    BY <2>2, EventsTyped, EmitsTyped DEF Typed
  <2> QED BY <2>1, <2>2, <2>3 DEF Typed, client, tasks
<1>3. CASE Breaks(k)
  BY <1>3, EventsTyped DEF Breaks, Typed, client, tasks
<1>4. CASE StageFails(k)
  <2>1. Emits(k, <<Event("stage", 0)>>)
        /\ UNCHANGED <<client, tasks, server, signals, sent, pauses, db, lapses>>
    BY <1>4 DEF StageFails
  <2>2. down' \in [Runs -> Seq(EventSet)]
    BY <2>1, EventsTyped, EmitsTyped
  <2> QED BY <2>1, <2>2 DEF Typed, client, tasks
<1> QED BY <1>1, <1>2, <1>3, <1>4 DEF Server

LEMMA EventHead ==
  ASSUME Typed, NEW k \in Runs, down[k] # <<>>
  PROVE  /\ Head(down[k]).type \in EventTypes /\ Head(down[k]).n \in Nat
         /\ Head(down[k]) = down[k][1] /\ 1 \in 1 .. Len(down[k])
<1>1. down[k] \in Seq(EventSet)
  BY DEF Typed
<1>2. Head(down[k]) \in EventSet /\ Head(down[k]) = down[k][1] /\ 1 \in 1 .. Len(down[k])
  BY <1>1
<1> QED BY <1>2 DEF EventSet

LEMMA ReceivesTyped ==
  ASSUME Typed, NEW k \in Runs, Receives(k)
  PROVE  Typed'
<1> DEFINE e == Head(down[k])
<1>1. down[k] \in Seq(EventSet) /\ down[k] # <<>>
  BY DEF Receives, Typed
<1>2. e \in EventSet /\ Tail(down[k]) \in Seq(EventSet)
  BY <1>1
<1>3. e.n \in Nat /\ e.type \in EventTypes
  BY <1>2 DEF EventSet
<1>4. /\ down' = [down EXCEPT ![k] = Tail(@)]
      /\ UNCHANGED <<here, opening, created, run, cur, tries, server, signals, sent, pauses, db>>
  BY DEF Receives
<1>5. down' \in [Runs -> Seq(EventSet)]
  BY <1>2, <1>4 DEF Typed
<1>6. ASSUME Finishes(k)
      PROVE  /\ queue' \in [Runs -> Seq(TaskSet)] /\ sub' = NoRun /\ running' = FALSE
             /\ lapses' \in [Runs -> SUBSET Lapses]
  BY <1>6, EnqueueTyped, TasksTyped, LapseTyped DEF Finishes, Strikes, Lapses
<1>7. /\ queue' \in [Runs -> Seq(TaskSet)] /\ sub' \in {sub, NoRun} /\ running' \in BOOLEAN
      /\ lapses' \in [Runs -> SUBSET Lapses]
      /\ socket' \in [Runs -> {"none", "connecting", "open", "closed"}]
  <2>1. CASE e.type = "message"
    <3>1. queue' = Enqueue(<<Save(k, e.n)>>) /\ UNCHANGED <<sub, running, socket, lapses>>
      BY <2>1 DEF Receives
    <3> QED BY <1>3, <3>1, EnqueueTyped, TasksTyped DEF Typed
  <2>2. CASE e.type = "compressing"
    <3>1. /\ queue' = IF here = NoConv THEN queue ELSE Enqueue(<<Task("compress")>>)
          /\ UNCHANGED <<sub, running, socket, lapses>>
      BY <2>2 DEF Receives
    <3> QED BY <3>1, EnqueueTyped, TasksTyped DEF Typed
  <2>3. CASE e.type = "over"
    <3>1. Finishes(k) /\ UNCHANGED socket
      BY <2>3 DEF Receives
    <3> QED BY <1>6, <3>1 DEF Typed
  <2>4. CASE e.type = "stopped"
    <3>1. running' = FALSE /\ Strikes(k) /\ UNCHANGED <<queue, sub, socket>>
      BY <2>4 DEF Receives
    <3> QED BY <3>1, LapseTyped DEF Strikes, Lapses, Typed
  <2>5. CASE e.type = "close"
    <3>1. /\ socket' = [socket EXCEPT ![k] = "closed"]
          /\ Finishes(k) \/ UNCHANGED <<queue, sub, running, lapses>>
      BY <2>5 DEF Receives
    <3> QED BY <1>6, <3>1 DEF Typed
  <2>6. CASE e.type = "stage"
    <3>1. running' = FALSE /\ UNCHANGED <<queue, sub, socket>>
          /\ (lapses' = Lapse({k}, "muted") \/ Strikes(k))
      BY <2>6 DEF Receives
    <3>2. lapses' \in [Runs -> SUBSET Lapses]
      <4>1. "muted" \in Lapses /\ "struck" \in Lapses
        BY DEF Lapses
      <4> QED BY <3>1, <4>1, LapseTyped DEF Strikes
    <3> QED BY <3>1, <3>2 DEF Typed
  <2> QED BY <1>3, <2>1, <2>2, <2>3, <2>4, <2>5, <2>6 DEF EventTypes
<1> QED BY <1>4, <1>5, <1>7 DEF Typed

\* The message of a save, and the one that starts a run.
LEMMA MessageTyped ==
  ASSUME Typed, NEW c \in 0 .. created, c # NoConv, NEW k \in Runs, NEW n \in Nat
  PROVE  Message(c, k, n) \in Messages
<1>1. c \in Convs
  BY BoundsTyped DEF Typed, Convs, NoConv
<1> QED BY <1>1 DEF Message, Messages

LEMMA HeadTyped ==
  ASSUME Typed, NEW s \in Runs, queue[s] # <<>>
  PROVE  /\ Head(queue[s]) \in TaskSet /\ Head(queue[s]) = queue[s][1] /\ 1 \in 1 .. Len(queue[s])
         /\ Dequeue(s) \in [Runs -> Seq(TaskSet)]
<1>1. queue[s] \in Seq(TaskSet)
  BY DEF Typed
<1>2. /\ Tail(queue[s]) \in Seq(TaskSet) /\ Head(queue[s]) \in TaskSet
      /\ Head(queue[s]) = queue[s][1] /\ 1 \in 1 .. Len(queue[s])
  BY <1>1
<1> QED BY <1>2 DEF Dequeue, Typed

\* What a task at the head of a queue may store.
LEMMA TaskStores ==
  ASSUME Typed, NEW s \in Runs, queue[s] # <<>>, Head(queue[s]).do = "save", SavesIn(s) # NoConv
  PROVE  /\ Head(queue[s]).run \in Runs /\ Head(queue[s]).n \in Nat
         /\ Message(SavesIn(s), Head(queue[s]).run, Head(queue[s]).n) \in Messages
         /\ Store(s, Message(SavesIn(s), Head(queue[s]).run, Head(queue[s]).n)) \in [Runs -> Seq(Messages)]
<1>1. Head(queue[s]).run \in Runs /\ Head(queue[s]).n \in Nat
  BY HeadTyped DEF TaskSet
<1>2. SavesIn(s) \in 0 .. created
  BY DEF Typed, Within, SavesIn
<1>3. Message(SavesIn(s), Head(queue[s]).run, Head(queue[s]).n) \in Messages
  BY <1>1, <1>2, MessageTyped
<1> QED BY <1>1, <1>3, StoreTyped

LEMMA BeginsTyped ==
  ASSUME Typed, \A k \in Runs : Follows(k), NEW k \in Runs,
         Created(k) \/ Posted(k) \/ PostFails(k) \/ RagAnswers(k)
  PROVE  Typed'
<1>1. CASE Created(k)
  <2> DEFINE r == [run[k] EXCEPT !.phase = "posting", !.conv = created + 1]
  <2>1. /\ created' = created + 1 /\ created + 1 \in 1 .. MaxConvs /\ created <= created + 1
        /\ created + 1 \in 0 .. created + 1 /\ 0 .. created \subseteq 0 .. created + 1
        /\ 1 .. created \subseteq 1 .. created + 1
    <3>1. created \in 1 .. MaxConvs /\ created' = created + 1 /\ created < MaxConvs
      BY <1>1 DEF Created, Typed
    <3> QED BY <3>1, BoundsTyped
  <2>2. run[k] \in RunRecord /\ Within(run[k], created)
    BY DEF Typed
  <2>3. r \in RunRecord /\ Within(r, created + 1)
    <3>1. created + 1 \in Places /\ "posting" \in Phases
      BY <2>1, BoundsTyped DEF Places, Phases
    <3>2. r \in RunRecord
      BY <2>2, <3>1 DEF RunRecord
    <3> QED BY <2>1, <2>2, <3>2 DEF Within, RunRecord
  <2>4. run' = [run EXCEPT ![k] = r]
    BY <1>1, <2>1 DEF Created, Typed
  <2> HIDE DEF r
  <2>5. run' \in [Runs -> RunRecord] /\ \A j \in Runs : Within(run'[j], created')
    BY <2>1, <2>3, <2>4, RunTyped
  <2>6. here' \in 0 .. created' /\ opening' \subseteq 1 .. created' /\ created' \in 1 .. MaxConvs
        /\ lapses' \in [Runs -> SUBSET Lapses]
    BY <1>1, <2>1, LapseTyped DEF Created, MovesTo, Typed, Lapses
  <2> QED BY <1>1, <2>5, <2>6 DEF Created, Typed, tasks, backend
<1>2. CASE Posted(k)
  <2>1. /\ run[k].conv \in 0 .. created /\ run[k].conv # NoConv /\ 0 \in Nat
        /\ here \in 0 .. created /\ run[k].works \in 0 .. created
    BY <1>2, BoundsTyped DEF Posted, Follows, Typed, Within
  <2>2. db' \in [Runs -> Seq(Messages)]
    BY <1>2, <2>1, MessageTyped, StoreTyped DEF Posted
  <2>3. CASE run[k].how = "rag"
    <3>1. run' \in [Runs -> RunRecord] /\ \A j \in Runs : Within(run'[j], created)
      BY <1>2, <2>3, PhaseTyped DEF Posted, Phases
    <3> QED BY <1>2, <2>2, <2>3, <3>1 DEF Posted, Typed, tasks, backend
  <2>4. CASE run[k].how # "rag"
    <3>1. Subscribes(k, run[k].works) \/ Subscribes(k, here)
      BY <1>2, <2>4 DEF Posted
    <3>2. /\ run' \in [Runs -> RunRecord] /\ \A j \in Runs : Within(run'[j], created)
          /\ socket' \in [Runs -> {"none", "connecting", "open", "closed"}]
          /\ cur' = k /\ sub' = k /\ running' = TRUE /\ lapses' \in [Runs -> SUBSET Lapses]
      BY <2>1, <3>1, SubscribesTyped
    <3> QED BY <1>2, <2>2, <3>2 DEF Posted, Typed, tasks, backend
  <2> QED BY <2>3, <2>4
<1>3. CASE PostFails(k)
  <2>1. run' \in [Runs -> RunRecord] /\ \A j \in Runs : Within(run'[j], created)
    BY <1>3, PhaseTyped DEF PostFails, Phases
  <2> QED BY <1>3, <2>1 DEF PostFails, Typed, tasks, backend
<1>4. CASE RagAnswers(k)
  <2>1. run' \in [Runs -> RunRecord] /\ \A j \in Runs : Within(run'[j], created)
    BY <1>4, PhaseTyped DEF RagAnswers, Phases
  <2>2. ASSUME here # NoConv PROVE Store(k, Message(here, k, 1)) \in [Runs -> Seq(Messages)]
    <3>1. here \in 0 .. created /\ 1 \in Nat
      BY <2>2, BoundsTyped DEF Typed
    <3> QED BY <2>2, <3>1, MessageTyped, StoreTyped
  <2> QED BY <1>4, <2>1, <2>2 DEF RagAnswers, Typed, tasks, backend
<1> QED BY <1>1, <1>2, <1>3, <1>4

LEMMA OpensTyped ==
  ASSUME Typed, NEW k \in Runs, Opens(k) \/ ConnectFails(k)
  PROVE  Typed'
<1>1. CASE Opens(k)
  BY <1>1 DEF Opens, Typed, tasks
<1>2. CASE ConnectFails(k)
  BY <1>2, EventsTyped DEF ConnectFails, Typed, tasks
<1> QED BY <1>1, <1>2

LEMMA TasksStepTyped ==
  ASSUME Typed, NEW s \in Runs, TaskSucceeds(s) \/ TaskFails(s)
  PROVE  Typed'
<1>1. queue[s] # <<>> /\ UNCHANGED <<client, server, down, sent, pauses>>
  BY DEF TaskSucceeds, TaskFails, backend
<1>2. queue' \in [Runs -> Seq(TaskSet)]
  BY <1>1, HeadTyped DEF TaskSucceeds, TaskFails, Typed
<1>3. db' \in [Runs -> Seq(Messages)]
  BY <1>1, TaskStores DEF TaskSucceeds, TaskFails, Typed
<1>4. signals' \in [Runs -> SUBSET {"abort", "compression_done"}]
  BY SignalTyped DEF TaskSucceeds, TaskFails, Typed, backend
<1>5. tries' \in [Runs -> 0 .. Attempts - 1]
  <2>1. tries[s] \in 0 .. Attempts - 1 /\ 0 \in 0 .. Attempts - 1
    BY BoundsTyped DEF Typed
  <2>2. ~LastAttempt(s) => tries[s] + 1 \in 0 .. Attempts - 1
    BY <2>1, BoundsTyped DEF LastAttempt
  <2> QED BY <2>1, <2>2 DEF TaskSucceeds, TaskFails, Typed
<1>6. lapses' \in [Runs -> SUBSET Lapses]
  BY LapseTyped, SMTT(30) DEF TaskSucceeds, TaskFails, Typed, Lapses
<1> QED BY <1>1, <1>2, <1>3, <1>4, <1>5, <1>6 DEF Typed, client

LEMMA ShowsTyped ==
  ASSUME Typed, NEW c \in Convs, Shows(c)
  PROVE  Typed'
<1>1. lapses' \in [Runs -> SUBSET Lapses]
  BY LapseTyped DEF Shows, MovesTo, Lapses
<1>2. here' \in 0 .. created
  <2>1. c \in 1 .. created /\ here' = c /\ created \in 1 .. MaxConvs
    BY DEF Shows, MovesTo, Typed
  <2> QED BY <2>1, BoundsTyped
<1> QED BY <1>1, <1>2 DEF Shows, Typed, tasks, backend

LEMMA StepTyped == Typed /\ (\A k \in Runs : Follows(k)) /\ [Next]_vars => Typed'
<1> SUFFICES ASSUME Typed, \A k \in Runs : Follows(k), [Next]_vars PROVE Typed'
  OBVIOUS
<1>1. ASSUME NEW k \in Runs, Client(k) \/ Server(k) PROVE Typed'
  BY <1>1, BeginsTyped, OpensTyped, ReceivesTyped, TasksStepTyped, ServerTyped DEF Client
<1>2. CASE UNCHANGED vars
  BY <1>2 DEF vars, client, tasks, backend, Typed
<1> QED BY <1>1, <1>2, UserTyped, ShowsTyped DEF Next

-----------------------------------------------------------------------------
(* A run and its conversation *)

\* What went wrong is never forgotten.
LEMMA LapsesStay == Typed /\ [Next]_vars => \A k \in Runs : lapses[k] \subseteq lapses'[k]
<1> SUFFICES ASSUME Typed, [Next]_vars, NEW k \in Runs PROVE lapses[k] \subseteq lapses'[k]
  OBVIOUS
<1>1. \/ UNCHANGED lapses
      \/ \E ks, why : lapses' = Lapse(ks, why)
      \/ StartNewChat
  <2>1. CASE User
    BY <2>1 DEF User, Starts, AbortAgent, SelectConversation
  <2>2. ASSUME NEW c \in Convs, Shows(c) PROVE lapses' = Lapse({j \in Runs \ {NoRun} : Begun(j) /\ c # here}, "moved")
    BY <2>2 DEF Shows, MovesTo
  <2>3. ASSUME NEW j \in Runs, Server(j) PROVE UNCHANGED lapses
    BY <2>3 DEF Server, ServerWorks, StageFails, ServerReads, Breaks
  <2>4. ASSUME NEW j \in Runs, Client(j)
        PROVE  UNCHANGED lapses \/ \E ks, why : lapses' = Lapse(ks, why)
    <3>1. CASE Receives(j)
      <4>1. Head(down[j]).type \in EventTypes
        BY <3>1, EventHead DEF Receives
      <4> QED BY <3>1, <4>1 DEF Receives, Finishes, Strikes, EventTypes
    <3> QED BY <2>4, <3>1 DEF Client, Created, Posted, PostFails, RagAnswers, Opens, ConnectFails,
                             TaskSucceeds, TaskFails, MovesTo, Subscribes
  <2>5. CASE UNCHANGED vars
    BY <2>5 DEF vars
  <2> QED BY <2>1, <2>2, <2>3, <2>4, <2>5 DEF Next
<1>2. ASSUME NEW ks, NEW why, lapses' = Lapse(ks, why) PROVE lapses[k] \subseteq lapses'[k]
  BY <1>2 DEF Lapse
<1>3. CASE StartNewChat
  BY <1>3 DEF StartNewChat
<1> QED BY <1>1, <1>2, <1>3

\* What other steps leave of what a run follows.
LEMMA FollowsKept ==
  ASSUME NEW k \in Runs, Follows(k), run'[k] = run[k], lapses[k] \subseteq lapses'[k],
         Begun(k) => here' = here \/ "moved" \in lapses'[k]
  PROVE  Follows(k)'
BY DEF Follows, Begun

LEMMA SubscribesFollows ==
  ASSUME Typed, NEW k \in Runs, run[k].phase = "posting", Follows(k), NEW works,
         works = run[k].conv \/ works = here, Subscribes(k, works), [Next]_vars
  PROVE  Follows(k)'
<1>1. lapses[k] \subseteq lapses'[k]
  BY LapsesStay
<1>2. /\ run'[k].phase = "started" /\ run'[k].saves = here /\ run'[k].works = works
      /\ run'[k].conv = run[k].conv
  BY DEF Subscribes, Typed, RunRecord
<1>3. "moved" \in lapses[k] \/ run[k].conv = here
  BY DEF Follows
<1> QED BY <1>1, <1>2, <1>3 DEF Follows

LEMMA FollowsStep ==
  Typed /\ (\A k \in Runs : Follows(k)) /\ [Next]_vars => \A k \in Runs : Follows(k)'
<1> SUFFICES ASSUME Typed, \A k \in Runs : Follows(k), [Next]_vars, NEW k \in Runs
             PROVE  Follows(k)'
  OBVIOUS
<1>1. lapses[k] \subseteq lapses'[k]
  BY LapsesStay
<1>2. CASE UNCHANGED <<run, here>>
  BY <1>1, <1>2, FollowsKept
<1>3. ASSUME run'[k] = run[k], NEW c, NEW but \in Runs \cup {NoRun}, MovesTo(c, but), but # k
      PROVE  Follows(k)'
  <2>1. Begun(k) => here' = here \/ "moved" \in lapses'[k]
    <3>1. CASE c = here
      BY <1>3, <3>1 DEF MovesTo
    <3>2. CASE c # here
      <4>1. Begun(k) => k \in {j \in Runs \ {but} : Begun(j) /\ c # here}
        BY <1>3, <3>2
      <4>2. k \in {j \in Runs \ {but} : Begun(j) /\ c # here} => "moved" \in lapses'[k]
        BY <1>3 DEF MovesTo, Lapse
      <4> QED BY <4>1, <4>2
    <3> QED BY <3>1, <3>2
  <2> QED BY <1>1, <1>3, <2>1, FollowsKept
<1>4. CASE User
  <2>1. ASSUME NEW how \in {"send", "edit", "rag"}, Starts(how) PROVE Follows(k)'
    <3>1. PICK j \in Runs :
            /\ run[j].phase = "unused"
            /\ run' = [run EXCEPT ![j] =
                 [how |-> how, phase |-> IF here = NoConv THEN "creating" ELSE "posting",
                  conv |-> here, works |-> here, saves |-> NoConv]]
      BY <2>1 DEF Starts
    <3>2. here' = here /\ (how = "edit" => here # NoConv)
      BY <2>1 DEF Starts
    <3>3. CASE j # k
      BY <1>1, <3>1, <3>2, <3>3, FollowsKept DEF Typed
    <3>4. CASE j = k
      <4>1. run'[k] = [how |-> how, phase |-> IF here = NoConv THEN "creating" ELSE "posting",
                       conv |-> here, works |-> here, saves |-> NoConv]
        BY <3>1, <3>4 DEF Typed
      <4> QED BY <3>2, <4>1 DEF Follows
    <3> QED BY <3>3, <3>4
  <2>2. CASE StartNewChat
    <3>1. Begun(k) => "moved" \in lapses'[k]
      BY <2>2 DEF StartNewChat
    <3> QED BY <1>1, <2>2, <3>1, FollowsKept DEF StartNewChat
  <2>3. CASE AbortAgent \/ \E c \in Convs : SelectConversation(c)
    BY <1>2, <2>3 DEF AbortAgent, SelectConversation, client
  <2> QED BY <1>4, <2>1, <2>2, <2>3 DEF User
<1>5. ASSUME NEW c \in Convs, Shows(c) PROVE Follows(k)'
  BY <1>3, <1>5 DEF Shows, NoRun, Runs
<1>6. ASSUME NEW j \in Runs, Server(j) PROVE Follows(k)'
  BY <1>2, <1>6 DEF Server, ServerWorks, StageFails, ServerReads, Breaks, client
<1>7. ASSUME NEW j \in Runs, Created(j) PROVE Follows(k)'
  <2>1. /\ MovesTo(created + 1, j) /\ here' = created + 1
        /\ run' = [run EXCEPT ![j].phase = "posting", ![j].conv = created + 1]
    BY <1>7 DEF Created, MovesTo
  <2>2. CASE j # k
    BY <1>3, <2>1, <2>2 DEF Typed
  <2>3. CASE j = k
    <3>1. /\ run'[k].phase = "posting" /\ run'[k].conv = here' /\ run'[k].how = run[k].how
          /\ run'[k].works = run[k].works
      BY <2>1, <2>3 DEF Typed, RunRecord
    <3>2. created + 1 # NoConv /\ run[k].how # "edit"
      BY <1>7, <2>3 DEF Created, Follows, Typed, NoConv
    <3> QED BY <2>1, <3>1, <3>2 DEF Follows
  <2> QED BY <2>2, <2>3
<1>8. ASSUME NEW j \in Runs, Posted(j) PROVE Follows(k)'
  <2>1. here' = here /\ run[j].phase = "posting"
    BY <1>8 DEF Posted
  <2>2. CASE j # k
    <3>1. run'[k] = run[k]
      BY <1>8, <2>2 DEF Posted, Subscribes, Typed
    <3> QED BY <1>1, <2>1, <3>1, FollowsKept
  <2>3. CASE j = k /\ run[k].how = "rag"
    <3>1. run'[k] = [run[k] EXCEPT !.phase = "asking"]
      BY <1>8, <2>3 DEF Posted, Typed
    <3>2. run'[k].phase = "asking" /\ run'[k].conv = run[k].conv
      BY <3>1 DEF Typed, RunRecord
    <3> QED BY <1>1, <2>1, <2>3, <3>2 DEF Follows
  <2>4. CASE j = k /\ run[k].how # "rag"
    <3>1. /\ Subscribes(k, IF run[k].how = "edit" THEN run[k].works ELSE here)
          /\ run[k].how = "edit" => run[k].works = run[k].conv
      BY <1>8, <2>1, <2>4 DEF Posted, Follows
    <3> QED BY <2>1, <2>4, <3>1, SubscribesFollows
  <2> QED BY <2>2, <2>3, <2>4
<1>9. ASSUME NEW j \in Runs, PostFails(j) \/ RagAnswers(j) PROVE Follows(k)'
  <2>1. here' = here /\ \/ run' = [run EXCEPT ![j].phase = "over"]
                        \/ run' = [run EXCEPT ![j].phase = "over", ![j].saves = here]
    BY <1>9 DEF PostFails, RagAnswers
  <2>2. CASE j # k
    <3>1. run'[k] = run[k]
      BY <2>1, <2>2 DEF Typed
    <3> QED BY <1>1, <2>1, <3>1, FollowsKept
  <2>3. CASE j = k
    <3>1. run'[k].phase = "over"
      BY <2>1, <2>3 DEF Typed, RunRecord
    <3> QED BY <3>1 DEF Follows
  <2> QED BY <2>2, <2>3
<1>10. ASSUME NEW j \in Runs,
              Opens(j) \/ ConnectFails(j) \/ Receives(j) \/ TaskSucceeds(j) \/ TaskFails(j)
       PROVE  Follows(k)'
  BY <1>2, <1>10 DEF Opens, ConnectFails, Receives, TaskSucceeds, TaskFails, client
<1>11. CASE UNCHANGED vars
  BY <1>2, <1>11 DEF vars, client
<1> QED BY <1>4, <1>5, <1>6, <1>7, <1>8, <1>9, <1>10, <1>11 DEF Next, Client

-----------------------------------------------------------------------------
(* A run and its socket *)

\* A run that has started does not start again, nor fail to.
LEMMA StartedStays ==
  Typed /\ [Next]_vars => \A k \in Runs : run[k].phase = "started" => run'[k].phase = "started"
<1> SUFFICES ASSUME Typed, [Next]_vars, NEW k \in Runs, run[k].phase = "started"
             PROVE  run'[k].phase = "started"
  OBVIOUS
<1>1. CASE User
  BY <1>1 DEF User, Starts, AbortAgent, StartNewChat, SelectConversation, client, Typed
<1>2. ASSUME NEW j \in Runs, Server(j) PROVE run'[k].phase = "started"
  BY <1>2 DEF Server, ServerWorks, StageFails, ServerReads, Breaks, client
<1>3. ASSUME NEW j \in Runs, Created(j) \/ Posted(j) \/ PostFails(j) \/ RagAnswers(j)
      PROVE  run'[k].phase = "started"
  <2>1. run[j].phase # "started" /\ j # k
    BY <1>3 DEF Created, Posted, PostFails, RagAnswers
  <2>2. run'[k] = run[k]
    BY <1>3, <2>1 DEF Created, Posted, PostFails, RagAnswers, Subscribes, Typed
  <2> QED BY <2>2
<1>4. ASSUME NEW j \in Runs,
              Opens(j) \/ ConnectFails(j) \/ Receives(j) \/ TaskSucceeds(j) \/ TaskFails(j)
       PROVE  run'[k].phase = "started"
  BY <1>4 DEF Opens, ConnectFails, Receives, TaskSucceeds, TaskFails, client
<1>5. ASSUME NEW c \in Convs, Shows(c) PROVE run'[k].phase = "started"
  BY <1>5 DEF Shows
<1>6. CASE UNCHANGED vars
  BY <1>6 DEF vars, client
<1> QED BY <1>1, <1>2, <1>3, <1>4, <1>5, <1>6 DEF Next, Client

\* The server says something and goes on, or ends and closes the connection.
LEMMA EmitsConnected ==
  ASSUME Typed, NEW k \in Runs, Connected(k), server[k] \in {"running", "suspended"},
         NEW es \in Seq(EventSet), down'[k] = down[k] \o es, socket'[k] = socket[k],
         run[k].phase = "started" => run'[k].phase = "started",
         \A i \in 1 .. Len(es) :
           es[i].type = "close" => i = Len(es) /\ server'[k] \in {"off", "ended"}
  PROVE  Connected(k)'
<1>1. socket[k] = "open"
  BY DEF Connected
<1>2. \A i \in 1 .. Len(down[k]) : down[k][i].type # "close"
  BY DEF Connected
<1>3. down[k] \in Seq(EventSet)
  BY DEF Typed
<1>4. /\ Len(down[k]) \in Nat /\ Len(es) \in Nat /\ Len(down'[k]) = Len(down[k]) + Len(es)
      /\ \A i \in 1 .. Len(down[k]) : down'[k][i] = down[k][i]
      /\ \A i \in 1 .. Len(down'[k]) : i > Len(down[k]) =>
           i - Len(down[k]) \in 1 .. Len(es) /\ down'[k][i] = es[i - Len(down[k])]
  BY <1>3
<1>5. ASSUME NEW i \in 1 .. Len(down'[k]), down'[k][i].type = "close"
      PROVE  i = Len(down'[k]) /\ server'[k] \in {"off", "ended"}
  <2>1. i > Len(down[k])
    BY <1>2, <1>4, <1>5
  <2>2. i - Len(down[k]) \in 1 .. Len(es) /\ es[i - Len(down[k])].type = "close"
    BY <1>4, <1>5, <2>1
  <2>3. i - Len(down[k]) = Len(es) /\ server'[k] \in {"off", "ended"}
    BY <2>2
  <2> QED BY <1>4, <2>3
<1> QED BY <1>1, <1>5 DEF Connected

\* The connection of a run under way ends without it, or it never came about.
LEMMA BrokenConnected ==
  ASSUME Typed, NEW k \in Runs, down'[k] = <<Event("over", 0), Event("close", 0)>>,
         server'[k] \in {"off", "ended"}, socket'[k] \in {"open", "closed"}, run'[k].phase = "started"
  PROVE  Connected(k)'
<1>1. /\ Len(down'[k]) = 2 /\ down'[k][1].type = "over" /\ down'[k][2].type = "close"
  BY DEF Event
<1>2. \A i \in 1 .. Len(down'[k]) : i = 1 \/ i = 2
  BY <1>1
<1>3. \A i \in 1 .. Len(down'[k]) :
        /\ down'[k][i].type \notin {"message", "compressing"}
        /\ down'[k][i].type = "close" => i = Len(down'[k])
  BY <1>1, <1>2
<1> QED BY <1>3 DEF Connected

LEMMA ConnectedStep ==
  ASSUME Typed, \A k \in Runs : Connected(k), [Next]_vars
  PROVE  \A k \in Runs : Connected(k)'
<1> SUFFICES ASSUME NEW k \in Runs PROVE Connected(k)'
  OBVIOUS
<1>1. run[k].phase = "started" => run'[k].phase = "started"
  BY StartedStays
<1>2. ASSUME socket'[k] = socket[k], server'[k] = server[k], down'[k] = down[k] PROVE Connected(k)'
  BY <1>1, <1>2 DEF Connected
<1>3. CASE User
  BY <1>2, <1>3 DEF User, Starts, AbortAgent, StartNewChat, SelectConversation, client, backend
<1>4. ASSUME NEW c \in Convs, Shows(c) PROVE Connected(k)'
  BY <1>2, <1>4 DEF Shows, backend
<1>5. ASSUME NEW j \in Runs, Server(j) PROVE Connected(k)'
  <2>1. socket' = socket
    BY <1>5 DEF Server, ServerWorks, StageFails, ServerReads, Breaks, client
  <2>2. CASE j # k
    <3>1. server'[k] = server[k] /\ down'[k] = down[k]
      BY <1>5, <2>2 DEF Server, ServerWorks, StageFails, ServerReads, Breaks, Emits, Typed
    <3> QED BY <1>2, <2>1, <3>1
  <2>3. ASSUME NEW how \in {"over", "stopped"}, server[k] \in {"running", "suspended"},
               server' = [server EXCEPT ![k] = "ended"],
               Emits(k, <<Event(how, 0), Event("close", 0)>>)
        PROVE  Connected(k)'
    <3> DEFINE es == <<Event(how, 0), Event("close", 0)>>
    <3>1. es \in Seq(EventSet) /\ Len(es) = 2 /\ es[1].type = how
      BY EventsTyped DEF Event
    <3>2. down'[k] = down[k] \o es /\ server'[k] = "ended"
      BY <2>3 DEF Emits, Typed
    <3> HIDE DEF es
    <3>3. \A i \in 1 .. Len(es) : es[i].type = "close" => i = Len(es)
      <4>1. \A i \in 1 .. Len(es) : i = 1 \/ i = 2
        BY <3>1
      <4> QED BY <3>1, <4>1
    <3> QED BY <1>1, <2>1, <2>3, <3>1, <3>2, <3>3, EmitsConnected
  <2>4. ASSUME NEW e \in EventSet, e.type # "close", server[k] = "running", Emits(k, <<e>>)
        PROVE  Connected(k)'
    <3> DEFINE es == <<e>>
    <3>1. es \in Seq(EventSet) /\ Len(es) = 1 /\ es[1].type # "close"
      BY <2>4
    <3>2. down'[k] = down[k] \o es
      BY <2>4 DEF Emits, Typed
    <3> HIDE DEF es
    <3>3. \A i \in 1 .. Len(es) : es[i].type # "close"
      <4>1. \A i \in 1 .. Len(es) : i = 1
        BY <3>1
      <4> QED BY <3>1, <4>1
    <3> QED BY <1>1, <2>1, <2>4, <3>1, <3>2, <3>3, EmitsConnected
  <2>5. CASE j = k /\ ServerWorks(k)
    <3>1. CASE /\ sent[k] < MaxMessages[k] /\ sent' = [sent EXCEPT ![k] = @ + 1]
               /\ Emits(k, <<Event("message", sent'[k])>>)
      <4>1. sent[k] \in Nat /\ sent'[k] = sent[k] + 1
        BY <3>1 DEF Typed
      <4>2. sent'[k] \in Nat
        BY <3>1, <4>1, BoundsTyped
      <4>3. Event("message", sent'[k]) \in EventSet /\ Event("message", sent'[k]).type # "close"
        BY <4>2 DEF Event, EventSet, EventTypes
      <4> QED BY <2>4, <2>5, <3>1, <4>3 DEF ServerWorks
    <3>2. CASE Emits(k, <<Event("compressing", 0)>>)
      <4>1. Event("compressing", 0) \in EventSet /\ Event("compressing", 0).type # "close"
        BY BoundsTyped DEF Event, EventSet, EventTypes
      <4> QED BY <2>4, <2>5, <3>2, <4>1 DEF ServerWorks
    <3>3. CASE /\ server' = [server EXCEPT ![k] = "ended"]
               /\ Emits(k, <<Event("over", 0), Event("close", 0)>>)
      BY <2>3, <2>5, <3>3 DEF ServerWorks
    <3> QED BY <2>5, <3>1, <3>2, <3>3 DEF ServerWorks
  <2>8. CASE j = k /\ StageFails(k)
    <3>1. Event("stage", 0) \in EventSet /\ Event("stage", 0).type # "close"
      BY DEF Event, EventSet, EventTypes
    <3> QED BY <2>4, <2>8, <3>1 DEF StageFails
  <2>6. CASE j = k /\ ServerReads(k)
    <3>1. \/ UNCHANGED <<server, down>>
          \/ /\ server[k] \in {"running", "suspended"}
             /\ server' = [server EXCEPT ![k] = "ended"]
             /\ \E how \in {"over", "stopped"} : Emits(k, <<Event(how, 0), Event("close", 0)>>)
          \/ /\ server[k] \in {"running", "suspended"} /\ UNCHANGED down
             /\ server' = [server EXCEPT ![k] = "running"]
      BY <2>6 DEF ServerReads
    <3>2. CASE /\ server[k] \in {"running", "suspended"} /\ UNCHANGED down
               /\ server' = [server EXCEPT ![k] = "running"]
      BY <1>1, <2>1, <3>2 DEF Connected
    <3> QED BY <1>2, <2>1, <2>3, <3>1, <3>2
  <2>7. CASE j = k /\ Breaks(k)
    <3>1. socket[k] = "open" /\ run[k].phase = "started"
      BY <2>7 DEF Breaks, Connected
    <3>2. server'[k] = "ended" /\ down'[k] = <<Event("over", 0), Event("close", 0)>>
      BY <2>7 DEF Breaks, Typed
    <3> QED BY <1>1, <2>1, <3>1, <3>2, BrokenConnected
  <2> QED BY <1>5, <2>2, <2>5, <2>6, <2>7, <2>8 DEF Server
<1>6. ASSUME NEW j \in Runs, Posted(j) PROVE Connected(k)'
  <2>1. server' = server /\ down' = down
    BY <1>6 DEF Posted, backend
  <2>2. CASE socket'[k] = socket[k]
    BY <1>2, <2>1, <2>2
  <2>3. CASE socket'[k] # socket[k]
    <3>1. /\ j = k /\ socket'[k] = "connecting" /\ run[k].phase = "posting"
          /\ run'[k].phase = "started"
      BY <1>6, <2>3 DEF Posted, Subscribes, Typed, RunRecord
    <3>2. socket[k] = "none"
      BY <3>1 DEF Connected, Typed
    <3>3. down[k] = <<>> /\ server[k] = "off"
      BY <3>2 DEF Connected
    <3> QED BY <2>1, <3>1, <3>2, <3>3 DEF Connected
  <2> QED BY <2>2, <2>3
<1>7. ASSUME NEW j \in Runs,
             Created(j) \/ PostFails(j) \/ RagAnswers(j) \/ TaskSucceeds(j) \/ TaskFails(j)
      PROVE  Connected(k)'
  BY <1>2, <1>7 DEF Created, PostFails, RagAnswers, TaskSucceeds, TaskFails, client, backend
<1>8. ASSUME NEW j \in Runs, Opens(j) PROVE Connected(k)'
  <2>1. CASE j # k
    BY <1>2, <1>8, <2>1 DEF Opens, Typed
  <2>2. CASE j = k
    <3>1. socket'[k] = "open" /\ down'[k] = <<>> /\ run[k].phase = "started"
      BY <1>8, <2>2 DEF Opens, Connected, Typed
    <3> QED BY <1>1, <3>1 DEF Connected
  <2> QED BY <2>1, <2>2
<1>9. ASSUME NEW j \in Runs, ConnectFails(j) PROVE Connected(k)'
  <2>1. CASE j # k
    BY <1>2, <1>9, <2>1 DEF ConnectFails, Typed
  <2>2. CASE j = k
    <3>1. /\ socket[k] = "connecting" /\ socket'[k] = "closed" /\ server' = server
          /\ down'[k] = <<Event("over", 0), Event("close", 0)>>
      BY <1>9, <2>2 DEF ConnectFails, Typed
    <3>2. run[k].phase = "started" /\ server[k] \in {"off", "ended"}
      BY <3>1 DEF Connected
    <3> QED BY <1>1, <3>1, <3>2, BrokenConnected
  <2> QED BY <2>1, <2>2
<1>10. ASSUME NEW j \in Runs, Receives(j) PROVE Connected(k)'
  <2>1. server' = server
    BY <1>10 DEF Receives
  <2>2. CASE j # k
    <3>1. socket'[k] = socket[k] /\ down'[k] = down[k]
      <4>1. Head(down[j]).type \in EventTypes
        BY <1>10, EventHead DEF Receives
      <4> QED BY <1>10, <2>2, <4>1 DEF Receives, Typed, EventTypes
    <3> QED BY <1>2, <2>1, <3>1
  <2>3. CASE j = k
    <3>1. down[k] # <<>> /\ down'[k] = Tail(down[k]) /\ down[k] \in Seq(EventSet)
      BY <1>10, <2>3 DEF Receives, Typed
    <3>2. /\ Len(down[k]) \in Nat \ {0} /\ Len(down'[k]) = Len(down[k]) - 1
          /\ \A i \in 1 .. Len(down'[k]) : i + 1 \in 1 .. Len(down[k]) /\ down'[k][i] = down[k][i + 1]
          /\ Head(down[k]) = down[k][1] /\ 1 \in 1 .. Len(down[k])
      BY <3>1
    <3>3. socket[k] \in {"open", "closed"} /\ run[k].phase = "started"
      BY <3>1 DEF Connected, Typed
    <3>4. ASSUME NEW i \in 1 .. Len(down'[k]), down'[k][i].type = "close"
          PROVE  i = Len(down'[k]) /\ server[k] \in {"off", "ended"}
      <4>1. i + 1 = Len(down[k]) /\ server[k] \in {"off", "ended"}
        BY <3>2, <3>4 DEF Connected
      <4> QED BY <3>2, <4>1
    <3>5. CASE Head(down[k]).type = "close"
      <4>1. Len(down[k]) = 1 /\ server[k] \in {"off", "ended"}
        BY <3>2, <3>5 DEF Connected
      <4>2. 1 .. Len(down'[k]) = {}
        BY <3>2, <4>1
      <4>3. socket' = [socket EXCEPT ![k] = "closed"]
        BY <1>10, <2>3, <3>5 DEF Receives
      <4>4. socket'[k] = "closed"
        BY <4>3 DEF Typed
      <4> QED BY <1>1, <2>1, <3>3, <4>1, <4>2, <4>4 DEF Connected
    <3>6. CASE Head(down[k]).type # "close"
      <4>1. socket' = socket
        <5>1. Head(down[k]).type \in EventTypes
          BY <3>1, EventHead
        <5> QED BY <1>10, <2>3, <3>6, <5>1 DEF Receives, EventTypes
      <4>2. socket[k] # "open" =>
              \A i \in 1 .. Len(down'[k]) : down'[k][i].type \notin {"message", "compressing"}
        BY <3>2 DEF Connected
      <4>3. socket[k] # "open" => server[k] \in {"off", "ended"}
        BY DEF Connected
      <4> QED BY <1>1, <2>1, <3>3, <3>4, <4>1, <4>2, <4>3 DEF Connected
    <3> QED BY <3>5, <3>6
  <2> QED BY <2>2, <2>3
<1>11. CASE UNCHANGED vars
  BY <1>2, <1>11 DEF vars, client, backend
<1> QED BY <1>3, <1>4, <1>5, <1>6, <1>7, <1>8, <1>9, <1>10, <1>11 DEF Next, Client

-----------------------------------------------------------------------------
(* The one subscription *)

LEMMA TailRange ==
  ASSUME NEW S, NEW q \in Seq(S), q # <<>>
  PROVE  \A i \in 1 .. Len(Tail(q)) : i + 1 \in 1 .. Len(q) /\ Tail(q)[i] = q[i + 1]
OBVIOUS

\* What is in the queues stays there or is done with.
LEMMA SubscribedKept ==
  ASSUME Typed, NEW k \in Runs, Subscribed(k),
         run[k].phase = "started" => run'[k].phase = "started",
         \A j \in Runs : lapses[j] \subseteq lapses'[j],
         run'[k].phase = "started" => run[k].phase = "started",
         socket[k] = "closed" => socket'[k] = "closed", cur' = cur,
         queue'[k] = queue[k] \/ (queue[k] # <<>> /\ queue'[k] = Tail(queue[k]))
  PROVE  Subscribed(k)'
<1>1. queue[k] \in Seq(TaskSet)
  BY DEF Typed
<1>2. queue'[k] # <<>> => queue[k] # <<>>
  OBVIOUS
<1>3. \A i \in 1 .. Len(queue'[k]) : \E h \in 1 .. Len(queue[k]) : queue'[k][i] = queue[k][h]
  BY <1>1, TailRange, ZenonT(60)
<1>4. \A i \in 1 .. Len(queue[k]) : queue[k][i].do = "save" => queue[k][i].run \in Runs
  <2>1. \A i \in 1 .. Len(queue[k]) : queue[k][i] \in TaskSet
    BY <1>1
  <2> QED BY <2>1 DEF TaskSet
<1>5. ASSUME NEW i \in 1 .. Len(queue'[k]), queue'[k][i].do = "save", queue'[k][i].run # k
      PROVE  "overtaken" \in lapses'[queue'[k][i].run]
  <2>1. PICK h \in 1 .. Len(queue[k]) : queue'[k][i] = queue[k][h]
    BY <1>3
  <2>2. "overtaken" \in lapses[queue[k][h].run] /\ queue[k][h].run \in Runs
    BY <1>4, <1>5, <2>1 DEF Subscribed
  <2> QED BY <2>1, <2>2
<1>6. cur' = k \/ queue'[k] # <<>> => run'[k].phase = "started"
  BY <1>2 DEF Subscribed
<1>7. run'[k].phase = "started" /\ socket'[k] # "closed" /\ cur' # k => "overtaken" \in lapses'[k]
  BY DEF Subscribed
<1> QED BY <1>5, <1>6, <1>7 DEF Subscribed

\* What one event puts into the queue of the subscription.
LEMMA EnqueueSubscribed ==
  ASSUME Typed, NEW k \in Runs, Subscribed(k), NEW t \in TaskSet, queue' = Enqueue(<<t>>),
         t.do = "save" /\ t.run # sub => "overtaken" \in lapses[t.run],
         run' = run, cur' = cur, \A j \in Runs : lapses[j] \subseteq lapses'[j],
         socket[k] = "closed" => socket'[k] = "closed"
  PROVE  Subscribed(k)'
<1>1. CASE sub # k
  <2>1. queue'[k] = queue[k]
    BY <1>1 DEF Enqueue, Typed
  <2> QED BY <2>1, SubscribedKept
<1>2. CASE sub = k
  <2>1. queue[k] \in Seq(TaskSet) /\ cur = k /\ queue'[k] = queue[k] \o <<t>>
    BY <1>2 DEF Enqueue, Typed, NoRun, Runs
  <2>2. \A i \in 1 .. Len(queue'[k]) :
          \/ i \in 1 .. Len(queue[k]) /\ queue'[k][i] = queue[k][i]
          \/ queue'[k][i] = t
    BY <2>1
  <2>3. ASSUME NEW q \in TaskSet, q.do = "save" PROVE q.run \in Runs
    BY <2>3 DEF TaskSet
  <2>4. \A i \in 1 .. Len(queue[k]) : queue[k][i] \in TaskSet
    BY <2>1
  <2>5. ASSUME NEW i \in 1 .. Len(queue'[k]), queue'[k][i].do = "save", queue'[k][i].run # k
        PROVE  "overtaken" \in lapses'[queue'[k][i].run]
    <3>1. CASE i \in 1 .. Len(queue[k]) /\ queue'[k][i] = queue[k][i]
      <4>1. "overtaken" \in lapses[queue[k][i].run] /\ queue[k][i].run \in Runs
        BY <2>3, <2>4, <2>5, <3>1 DEF Subscribed
      <4> QED BY <3>1, <4>1
    <3>2. CASE queue'[k][i] = t
      <4>1. "overtaken" \in lapses[t.run] /\ t.run \in Runs
        BY <1>2, <2>3, <2>5, <3>2
      <4> QED BY <3>2, <4>1
    <3> QED BY <2>2, <3>1, <3>2
  <2>6. run'[k].phase = "started" /\ cur' = k
    BY <2>1 DEF Subscribed
  <2> QED BY <2>5, <2>6 DEF Subscribed
<1> QED BY <1>1, <1>2

LEMMA SubscribedStep ==
  ASSUME Typed, \A k \in Runs : Connected(k), \A k \in Runs : Subscribed(k), [Next]_vars
  PROVE  \A k \in Runs : Subscribed(k)'
<1> SUFFICES ASSUME NEW k \in Runs PROVE Subscribed(k)'
  OBVIOUS
<1>1. /\ run[k].phase = "started" => run'[k].phase = "started"
      /\ \A j \in Runs : lapses[j] \subseteq lapses'[j]
  BY StartedStays, LapsesStay
<1>2. ASSUME run'[k].phase = "started" => run[k].phase = "started",
             socket[k] = "closed" => socket'[k] = "closed", cur' = cur,
             queue'[k] = queue[k] \/ (queue[k] # <<>> /\ queue'[k] = Tail(queue[k]))
      PROVE  Subscribed(k)'
  BY <1>1, <1>2, SubscribedKept
<1>3. CASE User
  <2>1. run'[k].phase = "started" => run[k].phase = "started"
    <3>1. ASSUME NEW how \in {"send", "edit", "rag"}, Starts(how)
          PROVE  run'[k].phase = "started" => run[k].phase = "started"
      BY <3>1 DEF Starts, Typed
    <3> QED BY <1>3, <3>1 DEF User, AbortAgent, StartNewChat, SelectConversation, client
  <2>2. socket' = socket /\ cur' = cur /\ queue' = queue
    BY <1>3 DEF User, Starts, AbortAgent, StartNewChat, SelectConversation, client, tasks
  <2> QED BY <1>2, <2>1, <2>2
<1>4. ASSUME NEW c \in Convs, Shows(c) PROVE Subscribed(k)'
  BY <1>2, <1>4 DEF Shows, tasks
<1>5. ASSUME NEW j \in Runs, Server(j) PROVE Subscribed(k)'
  BY <1>2, <1>5 DEF Server, ServerWorks, StageFails, ServerReads, Breaks, client, tasks
<1>6. ASSUME NEW j \in Runs, Created(j) \/ PostFails(j) \/ RagAnswers(j) PROVE Subscribed(k)'
  <2>1. run'[k].phase = "started" => run[k].phase = "started"
    <3>1. CASE j # k
      BY <1>6, <3>1 DEF Created, PostFails, RagAnswers, Typed
    <3>2. CASE j = k
      <4>1. run[k] \in RunRecord
        BY DEF Typed
      <4> QED BY <1>6, <3>2, <4>1 DEF Created, PostFails, RagAnswers, Typed, RunRecord
    <3> QED BY <3>1, <3>2
  <2>2. socket' = socket /\ cur' = cur /\ queue' = queue
    BY <1>6 DEF Created, PostFails, RagAnswers, tasks
  <2> QED BY <1>2, <2>1, <2>2
<1>7. ASSUME NEW j \in Runs, Posted(j) PROVE Subscribed(k)'
  <2>1. queue' = queue
    BY <1>7 DEF Posted, tasks
  <2>2. CASE run[j].how = "rag"
    <3>1. run'[k].phase = "started" => run[k].phase = "started"
      <4>1. run[k] \in RunRecord /\ run' = [run EXCEPT ![j].phase = "asking"]
        BY <1>7, <2>2 DEF Posted, Typed
      <4>2. CASE j # k
        BY <4>1, <4>2 DEF Typed
      <4>3. CASE j = k
        BY <4>1, <4>3 DEF Typed, RunRecord
      <4> QED BY <4>2, <4>3
    <3>2. socket' = socket /\ cur' = cur
      BY <1>7, <2>2 DEF Posted
    <3> QED BY <1>2, <2>1, <3>1, <3>2
  <2>3. CASE run[j].how # "rag"
    <3>1. PICK works : Subscribes(j, works)
      BY <1>7, <2>3 DEF Posted
    <3>2. CASE j = k
      <4>1. run'[k].phase = "started" /\ cur' = k
        BY <3>1, <3>2 DEF Subscribes, Typed, RunRecord
      <4>2. queue[k] = <<>>
        BY <1>7, <3>2 DEF Posted, Subscribed
      <4> QED BY <2>1, <4>1, <4>2 DEF Subscribed
    <3>3. CASE j # k
      <4>1. /\ run'[k] = run[k] /\ socket'[k] = socket[k] /\ cur' = j
            /\ run[k].phase = "started" /\ socket[k] # "closed" => "overtaken" \in lapses'[k]
        BY <3>1, <3>3 DEF Subscribes, Lapse, Typed
      <4>2. \A i \in 1 .. Len(queue[k]) : queue[k][i].do = "save" => queue[k][i].run \in Runs
        <5>1. \A i \in 1 .. Len(queue[k]) : queue[k][i] \in TaskSet
          BY DEF Typed
        <5> QED BY <5>1 DEF TaskSet
      <4>3. \A i \in 1 .. Len(queue[k]) : queue[k][i].do = "save" /\ queue[k][i].run # k
              => "overtaken" \in lapses'[queue[k][i].run]
        BY <1>1, <4>2 DEF Subscribed
      <4>4. queue[k] # <<>> => run[k].phase = "started"
        BY DEF Subscribed
      <4> QED BY <2>1, <3>3, <4>1, <4>3, <4>4 DEF Subscribed
    <3> QED BY <3>2, <3>3
  <2> QED BY <2>2, <2>3
<1>8. ASSUME NEW j \in Runs, Opens(j) \/ ConnectFails(j) PROVE Subscribed(k)'
  <2>1. run' = run /\ cur' = cur /\ queue' = queue
    BY <1>8 DEF Opens, ConnectFails, tasks
  <2>2. socket[k] = "closed" => socket'[k] = "closed"
    BY <1>8 DEF Opens, ConnectFails, Typed
  <2> QED BY <1>2, <2>1, <2>2
<1>9. ASSUME NEW j \in Runs, TaskSucceeds(j) \/ TaskFails(j) PROVE Subscribed(k)'
  <2>1. run' = run /\ cur' = cur /\ socket' = socket
    BY <1>9 DEF TaskSucceeds, TaskFails, client
  <2>2. queue[j] # <<>> /\ (queue' = queue \/ queue' = [queue EXCEPT ![j] = Tail(queue[j])])
    BY <1>9 DEF TaskSucceeds, TaskFails, Dequeue
  <2>3. queue'[k] = queue[k] \/ (queue[k] # <<>> /\ queue'[k] = Tail(queue[k]))
    BY <2>2 DEF Typed
  <2> QED BY <1>2, <2>1, <2>3
<1>10. ASSUME NEW j \in Runs, Receives(j) PROVE Subscribed(k)'
  <2> DEFINE e == Head(down[j])
  <2>1. /\ e.type \in EventTypes /\ e.n \in Nat /\ e = down[j][1]
        /\ 1 \in 1 .. Len(down[j])
    BY <1>10, EventHead DEF Receives
  <2>2. run' = run /\ cur' = cur
    BY <1>10 DEF Receives
  <2>3. socket[k] = "closed" => socket'[k] = "closed"
    <3>1. socket' = socket \/ socket' = [socket EXCEPT ![j] = "closed"]
      BY <1>10, <2>1 DEF Receives, EventTypes
    <3> QED BY <3>1 DEF Typed
  <2>4. CASE queue' = queue
    BY <1>2, <2>2, <2>3, <2>4
  <2>5. ASSUME queue' = Enqueue(<<Task("compress")>>) \/ queue' = Enqueue(<<Task("finish")>>)
        PROVE  Subscribed(k)'
    <3>1. PICK do \in {"compress", "finish"} : queue' = Enqueue(<<Task(do)>>)
      BY <2>5
    <3>2. Task(do) \in TaskSet /\ Task(do).do # "save"
      BY <3>1 DEF Task, TaskSet, NoRun
    <3> QED BY <1>1, <2>2, <2>3, <3>1, <3>2, EnqueueSubscribed
  <2>6. ASSUME e.type = "message", queue' = Enqueue(<<Save(j, e.n)>>)
        PROVE  Subscribed(k)'
    <3>1. Save(j, e.n) \in TaskSet /\ Save(j, e.n).run = j
      BY <2>1 DEF Save, TaskSet
    <3>2. socket[j] = "open" /\ run[j].phase = "started"
      BY <2>1, <2>6 DEF Connected
    <3>3. sub = NoRun \/ j = sub \/ "overtaken" \in lapses[j]
      BY <3>2 DEF Subscribed, Typed
    <3>4. CASE sub = NoRun
      <4>1. queue' = queue
        BY <2>6, <3>4 DEF Enqueue
      <4> QED BY <2>4, <4>1
    <3>5. CASE sub # NoRun
      BY <1>1, <2>2, <2>3, <2>6, <3>1, <3>3, <3>5, EnqueueSubscribed
    <3> QED BY <3>4, <3>5
  <2>7. \/ queue' = queue
        \/ e.type = "message" /\ queue' = Enqueue(<<Save(j, e.n)>>)
        \/ queue' = Enqueue(<<Task("compress")>>)
        \/ queue' = Enqueue(<<Task("finish")>>)
    BY <1>10, <2>1 DEF Receives, Finishes, EventTypes
  <2> QED BY <2>4, <2>5, <2>6, <2>7
<1>11. CASE UNCHANGED vars
  BY <1>2, <1>11 DEF vars, client, tasks
<1> QED BY <1>3, <1>4, <1>5, <1>6, <1>7, <1>8, <1>9, <1>10, <1>11 DEF Next, Client

-----------------------------------------------------------------------------
(* What is stored *)

\* Message m is where AnswersStay allows it to be in the messages stored through s.
Home(m, s) ==
  IF m.run # s THEN "overtaken" \in lapses[m.run]
  ELSE "moved" \in lapses[s] \/ m.conv = run[s].conv

\* That a run that has started works where it began need not be said of each message.
LEMMA HomeIsEnough ==
  ASSUME Typed, \A k \in Runs : Follows(k)
  PROVE  AnswersStay <=> \A s \in Runs : \A i \in DOMAIN db[s] : Home(db[s][i], s)
<1>1. ASSUME NEW s \in Runs, NEW m
      PROVE  (IF m.run # s THEN "overtaken" \in lapses[m.run]
              ELSE \/ "moved" \in lapses[s]
                   \/ /\ m.conv = run[m.run].conv
                      /\ run[m.run].phase = "started" => m.conv = run[m.run].works) <=> Home(m, s)
  BY DEF Home, Follows
<1> QED BY <1>1 DEF AnswersStay

\* The conversation of a run never changes.
LEMMA ConvStays ==
  ASSUME Typed, \A k \in Runs : Follows(k), [Next]_vars, NEW k \in Runs, run[k].conv # NoConv
  PROVE  run'[k].conv = run[k].conv
<1>1. run[k].phase \notin {"unused", "creating"} /\ run[k] \in RunRecord
  BY DEF Follows, Typed
<1>2. ASSUME NEW how, Starts(how) PROVE run'[k] = run[k]
  BY <1>1, <1>2 DEF Starts, Typed
<1>3. ASSUME NEW j \in Runs, Created(j) PROVE run'[k] = run[k]
  BY <1>1, <1>3 DEF Created, Typed
<1>4. ASSUME NEW j \in Runs, Posted(j) \/ PostFails(j) \/ RagAnswers(j)
      PROVE  run'[k].conv = run[k].conv
  <2>1. CASE j # k
    BY <1>4, <2>1 DEF Posted, PostFails, RagAnswers, Subscribes, Typed
  <2>2. CASE j = k
    BY <1>1, <1>4, <2>2 DEF Posted, PostFails, RagAnswers, Subscribes, Typed, RunRecord
  <2> QED BY <2>1, <2>2
<1>5. ASSUME NEW j \in Runs,
             \/ Opens(j) \/ ConnectFails(j) \/ Receives(j) \/ TaskSucceeds(j) \/ TaskFails(j)
             \/ Server(j)
      PROVE  run' = run
  BY <1>5 DEF Opens, ConnectFails, Receives, TaskSucceeds, TaskFails, Server, ServerWorks,
              StageFails, ServerReads, Breaks, client
<1>6. CASE User
  BY <1>2, <1>6 DEF User, AbortAgent, StartNewChat, SelectConversation, client
<1>7. CASE UNCHANGED vars \/ \E c \in Convs : Shows(c)
  BY <1>7 DEF vars, client, Shows
<1> QED BY <1>3, <1>4, <1>5, <1>6, <1>7 DEF Next, Client

LEMMA HomeStays ==
  ASSUME Typed, \A k \in Runs : Follows(k), [Next]_vars,
         NEW s \in Runs, NEW m \in Messages, Home(m, s)
  PROVE  Home(m, s)'
<1>1. m.run \in Runs /\ m.conv # NoConv
  BY DEF Messages, Convs, NoConv
<1>2. lapses[m.run] \subseteq lapses'[m.run] /\ lapses[s] \subseteq lapses'[s]
  BY <1>1, LapsesStay
<1>3. run[s].conv # NoConv => run'[s].conv = run[s].conv
  BY ConvStays
<1> QED BY <1>1, <1>2, <1>3 DEF Home

\* What a step stores is at home.
LEMMA StoresHome ==
  ASSUME Typed, \A k \in Runs : Follows(k) /\ Subscribed(k), [Next]_vars, NEW s \in Runs
  PROVE  \/ db'[s] = db[s]
         \/ \E m \in Messages : Home(m, s) /\ db'[s] = Append(db[s], m)
<1>1. ASSUME NEW k \in Runs, NEW m \in Messages, db' = Store(k, m), Home(m, k)
      PROVE  \/ db'[s] = db[s]
             \/ \E x \in Messages : Home(x, s) /\ db'[s] = Append(db[s], x)
  BY <1>1 DEF Store, Typed
<1>2. ASSUME NEW k \in Runs, Posted(k)
      PROVE  \E m \in Messages : db' = Store(k, m) /\ Home(m, k)
  <2> DEFINE m == Message(run[k].conv, k, 0)
  <2>1. run[k].conv \in 0 .. created /\ run[k].conv # NoConv /\ 0 \in Nat
    <3>1. run[k].phase = "posting" /\ Follows(k) /\ Within(run[k], created)
      BY <1>2 DEF Posted, Typed
    <3> QED BY <3>1, BoundsTyped DEF Follows, Within
  <2>2. m \in Messages /\ m.run = k /\ m.conv = run[k].conv
    BY <2>1, MessageTyped DEF Message
  <2>3. db' = Store(k, m)
    BY <1>2 DEF Posted
  <2> QED BY <2>2, <2>3 DEF Home
<1>3. ASSUME NEW k \in Runs, RagAnswers(k)
      PROVE  \/ db' = db
             \/ \E m \in Messages : db' = Store(k, m) /\ Home(m, k)
  <2> DEFINE m == Message(here, k, 1)
  <2>1. CASE here = NoConv
    BY <1>3, <2>1 DEF RagAnswers
  <2>2. CASE here # NoConv
    <3>1. here \in 0 .. created /\ 1 \in Nat
      BY BoundsTyped DEF Typed
    <3>2. m \in Messages /\ m.run = k /\ m.conv = here
      BY <2>2, <3>1, MessageTyped DEF Message
    <3>3. "moved" \in lapses[k] \/ run[k].conv = here
      BY <1>3 DEF RagAnswers, Follows
    <3>4. db' = Store(k, m)
      BY <1>3, <2>2 DEF RagAnswers
    <3> QED BY <3>2, <3>3, <3>4 DEF Home
  <2> QED BY <2>1, <2>2
<1>4. ASSUME NEW k \in Runs, TaskSucceeds(k) \/ TaskFails(k)
      PROVE  \/ db' = db
             \/ \E m \in Messages : db' = Store(k, m) /\ Home(m, k)
  <2> DEFINE t == Head(queue[k])
             m == Message(SavesIn(k), t.run, t.n)
  <2>1. \/ db' = db
        \/ t.do = "save" /\ SavesIn(k) # NoConv /\ db' = Store(k, m)
    BY <1>4 DEF TaskSucceeds, TaskFails
  <2>2. ASSUME t.do = "save", SavesIn(k) # NoConv PROVE m \in Messages /\ Home(m, k)
    <3>1. queue[k] # <<>> /\ t = queue[k][1] /\ 1 \in 1 .. Len(queue[k])
      BY <1>4, HeadTyped DEF TaskSucceeds, TaskFails
    <3>2. m \in Messages
      BY <2>2, <3>1, TaskStores
    <3>3. m.run = t.run /\ m.conv = run[k].saves
      BY DEF Message, SavesIn
    <3>4. t.run # k => "overtaken" \in lapses[t.run]
      BY <2>2, <3>1 DEF Subscribed
    <3>5. "moved" \in lapses[k] \/ run[k].saves = run[k].conv
      BY <3>1 DEF Subscribed, Follows
    <3> QED BY <3>2, <3>3, <3>4, <3>5 DEF Home
  <2> QED BY <2>1, <2>2
<1>5. \/ db' = db
      \/ \E k \in Runs : Posted(k) \/ RagAnswers(k) \/ TaskSucceeds(k) \/ TaskFails(k)
  <2>1. CASE User
    BY <2>1 DEF User, Starts, AbortAgent, StartNewChat, SelectConversation
  <2>2. ASSUME NEW k \in Runs, Client(k) \/ Server(k)
        PROVE  db' = db \/ Posted(k) \/ RagAnswers(k) \/ TaskSucceeds(k) \/ TaskFails(k)
    BY <2>2 DEF Client, Server, Created, PostFails, Opens, ConnectFails, Receives, ServerWorks,
                StageFails, ServerReads, Breaks
  <2>3. CASE UNCHANGED vars \/ \E c \in Convs : Shows(c)
    BY <2>3 DEF vars, Shows
  <2> QED BY <2>1, <2>2, <2>3 DEF Next
<1> QED BY <1>1, <1>2, <1>3, <1>4, <1>5

LEMMA AnswersStep ==
  ASSUME Typed, \A k \in Runs : Follows(k) /\ Subscribed(k), [Next]_vars, AnswersStay,
         Typed', \A k \in Runs : Follows(k)'
  PROVE  AnswersStay'
<1>1. \A s \in Runs : \A i \in DOMAIN db[s] : Home(db[s][i], s)
  BY HomeIsEnough
<1>2. ASSUME NEW s \in Runs, NEW i \in DOMAIN db'[s]
      PROVE  \E m \in Messages : db'[s][i] = m /\ Home(m, s)'
  <2>1. db[s] \in Seq(Messages)
    BY DEF Typed
  <2>2. \E m \in Messages : Home(m, s) /\ db'[s][i] = m
    <3>1. CASE db'[s] = db[s]
      BY <1>1, <1>2, <2>1, <3>1
    <3>2. ASSUME NEW m \in Messages, Home(m, s), db'[s] = Append(db[s], m)
          PROVE  \E x \in Messages : Home(x, s) /\ db'[s][i] = x
      <4>1. \/ i \in DOMAIN db[s] /\ db'[s][i] = db[s][i]
            \/ db'[s][i] = m
        BY <1>2, <2>1, <3>2
      <4>2. i \in DOMAIN db[s] => db[s][i] \in Messages
        BY <2>1
      <4> QED BY <1>1, <3>2, <4>1, <4>2
    <3> QED BY <3>1, <3>2, StoresHome
  <2>3. PICK m \in Messages : Home(m, s) /\ db'[s][i] = m
    BY <2>2
  <2>4. Home(m, s)'
    BY <2>3, HomeStays
  <2> QED BY <2>3, <2>4
<1>3. ASSUME NEW s \in Runs, NEW i \in DOMAIN db'[s], NEW m, m = db'[s][i], Home(m, s)'
      PROVE  IF m.run # s THEN "overtaken" \in lapses'[m.run]
             ELSE \/ "moved" \in lapses'[s]
                  \/ /\ m.conv = run'[m.run].conv
                     /\ run'[m.run].phase = "started" => m.conv = run'[m.run].works
  BY <1>3 DEF Home, Follows
<1> QED BY <1>2, <1>3 DEF AnswersStay

-----------------------------------------------------------------------------
(* The order of what is stored.  A message is behind what its run still has to say; the    *)
(* queue of a subscription and the messages stored through it follow one another.          *)

\* A message with number n of run r is behind those that are on their way and to come.
Behind(n, r, rn, sn, dn) ==
  rn[r].phase = "started" =>
    n <= sn[r] /\ \A j \in 1 .. Len(dn[r]) : dn[r][j].type = "message" => n < dn[r][j].n

\* A run with stored messages has begun, and a command has stored its question only.
Known(m, rn) ==
  /\ rn[m.run].phase \in {"asking", "started", "over"}
  /\ rn[m.run].phase = "asking" => m.n = 0

\* d is what is stored through a subscription, q its queue, c where it saves.  Only the
\* task at the head may have been stored already, its answer lost.
Flow(d, q, c, rn, sn, dn) ==
  /\ \A i \in 1 .. Len(d) : Known(d[i], rn) /\ Behind(d[i].n, d[i].run, rn, sn, dn)
  /\ \A j \in 1 .. Len(q) : q[j].do = "save" =>
       rn[q[j].run].phase = "started" /\ Behind(q[j].n, q[j].run, rn, sn, dn)
  /\ \A i, j \in 1 .. Len(d) : i < j /\ d[i].run = d[j].run => d[i].n < d[j].n
  /\ \A i, j \in 1 .. Len(q) :
       i < j /\ q[i].do = "save" /\ q[j].do = "save" /\ q[i].run = q[j].run => q[i].n < q[j].n
  /\ \A i \in 1 .. Len(d), j \in 1 .. Len(q) : q[j].do = "save" /\ q[j].run = d[i].run =>
       d[i].n < q[j].n \/ (j = 1 /\ d[i] = Message(c, q[j].run, q[j].n))

InFlow(s) == Flow(db[s], queue[s], run[s].saves, run, sent, down)

\* A run's messages are on their way in the order of their numbers.
Sends(k) ==
  /\ \A i \in 1 .. Len(down[k]) : down[k][i].type = "message" => down[k][i].n <= sent[k]
  /\ \A i, j \in 1 .. Len(down[k]) :
       i < j /\ down[k][i].type = "message" /\ down[k][j].type = "message" => down[k][i].n < down[k][j].n

\* A run with messages goes on as it is, or ends after its second one.
RunsMove(rn, rn2) ==
  \A r \in Runs : \/ rn2[r].phase = rn[r].phase
                  \/ rn[r].phase \in {"unused", "creating", "posting"}
                  \/ rn[r].phase = "asking" /\ rn2[r].phase = "over"

\* Every message on its way was so before, or has a new number.
RunsSay(sn, dn, sn2, dn2) ==
  \A r \in Runs :
    /\ sn[r] <= sn2[r]
    /\ \A j \in 1 .. Len(dn2[r]) : dn2[r][j].type = "message" =>
         dn2[r][j].n > sn[r] \/ \E i \in 1 .. Len(dn[r]) : dn2[r][j] = dn[r][i]

\* Runs begin and end, and say more.
LEMMA FlowMoves ==
  ASSUME NEW d \in Seq(Messages), NEW q \in Seq(TaskSet), NEW c, NEW c2, c2 = c \/ q = <<>>,
         NEW rn, NEW rn2, NEW sn \in [Runs -> Nat], NEW sn2 \in [Runs -> Nat], NEW dn, NEW dn2,
         dn2 \in [Runs -> Seq(EventSet)],
         Flow(d, q, c, rn, sn, dn),
         RunsMove(rn, rn2), RunsSay(sn, dn, sn2, dn2)
  PROVE  Flow(d, q, c2, rn2, sn2, dn2)
<1>1. ASSUME NEW n \in Nat, NEW r \in Runs, rn[r].phase = "started", Behind(n, r, rn, sn, dn)
      PROVE  Behind(n, r, rn2, sn2, dn2)
  <2>1. n <= sn[r] /\ sn[r] \in Nat /\ sn2[r] \in Nat /\ sn[r] <= sn2[r]
    BY <1>1 DEF Behind, RunsSay
  <2>2. ASSUME NEW j \in 1 .. Len(dn2[r]), dn2[r][j].type = "message" PROVE n < dn2[r][j].n
    <3>1. dn2[r][j].n \in Nat
      <4>1. dn2[r] \in Seq(EventSet)
        OBVIOUS
      <4>2. dn2[r][j] \in EventSet
        BY <2>2, <4>1
      <4> QED BY <4>2, BoundsTyped DEF EventSet
    <3>2. CASE dn2[r][j].n > sn[r]
      BY <2>1, <3>1, <3>2
    <3>3. CASE \E i \in 1 .. Len(dn[r]) : dn2[r][j] = dn[r][i]
      BY <1>1, <2>2, <3>3 DEF Behind
    <3> QED BY <2>2, <3>2, <3>3 DEF RunsSay
  <2> QED BY <2>1, <2>2 DEF Behind
<1>2. \A i \in 1 .. Len(d) : d[i].run \in Runs /\ d[i].n \in Nat
  <2>1. \A i \in 1 .. Len(d) : d[i] \in Messages
    OBVIOUS
  <2> QED BY <2>1, BoundsTyped, SMTT(30) DEF Messages
<1>3. \A j \in 1 .. Len(q) : q[j].do = "save" => q[j].run \in Runs /\ q[j].n \in Nat
  <2>1. \A j \in 1 .. Len(q) : q[j] \in TaskSet
    OBVIOUS
  <2>2. ASSUME NEW t \in TaskSet, t.do = "save" PROVE t.run \in Runs /\ t.n \in Nat
    BY <2>2, BoundsTyped DEF TaskSet
  <2> QED BY <2>1, <2>2
<1>4. ASSUME NEW i \in 1 .. Len(d)
      PROVE  Known(d[i], rn2) /\ Behind(d[i].n, d[i].run, rn2, sn2, dn2)
  <2>1. Known(d[i], rn) /\ Behind(d[i].n, d[i].run, rn, sn, dn) /\ d[i].run \in Runs /\ d[i].n \in Nat
    BY <1>2 DEF Flow
  <2>2. Known(d[i], rn2) /\ (rn2[d[i].run].phase = "started" => rn[d[i].run].phase = "started")
    BY <2>1 DEF Known, RunsMove
  <2>3. CASE rn[d[i].run].phase = "started"
    BY <1>1, <2>1, <2>2, <2>3
  <2>4. CASE rn2[d[i].run].phase # "started"
    BY <2>2, <2>4 DEF Behind
  <2> QED BY <2>2, <2>3, <2>4
<1>5. ASSUME NEW j \in 1 .. Len(q), q[j].do = "save"
      PROVE  rn2[q[j].run].phase = "started" /\ Behind(q[j].n, q[j].run, rn2, sn2, dn2)
  <2>1. /\ rn[q[j].run].phase = "started" /\ Behind(q[j].n, q[j].run, rn, sn, dn)
        /\ q[j].run \in Runs /\ q[j].n \in Nat
    BY <1>3, <1>5 DEF Flow
  <2>2. rn2[q[j].run].phase = "started"
    BY <2>1 DEF RunsMove
  <2> QED BY <1>1, <2>1, <2>2
<1>6. q = <<>> => 1 .. Len(q) = {}
  OBVIOUS
<1> QED BY <1>4, <1>5, <1>6 DEF Flow

LEMMA OneMore ==
  ASSUME NEW S, NEW d \in Seq(S), NEW m \in S
  PROVE  /\ Len(d) \in Nat /\ Len(Append(d, m)) = Len(d) + 1 /\ Append(d, m)[Len(d) + 1] = m
         /\ \A i \in 1 .. Len(Append(d, m)) :
              (i \in 1 .. Len(d) /\ Append(d, m)[i] = d[i]) \/ (i = Len(d) + 1 /\ Append(d, m)[i] = m)
<1>1. Len(d) \in Nat /\ Append(d, m) \in Seq(S) /\ Len(Append(d, m)) = Len(d) + 1
  OBVIOUS
<1>2. Append(d, m)[Len(d) + 1] = m
  BY <1>1
<1>3. \A i \in 1 .. Len(d) : Append(d, m)[i] = d[i]
  BY <1>1
<1>4. ASSUME NEW i \in 1 .. Len(Append(d, m))
      PROVE  (i \in 1 .. Len(d) /\ Append(d, m)[i] = d[i]) \/ (i = Len(d) + 1 /\ Append(d, m)[i] = m)
  <2>1. i \in 1 .. Len(d) \/ i = Len(d) + 1
    BY <1>1
  <2> QED BY <1>2, <1>3, <2>1
<1> QED BY <1>1, <1>2, <1>4

\* A message is stored.
LEMMA FlowStores ==
  ASSUME NEW d \in Seq(Messages), NEW q, NEW c, NEW rn, NEW sn, NEW dn, NEW m \in Messages,
         Flow(d, q, c, rn, sn, dn), Known(m, rn), Behind(m.n, m.run, rn, sn, dn),
         \A i \in 1 .. Len(d) : d[i].run = m.run => d[i].n < m.n,
         \A j \in 1 .. Len(q) : q[j].do = "save" /\ q[j].run = m.run =>
           m.n < q[j].n \/ (j = 1 /\ m = Message(c, q[j].run, q[j].n))
  PROVE  Flow(Append(d, m), q, c, rn, sn, dn)
<1> DEFINE e == Append(d, m)
<1>1. /\ Len(d) \in Nat /\ Len(e) = Len(d) + 1 /\ e[Len(d) + 1] = m
      /\ \A i \in 1 .. Len(e) : (i \in 1 .. Len(d) /\ e[i] = d[i]) \/ (i = Len(d) + 1 /\ e[i] = m)
  BY OneMore
<1> HIDE DEF e
<1>2. \A i \in 1 .. Len(e) : Known(e[i], rn) /\ Behind(e[i].n, e[i].run, rn, sn, dn)
  BY <1>1 DEF Flow
<1>3. ASSUME NEW i \in 1 .. Len(e), NEW j \in 1 .. Len(e), i < j, e[i].run = e[j].run
      PROVE  e[i].n < e[j].n
  <2>1. i \in 1 .. Len(d) /\ e[i] = d[i]
    BY <1>1, <1>3
  <2>2. CASE j \in 1 .. Len(d) /\ e[j] = d[j]
    BY <1>3, <2>1, <2>2 DEF Flow
  <2>3. CASE e[j] = m
    BY <1>3, <2>1, <2>3
  <2> QED BY <1>1, <2>2, <2>3
<1>4. ASSUME NEW i \in 1 .. Len(e), NEW j \in 1 .. Len(q), q[j].do = "save", q[j].run = e[i].run
      PROVE  e[i].n < q[j].n \/ (j = 1 /\ e[i] = Message(c, q[j].run, q[j].n))
  <2>1. CASE i \in 1 .. Len(d) /\ e[i] = d[i]
    BY <1>4, <2>1 DEF Flow
  <2>2. CASE e[i] = m
    BY <1>4, <2>2
  <2> QED BY <1>1, <2>1, <2>2
<1>5. Flow(e, q, c, rn, sn, dn)
  BY <1>2, <1>3, <1>4 DEF Flow
<1> QED BY <1>5 DEF e

\* The task at the head is done with.
LEMMA FlowDequeues ==
  ASSUME NEW d \in Seq(Messages), NEW q \in Seq(TaskSet), q # <<>>, NEW c, NEW rn, NEW sn, NEW dn,
         Flow(d, q, c, rn, sn, dn)
  PROVE  Flow(d, Tail(q), c, rn, sn, dn)
<1> DEFINE t == Tail(q)
<1>1. /\ \A j \in 1 .. Len(t) : j + 1 \in 1 .. Len(q) /\ t[j] = q[j + 1] /\ j + 1 # 1 /\ 1 < j + 1
      /\ 1 \in 1 .. Len(q) /\ \A i, j \in 1 .. Len(t) : i < j => i + 1 < j + 1
      /\ \A j \in 1 .. Len(q) : q[j] \in TaskSet
  OBVIOUS
<1> HIDE DEF t
<1>2. \A j \in 1 .. Len(t) : t[j].do = "save" =>
        rn[t[j].run].phase = "started" /\ Behind(t[j].n, t[j].run, rn, sn, dn)
  BY <1>1 DEF Flow
<1>3. ASSUME NEW i \in 1 .. Len(t), NEW j \in 1 .. Len(t), i < j,
             t[i].do = "save", t[j].do = "save", t[i].run = t[j].run
      PROVE  t[i].n < t[j].n
  BY <1>1, <1>3 DEF Flow
<1>4. ASSUME NEW i \in 1 .. Len(d), NEW j \in 1 .. Len(t), t[j].do = "save", t[j].run = d[i].run
      PROVE  d[i].n < t[j].n
  BY <1>1, <1>4 DEF Flow
<1>5. Flow(d, t, c, rn, sn, dn)
  BY <1>2, <1>3, <1>4 DEF Flow
<1> QED BY <1>5 DEF t

\* A task is put into the queue.
LEMMA FlowEnqueues ==
  ASSUME NEW d \in Seq(Messages), NEW q \in Seq(TaskSet), NEW c, NEW rn, NEW sn, NEW dn,
         NEW t \in TaskSet, Flow(d, q, c, rn, sn, dn),
         t.do = "save" =>
           /\ rn[t.run].phase = "started" /\ Behind(t.n, t.run, rn, sn, dn)
           /\ \A i \in 1 .. Len(d) : d[i].run = t.run => d[i].n < t.n
           /\ \A j \in 1 .. Len(q) : q[j].do = "save" /\ q[j].run = t.run => q[j].n < t.n
  PROVE  Flow(d, q \o <<t>>, c, rn, sn, dn)
<1> DEFINE e == Append(q, t)
<1>0. q \o <<t>> = e
  OBVIOUS
<1>1. /\ Len(q) \in Nat /\ Len(e) = Len(q) + 1
      /\ \A j \in 1 .. Len(e) : (j \in 1 .. Len(q) /\ e[j] = q[j]) \/ (j = Len(q) + 1 /\ e[j] = t)
  BY OneMore
<1> HIDE DEF e
<1>2. ASSUME NEW j \in 1 .. Len(e), e[j].do = "save"
      PROVE  rn[e[j].run].phase = "started" /\ Behind(e[j].n, e[j].run, rn, sn, dn)
  BY <1>1, <1>2 DEF Flow
<1>3. ASSUME NEW i \in 1 .. Len(e), NEW j \in 1 .. Len(e), i < j, e[i].do = "save", e[j].do = "save",
             e[i].run = e[j].run
      PROVE  e[i].n < e[j].n
  <2>1. i \in 1 .. Len(q) /\ e[i] = q[i]
    BY <1>1, <1>3
  <2>2. CASE j \in 1 .. Len(q) /\ e[j] = q[j]
    BY <1>3, <2>1, <2>2 DEF Flow
  <2>3. CASE e[j] = t
    BY <1>3, <2>1, <2>3
  <2> QED BY <1>1, <2>2, <2>3
<1>4. ASSUME NEW i \in 1 .. Len(d), NEW j \in 1 .. Len(e), e[j].do = "save", e[j].run = d[i].run
      PROVE  d[i].n < e[j].n \/ (j = 1 /\ d[i] = Message(c, e[j].run, e[j].n))
  <2>1. CASE j \in 1 .. Len(q) /\ e[j] = q[j]
    BY <1>4, <2>1 DEF Flow
  <2>2. CASE e[j] = t
    BY <1>4, <2>2
  <2> QED BY <1>1, <2>1, <2>2
<1>5. Flow(d, e, c, rn, sn, dn)
  BY <1>2, <1>3, <1>4 DEF Flow
<1> QED BY <1>0, <1>5 DEF e

Silent(es) == \A i \in 1 .. Len(es) : es[i].type # "message"

LEMMA EndsSilent ==
  \A how \in {"over", "stopped"} : Silent(<<Event(how, 0), Event("close", 0)>>)
<1> SUFFICES ASSUME NEW how \in {"over", "stopped"}
             PROVE  Silent(<<Event(how, 0), Event("close", 0)>>)
  OBVIOUS
<1> DEFINE es == <<Event(how, 0), Event("close", 0)>>
<1>1. Len(es) = 2 /\ es[1].type = how /\ es[2].type = "close"
  BY DEF Event
<1> HIDE DEF es
<1>2. \A i \in 1 .. Len(es) : i = 1 \/ i = 2
  BY <1>1
<1>3. Silent(es)
  BY <1>1, <1>2 DEF Silent
<1> QED BY <1>3 DEF es

\* What a step does to what the server says of run k.
LEMMA DownMoves ==
  ASSUME Typed, [Next]_vars, NEW k \in Runs
  PROVE  \/ down'[k] = down[k] /\ sent'[k] = sent[k]
         \/ down[k] # <<>> /\ down'[k] = Tail(down[k]) /\ sent'[k] = sent[k]
         \/ Silent(down'[k]) /\ sent'[k] = sent[k]
         \/ \E es \in Seq(EventSet) :
              Silent(es) /\ down'[k] = down[k] \o es /\ sent'[k] = sent[k]
         \/ /\ server[k] = "running" /\ sent'[k] = sent[k] + 1 /\ sent'[k] \in Nat
            /\ down'[k] = Append(down[k], Event("message", sent'[k]))
<1> DEFINE Goal == \/ down'[k] = down[k] /\ sent'[k] = sent[k]
                   \/ down[k] # <<>> /\ down'[k] = Tail(down[k]) /\ sent'[k] = sent[k]
                   \/ Silent(down'[k]) /\ sent'[k] = sent[k]
                   \/ \E es \in Seq(EventSet) :
                        Silent(es) /\ down'[k] = down[k] \o es /\ sent'[k] = sent[k]
                   \/ /\ server[k] = "running" /\ sent'[k] = sent[k] + 1 /\ sent'[k] \in Nat
                      /\ down'[k] = Append(down[k], Event("message", sent'[k]))
<1> SUFFICES Goal
  OBVIOUS
<1>1. ASSUME NEW how \in {"over", "stopped"}, Emits(k, <<Event(how, 0), Event("close", 0)>>),
             sent'[k] = sent[k]
      PROVE  Goal
  <2> DEFINE es == <<Event(how, 0), Event("close", 0)>>
  <2>1. es \in Seq(EventSet) /\ Silent(es)
    BY EventsTyped, EndsSilent
  <2>2. down'[k] = down[k] \o es
    BY <1>1 DEF Emits, Typed
  <2> HIDE DEF es
  <2> QED BY <1>1, <2>1, <2>2
<1>2. ASSUME NEW j \in Runs, Server(j) PROVE Goal
  <2>1. CASE j # k
    <3>1. down'[k] = down[k] /\ sent'[k] = sent[k]
      BY <1>2, <2>1, SMTT(30) DEF Server, ServerWorks, StageFails, ServerReads, Breaks, Emits, Typed
    <3> QED BY <3>1
  <2>2. CASE j = k /\ ServerWorks(k)
    <3>1. CASE /\ sent[k] < MaxMessages[k] /\ sent' = [sent EXCEPT ![k] = @ + 1]
               /\ Emits(k, <<Event("message", sent'[k])>>)
      <4>1. sent[k] \in Nat /\ sent'[k] = sent[k] + 1
        BY <3>1 DEF Typed
      <4>2. sent'[k] \in Nat
        BY <3>1, <4>1, BoundsTyped
      <4>3. down[k] \in Seq(EventSet) /\ down'[k] = down[k] \o <<Event("message", sent'[k])>>
        BY <3>1 DEF Emits, Typed
      <4>4. down'[k] = Append(down[k], Event("message", sent'[k]))
        BY <4>3
      <4> QED BY <2>2, <4>1, <4>2, <4>4 DEF ServerWorks
    <3>2. CASE Emits(k, <<Event("compressing", 0)>>) /\ UNCHANGED sent
      <4> DEFINE es == <<Event("compressing", 0)>>
      <4>1. es \in Seq(EventSet) /\ Len(es) = 1 /\ es[1].type = "compressing"
        BY EventsTyped DEF Event
      <4>2. down'[k] = down[k] \o es
        BY <3>2 DEF Emits, Typed
      <4> HIDE DEF es
      <4>3. Silent(es)
        <5>1. \A i \in 1 .. Len(es) : i = 1
          BY <4>1
        <5> QED BY <4>1, <5>1 DEF Silent
      <4> QED BY <3>2, <4>1, <4>2, <4>3
    <3>3. CASE Emits(k, <<Event("over", 0), Event("close", 0)>>) /\ UNCHANGED sent
      BY <1>1, <3>3
    <3> QED BY <2>2, <3>1, <3>2, <3>3 DEF ServerWorks
  <2>3. CASE j = k /\ ServerReads(k)
    <3>1. sent' = sent /\ \/ down' = down
                          \/ \E how \in {"over", "stopped"} : Emits(k, <<Event(how, 0), Event("close", 0)>>)
      BY <2>3 DEF ServerReads
    <3> QED BY <1>1, <3>1
  <2>4. CASE j = k /\ Breaks(k)
    <3>1. sent' = sent /\ down'[k] = <<Event("over", 0), Event("close", 0)>>
      BY <2>4 DEF Breaks, Typed
    <3> QED BY <3>1, EndsSilent
  <2>5. CASE j = k /\ StageFails(k)
    <3> DEFINE es == <<Event("stage", 0)>>
    <3>1. es \in Seq(EventSet) /\ Len(es) = 1 /\ es[1].type = "stage"
      BY EventsTyped DEF Event
    <3>2. down'[k] = down[k] \o es /\ sent'[k] = sent[k]
      BY <2>5 DEF StageFails, Emits, Typed
    <3> HIDE DEF es
    <3>3. Silent(es)
      <4>1. \A i \in 1 .. Len(es) : i = 1
        BY <3>1
      <4> QED BY <3>1, <4>1 DEF Silent
    <3> QED BY <3>1, <3>2, <3>3
  <2> QED BY <1>2, <2>1, <2>2, <2>3, <2>4, <2>5 DEF Server
<1>3. ASSUME NEW j \in Runs, Receives(j) PROVE Goal
  <2>1. /\ sent' = sent /\ down[j] # <<>> /\ down' = [down EXCEPT ![j] = Tail(@)]
    BY <1>3 DEF Receives
  <2>2. down'[k] = down[k] \/ (down[k] # <<>> /\ down'[k] = Tail(down[k]))
    BY <2>1 DEF Typed
  <2> QED BY <2>1, <2>2
<1>4. ASSUME NEW j \in Runs, ConnectFails(j) PROVE Goal
  <2>1. /\ sent' = sent
        /\ down' = [down EXCEPT ![j] = <<Event("over", 0), Event("close", 0)>>]
    BY <1>4 DEF ConnectFails
  <2>2. down'[k] = down[k] \/ down'[k] = <<Event("over", 0), Event("close", 0)>>
    BY <2>1 DEF Typed
  <2> QED BY <2>1, <2>2, EndsSilent
<1>5. ASSUME NEW j \in Runs,
             \/ Created(j) \/ Posted(j) \/ PostFails(j) \/ RagAnswers(j) \/ Opens(j)
             \/ TaskSucceeds(j) \/ TaskFails(j)
      PROVE  down' = down /\ sent' = sent
  BY <1>5 DEF Created, Posted, PostFails, RagAnswers, Opens, TaskSucceeds, TaskFails, backend
<1>6. CASE User
  BY <1>6 DEF User, Starts, AbortAgent, StartNewChat, SelectConversation, backend
<1>7. CASE UNCHANGED vars \/ \E c \in Convs : Shows(c)
  BY <1>7 DEF vars, Shows, backend
<1> QED BY <1>2, <1>3, <1>4, <1>5, <1>6, <1>7 DEF Next, Client

\* Every message on its way was so before, or is the next in number.
LEMMA SaysMore ==
  ASSUME Typed, [Next]_vars, NEW k \in Runs
  PROVE  /\ sent[k] <= sent'[k]
         /\ \A j \in 1 .. Len(down'[k]) : down'[k][j].type = "message" =>
              \/ down'[k][j].n > sent[k]
              \/ \E i \in 1 .. Len(down[k]) : down'[k][j] = down[k][i]
<1>1. sent[k] \in Nat /\ down[k] \in Seq(EventSet)
  BY BoundsTyped DEF Typed
<1>2. CASE down'[k] = down[k] /\ sent'[k] = sent[k]
  BY <1>1, <1>2
<1>3. CASE down[k] # <<>> /\ down'[k] = Tail(down[k]) /\ sent'[k] = sent[k]
  BY <1>1, <1>3, TailRange
<1>4. CASE Silent(down'[k]) /\ sent'[k] = sent[k]
  BY <1>1, <1>4 DEF Silent
<1>5. ASSUME NEW es \in Seq(EventSet), Silent(es), down'[k] = down[k] \o es, sent'[k] = sent[k]
      PROVE  /\ sent[k] <= sent'[k]
             /\ \A j \in 1 .. Len(down'[k]) : down'[k][j].type = "message" =>
                  \E i \in 1 .. Len(down[k]) : down'[k][j] = down[k][i]
  <2>1. \A j \in 1 .. Len(down'[k]) : \/ j \in 1 .. Len(down[k]) /\ down'[k][j] = down[k][j]
                                      \/ \E i \in 1 .. Len(es) : down'[k][j] = es[i]
    BY <1>1, <1>5, SMTT(30)
  <2> QED BY <1>1, <1>5, <2>1 DEF Silent
<1>6. CASE /\ sent'[k] = sent[k] + 1 /\ sent'[k] \in Nat
           /\ down'[k] = Append(down[k], Event("message", sent'[k]))
  <2>1. Event("message", sent'[k]) \in EventSet /\ Event("message", sent'[k]).n = sent[k] + 1
    BY <1>6 DEF Event, EventSet, EventTypes
  <2>2. \A j \in 1 .. Len(down'[k]) : \/ j \in 1 .. Len(down[k]) /\ down'[k][j] = down[k][j]
                                      \/ down'[k][j] = Event("message", sent'[k])
    BY <1>1, <1>6, <2>1, OneMore
  <2>3. sent[k] <= sent'[k] /\ sent[k] + 1 > sent[k]
    BY <1>1, <1>6
  <2> QED BY <2>1, <2>2, <2>3
<1> QED BY <1>2, <1>3, <1>4, <1>5, <1>6, DownMoves

LEMMA SendsStep ==
  ASSUME Typed, [Next]_vars, NEW k \in Runs, Sends(k)
  PROVE  Sends(k)'
<1>1. sent[k] \in Nat /\ down[k] \in Seq(EventSet)
  BY BoundsTyped DEF Typed
<1>2. CASE down'[k] = down[k] /\ sent'[k] = sent[k]
  BY <1>2 DEF Sends
<1>3. CASE down[k] # <<>> /\ down'[k] = Tail(down[k]) /\ sent'[k] = sent[k]
  <2>1. /\ \A i \in 1 .. Len(down'[k]) : i + 1 \in 1 .. Len(down[k]) /\ down'[k][i] = down[k][i + 1]
        /\ \A i, j \in 1 .. Len(down'[k]) : i < j => i + 1 < j + 1
    BY <1>1, <1>3
  <2> QED BY <1>3, <2>1 DEF Sends
<1>4. CASE Silent(down'[k])
  BY <1>4 DEF Silent, Sends
<1>5. ASSUME NEW es \in Seq(EventSet), Silent(es), down'[k] = down[k] \o es, sent'[k] = sent[k]
      PROVE  Sends(k)'
  <2>1. \A j \in 1 .. Len(down'[k]) : \/ j \in 1 .. Len(down[k]) /\ down'[k][j] = down[k][j]
                                      \/ \E i \in 1 .. Len(es) : down'[k][j] = es[i]
    BY <1>1, <1>5, SMTT(30)
  <2>2. \A j \in 1 .. Len(down'[k]) : down'[k][j].type = "message" =>
          j \in 1 .. Len(down[k]) /\ down'[k][j] = down[k][j]
    BY <1>5, <2>1 DEF Silent
  <2> QED BY <1>5, <2>2 DEF Sends
<1>6. CASE /\ sent'[k] = sent[k] + 1 /\ sent'[k] \in Nat
           /\ down'[k] = Append(down[k], Event("message", sent'[k]))
  <2> DEFINE e == Event("message", sent'[k])
  <2>1. e \in EventSet /\ e.n = sent[k] + 1
    BY <1>6 DEF Event, EventSet, EventTypes
  <2> HIDE DEF e
  <2>2. /\ down'[k] = Append(down[k], e) /\ Len(down[k]) \in Nat
        /\ \A j \in 1 .. Len(down'[k]) : \/ j \in 1 .. Len(down[k]) /\ down'[k][j] = down[k][j]
                                         \/ j = Len(down[k]) + 1 /\ down'[k][j] = e
    BY <1>1, <1>6, <2>1, OneMore DEF e
  <2>3. ASSUME NEW i \in 1 .. Len(down[k]), down[k][i].type = "message"
        PROVE  down[k][i].n <= sent[k] /\ down[k][i].n \in Nat
    <3>1. down[k][i] \in EventSet
      BY <1>1
    <3> QED BY <2>3, <3>1, BoundsTyped DEF Sends, EventSet
  <2>4. ASSUME NEW i \in 1 .. Len(down'[k]), down'[k][i].type = "message"
        PROVE  down'[k][i].n <= sent'[k]
    <3>1. CASE i \in 1 .. Len(down[k]) /\ down'[k][i] = down[k][i]
      BY <1>1, <1>6, <2>3, <2>4, <3>1
    <3>2. CASE down'[k][i] = e
      BY <1>1, <1>6, <2>1, <3>2
    <3> QED BY <2>2, <3>1, <3>2
  <2>5. ASSUME NEW i \in 1 .. Len(down'[k]), NEW j \in 1 .. Len(down'[k]), i < j,
               down'[k][i].type = "message", down'[k][j].type = "message"
        PROVE  down'[k][i].n < down'[k][j].n
    <3>1. i \in 1 .. Len(down[k]) /\ down'[k][i] = down[k][i]
      BY <2>2, <2>5
    <3>2. CASE j \in 1 .. Len(down[k]) /\ down'[k][j] = down[k][j]
      BY <2>5, <3>1, <3>2 DEF Sends
    <3>3. CASE down'[k][j] = e
      BY <1>1, <2>1, <2>3, <2>5, <3>1, <3>3
    <3> QED BY <2>2, <3>2, <3>3
  <2> QED BY <2>4, <2>5 DEF Sends
<1> QED BY <1>2, <1>3, <1>4, <1>5, <1>6, DownMoves

LEMMA PhaseMoves ==
  ASSUME Typed, [Next]_vars, NEW r \in Runs
  PROVE  /\ \/ run'[r].phase = run[r].phase
            \/ run[r].phase \in {"unused", "creating", "posting"}
            \/ run[r].phase = "asking" /\ run'[r].phase = "over"
         /\ run[r].phase = "started" => run'[r].saves = run[r].saves
<1> DEFINE Goal == /\ \/ run'[r].phase = run[r].phase
                      \/ run[r].phase \in {"unused", "creating", "posting"}
                      \/ run[r].phase = "asking" /\ run'[r].phase = "over"
                   /\ run[r].phase = "started" => run'[r].saves = run[r].saves
<1> SUFFICES Goal
  OBVIOUS
<1>1. CASE run'[r] = run[r]
  BY <1>1
<1>2. CASE User
  <2>1. run'[r] = run[r] \/ run[r].phase = "unused"
    BY <1>2 DEF User, Starts, AbortAgent, StartNewChat, SelectConversation, client, Typed
  <2> QED BY <1>1, <2>1
<1>3. ASSUME NEW j \in Runs, Created(j) \/ Posted(j) \/ PostFails(j) PROVE Goal
  <2>1. run'[r] = run[r] \/ run[r].phase \in {"creating", "posting"}
    BY <1>3 DEF Created, Posted, PostFails, Subscribes, Typed
  <2> QED BY <1>1, <2>1
<1>4. ASSUME NEW j \in Runs, RagAnswers(j) PROVE Goal
  <2>1. CASE j # r
    BY <1>1, <1>4, <2>1 DEF RagAnswers, Typed
  <2>2. CASE j = r
    <3>1. run[r] \in RunRecord /\ run[r].phase = "asking"
      BY <1>4, <2>2 DEF RagAnswers, Typed
    <3>2. run'[r].phase = "over"
      BY <1>4, <2>2, <3>1 DEF RagAnswers, Typed, RunRecord
    <3> QED BY <3>1, <3>2
  <2> QED BY <2>1, <2>2
<1>5. ASSUME NEW j \in Runs,
             \/ Opens(j) \/ ConnectFails(j) \/ Receives(j) \/ TaskSucceeds(j) \/ TaskFails(j)
             \/ Server(j)
      PROVE  run' = run
  BY <1>5 DEF Opens, ConnectFails, Receives, TaskSucceeds, TaskFails, Server, ServerWorks,
              StageFails, ServerReads, Breaks, client
<1>6. CASE UNCHANGED vars \/ \E c \in Convs : Shows(c)
  BY <1>6 DEF vars, client, Shows
<1> QED BY <1>1, <1>2, <1>3, <1>4, <1>5, <1>6 DEF Next, Client

\* What is stored and queued before a step is in order as the step leaves the runs.
LEMMA FlowsOn ==
  ASSUME Typed, Typed', [Next]_vars, NEW s \in Runs, Subscribed(s), InFlow(s)
  PROVE  Flow(db[s], queue[s], run'[s].saves, run', sent', down')
<1>1. /\ db[s] \in Seq(Messages) /\ queue[s] \in Seq(TaskSet) /\ down' \in [Runs -> Seq(EventSet)]
      /\ sent \in [Runs -> Nat] /\ sent' \in [Runs -> Nat]
  BY DEF Typed
<1>2. sent \in [Runs -> Nat] /\ sent' \in [Runs -> Nat]
  BY <1>1, BoundsTyped
<1>3. run'[s].saves = run[s].saves \/ queue[s] = <<>>
  BY PhaseMoves DEF Subscribed
<1>4. RunsMove(run, run')
  BY PhaseMoves DEF RunsMove
<1>5. RunsSay(sent, down, sent', down')
  BY SaysMore DEF RunsSay
<1>6. Flow(db[s], queue[s], run[s].saves, run, sent, down)
  BY DEF InFlow
<1> DEFINE d == db[s]
           q == queue[s]
           c == run[s].saves
           c2 == run'[s].saves
<1>7. d \in Seq(Messages) /\ q \in Seq(TaskSet) /\ (c2 = c \/ q = <<>>) /\ Flow(d, q, c, run, sent, down)
  BY <1>1, <1>3, <1>6
<1> HIDE DEF d, q, c, c2
<1>8. Flow(d, q, c2, run', sent', down')
  BY <1>1, <1>2, <1>4, <1>5, <1>7, FlowMoves
<1> QED BY <1>8 DEF d, q, c2

\* A message of a run is received: it is put behind all that the queue and the store have.
LEMMA ReceivedInOrder ==
  ASSUME Typed, Typed', [Next]_vars, NEW k \in Runs, NEW s \in Runs, Subscribed(s), InFlow(s),
         Connected(k), Sends(k), Receives(k), Head(down[k]).type = "message",
         queue'[s] = queue[s] \o <<Save(k, Head(down[k]).n)>>
  PROVE  InFlow(s)'
<1> DEFINE e == Head(down[k])
           t == Save(k, e.n)
<1>1. /\ db' = db /\ run' = run /\ sent' = sent /\ down[k] # <<>> /\ down' = [down EXCEPT ![k] = Tail(@)]
  BY DEF Receives
<1>2. /\ e.n \in Nat /\ e = down[k][1] /\ 1 \in 1 .. Len(down[k])
      /\ down[k] \in Seq(EventSet) /\ down'[k] = Tail(down[k])
  BY <1>1, EventHead DEF Typed
<1>3. t \in TaskSet /\ t.do = "save" /\ t.run = k /\ t.n = e.n
  BY <1>2 DEF Save, TaskSet
<1>4. run[k].phase = "started"
  BY <1>1, <1>2 DEF Connected
<1>5. Behind(e.n, k, run', sent', down')
  <2>1. e.n <= sent[k]
    BY <1>2 DEF Sends
  <2>2. ASSUME NEW j \in 1 .. Len(down'[k]), down'[k][j].type = "message" PROVE e.n < down'[k][j].n
    <3>1. j + 1 \in 1 .. Len(down[k]) /\ down'[k][j] = down[k][j + 1]
      BY <1>1, <1>2, TailRange
    <3>2. 1 < j + 1
      OBVIOUS
    <3> QED BY <1>2, <2>2, <3>1, <3>2 DEF Sends
  <2> QED BY <1>1, <2>1, <2>2 DEF Behind
<1>6. \A i \in 1 .. Len(db[s]) : db[s][i].run = k => db[s][i].n < e.n
  BY <1>2, <1>4 DEF InFlow, Flow, Behind
<1>7. \A j \in 1 .. Len(queue[s]) : queue[s][j].do = "save" /\ queue[s][j].run = k => queue[s][j].n < e.n
  BY <1>2, <1>4 DEF InFlow, Flow, Behind
<1>8. Flow(db[s], queue[s], run'[s].saves, run', sent', down')
  BY FlowsOn
<1>9. db[s] \in Seq(Messages) /\ queue[s] \in Seq(TaskSet)
  BY DEF Typed
<1> HIDE DEF t
<1>10. Flow(db[s], queue[s] \o <<t>>, run'[s].saves, run', sent', down')
  BY <1>1, <1>3, <1>4, <1>5, <1>6, <1>7, <1>8, <1>9, FlowEnqueues
<1> QED BY <1>1, <1>10 DEF InFlow, t

\* A task is done, or has failed and may have stored its message; it may leave the queue.
LEMMA TasksInOrder ==
  ASSUME Typed, Typed', [Next]_vars, NEW s \in Runs, Subscribed(s), InFlow(s),
         TaskSucceeds(s) \/ TaskFails(s)
  PROVE  InFlow(s)'
<1> DEFINE t == Head(queue[s])
           c == run[s].saves
           m == Message(c, t.run, t.n)
<1>1. /\ run' = run /\ sent' = sent /\ down' = down /\ queue[s] # <<>>
      /\ queue'[s] = queue[s] \/ queue'[s] = Tail(queue[s])
  BY DEF TaskSucceeds, TaskFails, client, backend, Dequeue, Typed
<1>2. \/ db' = db
      \/ t.do = "save" /\ c # NoConv /\ db' = Store(s, m)
  BY DEF TaskSucceeds, TaskFails, SavesIn
<1>3. /\ db[s] \in Seq(Messages) /\ queue[s] \in Seq(TaskSet) /\ t = queue[s][1]
      /\ 1 \in 1 .. Len(queue[s]) /\ \A j \in 1 .. Len(queue[s]) : j = 1 \/ 1 < j
  <2>1. queue[s] \in Seq(TaskSet) /\ db[s] \in Seq(Messages)
    BY DEF Typed
  <2>2. t = queue[s][1] /\ 1 \in 1 .. Len(queue[s])
    BY <1>1, HeadTyped
  <2>3. \A j \in 1 .. Len(queue[s]) : j = 1 \/ 1 < j
    BY <2>1
  <2> QED BY <2>1, <2>2, <2>3
<1>4. Flow(db[s], queue[s], c, run, sent, down)
  BY DEF InFlow
<1>5. Flow(db'[s], queue[s], c, run, sent, down) /\ db'[s] \in Seq(Messages)
  <2>1. CASE db'[s] = db[s]
    BY <1>3, <1>4, <2>1
  <2>2. CASE t.do = "save" /\ c # NoConv /\ ~Stored(m) /\ db' = Store(s, m)
    <3>1. m \in Messages /\ m.run = t.run /\ m.n = t.n
      BY <1>1, <2>2, TaskStores DEF SavesIn, Message
    <3>2. Known(m, run) /\ Behind(m.n, m.run, run, sent, down)
      <4>1. run[t.run].phase = "started" /\ Behind(t.n, t.run, run, sent, down)
        BY <1>3, <1>4, <2>2 DEF Flow
      <4> HIDE DEF t, m
      <4> QED BY <3>1, <4>1 DEF Known
    <3>3. \A i \in 1 .. Len(db[s]) : db[s][i] # m
      BY <1>3, <2>2 DEF Stored
    <3>4. \A i \in 1 .. Len(db[s]) : db[s][i].run = m.run => db[s][i].n < m.n
      BY <1>3, <1>4, <2>2, <3>1, <3>3 DEF Flow
    <3>5. \A j \in 1 .. Len(queue[s]) : queue[s][j].do = "save" /\ queue[s][j].run = m.run =>
            m.n < queue[s][j].n \/ (j = 1 /\ m = Message(c, queue[s][j].run, queue[s][j].n))
      BY <1>3, <1>4, <2>2, <3>1 DEF Flow
    <3>6. db'[s] = Append(db[s], m)
      BY <2>2 DEF Store, Typed
    <3> HIDE DEF m, c
    <3>7. Flow(Append(db[s], m), queue[s], c, run, sent, down)
      BY <1>3, <1>4, <3>1, <3>2, <3>4, <3>5, FlowStores
    <3>8. db'[s] \in Seq(Messages)
      BY DEF Typed
    <3> QED BY <3>6, <3>7, <3>8
  <2> QED BY <1>2, <2>1, <2>2 DEF Store
<1>6. Flow(db'[s], queue'[s], c, run, sent, down)
  BY <1>1, <1>3, <1>5, FlowDequeues
<1> QED BY <1>1, <1>6 DEF InFlow

LEMMA FlowStep ==
  ASSUME Typed, Typed', [Next]_vars, NEW s \in Runs,
         \A k \in Runs : Follows(k) /\ Connected(k) /\ Subscribed(k) /\ Sends(k) /\ InFlow(k)
  PROVE  InFlow(s)'
<1>1. /\ Flow(db[s], queue[s], run'[s].saves, run', sent', down')
      /\ db[s] \in Seq(Messages) /\ queue[s] \in Seq(TaskSet)
  BY FlowsOn DEF Typed
<1>2. CASE db'[s] = db[s] /\ queue'[s] = queue[s]
  BY <1>1, <1>2 DEF InFlow
<1>3. ASSUME NEW k \in Runs, TaskSucceeds(k) \/ TaskFails(k) PROVE InFlow(s)'
  <2>1. CASE k = s
    BY <1>3, <2>1, TasksInOrder
  <2>2. CASE k # s
    <3>1. db'[s] = db[s] /\ queue'[s] = queue[s]
      BY <1>3, <2>2 DEF TaskSucceeds, TaskFails, Store, Dequeue, Typed
    <3> QED BY <1>2, <3>1
  <2> QED BY <2>1, <2>2
<1>4. ASSUME NEW k \in Runs, Receives(k) PROVE InFlow(s)'
  <2> DEFINE e == Head(down[k])
  <2>1. e.type \in EventTypes /\ e.n \in Nat /\ db' = db
    BY <1>4, EventHead DEF Receives
  <2>2. \/ queue' = queue
        \/ e.type = "message" /\ queue' = Enqueue(<<Save(k, e.n)>>)
        \/ \E do \in {"compress", "finish"} : queue' = Enqueue(<<Task(do)>>)
    BY <1>4, <2>1 DEF Receives, Finishes, EventTypes
  <2>3. CASE queue'[s] = queue[s]
    BY <1>2, <2>1, <2>3
  <2>4. CASE e.type = "message" /\ queue' = Enqueue(<<Save(k, e.n)>>)
    <3>1. queue'[s] = queue[s] \/ queue'[s] = queue[s] \o <<Save(k, e.n)>>
      BY <2>4 DEF Enqueue, Typed
    <3> QED BY <1>4, <2>3, <2>4, <3>1, ReceivedInOrder
  <2>5. ASSUME NEW do \in {"compress", "finish"}, queue' = Enqueue(<<Task(do)>>)
        PROVE  InFlow(s)'
    <3> DEFINE t == Task(do)
    <3>1. queue'[s] = queue[s] \/ queue'[s] = queue[s] \o <<t>>
      BY <2>5 DEF Enqueue, Typed
    <3>2. t \in TaskSet /\ t.do # "save"
      BY DEF Task, TaskSet, NoRun
    <3> HIDE DEF t
    <3>3. Flow(db[s], queue[s] \o <<t>>, run'[s].saves, run', sent', down')
      BY <1>1, <3>2, FlowEnqueues
    <3> QED BY <2>1, <2>3, <3>1, <3>3 DEF InFlow
  <2> QED BY <2>2, <2>3, <2>4, <2>5
<1>5. ASSUME NEW k \in Runs, Posted(k) \/ RagAnswers(k) PROVE InFlow(s)'
  <2>1. queue' = queue /\ down' = down /\ sent' = sent
    BY <1>5 DEF Posted, RagAnswers, tasks, backend
  <2>2. CASE db'[s] = db[s]
    BY <1>2, <2>1, <2>2
  <2>3. CASE db'[s] # db[s]
    <3>1. k = s /\ run[k].phase \in {"posting", "asking"}
      BY <1>5, <2>3, ZenonT(60) DEF Posted, RagAnswers, Store, Typed
    <3>2. queue[s] = <<>> /\ 1 .. Len(queue[s]) = {}
      BY <3>1 DEF Subscribed
    <3>3. \E m \in Messages :
            /\ db'[s] = Append(db[s], m) /\ m.run = s
            /\ \/ Posted(s) /\ m = Message(run[s].conv, s, 0)
               \/ RagAnswers(s) /\ m = Message(here, s, 1)
      <4>1. 0 \in Nat /\ 1 \in Nat
        BY BoundsTyped
      <4>2. CASE Posted(s)
        <5> DEFINE m == Message(run[s].conv, s, 0)
        <5>1. run[s].phase = "posting" /\ Follows(s) /\ Within(run[s], created) /\ db' = Store(s, m)
          BY <4>2 DEF Posted, Typed
        <5>2. run[s].conv \in 0 .. created /\ run[s].conv # NoConv
          BY <5>1 DEF Follows, Within
        <5>3. m \in Messages /\ m.run = s
          BY <4>1, <5>2, MessageTyped DEF Message
        <5>4. db'[s] = Append(db[s], m)
          BY <2>3, <5>1 DEF Store, Typed
        <5> QED BY <4>2, <5>3, <5>4
      <4>3. CASE RagAnswers(s)
        <5> DEFINE m == Message(here, s, 1)
        <5>1. here # NoConv /\ here \in 0 .. created /\ db' = Store(s, m)
          BY <2>3, <4>3 DEF RagAnswers, Typed
        <5>2. m \in Messages /\ m.run = s
          BY <4>1, <5>1, MessageTyped DEF Message
        <5>3. db'[s] = Append(db[s], m)
          BY <2>3, <5>1 DEF Store, Typed
        <5> QED BY <4>3, <5>2, <5>3
      <4> QED BY <1>5, <3>1, <4>2, <4>3
    <3>4. PICK m \in Messages :
            /\ db'[s] = Append(db[s], m) /\ m.run = s
            /\ \/ Posted(s) /\ m = Message(run[s].conv, s, 0)
               \/ RagAnswers(s) /\ m = Message(here, s, 1)
      BY <3>3
    <3>5. socket[s] = "none" /\ down[s] = <<>>
      BY <3>1 DEF Connected
    <3>6. /\ Known(m, run') /\ Behind(m.n, m.run, run', sent', down')
          /\ \A i \in 1 .. Len(db[s]) : db[s][i].run = m.run => db[s][i].n < m.n
      <4>1. CASE Posted(s) /\ m = Message(run[s].conv, s, 0)
        <5>1. run[s].phase = "posting" /\ run[s] \in RunRecord
          BY <4>1 DEF Posted, Typed
        <5>2. run'[s].phase \in {"asking", "started"}
          BY <4>1, <5>1 DEF Posted, Subscribes, Typed, RunRecord
        <5>3. m.n = 0 /\ 0 <= sent'[s] /\ 1 .. Len(down'[s]) = {}
          BY <2>1, <3>5, <4>1, BoundsTyped DEF Message, Typed
        <5>4. \A i \in 1 .. Len(db[s]) : db[s][i].run # s
          BY <5>1 DEF InFlow, Flow, Known
        <5> QED BY <3>4, <5>2, <5>3, <5>4 DEF Known, Behind
      <4>2. CASE RagAnswers(s) /\ m = Message(here, s, 1)
        <5>1. run[s].phase = "asking" /\ run[s] \in RunRecord
          BY <4>2 DEF RagAnswers, Typed
        <5>2. run'[s].phase = "over"
          BY <4>2, <5>1 DEF RagAnswers, Typed, RunRecord
        <5>3. m.n = 1
          BY <4>2 DEF Message
        <5>4. \A i \in 1 .. Len(db[s]) : db[s][i].run = s => db[s][i].n = 0
          BY <5>1 DEF InFlow, Flow, Known
        <5> QED BY <3>4, <5>2, <5>3, <5>4 DEF Known, Behind
      <4> QED BY <3>4, <4>1, <4>2
    <3>7. Flow(Append(db[s], m), queue[s], run'[s].saves, run', sent', down')
      BY <1>1, <3>2, <3>4, <3>6, FlowStores
    <3> QED BY <2>1, <3>4, <3>7 DEF InFlow
  <2> QED BY <2>2, <2>3
<1>6. CASE User
  BY <1>2, <1>6 DEF User, Starts, AbortAgent, StartNewChat, SelectConversation, tasks
<1>7. ASSUME NEW k \in Runs,
             Created(k) \/ PostFails(k) \/ Opens(k) \/ ConnectFails(k) \/ Server(k)
      PROVE  InFlow(s)'
  BY <1>2, <1>7 DEF Created, PostFails, Opens, ConnectFails, Server, ServerWorks, StageFails, ServerReads,
                    Breaks, tasks
<1>8. CASE UNCHANGED vars \/ \E c \in Convs : Shows(c)
  BY <1>2, <1>8 DEF vars, Shows, tasks
<1> QED BY <1>3, <1>4, <1>5, <1>6, <1>7, <1>8 DEF Next, Client

-----------------------------------------------------------------------------
(* The theorems *)

LEMMA InitAnswers == Init => AnswersInv
<1> SUFFICES ASSUME Init PROVE AnswersInv
  OBVIOUS
<1>1. Typed
  BY InitTyped
<1>2. ASSUME NEW k \in Runs PROVE Follows(k) /\ Connected(k) /\ Subscribed(k)
  <2>1. /\ run[k].phase = "unused" /\ run[k].conv = NoConv /\ socket[k] = "none"
        /\ server[k] = "off" /\ down[k] = <<>> /\ queue[k] = <<>> /\ cur = NoRun /\ cur # k
    BY DEF Init, Runs, NoRun
  <2>2. 1 .. Len(down[k]) = {} /\ 1 .. Len(queue[k]) = {}
    BY <2>1
  <2> QED BY <2>1, <2>2 DEF Follows, Connected, Subscribed
<1>3. AnswersStay
  BY DEF Init, AnswersStay
<1> QED BY <1>1, <1>2, <1>3 DEF AnswersInv

LEMMA AnswersAlways == Spec => []AnswersInv
<1>1. AnswersInv /\ [Next]_vars => AnswersInv'
  <2> SUFFICES ASSUME AnswersInv, [Next]_vars PROVE AnswersInv'
    OBVIOUS
  <2>1. /\ Typed /\ AnswersStay /\ \A k \in Runs : Follows(k) /\ Subscribed(k)
        /\ \A k \in Runs : Follows(k)
        /\ \A k \in Runs : Connected(k)
        /\ \A k \in Runs : Subscribed(k)
    BY DEF AnswersInv
  <2>2. Typed' /\ \A k \in Runs : Follows(k)'
    BY <2>1, StepTyped, FollowsStep
  <2>3. \A k \in Runs : Connected(k)'
    BY <2>1, ConnectedStep
  <2>4. \A k \in Runs : Subscribed(k)'
    BY <2>1, SubscribedStep
  <2>5. AnswersStay'
    BY <2>1, <2>2, AnswersStep
  <2> QED BY <2>2, <2>3, <2>4, <2>5 DEF AnswersInv
<1> QED BY <1>1, InitAnswers, PTL DEF Spec

LEMMA OrderAlways == Spec => [](\A k \in Runs : Sends(k) /\ InFlow(k))
<1> DEFINE OrderInv == \A k \in Runs : Sends(k) /\ InFlow(k)
<1>1. Init => OrderInv
  <2> SUFFICES ASSUME Init, NEW k \in Runs PROVE Sends(k) /\ InFlow(k)
    OBVIOUS
  <2>1. down[k] = <<>> /\ db[k] = <<>> /\ queue[k] = <<>>
    BY DEF Init
  <2>2. 1 .. Len(down[k]) = {} /\ 1 .. Len(db[k]) = {} /\ 1 .. Len(queue[k]) = {}
    BY <2>1
  <2> QED BY <2>2 DEF Sends, InFlow, Flow
<1>2. AnswersInv /\ AnswersInv' /\ OrderInv /\ [Next]_vars => OrderInv'
  <2> SUFFICES ASSUME AnswersInv, AnswersInv', OrderInv, [Next]_vars, NEW k \in Runs
               PROVE  Sends(k)' /\ InFlow(k)'
    OBVIOUS
  <2>1. /\ Typed /\ Typed'
        /\ \A j \in Runs : Follows(j) /\ Connected(j) /\ Subscribed(j) /\ Sends(j) /\ InFlow(j)
    BY DEF AnswersInv
  <2> QED BY <2>1, SendsStep, FlowStep
<1> QED BY <1>1, <1>2, AnswersAlways, PTL DEF Spec

-----------------------------------------------------------------------------
(* What a suspended run waits for *)

\* The messages of run k that are stored, wherever that is.
Written(k) == {n \in Nat : \E s \in Runs : \E i \in 1 .. Len(db[s]) : db[s][i].run = k /\ db[s][i].n = n}

\* Message n of run k is saved by a task before the i-th; it is on its way to the client.
SavedBefore(k, n, q, i) == \E j \in 1 .. Len(q) : j < i /\ q[j].do = "save" /\ q[j].run = k /\ q[j].n = n
ToCome(n, dn) == \E j \in 1 .. Len(dn) : dn[j].type = "message" /\ dn[j].n = n

\* Nobody has been asked to compress, and nobody will say that it is done.
Unasked(q, dn) ==
  /\ \A i \in 1 .. Len(dn) : dn[i].type # "compressing"
  /\ \A i \in 1 .. Len(q) : q[i].do # "compress"

\* A run with m messages, those in st stored, queue q, and dn on its way: until the
\* subscription is lost (on is FALSE) every message is stored, will be saved, or is to
\* come; and what a suspended run waits for is behind all of them, and there only once.
Paced(k, m, st, on, srv, sg, q, dn) ==
  /\ on => \A n \in 1 .. m : n \in st \/ SavedBefore(k, n, q, Len(q) + 1) \/ ToCome(n, dn)
  /\ srv # "suspended" => Unasked(q, dn) /\ "compression_done" \notin sg
  /\ "compression_done" \in sg => Unasked(q, dn) /\ 1 .. m \subseteq st
  /\ \A i \in 1 .. Len(q) : q[i].do = "compress" =>
       /\ \A j \in 1 .. Len(dn) : dn[j].type # "compressing"
       /\ \A j \in 1 .. Len(q) : q[j].do = "compress" => j = i
       /\ \A n \in 1 .. m : n \in st \/ SavedBefore(k, n, q, i)
  /\ \A i \in 1 .. Len(dn) : dn[i].type = "compressing" => i = Len(dn)

\* No save of the run was given up, and no run overtook another.
Tracked(k) == "gaveup" \notin lapses[k] /\ \A j \in Runs : "overtaken" \notin lapses[j]

Resumes(k) ==
  /\ server[k] = "off" => sent[k] = 0
  /\ queue[k] # <<>> /\ cur # k => "overtaken" \in lapses[k]
  /\ Tracked(k) /\ server[k] # "ended" =>
       Paced(k, sent[k], Written(k), sub = k, server[k], signals[k], queue[k], down[k])

\* More is stored, other signals are sent, or the subscription is lost.
LEMMA PacedMore ==
  ASSUME NEW k, NEW m, NEW st, NEW st2, NEW on, NEW on2, NEW srv, NEW sg, NEW sg2, NEW q, NEW dn,
         Paced(k, m, st, on, srv, sg, q, dn), st \subseteq st2, on2 => on \/ m = 0,
         "compression_done" \in sg2 => "compression_done" \in sg
  PROVE  Paced(k, m, st2, on2, srv, sg2, q, dn)
<1>1. m = 0 => 1 .. m = {}
  OBVIOUS
<1> QED BY <1>1 DEF Paced

\* The list with one more at its end, and without its first.
LEMMA Lists ==
  ASSUME NEW S, NEW q \in Seq(S)
  PROVE  /\ Len(q) \in Nat
         /\ \A t \in S : /\ q \o <<t>> \in Seq(S) /\ Len(q \o <<t>>) = Len(q) + 1
                         /\ (q \o <<t>>)[Len(q) + 1] = t
                         /\ \A i \in 1 .. Len(q) : (q \o <<t>>)[i] = q[i]
         /\ q # <<>> => /\ Tail(q) \in Seq(S) /\ Len(Tail(q)) = Len(q) - 1 /\ Len(q) > 0
                        /\ Head(q) = q[1]
                        /\ \A i \in 1 .. Len(q) - 1 : Tail(q)[i] = q[i + 1]
OBVIOUS

\* A list that has lost its first element is another one.
LEMMA TailDiffers ==
  ASSUME NEW S, NEW q \in Seq(S), q # <<>>
  PROVE  Tail(q) # q
<1>1. Len(Tail(q)) = Len(q) - 1 /\ Len(q) \in Nat
  BY Lists
<1> SUFFICES ASSUME Tail(q) = q PROVE FALSE
  OBVIOUS
<1>2. \A a \in Nat : a # a - 1
  OBVIOUS
<1>3. Len(q) = Len(q) - 1 /\ Len(q) \in Nat
  BY <1>1
<1> QED BY <1>2, <1>3

\* A task that is not a compression joins the queue.
LEMMA PacedEnqueues ==
  ASSUME NEW k, NEW m \in Nat, NEW st, NEW on, NEW srv, NEW sg, NEW q \in Seq(TaskSet), NEW dn,
         NEW t \in TaskSet, t.do # "compress",
         Paced(k, m, st, on, srv, sg, q, dn)
  PROVE  Paced(k, m, st, on, srv, sg, q \o <<t>>, dn)
<1> DEFINE e == q \o <<t>>
<1>1. /\ Len(q) \in Nat /\ Len(e) = Len(q) + 1 /\ e[Len(q) + 1] = t
      /\ \A i \in 1 .. Len(q) : e[i] = q[i]
  BY Lists
<1> HIDE DEF e
<1>2. \A i \in 1 .. Len(e) : i \in 1 .. Len(q) \/ (i = Len(q) + 1 /\ e[i] = t)
  BY <1>1
<1>3. \A i \in 1 .. Len(q) : i \in 1 .. Len(e)
  BY <1>1
<1>4. \A i \in 1 .. Len(e) : e[i].do = "compress" => i \in 1 .. Len(q) /\ q[i].do = "compress"
  BY <1>1, <1>2
<1>5. Unasked(q, dn) => Unasked(e, dn)
  BY <1>4 DEF Unasked
<1>6. \A n, i : SavedBefore(k, n, q, i) => SavedBefore(k, n, e, i)
  BY <1>1, <1>3 DEF SavedBefore
<1>7. \A n : SavedBefore(k, n, q, Len(q) + 1) => SavedBefore(k, n, e, Len(e) + 1)
  <2> SUFFICES ASSUME NEW n, NEW j \in 1 .. Len(q), q[j].do = "save", q[j].run = k, q[j].n = n
               PROVE  SavedBefore(k, n, e, Len(e) + 1)
    BY DEF SavedBefore
  <2>1. j \in 1 .. Len(e) /\ j < Len(e) + 1 /\ e[j] = q[j]
    BY <1>1
  <2> QED BY <2>1 DEF SavedBefore
<1>8. \A i \in 1 .. Len(e) : e[i].do = "compress" =>
        /\ \A j \in 1 .. Len(dn) : dn[j].type # "compressing"
        /\ \A j \in 1 .. Len(e) : e[j].do = "compress" => j = i
        /\ \A n \in 1 .. m : n \in st \/ SavedBefore(k, n, e, i)
  BY <1>4, <1>6 DEF Paced
<1>9. on => \A n \in 1 .. m : n \in st \/ SavedBefore(k, n, e, Len(e) + 1) \/ ToCome(n, dn)
  BY <1>7 DEF Paced
<1>10. Paced(k, m, st, on, srv, sg, e, dn)
  BY <1>5, <1>8, <1>9 DEF Paced
<1> QED BY <1>10 DEF e

\* The client has handled an event that asks for nothing; what it said is saved or stored.
LEMMA PacedHandles ==
  ASSUME NEW k, NEW m \in Nat, NEW st, NEW on, NEW srv, NEW sg, NEW q \in Seq(TaskSet),
         NEW dn \in Seq(EventSet), dn # <<>>,
         on /\ Head(dn).type = "message" => SavedBefore(k, Head(dn).n, q, Len(q) + 1),
         Paced(k, m, st, on, srv, sg, q, dn)
  PROVE  Paced(k, m, st, on, srv, sg, q, Tail(dn))
<1> DEFINE e == Tail(dn)
<1>1. /\ Len(dn) \in Nat /\ Len(dn) > 0 /\ Len(e) = Len(dn) - 1 /\ Head(dn) = dn[1]
      /\ \A i \in 1 .. Len(dn) - 1 : e[i] = dn[i + 1]
  BY Lists
<1> HIDE DEF e
<1>2. \A i \in 1 .. Len(e) : i + 1 \in 1 .. Len(dn) /\ e[i] = dn[i + 1]
  BY <1>1
<1>3. Unasked(q, dn) => Unasked(q, e)
  BY <1>2 DEF Unasked
<1>4. ASSUME NEW n, ToCome(n, dn) PROVE ToCome(n, e) \/ (dn[1].type = "message" /\ dn[1].n = n)
  <2>1. PICK j \in 1 .. Len(dn) : dn[j].type = "message" /\ dn[j].n = n
    BY <1>4 DEF ToCome
  <2>2. CASE j > 1
    <3>1. j - 1 \in 1 .. Len(e) /\ e[j - 1] = dn[j]
      BY <1>1, <2>2
    <3> QED BY <2>1, <3>1 DEF ToCome
  <2> QED BY <1>1, <2>1, <2>2
<1>5. on => \A n \in 1 .. m : n \in st \/ SavedBefore(k, n, q, Len(q) + 1) \/ ToCome(n, e)
  BY <1>1, <1>4 DEF Paced
<1>6. \A i \in 1 .. Len(e) : e[i].type = "compressing" => i = Len(e)
  BY <1>1, <1>2 DEF Paced
<1>7. (\A j \in 1 .. Len(dn) : dn[j].type # "compressing")
        => \A j \in 1 .. Len(e) : e[j].type # "compressing"
  BY <1>2
<1>8. Paced(k, m, st, on, srv, sg, q, e)
  BY <1>3, <1>5, <1>6, <1>7 DEF Paced
<1> QED BY <1>8 DEF e

\* The client has handled the request to compress: it was the last event, so that all that
\* the run has said is stored or saved before.
LEMMA PacedAsked ==
  ASSUME NEW k, NEW m \in Nat, NEW st, NEW on, NEW srv, NEW sg, NEW q \in Seq(TaskSet),
         NEW dn \in Seq(EventSet), dn # <<>>, Head(dn).type = "compressing", on,
         NEW t \in TaskSet, t.do = "compress",
         Paced(k, m, st, on, srv, sg, q, dn)
  PROVE  Paced(k, m, st, on, srv, sg, q \o <<t>>, Tail(dn))
<1> DEFINE e == q \o <<t>>
           d == Tail(dn)
<1>1. /\ Len(q) \in Nat /\ Len(e) = Len(q) + 1 /\ e[Len(q) + 1] = t
      /\ \A i \in 1 .. Len(q) : e[i] = q[i]
  BY Lists
<1>2. Len(dn) \in Nat /\ Len(dn) > 0 /\ dn[1].type = "compressing" /\ Len(d) = Len(dn) - 1
  BY Lists
<1> HIDE DEF e, d
<1>3. Len(dn) = 1 /\ 1 \in 1 .. Len(dn)
  BY <1>2 DEF Paced
<1>4. 1 .. Len(d) = {}
  BY <1>2, <1>3
<1>5. /\ ~Unasked(q, dn) /\ srv = "suspended" /\ "compression_done" \notin sg
      /\ \A i \in 1 .. Len(q) : q[i].do # "compress"
  BY <1>2, <1>3 DEF Paced, Unasked
<1>6. \A i \in 1 .. Len(e) : e[i].do = "compress" => i = Len(q) + 1 /\ i = Len(e)
  BY <1>1, <1>5
<1>7. \A n : ~ToCome(n, dn)
  BY <1>2, <1>3 DEF ToCome
<1>8. ASSUME NEW n \in 1 .. m PROVE n \in st \/ SavedBefore(k, n, e, Len(e))
  <2>1. n \in st \/ SavedBefore(k, n, q, Len(q) + 1)
    BY <1>7 DEF Paced
  <2>2. ASSUME NEW j \in 1 .. Len(q), q[j].do = "save", q[j].run = k, q[j].n = n
        PROVE  SavedBefore(k, n, e, Len(e))
    <3>1. j \in 1 .. Len(e) /\ j < Len(e) /\ e[j] = q[j]
      BY <1>1
    <3> QED BY <2>2, <3>1 DEF SavedBefore
  <2> QED BY <2>1, <2>2 DEF SavedBefore
<1>9. \A n \in 1 .. m : n \in st \/ SavedBefore(k, n, e, Len(e) + 1)
  BY <1>1, <1>8 DEF SavedBefore
<1>10. Paced(k, m, st, on, srv, sg, e, d)
  BY <1>1, <1>4, <1>5, <1>6, <1>8, <1>9 DEF Paced
<1> QED BY <1>10 DEF e, d

\* The head of the queue is done with; when it was the compression, the run may be told.
LEMMA PacedDequeues ==
  ASSUME NEW k, NEW m \in Nat, NEW st, NEW on, NEW srv, NEW sg, NEW sg2, NEW q \in Seq(TaskSet),
         NEW dn, q # <<>>,
         Head(q).do = "save" /\ Head(q).run = k => Head(q).n \in st,
         "compression_done" \in sg2 => "compression_done" \in sg \/ Head(q).do = "compress",
         Paced(k, m, st, on, srv, sg, q, dn)
  PROVE  Paced(k, m, st, on, srv, sg2, Tail(q), dn)
<1> DEFINE e == Tail(q)
<1>1. /\ Len(q) \in Nat /\ Len(q) > 0 /\ Len(e) = Len(q) - 1 /\ Head(q) = q[1]
      /\ \A i \in 1 .. Len(q) - 1 : e[i] = q[i + 1]
  BY Lists
<1> HIDE DEF e
<1>2. \A i \in 1 .. Len(e) : i + 1 \in 1 .. Len(q) /\ e[i] = q[i + 1] /\ i + 1 # 1
  BY <1>1
<1>3. ASSUME NEW n, NEW i \in 2 .. Len(q) + 1, SavedBefore(k, n, q, i)
      PROVE  n \in st \/ SavedBefore(k, n, e, i - 1)
  <2>1. PICK j \in 1 .. Len(q) : j < i /\ q[j].do = "save" /\ q[j].run = k /\ q[j].n = n
    BY <1>3 DEF SavedBefore
  <2>2. CASE j > 1
    <3>1. j - 1 \in 1 .. Len(e) /\ e[j - 1] = q[j] /\ j - 1 < i - 1
      BY <1>1, <2>1, <2>2
    <3> QED BY <2>1, <3>1 DEF SavedBefore
  <2> QED BY <1>1, <2>1, <2>2
<1>4. on => \A n \in 1 .. m : n \in st \/ SavedBefore(k, n, e, Len(e) + 1) \/ ToCome(n, dn)
  <2>1. Len(q) + 1 \in 2 .. Len(q) + 1 /\ Len(q) + 1 - 1 = Len(e) + 1
    BY <1>1
  <2> QED BY <1>3, <2>1 DEF Paced
<1>5. ASSUME NEW i \in 1 .. Len(e), e[i].do = "compress"
      PROVE  /\ \A j \in 1 .. Len(dn) : dn[j].type # "compressing"
             /\ \A j \in 1 .. Len(e) : e[j].do = "compress" => j = i
             /\ \A n \in 1 .. m : n \in st \/ SavedBefore(k, n, e, i)
             /\ Head(q).do # "compress"
  <2>1. i + 1 \in 1 .. Len(q) /\ q[i + 1].do = "compress" /\ i + 1 \in 2 .. Len(q) + 1 /\ i + 1 - 1 = i
    BY <1>1, <1>2, <1>5
  <2>2. /\ \A j \in 1 .. Len(dn) : dn[j].type # "compressing"
        /\ \A j \in 1 .. Len(q) : q[j].do = "compress" => j = i + 1
        /\ \A n \in 1 .. m : n \in st \/ SavedBefore(k, n, q, i + 1)
    BY <2>1 DEF Paced
  <2>3. \A j \in 1 .. Len(e) : e[j].do = "compress" => j = i
    <3>1. \A j \in 1 .. Len(e) : e[j].do = "compress" => j + 1 = i + 1
      BY <1>2, <2>2
    <3> QED BY <3>1
  <2>4. Head(q).do # "compress"
    BY <1>1, <2>2
  <2> QED BY <1>3, <2>1, <2>2, <2>3, <2>4
<1>6. ASSUME Head(q).do = "compress"
      PROVE  Unasked(e, dn) /\ 1 .. m \subseteq st /\ srv = "suspended"
  <2>1. 1 \in 1 .. Len(q) /\ q[1].do = "compress"
    BY <1>1, <1>6
  <2>2. \A n \in 1 .. m : n \in st \/ SavedBefore(k, n, q, 1)
    BY <2>1 DEF Paced
  <2>3. \A n : ~SavedBefore(k, n, q, 1)
    BY DEF SavedBefore
  <2>4. (\A j \in 1 .. Len(dn) : dn[j].type # "compressing") /\ srv = "suspended"
    BY <2>1 DEF Paced, Unasked
  <2> QED BY <1>5, <1>6, <2>2, <2>3, <2>4 DEF Unasked
<1>7. Unasked(q, dn) => Unasked(e, dn)
  BY <1>2 DEF Unasked
<1>8. Paced(k, m, st, on, srv, sg2, e, dn)
  BY <1>4, <1>5, <1>6, <1>7 DEF Paced
<1> QED BY <1>8 DEF e

\* A running run says more, reports a stage, or asks for a compression and waits for it.
LEMMA PacedSays ==
  ASSUME NEW k, NEW m \in Nat, NEW st, NEW on, NEW sg, NEW q \in Seq(TaskSet),
         NEW dn \in Seq(EventSet), NEW ev \in EventSet,
         Paced(k, m, st, on, "running", sg, q, dn)
  PROVE  /\ ev.type = "message" /\ ev.n = m + 1 =>
              Paced(k, m + 1, st, on, "running", sg, q, dn \o <<ev>>)
         /\ ev.type = "compressing" => Paced(k, m, st, on, "suspended", sg, q, dn \o <<ev>>)
         /\ ev.type = "stage" => Paced(k, m, st, on, "running", sg, q, dn \o <<ev>>)
<1> DEFINE e == dn \o <<ev>>
<1>1. /\ Len(dn) \in Nat /\ Len(e) = Len(dn) + 1 /\ e[Len(dn) + 1] = ev
      /\ \A i \in 1 .. Len(dn) : e[i] = dn[i]
  BY Lists
<1> HIDE DEF e
<1>2. \A i \in 1 .. Len(e) : i \in 1 .. Len(dn) \/ (i = Len(e) /\ e[i] = ev)
  BY <1>1
<1>3. /\ \A i \in 1 .. Len(dn) : dn[i].type # "compressing"
      /\ \A i \in 1 .. Len(q) : q[i].do # "compress"
      /\ "compression_done" \notin sg
  BY DEF Paced, Unasked
<1>4. \A n : ToCome(n, dn) => ToCome(n, e)
  <2>1. \A i \in 1 .. Len(dn) : i \in 1 .. Len(e) /\ e[i] = dn[i]
    BY <1>1
  <2> QED BY <2>1 DEF ToCome
<1>5. ASSUME ev.type = "message", ev.n = m + 1
      PROVE  Paced(k, m + 1, st, on, "running", sg, q, e)
  <2>1. ToCome(m + 1, e)
    <3>1. Len(e) \in 1 .. Len(e) /\ e[Len(e)] = ev
      BY <1>1
    <3> QED BY <1>5, <3>1 DEF ToCome
  <2>2. \A n \in 1 .. m + 1 : n \in 1 .. m \/ n = m + 1
    OBVIOUS
  <2>3. \A i \in 1 .. Len(e) : e[i].type # "compressing"
    BY <1>1, <1>2, <1>3, <1>5
  <2>4. on => \A n \in 1 .. m + 1 : n \in st \/ SavedBefore(k, n, q, Len(q) + 1) \/ ToCome(n, e)
    BY <1>4, <2>1, <2>2 DEF Paced
  <2> QED BY <1>3, <2>3, <2>4 DEF Paced, Unasked
<1>6. ASSUME ev.type = "compressing"
      PROVE  Paced(k, m, st, on, "suspended", sg, q, e)
  <2>1. \A i \in 1 .. Len(e) : e[i].type = "compressing" => i = Len(e)
    BY <1>1, <1>2, <1>3
  <2>2. on => \A n \in 1 .. m : n \in st \/ SavedBefore(k, n, q, Len(q) + 1) \/ ToCome(n, e)
    BY <1>4 DEF Paced
  <2> QED BY <1>3, <2>1, <2>2 DEF Paced, Unasked
<1>7. ASSUME ev.type = "stage"
      PROVE  Paced(k, m, st, on, "running", sg, q, e)
  <2>1. \A i \in 1 .. Len(e) : e[i].type # "compressing"
    BY <1>1, <1>2, <1>3, <1>7
  <2>2. on => \A n \in 1 .. m : n \in st \/ SavedBefore(k, n, q, Len(q) + 1) \/ ToCome(n, e)
    BY <1>4 DEF Paced
  <2> QED BY <1>3, <2>1, <2>2 DEF Paced, Unasked
<1> QED BY <1>5, <1>6, <1>7 DEF e

\* The run reads that the compression is done, and everything it has said is stored.
LEMMA PacedGoesOn ==
  ASSUME NEW k, NEW m \in Nat, NEW st, NEW on, NEW srv, NEW sg, NEW sg2, NEW q, NEW dn,
         Paced(k, m, st, on, srv, sg, q, dn), "compression_done" \in sg,
         "compression_done" \notin sg2
  PROVE  Paced(k, m, st, on, "running", sg2, q, dn) /\ 1 .. m \subseteq st
BY DEF Paced, Unasked

\* What is stored stays.
LEMMA WrittenStays ==
  ASSUME Typed, Typed', [Next]_vars, NEW k \in Runs
  PROVE  Written(k) \subseteq Written(k)'
<1>1. db' = db \/ \E s \in Runs : \E m : db' = Store(s, m)
  <2>1. ASSUME NEW j \in Runs, Client(j) PROVE db' = db \/ \E s \in Runs : \E m : db' = Store(s, m)
    BY <2>1 DEF Client, Created, Posted, PostFails, RagAnswers, Opens, ConnectFails, Receives,
                TaskSucceeds, TaskFails
  <2>2. CASE User \/ (\E c \in Convs : Shows(c)) \/ (\E j \in Runs : Server(j)) \/ UNCHANGED vars
    BY <2>2 DEF User, Starts, AbortAgent, StartNewChat, SelectConversation, Shows, Server,
                ServerWorks, StageFails, ServerReads, Breaks, vars
  <2> QED BY <2>1, <2>2 DEF Next
<1>2. ASSUME NEW s \in Runs
      PROVE  \A i \in 1 .. Len(db[s]) : i \in 1 .. Len(db'[s]) /\ db'[s][i] = db[s][i]
  <2>1. db'[s] = db[s] \/ \E m : db'[s] = Append(db[s], m)
    <3>1. ASSUME NEW r \in Runs, NEW m, db' = Store(r, m)
          PROVE  db'[s] = db[s] \/ db'[s] = Append(db[s], m)
      <4>1. db' = db \/ db' = [db EXCEPT ![r] = Append(@, m)]
        BY <3>1 DEF Store
      <4>2. DOMAIN db = Runs
        BY DEF Typed
      <4>3. ASSUME db' = [db EXCEPT ![r] = Append(@, m)]
            PROVE  db'[s] = db[s] \/ db'[s] = Append(db[s], m)
        <5>1. CASE r = s
          BY <4>2, <4>3, <5>1
        <5>2. CASE r # s
          BY <4>2, <4>3, <5>2
        <5> QED BY <5>1, <5>2
      <4> QED BY <4>1, <4>3
    <3> QED BY <1>1, <3>1
  <2>2. ASSUME NEW m, db'[s] = Append(db[s], m)
        PROVE  \A i \in 1 .. Len(db[s]) : i \in 1 .. Len(db'[s]) /\ db'[s][i] = db[s][i]
    <3>1. db[s] \in Seq(Messages)
      BY DEF Typed
    <3>2. db[s] \in Seq(Messages \cup {m}) /\ m \in Messages \cup {m}
      BY <3>1
    <3> HIDE <3>1
    <3>3. Len(db[s]) \in Nat /\ Len(db'[s]) = Len(db[s]) + 1
      BY <2>2, <3>2, OneMore
    <3>4. \A i \in 1 .. Len(db[s]) : Append(db[s], m)[i] = db[s][i]
      BY <3>2
    <3> QED BY <2>2, <3>3, <3>4
  <2> QED BY <2>1, <2>2
<1> SUFFICES ASSUME NEW n \in Nat, NEW s \in Runs, NEW i \in 1 .. Len(db[s]),
                    db[s][i].run = k, db[s][i].n = n
             PROVE  n \in Written(k)'
  BY DEF Written
<1> QED BY <1>2 DEF Written

\* A message that was just saved is stored.
LEMMA SavedIsWritten ==
  ASSUME Typed, Typed', NEW s \in Runs, NEW c, NEW k \in Runs, NEW n \in Nat,
         db' = Store(s, Message(c, k, n))
  PROVE  n \in Written(k)'
<1> DEFINE m == Message(c, k, n)
<1>1. m.run = k /\ m.n = n
  BY DEF Message
<1> HIDE DEF m
<1>2. CASE Stored(m)
  <2>1. PICK r \in Runs : \E i \in DOMAIN db[r] : db[r][i] = m
    BY <1>2 DEF Stored
  <2>2. DOMAIN db[r] = 1 .. Len(db[r]) /\ db' = db
    BY <1>2 DEF Typed, Store, m
  <2> QED BY <1>1, <2>1, <2>2 DEF Written
<1>3. CASE ~Stored(m)
  <2>1. db'[s] = Append(db[s], m)
    BY <1>3 DEF Typed, Store, m
  <2>2. db[s] \in Seq(Messages)
    BY DEF Typed
  <2>3. db[s] \in Seq(Messages \cup {m}) /\ m \in Messages \cup {m}
    BY <2>2
  <2> HIDE <2>2
  <2>4. Len(db[s]) + 1 \in 1 .. Len(db'[s]) /\ db'[s][Len(db[s]) + 1] = m
    BY <2>1, <2>3, OneMore
  <2> QED BY <1>1, <2>4 DEF Written
<1> QED BY <1>2, <1>3

\* Lapses are not forgotten.
LEMMA TrackedBefore ==
  ASSUME Typed, [Next]_vars, NEW k \in Runs, Tracked(k)'
  PROVE  Tracked(k)
BY LapsesStay DEF Tracked

\* Nothing about the run changes that it waits for.
LEMMA ResumesKept ==
  ASSUME Typed, Typed', [Next]_vars, NEW k \in Runs, Resumes(k),
         server'[k] = server[k], sent'[k] = sent[k], queue'[k] = queue[k], down'[k] = down[k],
         sub' = k => sub = k \/ sent[k] = 0,
         queue[k] # <<>> /\ cur' # k => cur # k \/ "overtaken" \in lapses'[k],
         Tracked(k) /\ "compression_done" \in signals'[k] => "compression_done" \in signals[k]
  PROVE  Resumes(k)'
<1>1. queue'[k] # <<>> /\ cur' # k => "overtaken" \in lapses'[k]
  BY LapsesStay DEF Resumes
<1>2. ASSUME Tracked(k)', server'[k] # "ended"
      PROVE  Paced(k, sent'[k], Written(k)', sub' = k, server'[k], signals'[k], queue'[k], down'[k])
  <2>1. Tracked(k)
    BY <1>2, TrackedBefore
  <2>2. Paced(k, sent[k], Written(k), sub = k, server[k], signals[k], queue[k], down[k])
    BY <1>2, <2>1 DEF Resumes
  <2>3. Written(k) \subseteq Written(k)'
    BY WrittenStays
  <2> DEFINE st == Written(k)
             st2 == Written(k)'
             on == sub = k
             on2 == sub' = k
  <2>4. on2 => on \/ sent[k] = 0
    OBVIOUS
  <2>5. "compression_done" \in signals'[k] => "compression_done" \in signals[k]
    BY <2>1
  <2>6. Paced(k, sent[k], st, on, server[k], signals[k], queue[k], down[k]) /\ st \subseteq st2
    BY <2>2, <2>3
  <2> HIDE DEF st, st2, on, on2
  <2>7. Paced(k, sent[k], st2, on2, server[k], signals'[k], queue[k], down[k])
    BY <2>4, <2>5, <2>6, PacedMore
  <2> QED BY <2>7 DEF st2, on2
<1> QED BY <1>1, <1>2 DEF Resumes

\* The run itself says more, asks and waits, goes on, ends or breaks off.
LEMMA ServerResumes ==
  ASSUME AnswersInv, AnswersInv', [Next]_vars, NEW k \in Runs, Resumes(k), Server(k)
  PROVE  Resumes(k)'
<1>1. Typed /\ Typed' /\ server[k] \in {"off", "running", "suspended", "ended"}
  BY DEF AnswersInv, Typed
<1>2. cur' = cur /\ sub' = sub /\ queue' = queue /\ lapses' = lapses /\ db' = db
  BY DEF Server, ServerWorks, StageFails, ServerReads, Breaks, client, tasks
<1>3. Written(k)' = Written(k) /\ (Tracked(k)' <=> Tracked(k))
  BY <1>2 DEF Written, Tracked
<1> DEFINE P(m, srv, sg, dn) == Paced(k, m, Written(k), sub = k, srv, sg, queue[k], dn)
<1>4. Tracked(k) /\ server[k] # "ended" => P(sent[k], server[k], signals[k], down[k])
  BY DEF Resumes
<1>5. /\ queue[k] # <<>> /\ cur # k => "overtaken" \in lapses[k]
      /\ server[k] = "off" => sent[k] = 0
  BY DEF Resumes
<1>6. SUFFICES /\ server'[k] = "off" => sent'[k] = 0
               /\ Tracked(k) /\ server'[k] # "ended" =>
                    P(sent'[k], server'[k], signals'[k], down'[k])
  BY <1>2, <1>3, <1>5 DEF Resumes
<1>7. queue[k] \in Seq(TaskSet) /\ down[k] \in Seq(EventSet) /\ sent[k] \in Nat /\ sent[k] \in Nat
  BY <1>1, BoundsTyped DEF Typed
<1>8. CASE Breaks(k)
  <2>1. server'[k] = "ended"
    BY <1>1, <1>8 DEF Breaks, Typed
  <2> QED BY <2>1
<1>9. CASE ServerReads(k)
  <2>1. PICK sig \in signals[k] :
          /\ signals' = [signals EXCEPT ![k] = @ \ {sig}] /\ sent' = sent
          /\ IF server[k] \notin {"running", "suspended"} THEN UNCHANGED <<server, down>>
             ELSE IF sig = "abort" THEN server' = [server EXCEPT ![k] = "ended"]
             ELSE server' = [server EXCEPT ![k] = "running"] /\ UNCHANGED down
    BY <1>9 DEF ServerReads
  <2>2. sig \in {"abort", "compression_done"} /\ signals'[k] = signals[k] \ {sig}
    BY <1>1, <2>1 DEF Typed
  <2>3. CASE server[k] \notin {"running", "suspended"}
    <3>1. server'[k] = server[k] /\ down'[k] = down[k] /\ sent'[k] = sent[k]
      BY <2>1, <2>3
    <3>2. P(sent[k], server[k], signals[k], down[k]) => P(sent[k], server[k], signals'[k], down[k])
      BY <2>2, PacedMore
    <3> QED BY <1>4, <1>5, <3>1, <3>2
  <2>4. CASE server[k] \in {"running", "suspended"} /\ sig = "abort"
    <3>1. server'[k] = "ended"
      BY <1>1, <2>1, <2>4 DEF Typed
    <3> QED BY <3>1
  <2>5. CASE server[k] \in {"running", "suspended"} /\ sig = "compression_done"
    <3>1. server'[k] = "running" /\ down'[k] = down[k] /\ sent'[k] = sent[k]
      BY <1>1, <2>1, <2>5 DEF Typed
    <3>2. "compression_done" \in signals[k] /\ "compression_done" \notin signals'[k]
      BY <2>1, <2>2, <2>5
    <3>3. P(sent[k], server[k], signals[k], down[k]) => P(sent[k], "running", signals'[k], down[k])
      BY <1>7, <3>2, PacedGoesOn
    <3> QED BY <1>4, <2>5, <3>1, <3>3
  <2> QED BY <2>2, <2>3, <2>4, <2>5
<1>10. CASE ServerWorks(k)
  <2>1. server[k] = "running" /\ signals' = signals
    BY <1>10 DEF ServerWorks
  <2>2. CASE /\ sent[k] < MaxMessages[k] /\ sent' = [sent EXCEPT ![k] = @ + 1]
             /\ Emits(k, <<Event("message", sent'[k])>>) /\ UNCHANGED <<server, pauses>>
    <3> DEFINE ev == Event("message", sent[k] + 1)
    <3>1. sent'[k] = sent[k] + 1 /\ server'[k] = "running" /\ down'[k] = down[k] \o <<ev>>
      BY <1>1, <2>1, <2>2 DEF Typed, Emits
    <3>2. ev \in EventSet /\ ev.type = "message" /\ ev.n = sent[k] + 1
      BY <1>7, <2>2, BoundsTyped DEF Event, EventSet, EventTypes
    <3> HIDE DEF ev
    <3>3. P(sent[k], "running", signals[k], down[k])
            => P(sent[k] + 1, "running", signals[k], down[k] \o <<ev>>)
      BY <1>7, <3>2, PacedSays
    <3> QED BY <1>4, <2>1, <3>1, <3>3
  <2>3. CASE /\ server' = [server EXCEPT ![k] = "suspended"]
             /\ Emits(k, <<Event("compressing", 0)>>) /\ UNCHANGED sent
    <3> DEFINE ev == Event("compressing", 0)
    <3>1. sent'[k] = sent[k] /\ server'[k] = "suspended" /\ down'[k] = down[k] \o <<ev>>
      BY <1>1, <2>3 DEF Typed, Emits
    <3>2. ev \in EventSet /\ ev.type = "compressing"
      BY BoundsTyped DEF Event, EventSet, EventTypes
    <3> HIDE DEF ev
    <3>3. P(sent[k], "running", signals[k], down[k])
            => P(sent[k], "suspended", signals[k], down[k] \o <<ev>>)
      BY <1>7, <3>2, PacedSays
    <3> QED BY <1>4, <2>1, <3>1, <3>3
  <2>4. CASE server' = [server EXCEPT ![k] = "ended"]
    <3>1. server'[k] = "ended"
      BY <1>1, <2>4 DEF Typed
    <3> QED BY <3>1
  <2> QED BY <1>10, <2>2, <2>3, <2>4 DEF ServerWorks
<1>11. CASE StageFails(k)
  <2> DEFINE ev == Event("stage", 0)
  <2>1. /\ server[k] = "running" /\ server'[k] = "running" /\ signals' = signals
        /\ sent'[k] = sent[k] /\ down'[k] = down[k] \o <<ev>>
    BY <1>1, <1>11 DEF StageFails, Typed, Emits
  <2>2. ev \in EventSet /\ ev.type = "stage"
    BY DEF Event, EventSet, EventTypes
  <2> HIDE DEF ev
  <2>3. P(sent[k], "running", signals[k], down[k])
          => P(sent[k], "running", signals[k], down[k] \o <<ev>>)
    BY <1>7, <2>2, PacedSays
  <2> QED BY <1>4, <2>1, <2>3
<1> QED BY <1>8, <1>9, <1>10, <1>11 DEF Server

\* A task of a queue, of the run itself or of another.
LEMMA TasksResume ==
  ASSUME AnswersInv, AnswersInv', [Next]_vars, NEW k \in Runs, Resumes(k), NEW j \in Runs, Resumes(j),
         TaskSucceeds(j) \/ TaskFails(j)
  PROVE  Resumes(k)'
<1>1. Typed /\ Typed'
  BY DEF AnswersInv
<1>2. /\ queue[j] # <<>> /\ server' = server /\ sent' = sent /\ down' = down /\ sub' = sub /\ cur' = cur
      /\ (queue' = queue) \/ (queue' = Dequeue(j))
  BY DEF TaskSucceeds, TaskFails, client, backend
<1> DEFINE t == Head(queue[j])
<1>3. CASE j # k
  <2>1. queue'[k] = queue[k]
    BY <1>1, <1>2, <1>3 DEF Dequeue, Typed
  <2>2. ASSUME Tracked(k), "compression_done" \in signals'[k], "compression_done" \notin signals[k]
        PROVE  FALSE
    <3>1. signals' = Signal("compression_done") /\ cur = k
      BY <1>1, <2>2 DEF TaskSucceeds, TaskFails, backend, Signal, Typed
    <3> QED BY <1>2, <1>3, <2>2, <3>1 DEF Resumes, Tracked
  <2> QED BY <1>1, <1>2, <2>1, <2>2, ResumesKept
<1>4. CASE j = k /\ queue' = queue
  <2>1. TaskFails(k) => signals' = signals
    BY DEF TaskFails, backend
  <2>2. ~TaskSucceeds(k)
    <3>1. TaskSucceeds(k) => queue'[k] = Tail(queue[k])
      BY <1>1 DEF TaskSucceeds, Dequeue, Typed
    <3>2. queue[k] \in Seq(TaskSet)
      BY <1>1 DEF Typed
    <3>3. Tail(queue[k]) # queue[k]
      BY <1>2, <1>4, <3>2, TailDiffers
    <3> QED BY <1>4, <3>1, <3>3
  <2> QED BY <1>1, <1>2, <1>4, <2>1, <2>2, ResumesKept
<1>5. CASE j = k /\ queue' = Dequeue(k)
  <2>1. queue'[k] = Tail(queue[k]) /\ queue[k] \in Seq(TaskSet) /\ t = queue[k][1] /\ t \in TaskSet
    BY <1>1, <1>2, <1>5, HeadTyped DEF Dequeue, Typed
  <2>2. queue'[k] # <<>> /\ cur' # k => "overtaken" \in lapses'[k]
    BY <1>1, <1>2, <1>5, LapsesStay DEF Resumes
  <2>3. ASSUME Tracked(k)', server[k] # "ended"
        PROVE  Paced(k, sent[k], Written(k)', sub = k, server[k], signals'[k], Tail(queue[k]), down[k])
    <3>1. Tracked(k)
      BY <1>1, <2>3, TrackedBefore
    <3>2. Paced(k, sent[k], Written(k), sub = k, server[k], signals[k], queue[k], down[k])
      BY <2>3, <3>1 DEF Resumes
    <3>3. Written(k) \subseteq Written(k)'
      BY <1>1, WrittenStays
    <3>4. Paced(k, sent[k], Written(k)', sub = k, server[k], signals[k], queue[k], down[k])
      BY <3>2, <3>3, PacedMore
    <3>5. t.do = "save" /\ t.run = k => t.n \in Written(k)'
      <4>1. CASE TaskSucceeds(k)
        <5> SUFFICES ASSUME t.do = "save", t.run = k PROVE t.n \in Written(k)'
          OBVIOUS
        <5>1. t.n \in Nat
          BY <2>1, BoundsTyped DEF TaskSet
        <5>2. db' = Store(k, Message(SavesIn(k), t.run, t.n))
          BY <1>5, <4>1 DEF TaskSucceeds
        <5> QED BY <1>1, <5>1, <5>2, SavedIsWritten
      <4>2. CASE TaskFails(k) /\ t.do = "save"
        <5>1. lapses' = Lapse({k}, "gaveup") \/ queue' = queue
          BY <1>5, <4>2 DEF TaskFails
        <5>2. queue' # queue
          <6>1. Tail(queue[k]) # queue[k]
            BY <1>2, <1>5, <2>1, TailDiffers
          <6> QED BY <2>1, <6>1
        <5>3. "gaveup" \in lapses'[k]
          BY <5>1, <5>2 DEF Lapse
        <5> QED BY <2>3, <5>3 DEF Tracked
      <4> QED BY <1>5, <4>1, <4>2
    <3>6. "compression_done" \in signals'[k] => "compression_done" \in signals[k] \/ t.do = "compress"
      BY <1>1, <1>5 DEF TaskSucceeds, TaskFails, backend, Typed
    <3>7. sent[k] \in Nat
      BY <1>1, BoundsTyped DEF Typed
    <3> QED BY <1>2, <1>5, <2>1, <3>4, <3>5, <3>6, <3>7, PacedDequeues
  <2>4. server[k] = "off" => sent[k] = 0
    BY DEF Resumes
  <2> QED BY <1>2, <2>1, <2>2, <2>3, <2>4 DEF Resumes
<1> QED BY <1>2, <1>3, <1>4, <1>5

\* What an event puts into the queue of the subscription that gets it.
LEMMA WhatIsEnqueued ==
  ASSUME Typed, NEW j \in Runs, Receives(j), NEW s \in Runs
  PROVE  /\ cur' = cur /\ server' = server /\ sent' = sent /\ signals' = signals /\ db' = db
         /\ down[j] # <<>> /\ down' = [down EXCEPT ![j] = Tail(@)] /\ sub' \in {sub, NoRun}
         /\ \/ queue'[s] = queue[s] /\ (sub = s => Head(down[j]).type # "message")
            \/ /\ sub = s
               /\ \E t \in TaskSet : /\ queue'[s] = queue[s] \o <<t>>
                                     /\ t.do = "compress" <=> Head(down[j]).type = "compressing"
                                     /\ Head(down[j]).type = "message" => t = Save(j, Head(down[j]).n)
<1> DEFINE e == Head(down[j])
           Puts(t) == /\ queue'[s] = queue[s] \o <<t>>
                      /\ t.do = "compress" <=> e.type = "compressing"
                      /\ e.type = "message" => t = Save(j, e.n)
           Goal == /\ sub' \in {sub, NoRun}
                   /\ \/ queue'[s] = queue[s] /\ (sub = s => e.type # "message")
                      \/ sub = s /\ \E t \in TaskSet : Puts(t)
<1>1. /\ cur' = cur /\ server' = server /\ sent' = sent /\ signals' = signals /\ db' = db
      /\ down[j] # <<>> /\ down' = [down EXCEPT ![j] = Tail(@)]
  BY DEF Receives
<1>2. e.type \in EventTypes /\ e.n \in Nat
  BY <1>1, EventHead
<1>3. ASSUME NEW t \in TaskSet, queue' = Enqueue(<<t>>), sub' \in {sub, NoRun},
             t.do = "compress" <=> e.type = "compressing", e.type = "message" => t = Save(j, e.n)
      PROVE  Goal
  <2>1. queue'[s] = IF sub = s THEN queue[s] \o <<t>> ELSE queue[s]
    BY <1>3 DEF Enqueue, Typed, NoRun, Runs
  <2>2. CASE sub = s
    <3>1. Puts(t)
      BY <1>3, <2>1, <2>2
    <3> QED BY <1>3, <2>2, <3>1
  <2>3. CASE sub # s
    BY <1>3, <2>1, <2>3
  <2> QED BY <2>2, <2>3
<1>4. ASSUME Finishes(j), e.type \in {"over", "close"} PROVE Goal
  <2>1. Task("finish") \in TaskSet /\ Task("finish").do = "finish"
    BY DEF Task, TaskSet
  <2> QED BY <1>3, <1>4, <2>1 DEF Finishes
<1>5. CASE e.type = "message"
  <2>1. queue' = Enqueue(<<Save(j, e.n)>>) /\ sub' = sub
    BY <1>5 DEF Receives
  <2>2. Save(j, e.n) \in TaskSet /\ Save(j, e.n).do = "save"
    BY <1>2 DEF Save, TaskSet
  <2>3. Goal
    BY <1>3, <1>5, <2>1, <2>2
  <2> QED BY <1>1, <2>3
<1>6. CASE e.type = "compressing"
  <2>1. queue' = (IF here = NoConv THEN queue ELSE Enqueue(<<Task("compress")>>)) /\ sub' = sub
    BY <1>6 DEF Receives
  <2>2. Task("compress") \in TaskSet /\ Task("compress").do = "compress"
    BY DEF Task, TaskSet
  <2>3. Goal
    BY <1>3, <1>6, <2>1, <2>2
  <2> QED BY <1>1, <2>3
<1>7. CASE e.type = "over"
  <2>1. Finishes(j)
    BY <1>7 DEF Receives
  <2>2. Goal
    BY <1>4, <1>7, <2>1
  <2> QED BY <1>1, <2>2
<1>8. CASE e.type = "stopped"
  <2>1. queue' = queue /\ sub' = sub
    BY <1>8 DEF Receives
  <2> QED BY <1>1, <1>8, <2>1
<1>10. CASE e.type = "stage"
  <2>1. queue' = queue /\ sub' = sub
    BY <1>10 DEF Receives
  <2> QED BY <1>1, <1>10, <2>1
<1>9. CASE e.type = "close"
  <2>1. Finishes(j) \/ (queue' = queue /\ sub' = sub)
    BY <1>9 DEF Receives
  <2>2. Goal
    BY <1>4, <1>9, <2>1
  <2> QED BY <1>1, <2>2
<1> QED BY <1>2, <1>5, <1>6, <1>7, <1>8, <1>9, <1>10 DEF EventTypes

\* A run's own event.
LEMMA OwnEvent ==
  ASSUME AnswersInv, NEW k \in Runs, Receives(k),
         NEW m \in Nat, NEW st, NEW srv, NEW sg,
         Paced(k, m, st, sub = k, srv, sg, queue[k], down[k])
  PROVE  Paced(k, m, st, sub = k, srv, sg, queue'[k], Tail(down[k]))
<1> DEFINE q == queue[k]
           dn == down[k]
           e == Head(dn)
           on == sub = k
<1>1. Typed /\ q \in Seq(TaskSet) /\ dn \in Seq(EventSet)
  BY DEF AnswersInv, Typed
<1>2. /\ dn # <<>>
      /\ \/ queue'[k] = q /\ (on => e.type # "message")
         \/ on /\ \E t \in TaskSet : /\ queue'[k] = q \o <<t>>
                                     /\ t.do = "compress" <=> e.type = "compressing"
                                     /\ e.type = "message" => t = Save(k, e.n)
  BY <1>1, WhatIsEnqueued
<1>3. Paced(k, m, st, on, srv, sg, q, dn)
  OBVIOUS
<1> SUFFICES Paced(k, m, st, on, srv, sg, queue'[k], Tail(dn))
  OBVIOUS
<1> HIDE DEF q, dn, on
<1>4. CASE queue'[k] = q /\ (on => e.type # "message")
  <2>1. on /\ e.type = "message" => SavedBefore(k, e.n, q, Len(q) + 1)
    BY <1>4
  <2>2. Paced(k, m, st, on, srv, sg, q, Tail(dn))
    BY <1>1, <1>2, <1>3, <2>1, PacedHandles
  <2> QED BY <1>4, <2>2
<1>5. ASSUME on, NEW t \in TaskSet, queue'[k] = q \o <<t>>,
             t.do = "compress" <=> e.type = "compressing", e.type = "message" => t = Save(k, e.n)
      PROVE  Paced(k, m, st, on, srv, sg, queue'[k], Tail(dn))
  <2>1. CASE e.type = "compressing"
    <3>1. Paced(k, m, st, on, srv, sg, q \o <<t>>, Tail(dn))
      BY <1>1, <1>2, <1>3, <1>5, <2>1, PacedAsked
    <3> QED BY <1>5, <3>1
  <2>2. CASE e.type # "compressing"
    <3> DEFINE q2 == q \o <<t>>
    <3>1. Paced(k, m, st, on, srv, sg, q2, dn)
      BY <1>1, <1>3, <1>5, <2>2, PacedEnqueues
    <3>2. q2 \in Seq(TaskSet) /\ Len(q2) = Len(q) + 1 /\ q2[Len(q) + 1] = t /\ Len(q) \in Nat
      BY <1>1, Lists
    <3> HIDE DEF q2
    <3>3. on /\ e.type = "message" => SavedBefore(k, e.n, q2, Len(q2) + 1)
      <4> SUFFICES ASSUME e.type = "message" PROVE SavedBefore(k, e.n, q2, Len(q2) + 1)
        OBVIOUS
      <4>1. Len(q2) \in 1 .. Len(q2) /\ Len(q2) < Len(q2) + 1 /\ q2[Len(q2)] = Save(k, e.n)
        BY <1>5, <3>2
      <4> QED BY <4>1 DEF SavedBefore, Save
    <3>4. Paced(k, m, st, on, srv, sg, q2, Tail(dn))
      BY <1>1, <1>2, <3>1, <3>2, <3>3, PacedHandles
    <3> QED BY <1>5, <3>4 DEF q2
  <2> QED BY <2>1, <2>2
<1> QED BY <1>2, <1>4, <1>5

\* An event of another run: what it asks for joins the queue of the run started last, and
\* only a run that was overtaken asks another's subscription to compress.
LEMMA OthersEvent ==
  ASSUME AnswersInv, NEW k \in Runs, NEW j \in Runs, j # k, Receives(j), Tracked(k),
         NEW m \in Nat, NEW st, NEW srv, NEW sg,
         Paced(k, m, st, sub = k, srv, sg, queue[k], down[k])
  PROVE  Paced(k, m, st, sub = k, srv, sg, queue'[k], down[k])
<1> DEFINE on == sub = k
           e == Head(down[j])
<1>1. Typed /\ queue[k] \in Seq(TaskSet)
  BY DEF AnswersInv, Typed
<1>2. /\ down[j] # <<>>
      /\ \/ queue'[k] = queue[k]
         \/ on /\ \E t \in TaskSet : /\ queue'[k] = queue[k] \o <<t>>
                                     /\ t.do = "compress" <=> e.type = "compressing"
  BY <1>1, WhatIsEnqueued
<1>3. Paced(k, m, st, on, srv, sg, queue[k], down[k])
  OBVIOUS
<1>4. sub = k => e.type # "compressing"
  <2> SUFFICES ASSUME sub = k, e.type = "compressing" PROVE FALSE
    OBVIOUS
  <2>1. cur = k
    BY <1>1 DEF Typed, NoRun, Runs
  <2>2. e = down[j][1] /\ 1 \in 1 .. Len(down[j])
    BY <1>1, <1>2, EventHead
  <2>3. Connected(j) /\ Subscribed(j)
    BY DEF AnswersInv
  <2>4. socket[j] = "open"
    BY <2>2, <2>3 DEF Connected
  <2>5. run[j].phase = "started"
    BY <2>3, <2>4 DEF Connected
  <2>6. "overtaken" \in lapses[j]
    BY <2>1, <2>3, <2>4, <2>5 DEF Subscribed
  <2> QED BY <2>6 DEF Tracked
<1> SUFFICES Paced(k, m, st, on, srv, sg, queue'[k], down[k])
  OBVIOUS
<1>5. on => e.type # "compressing"
  BY <1>4
<1> HIDE DEF on
<1>6. ASSUME on, NEW t \in TaskSet, queue'[k] = queue[k] \o <<t>>, t.do = "compress" <=> e.type = "compressing"
      PROVE  Paced(k, m, st, on, srv, sg, queue'[k], down[k])
  <2>1. t.do # "compress"
    BY <1>5, <1>6
  <2>2. Paced(k, m, st, on, srv, sg, queue[k] \o <<t>>, down[k])
    BY <1>1, <1>3, <2>1, PacedEnqueues
  <2> QED BY <1>6, <2>2
<1> QED BY <1>2, <1>3, <1>6

\* An event, from the socket of the run itself or of another.
LEMMA ReceivesResumes ==
  ASSUME AnswersInv, AnswersInv', [Next]_vars, NEW k \in Runs, Resumes(k), NEW j \in Runs, Receives(j)
  PROVE  Resumes(k)'
<1>0. Typed /\ Typed'
  BY DEF AnswersInv
<1>1. Typed /\ Typed' /\ sent[k] \in Nat
  <2>1. Typed => sent[k] \in Nat
    BY BoundsTyped DEF Typed
  <2> QED BY <1>0, <2>1
<1>2. /\ cur' = cur /\ server' = server /\ sent' = sent /\ signals' = signals /\ db' = db
      /\ down' = [down EXCEPT ![j] = Tail(@)] /\ sub' \in {sub, NoRun}
      /\ queue'[k] = queue[k] \/ sub = k
  BY <1>1, WhatIsEnqueued
<1>3. Written(k)' = Written(k)
  BY <1>2 DEF Written
<1>4. queue'[k] # <<>> /\ cur' # k => "overtaken" \in lapses'[k]
  <2>1. sub = k => cur = k
    BY <1>1 DEF Typed, NoRun, Runs
  <2> QED BY <1>1, <1>2, <2>1, LapsesStay DEF Resumes
<1>5. ASSUME Tracked(k)', server[k] # "ended"
      PROVE  Paced(k, sent[k], Written(k), sub' = k, server[k], signals[k], queue'[k], down'[k])
  <2> DEFINE on == sub = k
             on2 == sub' = k
  <2>1. Tracked(k)
    BY <1>1, <1>5, TrackedBefore
  <2>2. Paced(k, sent[k], Written(k), sub = k, server[k], signals[k], queue[k], down[k])
    BY <1>5, <2>1 DEF Resumes
  <2>3. Paced(k, sent[k], Written(k), sub = k, server[k], signals[k], queue'[k], down'[k])
    <3>1. CASE j = k
      <4>1. down'[k] = Tail(down[k])
        BY <1>1, <1>2, <3>1 DEF Typed
      <4> QED BY <1>1, <2>2, <3>1, <4>1, OwnEvent
    <3>2. CASE j # k
      <4>1. down'[k] = down[k]
        BY <1>1, <1>2, <3>2 DEF Typed
      <4> QED BY <1>1, <2>1, <2>2, <3>2, <4>1, OthersEvent
    <3> QED BY <3>1, <3>2
  <2>4. Paced(k, sent[k], Written(k), on, server[k], signals[k], queue'[k], down'[k])
    BY <2>3
  <2>5. on2 => on \/ sent[k] = 0
    BY <1>2 DEF NoRun, Runs
  <2> HIDE DEF on, on2
  <2>6. Paced(k, sent[k], Written(k), on2, server[k], signals[k], queue'[k], down'[k])
    BY <2>4, <2>5, PacedMore
  <2> QED BY <2>6 DEF on2
<1> QED BY <1>2, <1>3, <1>4, <1>5 DEF Resumes

\* The run's socket opens, or does not: the run has said nothing yet.
LEMMA BeginsResume ==
  ASSUME AnswersInv, AnswersInv', [Next]_vars, NEW k \in Runs, Resumes(k), Opens(k) \/ ConnectFails(k)
  PROVE  Resumes(k)'
<1>1. Typed /\ Typed' /\ Connected(k)
  BY DEF AnswersInv
<1>2. socket[k] = "connecting"
  BY DEF Opens, ConnectFails
<1>3. server[k] = "off" /\ sent[k] = 0 /\ down[k] = <<>>
  BY <1>1, <1>2 DEF Connected, Resumes
<1>4. /\ cur' = cur /\ sub' = sub /\ queue' = queue /\ lapses' = lapses /\ db' = db
      /\ sent' = sent /\ signals' = signals
  BY DEF Opens, ConnectFails, tasks
<1>5. Written(k)' = Written(k) /\ (Tracked(k)' <=> Tracked(k))
  BY <1>4 DEF Written, Tracked
<1>6. ASSUME Tracked(k)
      PROVE  /\ "compression_done" \notin signals[k]
             /\ \A i \in 1 .. Len(queue[k]) : queue[k][i].do # "compress"
  BY <1>3, <1>6 DEF Resumes, Paced, Unasked
<1>7. server'[k] \in {"off", "running"}
  <2>1. CASE Opens(k)
    BY <1>1, <2>1 DEF Opens, Typed
  <2>2. CASE ConnectFails(k)
    BY <1>3, <2>2 DEF ConnectFails
  <2> QED BY <2>1, <2>2
<1>8. \A i \in 1 .. Len(down'[k]) : down'[k][i].type # "compressing"
  <2>1. CASE Opens(k)
    <3>1. down'[k] = <<>>
      BY <1>3, <2>1 DEF Opens
    <3> QED BY <3>1
  <2>2. CASE ConnectFails(k)
    <3>1. down'[k] = <<Event("over", 0), Event("close", 0)>>
      BY <1>1, <2>2 DEF ConnectFails, Typed
    <3> QED BY <3>1 DEF Event
  <2> QED BY <2>1, <2>2
<1>9. 1 .. sent'[k] = {}
  BY <1>3, <1>4
<1>10. Tracked(k) => Paced(k, sent'[k], Written(k), sub = k, server'[k], signals'[k], queue'[k], down'[k])
  BY <1>4, <1>6, <1>7, <1>8, <1>9 DEF Paced, Unasked
<1> QED BY <1>3, <1>4, <1>5, <1>10 DEF Resumes

\* A run starts: the one that had the subscription loses it, and is overtaken.
LEMMA StartsResume ==
  ASSUME AnswersInv, AnswersInv', [Next]_vars, NEW k \in Runs, Resumes(k), NEW j \in Runs, Posted(j)
  PROVE  Resumes(k)'
<1>1. Typed /\ Typed' /\ Connected(k) /\ Subscribed(k)
  BY DEF AnswersInv
<1>2. /\ server' = server /\ sent' = sent /\ queue' = queue /\ down' = down /\ signals' = signals
      /\ run[j].phase = "posting"
      /\ \/ cur' = cur /\ sub' = sub
         \/ \E works : Subscribes(j, works)
  BY DEF Posted, tasks, backend
<1>3. CASE cur' = cur /\ sub' = sub
  BY <1>1, <1>2, <1>3, ResumesKept
<1>4. ASSUME NEW works, Subscribes(j, works) PROVE Resumes(k)'
  <2>1. sub' = j /\ cur' = j
    BY <1>4 DEF Subscribes
  <2>2. j = k => sent[k] = 0
    <3> SUFFICES ASSUME j = k PROVE sent[k] = 0
      OBVIOUS
    <3>1. socket[k] = "none"
      BY <1>1, <1>2 DEF Connected
    <3> QED BY <1>1, <3>1 DEF Connected, Resumes
  <2>3. queue[k] # <<>> /\ j # k => "overtaken" \in lapses'[k]
    <3> SUFFICES ASSUME queue[k] # <<>>, j # k PROVE "overtaken" \in lapses'[k]
      OBVIOUS
    <3>1. run[k].phase = "started"
      BY <1>1 DEF Subscribed
    <3> QED BY <1>4, <3>1 DEF Subscribes, Lapse
  <2>4. sub' = k => sub = k \/ sent[k] = 0
    BY <2>1, <2>2
  <2>5. queue[k] # <<>> /\ cur' # k => cur # k \/ "overtaken" \in lapses'[k]
    BY <2>1, <2>3
  <2> QED BY <1>1, <1>2, <2>4, <2>5, ResumesKept
<1> QED BY <1>2, <1>3, <1>4

\* The steps that say nothing to the run.
LEMMA QuietResume ==
  ASSUME AnswersInv, AnswersInv', [Next]_vars, NEW k \in Runs, Resumes(k),
         \/ User \/ (\E c \in Convs : Shows(c)) \/ UNCHANGED vars
         \/ \E j \in Runs : Created(j) \/ PostFails(j) \/ RagAnswers(j)
         \/ \E j \in Runs \ {k} : Opens(j) \/ ConnectFails(j) \/ Server(j)
  PROVE  Resumes(k)'
<1>1. Typed /\ Typed'
  BY DEF AnswersInv
<1> SUFFICES /\ server'[k] = server[k] /\ sent'[k] = sent[k] /\ queue'[k] = queue[k] /\ down'[k] = down[k]
             /\ cur' = cur /\ sub' \in {sub, NoRun}
             /\ "compression_done" \in signals'[k] => "compression_done" \in signals[k]
  <2>1. sub' = k => sub = k
    BY DEF NoRun, Runs
  <2> QED BY <1>1, <2>1, ResumesKept
<1>2. CASE UNCHANGED vars
  BY <1>2 DEF vars, client, tasks, backend
<1>3. CASE User
  <2>1. CASE \E how \in {"send", "edit", "rag"} : Starts(how)
    BY <2>1 DEF Starts, tasks, backend
  <2>2. ASSUME signals' \in {signals, Signal("abort")}
        PROVE  "compression_done" \in signals'[k] => "compression_done" \in signals[k]
    <3>1. Signal("abort")[k] \in {signals[k], signals[k] \cup {"abort"}}
      <4>1. DOMAIN signals = Runs
        BY <1>1 DEF Typed
      <4>2. CASE CanSend /\ cur = k
        BY <4>1, <4>2 DEF Signal
      <4>3. CASE ~(CanSend /\ cur = k)
        BY <4>1, <4>3 DEF Signal
      <4> QED BY <4>2, <4>3
    <3> QED BY <2>2, <3>1
  <2>3. CASE AbortAgent
    BY <2>2, <2>3 DEF AbortAgent, client, tasks
  <2>4. CASE StartNewChat
    BY <2>2, <2>4 DEF StartNewChat, StopAgentAndClearSub, tasks
  <2>5. ASSUME NEW c \in Convs, SelectConversation(c)
        PROVE  /\ signals' \in {signals, Signal("abort")} /\ sub' = NoRun
               /\ UNCHANGED <<server, sent, queue, down, cur>>
    BY <2>5 DEF SelectConversation, StopAgentAndClearSub, tasks
  <2> QED BY <1>3, <2>1, <2>2, <2>3, <2>4, <2>5 DEF User
<1>4. CASE \E c \in Convs : Shows(c)
  BY <1>4 DEF Shows, tasks, backend
<1>5. CASE \E j \in Runs : Created(j) \/ PostFails(j) \/ RagAnswers(j)
  BY <1>5 DEF Created, PostFails, RagAnswers, tasks, backend
<1>6. ASSUME NEW j \in Runs \ {k}, Opens(j) \/ ConnectFails(j)
      PROVE  /\ server'[k] = server[k] /\ down'[k] = down[k]
             /\ UNCHANGED <<sent, queue, cur, sub, signals>>
  <2>1. j # k
    OBVIOUS
  <2> QED BY <1>1, <1>6, <2>1 DEF Opens, ConnectFails, Typed, tasks
<1>7. ASSUME NEW j \in Runs \ {k}, Server(j)
      PROVE  /\ server'[k] = server[k] /\ down'[k] = down[k] /\ sent'[k] = sent[k]
             /\ signals'[k] = signals[k] /\ UNCHANGED <<queue, cur, sub>>
  <2>1. j # k
    OBVIOUS
  <2>2. CASE ServerWorks(j)
    BY <1>1, <2>1, <2>2 DEF ServerWorks, Emits, Typed, client, tasks
  <2>3. CASE ServerReads(j)
    <3>1. PICK sig \in signals[j] :
            /\ signals' = [signals EXCEPT ![j] = @ \ {sig}]
            /\ IF server[j] \notin {"running", "suspended"} THEN UNCHANGED <<server, down>>
               ELSE IF sig = "abort"
               THEN /\ server' = [server EXCEPT ![j] = "ended"]
                    /\ \E how \in {"over", "stopped"} : Emits(j, <<Event(how, 0), Event("close", 0)>>)
               ELSE server' = [server EXCEPT ![j] = "running"] /\ UNCHANGED down
      BY <2>3 DEF ServerReads
    <3>2. server'[k] = server[k] /\ signals'[k] = signals[k]
      <4>1. server' = server \/ \E v : server' = [server EXCEPT ![j] = v]
        BY <3>1
      <4>2. DOMAIN server = Runs /\ DOMAIN signals = Runs
        BY <1>1 DEF Typed
      <4>3. server'[k] = server[k]
        BY <2>1, <4>1, <4>2
      <4>4. signals'[k] = signals[k]
        BY <2>1, <3>1, <4>2
      <4> QED BY <4>3, <4>4
    <3>3. down' = down \/ \E es : down' = [down EXCEPT ![j] = es]
      BY <3>1 DEF Emits
    <3>4. down'[k] = down[k]
      BY <1>1, <2>1, <3>3 DEF Typed
    <3> QED BY <2>3, <3>2, <3>4 DEF ServerReads, client, tasks
  <2>4. CASE Breaks(j)
    BY <1>1, <2>1, <2>4 DEF Breaks, Typed, client, tasks
  <2>5. CASE StageFails(j)
    BY <1>1, <2>1, <2>5 DEF StageFails, Emits, Typed, client, tasks
  <2> QED BY <1>7, <2>2, <2>3, <2>4, <2>5 DEF Server
<1> QED BY <1>2, <1>3, <1>4, <1>5, <1>6, <1>7

LEMMA ResumesStep ==
  ASSUME AnswersInv, AnswersInv', [Next]_vars, \A j \in Runs : Resumes(j), NEW k \in Runs
  PROVE  Resumes(k)'
<1>1. Resumes(k)
  OBVIOUS
<1>2. ASSUME NEW j \in Runs, Client(j) PROVE Resumes(k)'
  <2>1. CASE Receives(j)
    BY <1>1, <2>1, ReceivesResumes
  <2>2. CASE TaskSucceeds(j) \/ TaskFails(j)
    BY <1>1, <2>2, TasksResume
  <2>3. CASE Posted(j)
    BY <1>1, <2>3, StartsResume
  <2>4. CASE Opens(j) \/ ConnectFails(j)
    <3>1. CASE j = k
      BY <1>1, <2>4, <3>1, BeginsResume
    <3>2. CASE j # k
      BY <1>1, <2>4, <3>2, QuietResume
    <3> QED BY <3>1, <3>2
  <2>5. CASE Created(j) \/ PostFails(j) \/ RagAnswers(j)
    BY <1>1, <2>5, QuietResume
  <2> QED BY <1>2, <2>1, <2>2, <2>3, <2>4, <2>5 DEF Client
<1>3. ASSUME NEW j \in Runs, Server(j) PROVE Resumes(k)'
  <2>1. CASE j = k
    BY <1>1, <1>3, <2>1, ServerResumes
  <2>2. CASE j # k
    BY <1>1, <1>3, <2>2, QuietResume
  <2> QED BY <2>1, <2>2
<1>4. CASE User \/ (\E c \in Convs : Shows(c)) \/ UNCHANGED vars
  BY <1>1, <1>4, QuietResume
<1> QED BY <1>2, <1>3, <1>4 DEF Next

LEMMA ResumesAlways == Spec => [](\A k \in Runs : Resumes(k))
<1> DEFINE I == \A k \in Runs : Resumes(k)
<1>1. Init => I
  <2> SUFFICES ASSUME Init, NEW k \in Runs PROVE Resumes(k)
    OBVIOUS
  <2>1. down[k] = <<>> /\ queue[k] = <<>> /\ signals[k] = {} /\ sent[k] = 0 /\ server[k] = "off"
    BY DEF Init
  <2>2. 1 .. Len(down[k]) = {} /\ 1 .. Len(queue[k]) = {} /\ 1 .. sent[k] = {}
    BY <2>1
  <2>3. Paced(k, sent[k], Written(k), sub = k, server[k], signals[k], queue[k], down[k])
    BY <2>1, <2>2 DEF Paced, Unasked
  <2> QED BY <2>1, <2>3 DEF Resumes
<1>2. AnswersInv /\ AnswersInv' /\ I /\ [Next]_vars => I'
  BY ResumesStep
<1> QED BY <1>1, <1>2, AnswersAlways, PTL DEF Spec

-----------------------------------------------------------------------------
(* The theorems *)

\* The types of the state, whatever the user does and whatever fails: in particular the
\* subscription is never that of a run but the last one started, and no task of the queue is
\* tried more than Attempts times (chat.service.ts:284-289, 517-534).
THEOREM TypeCorrect == Spec => []TypeOK
<1>1. AnswersInv => TypeOK
  <2> SUFFICES ASSUME AnswersInv PROVE TypeOK
    OBVIOUS
  <2>1. Typed
    BY DEF AnswersInv
  <2>2. /\ {here} \cup {run[k].conv : k \in Runs} \cup {run[k].works : k \in Runs}
             \cup {run[k].saves : k \in Runs} \subseteq 0 .. created
        /\ created \in 0 .. MaxConvs
    <3>1. /\ here \in 0 .. created /\ created \in 1 .. MaxConvs
          /\ \A k \in Runs : Within(run[k], created)
      BY <2>1 DEF Typed
    <3>2. \A k \in Runs : /\ run[k].conv \in 0 .. created /\ run[k].works \in 0 .. created
                          /\ run[k].saves \in 0 .. created
      BY <3>1 DEF Within
    <3>3. created \in 0 .. MaxConvs
      BY <3>1, BoundsTyped
    <3> QED BY <3>1, <3>2, <3>3
  <2>3. \A k \in Runs : \A i \in DOMAIN queue[k] : queue[k][i].do \in {"save", "compress", "finish"}
    <3>1. ASSUME NEW k \in Runs, NEW i \in DOMAIN queue[k] PROVE queue[k][i] \in TaskSet
      <4>1. queue[k] \in Seq(TaskSet)
        BY <2>1 DEF Typed
      <4> QED BY <3>1, <4>1
    <3> QED BY <3>1 DEF TaskSet
  <2>4. \A k \in Runs : \A i \in DOMAIN down[k] : down[k][i].type \in EventTypes
    <3>1. ASSUME NEW k \in Runs, NEW i \in DOMAIN down[k] PROVE down[k][i] \in EventSet
      <4>1. down[k] \in Seq(EventSet)
        BY <2>1 DEF Typed
      <4> QED BY <3>1, <4>1
    <3> QED BY <3>1 DEF EventSet
  <2> QED BY <2>1, <2>2, <2>3, <2>4 DEF Typed, TypeOK
<1> QED BY <1>1, AnswersAlways, PTL

\* What a run says is stored in the conversation it works on, for any number of runs,
\* conversations and interruptions (chat.service.ts:498-501, 329-348, 284-289).
THEOREM AnswersAreHome == Spec => []AnswersStay
<1>1. AnswersInv => AnswersStay
  BY DEF AnswersInv
<1> QED BY <1>1, AnswersAlways, PTL

\* Each subscription stores the messages of a run in the order of the events and each of
\* them once, for any number of messages, attempts, failures and lost answers
\* (chat.service.ts:517-534).
THEOREM SavesInOrder == Spec => []StoredInOrder
<1>1. (\A k \in Runs : Sends(k) /\ InFlow(k)) /\ Typed => StoredInOrder
  <2> SUFFICES ASSUME \A k \in Runs : InFlow(k), Typed PROVE StoredInOrder
    OBVIOUS
  <2>1. \A s \in Runs : DOMAIN db[s] = 1 .. Len(db[s])
    BY DEF Typed
  <2> QED BY <2>1 DEF InFlow, Flow, StoredInOrder
<1>2. AnswersInv => Typed
  BY DEF AnswersInv
<1> QED BY <1>1, <1>2, AnswersAlways, OrderAlways, PTL

\* A suspended run goes on only when everything it has sent is stored, for any number of
\* runs, messages and failed requests, unless a save was given up or one run overtook
\* another (chat.service.ts:843-858).
THEOREM ResumesOnlyAfterSaves == Spec => ResumesAfterSaves
<1> DEFINE Goes(k) ==
             /\ server[k] = "suspended" /\ server'[k] = "running"
             /\ "gaveup" \notin lapses[k] /\ \A j \in Runs : "overtaken" \notin lapses[j]
           Kept(k) == \A n \in 1 .. sent[k] : \E c \in Convs : Stored(Message(c, k, n))
<1>1. AnswersInv /\ (\A k \in Runs : Resumes(k)) /\ [Next]_vars => [\A k \in Runs : Goes(k) => Kept(k)]_vars
  <2> SUFFICES ASSUME AnswersInv, [Next]_vars, NEW k \in Runs, Resumes(k), Goes(k),
                      NEW n \in 1 .. sent[k]
               PROVE  \E c \in Convs : Stored(Message(c, k, n))
    OBVIOUS
  <2>1. Typed /\ Connected(k)
    BY DEF AnswersInv
  <2>2. Tracked(k)
    BY DEF Tracked
  <2>3. "compression_done" \in signals[k]
    <3>1. server' # server
      OBVIOUS
    <3>2. ServerReads(k) => "compression_done" \in signals[k]
      BY <2>1 DEF ServerReads, Typed
    <3>3. ASSUME NEW j \in Runs, Server(j) PROVE ServerReads(k)
      <4>1. CASE j = k
        BY <2>1, <3>3, <4>1 DEF Server, ServerWorks, StageFails, Breaks, Typed
      <4>2. CASE j # k
        <5>1. server'[k] = server[k]
          BY <2>1, <3>3, <4>2 DEF Server, ServerWorks, StageFails, ServerReads, Breaks, Typed
        <5> QED BY <5>1
      <4> QED BY <4>1, <4>2
    <3>4. ASSUME NEW j \in Runs, Client(j) PROVE FALSE
      <4>1. Opens(j)
        BY <3>1, <3>4 DEF Client, Created, Posted, PostFails, RagAnswers, ConnectFails, Receives,
                          TaskSucceeds, TaskFails, backend
      <4>2. j = k
        BY <2>1, <4>1 DEF Opens, Typed
      <4>3. socket[k] = "connecting"
        BY <4>1, <4>2 DEF Opens
      <4> QED BY <2>1, <4>3 DEF Connected
    <3>5. ~User /\ ~(\E c \in Convs : Shows(c)) /\ ~UNCHANGED vars
      BY <3>1 DEF User, Starts, AbortAgent, StartNewChat, SelectConversation, Shows, vars, backend
    <3> QED BY <3>2, <3>3, <3>4, <3>5 DEF Next
  <2>4. Paced(k, sent[k], Written(k), sub = k, server[k], signals[k], queue[k], down[k])
    BY <2>2 DEF Resumes
  <2>5. n \in Written(k)
    BY <2>3, <2>4 DEF Paced
  <2>6. PICK s \in Runs : \E i \in 1 .. Len(db[s]) : db[s][i].run = k /\ db[s][i].n = n
    BY <2>5 DEF Written
  <2>7. PICK i \in 1 .. Len(db[s]) : db[s][i].run = k /\ db[s][i].n = n
    BY <2>6
  <2>8. db[s][i] \in Messages /\ i \in DOMAIN db[s]
    <3>1. db[s] \in Seq(Messages)
      BY <2>1 DEF Typed
    <3> QED BY <3>1
  <2>9. db[s][i].conv \in Convs /\ db[s][i] = Message(db[s][i].conv, k, n)
    BY <2>7, <2>8 DEF Messages, Message
  <2>10. Stored(Message(db[s][i].conv, k, n))
    BY <2>8, <2>9 DEF Stored
  <2> QED BY <2>9, <2>10
<1>2. [][\A k \in Runs : Goes(k) => Kept(k)]_vars => ResumesAfterSaves
  BY PTL DEF ResumesAfterSaves
<1> QED BY <1>1, <1>2, AnswersAlways, ResumesAlways, PTL DEF Spec
=============================================================================
