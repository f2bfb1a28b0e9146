----------------------------- MODULE ChatClient -----------------------------
(***************************************************************************)
(* The browser's side of agent runs: the socket of each run, the one       *)
(* subscription to the stream all sockets share, the queue of saves and    *)
(* compressions of each subscription, and the user who goes elsewhere in   *)
(* the middle (chat-client/src/services/chat.service.ts, agent.service.ts) *)
(*                                                                         *)
(* Nothing but the looks of the send button tells the user that a run is   *)
(* going on: Enter, editing and opening a conversation are always allowed. *)
(* The server is what AgentRelay makes of it, seen from outside.           *)
(***************************************************************************)
EXTENDS Naturals, Sequences, FiniteSets

CONSTANTS
  MaxRuns,       \* bound: runs and rag commands the user starts
  MaxConvs,      \* bound: conversations created
  MaxMessages,   \* bound: messages (turns, tool results) of each run
  MaxPauses,     \* bound: compressions each run waits for
  MaxUpsets,     \* bound: interruptions by the user and failures of requests and sockets
  Failing,       \* bound: runs of which a stage may fail
  Attempts       \* MAX_ATTEMPTS of the save queue

Runs == 1 .. MaxRuns

ASSUME BoundsAssumption == /\ {MaxRuns, MaxUpsets} \subseteq Nat
                           /\ {MaxConvs, Attempts} \subseteq Nat \ {0}
                           /\ {MaxMessages, MaxPauses} \subseteq [Runs -> Nat]
ASSUME FailingAssumption == Failing \subseteq Runs

Convs == 1 .. MaxConvs
NoRun == 0
NoConv == 0          \* undefined: a chat that is not saved yet

VARIABLES
  here,      \* _conversation and _conversationId: what the user looks at
  opening,   \* conversations whose messages are being fetched, to be shown
  created,   \* conversations there are
  upsets,    \* interruptions and failures so far
  run,       \* what each run is, and the conversations it belongs to
  socket,    \* readyState of the run's WebSocket, as its client sees it
  cur,       \* this.ws: the run whose socket the client sends on
  running,   \* _running
  sub,       \* _agentEventSub: the run whose subscription gets the events
  queue,     \* saveQueue of each subscription
  tries,     \* failed attempts of the task at its head
  server,    \* the server's side of the run
  signals,   \* what the client sent and the server has not read
  down,      \* what the server sent and the client has not handled
  sent,      \* messages the run has produced
  pauses,    \* compressions it has waited for
  db,        \* the messages stored through each run's subscription, in their order
  lapses     \* history: what went wrong between the client and the run

client == <<here, opening, created, run, socket, cur, running, sub>>
tasks == <<queue, tries>>
backend == <<server, signals, down, sent, pauses>>
vars == <<client, tasks, backend, db, lapses, upsets>>

\* moved: the user was elsewhere when the run began; overtaken: another run was started
\* before it ended and its queue was empty; struck: an event of another socket ended its
\* subscription or cleared the running flag; muted: the error of one of its own stages cleared
\* that flag; early: the user left before there was a socket to send the abort on; gaveup: a
\* task failed for good.
Lapses == {"moved", "overtaken", "struck", "muted", "early", "gaveup"}

Message(c, k, n) == [conv |-> c, run |-> k, n |-> n]
Messages == [conv : Convs, run : Runs, n : Nat]
Event(type, n) == [type |-> type, n |-> n]
\* "over" is done or error: the two differ in what is displayed and in the compression of
\* the whole conversation that follows a done.  "stage" is an error with a _pipeline_stage.
EventTypes == {"message", "compressing", "over", "stopped", "stage", "close"}
Save(k, n) == [do |-> "save", run |-> k, n |-> n]
Task(do) == [do |-> do, run |-> NoRun, n |-> 0]

Init ==
  /\ created = 1 /\ here = 1 /\ opening = {} /\ upsets = 0
  /\ run = [k \in Runs |-> [how |-> "none", phase |-> "unused", conv |-> NoConv,
                            works |-> NoConv, saves |-> NoConv]]
  /\ socket = [k \in Runs |-> "none"]
  /\ cur = NoRun /\ running = FALSE /\ sub = NoRun
  /\ queue = [k \in Runs |-> <<>>] /\ tries = [k \in Runs |-> 0]
  /\ server = [k \in Runs |-> "off"] /\ signals = [k \in Runs |-> {}]
  /\ down = [k \in Runs |-> <<>>] /\ sent = [k \in Runs |-> 0]
  /\ pauses = [k \in Runs |-> 0]
  /\ db = [s \in Runs |-> <<>>]
  /\ lapses = [k \in Runs |-> {}]

-----------------------------------------------------------------------------
(* Starting a run *)

Upset == upsets < MaxUpsets /\ upsets' = upsets + 1

Begun(k) == run[k].phase \in {"posting", "asking"}

Lapse(ks, why) == [k \in Runs |-> IF k \in ks THEN lapses[k] \cup {why} ELSE lapses[k]]

\* The conversation on display changes: those that have not begun yet note it.
MovesTo(c, but) ==
  /\ here' = c
  /\ lapses' = Lapse({k \in Runs \ {but} : Begun(k) /\ c # here}, "moved")

\* startAgentRun, runRagCommand and editUserMessage up to the first request.  An edit
\* keeps the conversation it has seen; the others ask again when the request is answered.
Starts(how) ==
  \E k \in Runs :
    /\ run[k].phase = "unused" /\ \A j \in 1 .. k - 1 : run[j].phase # "unused"
    /\ how = "edit" => here # NoConv
    /\ run' = [run EXCEPT ![k] =
         [how |-> how, phase |-> IF here = NoConv THEN "creating" ELSE "posting",
          conv |-> here, works |-> here, saves |-> NoConv]]
    /\ UNCHANGED <<here, opening, created, upsets, socket, cur, running, sub, tasks, backend, db, lapses>>

\* _createConversation: the new conversation is the current one from here on.
Created(k) ==
  /\ run[k].phase = "creating" /\ created < MaxConvs
  /\ created' = created + 1
  /\ run' = [run EXCEPT ![k].phase = "posting", ![k].conv = created']
  /\ MovesTo(created', k)
  /\ UNCHANGED <<opening, upsets, socket, cur, running, sub, tasks, backend, db>>

\* _subscribeToAgentEvents and AgentService._openSocket, in one go.
Subscribes(k, works) ==
  /\ run' = [run EXCEPT ![k].how = "none", ![k].phase = "started",
                         ![k].works = works, ![k].saves = here]
  /\ sub' = k /\ cur' = k /\ running' = TRUE
  /\ socket' = [socket EXCEPT ![k] = "connecting"]
  /\ lapses' = Lapse({j \in Runs \ {k} : run[j].phase = "started" /\ (socket[j] # "closed" \/ queue[j] # <<>>)},
                     "overtaken")

Stored(m) == \E s \in Runs : \E i \in DOMAIN db[s] : db[s][i] = m

\* Mutation of Store: a repeated request is stored again.
StoreAgain(s, m) == [db EXCEPT ![s] = Append(@, m)]

\* post_message: the answer to a known id is the stored message.
Store(s, m) == IF Stored(m) THEN db ELSE [db EXCEPT ![s] = Append(@, m)]

\* The user's message has been stored.
Posted(k) ==
  /\ run[k].phase = "posting"
  /\ db' = Store(k, Message(run[k].conv, k, 0))
  /\ IF run[k].how = "rag"
     THEN /\ run' = [run EXCEPT ![k].phase = "asking"]
          /\ UNCHANGED <<socket, cur, running, sub, lapses>>
     ELSE Subscribes(k, IF run[k].how = "edit" THEN run[k].works ELSE here)
  /\ UNCHANGED <<here, opening, created, upsets, tasks, backend>>

\* Nothing catches the failure of these requests: the run does not start.
PostFails(k) ==
  /\ run[k].phase \in {"creating", "posting"}
  /\ Upset
  /\ run' = [run EXCEPT ![k].phase = "over"]
  /\ UNCHANGED <<here, opening, created, socket, cur, running, sub, tasks, backend, db, lapses>>

\* _postRagResultMessage: in the conversation on display, if there is one.
RagAnswers(k) ==
  /\ run[k].phase = "asking"
  /\ run' = [run EXCEPT ![k].phase = "over", ![k].saves = here]
  /\ db' = IF here = NoConv THEN db ELSE Store(k, Message(here, k, 1))
  /\ UNCHANGED <<here, opening, created, upsets, socket, cur, running, sub, tasks, backend, lapses>>

\* onopen sends the request on this.ws, which may be a newer socket by then: the
\* server then never gets it.
Opens(k) ==
  /\ socket[k] = "connecting"
  /\ socket' = [socket EXCEPT ![k] = "open"]
  /\ server' = [server EXCEPT ![k] = IF cur = k THEN "running" ELSE "off"]
  /\ UNCHANGED <<here, opening, created, upsets, run, cur, running, sub, tasks, signals, down, sent, pauses,
                 db, lapses>>

\* The connection is refused: onerror, then onclose.
ConnectFails(k) ==
  /\ socket[k] = "connecting"
  /\ Upset
  /\ socket' = [socket EXCEPT ![k] = "closed"]
  /\ down' = [down EXCEPT ![k] = <<Event("over", 0), Event("close", 0)>>]
  /\ UNCHANGED <<here, opening, created, run, cur, running, sub, tasks, server, signals, sent, pauses,
                 db, lapses>>

-----------------------------------------------------------------------------
(* The user goes elsewhere *)

CanSend == cur # NoRun /\ socket[cur] = "open"
Signal(sig) == IF CanSend THEN [signals EXCEPT ![cur] = @ \cup {sig}] ELSE signals

AbortAgent ==
  /\ CanSend /\ running
  /\ Upset
  /\ signals' = Signal("abort")
  /\ UNCHANGED <<client, tasks, server, down, sent, pauses, db, lapses>>

\* Mutation of StopAgentAndClearSub: the run is left alone.
ClearSub ==
  /\ UNCHANGED signals
  /\ sub' = NoRun

\* _stopAgentAndClearSub
StopAgentAndClearSub ==
  /\ signals' = IF running THEN Signal("abort") ELSE signals
  /\ sub' = NoRun

LeftEarly == IF running /\ ~CanSend /\ cur # NoRun THEN {cur} ELSE {}

\* selectConversation: shown once its messages are there.
SelectConversation(c) ==
  /\ c <= created /\ c \notin opening
  /\ Upset
  /\ StopAgentAndClearSub
  /\ opening' = opening \cup {c}
  /\ lapses' = Lapse(LeftEarly, "early")
  /\ UNCHANGED <<here, created, run, socket, cur, running, tasks, server, down, sent, pauses, db>>

Shows(c) ==
  /\ c \in opening
  /\ opening' = opening \ {c}
  /\ MovesTo(c, NoRun)
  /\ UNCHANGED <<created, run, socket, cur, running, sub, tasks, backend, db, upsets>>

StartNewChat ==
  /\ here # NoConv
  /\ Upset
  /\ StopAgentAndClearSub
  /\ here' = NoConv
  /\ lapses' = [k \in Runs |-> lapses[k] \cup (IF Begun(k) THEN {"moved"} ELSE {})
                                         \cup (IF k \in LeftEarly THEN {"early"} ELSE {})]
  /\ UNCHANGED <<opening, created, run, socket, cur, running, tasks, server, down, sent, pauses, db>>

-----------------------------------------------------------------------------
(* The server, from outside *)

Emits(k, events) == down' = [down EXCEPT ![k] = @ \o events]

ServerWorks(k) ==
  /\ server[k] = "running"
  /\ \/ /\ sent[k] < MaxMessages[k]
        /\ sent' = [sent EXCEPT ![k] = @ + 1]
        /\ Emits(k, <<Event("message", sent'[k])>>)
        /\ UNCHANGED <<server, pauses>>
     \/ /\ pauses[k] < MaxPauses[k]
        /\ pauses' = [pauses EXCEPT ![k] = @ + 1]
        /\ server' = [server EXCEPT ![k] = "suspended"]
        /\ Emits(k, <<Event("compressing", 0)>>)
        /\ UNCHANGED sent
     \/ /\ server' = [server EXCEPT ![k] = "ended"]
        /\ Emits(k, <<Event("over", 0), Event("close", 0)>>)
        /\ UNCHANGED <<sent, pauses>>
  /\ UNCHANGED <<client, tasks, signals, db, lapses, upsets>>

\* A stage of a workflow or of a tool fails, to be tried again or done without: its error,
\* tagged with its name, is no end of the run.
StageFails(k) ==
  /\ server[k] = "running" /\ k \in Failing
  /\ upsets < MaxUpsets /\ "muted" \notin lapses[k]   \* bound: the user can still leave
  /\ \A i \in DOMAIN down[k] : down[k][i].type # "stage"
  /\ Emits(k, <<Event("stage", 0)>>)
  /\ UNCHANGED <<client, tasks, server, signals, sent, pauses, db, lapses, upsets>>

\* An aborted run answers with an error, or stopped when it is a workflow.  A
\* compression_done that nothing waits for is cleared by the next wait.
ServerReads(k) ==
  \E sig \in signals[k] :
    /\ signals' = [signals EXCEPT ![k] = @ \ {sig}]
    /\ IF server[k] \notin {"running", "suspended"} THEN UNCHANGED <<server, down>>
       ELSE IF sig = "abort"
       THEN /\ server' = [server EXCEPT ![k] = "ended"]
            /\ \E how \in {"over", "stopped"} : Emits(k, <<Event(how, 0), Event("close", 0)>>)
       ELSE /\ server' = [server EXCEPT ![k] = "running"]
            /\ UNCHANGED down
    /\ UNCHANGED <<client, tasks, sent, pauses, db, lapses, upsets>>

\* The connection breaks: what was under way is lost, the server cancels the run;
\* onerror and onclose report it.
Breaks(k) ==
  /\ server[k] \in {"running", "suspended"}
  /\ Upset
  /\ server' = [server EXCEPT ![k] = "ended"]
  /\ down' = [down EXCEPT ![k] = <<Event("over", 0), Event("close", 0)>>]
  /\ UNCHANGED <<client, tasks, signals, sent, pauses, db, lapses>>

-----------------------------------------------------------------------------
(* Events *)

\* Mutation of Enqueue: what is enqueued does not wait for what was before.
EnqueueInFront(ts) == IF sub = NoRun THEN queue ELSE [queue EXCEPT ![sub] = ts \o @]

Enqueue(ts) == IF sub = NoRun THEN queue ELSE [queue EXCEPT ![sub] = @ \o ts]

\* The running flag and the subscription are those of the last run started.
Strikes(k) == lapses' = Lapse({cur} \ {k}, "struck")

\* done and error end the subscription, whichever socket they came from; what is left to do
\* is to compress the conversation on display and to show it anew.
Finishes(k) ==
  /\ queue' = Enqueue(<<Task("finish")>>)
  /\ sub' = NoRun /\ running' = FALSE
  /\ Strikes(k)

\* onmessage and onclose of socket k, and the subscription that gets the event.
Receives(k) ==
  /\ down[k] # <<>>
  /\ down' = [down EXCEPT ![k] = Tail(@)]
  /\ LET e == Head(down[k]) IN
     CASE e.type = "message" ->
            /\ queue' = Enqueue(<<Save(k, e.n)>>)
            /\ UNCHANGED <<sub, running, socket, lapses>>
       [] e.type = "compressing" ->
            /\ queue' = IF here = NoConv THEN queue ELSE Enqueue(<<Task("compress")>>)
            /\ UNCHANGED <<sub, running, socket, lapses>>
       [] e.type = "over" -> Finishes(k) /\ UNCHANGED socket
       [] e.type = "stopped" ->
            running' = FALSE /\ Strikes(k) /\ UNCHANGED <<queue, sub, socket>>
       [] e.type = "stage" ->   \* the subscription ignores it, agentSvc does not
            /\ running' = FALSE
            /\ IF k = cur THEN lapses' = Lapse({k}, "muted") ELSE Strikes(k)
            /\ UNCHANGED <<queue, sub, socket>>
       [] e.type = "close" ->
            /\ socket' = [socket EXCEPT ![k] = "closed"]
            /\ IF running THEN Finishes(k)
               ELSE UNCHANGED <<queue, sub, running, lapses>>
  /\ UNCHANGED <<here, opening, created, upsets, run, cur, tries, server, signals, sent, pauses, db>>

-----------------------------------------------------------------------------
(* The queue of a subscription: one task at a time, each tried Attempts times *)

Dequeue(s) == [queue EXCEPT ![s] = Tail(@)]

\* Mutation of SavesIn: where the user is by then.
SavesHere(s) == here

\* conv.id: the conversation when the subscription was made.
SavesIn(s) == run[s].saves

\* Mutation of LastAttempt: one attempt more.
OneAttemptMore(s) == tries[s] = Attempts

LastAttempt(s) == tries[s] + 1 = Attempts

TaskSucceeds(s) ==
  /\ queue[s] # <<>>
  /\ LET t == Head(queue[s]) IN
       /\ t.do = "save" => SavesIn(s) # NoConv
       /\ db' = IF t.do = "save" THEN Store(s, Message(SavesIn(s), t.run, t.n)) ELSE db
       /\ signals' = IF t.do = "compress" THEN Signal("compression_done") ELSE signals
  /\ queue' = Dequeue(s) /\ tries' = [tries EXCEPT ![s] = 0]
  /\ UNCHANGED <<client, server, down, sent, pauses, lapses, upsets>>

\* A failed save may have been stored all the same, and only its answer lost.  After
\* the last attempt the queue goes on with the next task.
TaskFails(s) ==
  /\ queue[s] # <<>>
  /\ IF Head(queue[s]).do = "save" /\ SavesIn(s) = NoConv THEN UNCHANGED upsets ELSE Upset
  /\ LET t == Head(queue[s]) IN
       \/ UNCHANGED db
       \/ /\ t.do = "save" /\ SavesIn(s) # NoConv
          /\ db' = Store(s, Message(SavesIn(s), t.run, t.n))
  /\ IF LastAttempt(s)
     THEN /\ tries' = [tries EXCEPT ![s] = 0] /\ queue' = Dequeue(s)
          /\ lapses' = IF Head(queue[s]).do \in {"save", "compress"}
                       THEN Lapse({s}, "gaveup") ELSE lapses
     ELSE /\ tries' = [tries EXCEPT ![s] = @ + 1]
          /\ UNCHANGED <<queue, lapses>>
  /\ UNCHANGED <<client, backend>>

-----------------------------------------------------------------------------
User ==
  \/ \E how \in {"send", "edit", "rag"} : Starts(how)
  \/ AbortAgent \/ StartNewChat
  \/ \E c \in Convs : SelectConversation(c)

Client(k) ==
  \/ Created(k) \/ Posted(k) \/ PostFails(k) \/ RagAnswers(k) \/ Opens(k)
  \/ ConnectFails(k) \/ Receives(k) \/ TaskSucceeds(k) \/ TaskFails(k)

Server(k) == ServerWorks(k) \/ StageFails(k) \/ ServerReads(k) \/ Breaks(k)

Next == User \/ (\E c \in Convs : Shows(c)) \/ \E k \in Runs : Client(k) \/ Server(k)

Spec == Init /\ [][Next]_vars

\* Requests are answered, one way or the other, messages arrive, and the server reads; the
\* user, the model and the network's failures are free.
Fairness ==
  \A k \in Runs : /\ WF_vars(Receives(k)) /\ WF_vars(ServerReads(k))
                  /\ WF_vars(TaskSucceeds(k) \/ TaskFails(k))

FairSpec == Spec /\ Fairness

-----------------------------------------------------------------------------
(* Properties *)

TypeOK ==
  /\ {here} \cup {run[k].conv : k \in Runs} \cup {run[k].works : k \in Runs}
       \cup {run[k].saves : k \in Runs} \subseteq 0 .. created
  /\ opening \subseteq 1 .. created /\ created \in 0 .. MaxConvs
  /\ socket \in [Runs -> {"none", "connecting", "open", "closed"}]
  /\ {cur, sub} \subseteq Runs \cup {NoRun} /\ sub \in {cur, NoRun} /\ running \in BOOLEAN
  /\ \A k \in Runs : \A i \in DOMAIN queue[k] :
       queue[k][i].do \in {"save", "compress", "finish"}
  /\ tries \in [Runs -> 0 .. Attempts - 1]
  /\ server \in [Runs -> {"off", "running", "suspended", "ended"}]
  /\ \A k \in Runs : \A i \in DOMAIN down[k] : down[k][i].type \in EventTypes
  /\ \A k \in Runs : sent[k] \in 0 .. MaxMessages[k] /\ pauses[k] \in 0 .. MaxPauses[k]
  /\ db \in [Runs -> Seq(Messages)] /\ lapses \in [Runs -> SUBSET Lapses]

\* What a run says is stored in the conversation it works on, wherever the user is when it
\* is stored, unless the user moved while the request that starts it was in flight, or
\* started another run first, whose subscription then gets the events
\* (chat.service.ts:498-501, 329-348, 284-289).
AnswersStay ==
  \A s \in Runs : \A i \in DOMAIN db[s] :
    LET m == db[s][i]  r == run[m.run] IN
      IF m.run # s THEN "overtaken" \in lapses[m.run]
      ELSE "moved" \in lapses[s] \/ (m.conv = r.conv /\ (r.phase = "started" => m.conv = r.works))

\* One subscription stores the messages of a run in the order of the events, each of them
\* once, however many requests fail or lose their answer (chat.service.ts:517-534).
StoredInOrder ==
  \A s \in Runs : \A i, j \in DOMAIN db[s] :
    i < j /\ db[s][i].run = db[s][j].run => db[s][i].n < db[s][j].n

\* A suspended run goes on only when all it has sent is stored, unless a save failed for
\* good or one run overtook another, so that either may be told of the other's compression (chat.service.ts:843-858).
ResumesAfterSaves ==
  [][\A k \in Runs :
       /\ server[k] = "suspended" /\ server'[k] = "running"
       /\ "gaveup" \notin lapses[k] /\ \A j \in Runs : "overtaken" \notin lapses[j]
       => \A n \in 1 .. sent[k] : \E c \in Convs : Stored(Message(c, k, n))]_vars

\* A run that waits for its compression goes on or ends, whatever the user does, unless the
\* client lost track of it in one of the ways listed (chat.service.ts:840-859, 1109-1115).
\* One is to leave a run of which a stage has failed: the stage's error cleared the running
\* flag (agent.service.ts:60-62), and no abort is sent; as long as the user stays, such a
\* run goes on too.
SuspendedRunGoesOn ==
  \A k \in Runs : []<>(\/ server[k] # "suspended"
                      \/ lapses[k] \ {"muted"} # {}
                      \/ ("muted" \in lapses[k] /\ sub # k))
=============================================================================
