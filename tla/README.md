# ai-chat, specified

TLA+ specifications of the parts of ai-chat where the order of things matters: the agent run
behind a websocket, the client that runs it and saves what it says, the isolated stages and the
workflow engine with its persisted run history and its resumption, the message tree with its
compression, the retrieval spaces, and the model server that completions and images share. Each
specification is translated from the code (paths below are relative to `src/`), model-checked with
TLC on small instances, and partly proved with TLAPS for every value of its constants.

    tlc -config AgentRelay_run.cfg MCAgentRelay         check one run
    tlapm AgentRelayProofs.tla                          check the proofs

## 1. The system

ai-chat is a local chat application: an Angular client, a FastAPI backend on one asyncio event
loop, a local model server (llama.cpp), a SQLite database, workflows described in YAML, and
speech, image and retrieval services around them.

| component | state it keeps | operations | talks to |
|---|---|---|---|
| websocket handlers, `backend/routers/ws.py` | the handler, its send, receive and agent tasks | accept, relay events out, read control messages (answers, mode, compression done, abort), cancel and join | client, AgentSession |
| agent session and loop, `backend/agent/agent.py` | `outbound` queue, three dicts of pending futures, compression event, mode; iteration and length flags | emit, request and resolve confirmations, questions and plans, await compression, model turn, tool calls | tools, model backend, handler |
| tools, `backend/agent/tools/` | none of their own; a subagent has a session, a shell a process | one `execute` each | session, file system, database |
| safety rules, `backend/agent/auto_safety.py` | none | judge a tool call: safe, or a reason | model backend |
| isolated stages and the coding pipeline, `backend/agent/pipeline.py` | a session and a loop task per stage | run a stage, forward its events, bridge its confirmations, cancel and join it; plan, chunk, code, compile, fix | caller's session |
| workflow engine, `custom_workflow.py`, `workflow_loader.py`, `workflow_coordinator.py` | slots, loop context, item stack, invocation counters | dispatch stages of seven types, loops with retries, jumps, sub-workflows | stages, recorder |
| run recorder and resumption, `workflow_run_recorder.py`, `workflow_resume.py` | the run's directory: `run.json`, `meta.json`, `attempt_N.json`, `item_result.json` | write as the run goes; find the resume point, rebuild the slots | engine, run view |
| context compression, `backend/agent/compress.py` | flags and summaries on messages, working-memory messages | classify, summarise, synthesise working memory | database, model backend |
| conversation tree, `conv_helpers.py`, `routers/conversations.py`, `routers/tokens.py` | messages with parents, the active message | add, branch, delete, select a branch, count tokens | database |
| retrieval, `backend/rag/`, `routers/rag.py`, `rag_recompute.py` | spaces, sources, chunks | ingest with progress and cancellation, delete, search, recompute | database, embedding model |
| model backends, `backend/llm/`, `imagegen_pipeline.py` | the llama-server process, the GPU it shares with image generation | start, stop, stream, two-phase generation, generate an image | child processes |
| speech, `backend/stt/`, `routers/stt.py`, `system_audio/` | capture thread, buffered frames, one transcription at a time | feed, commit, force a cut, stop | client, event loop |
| client services, `chat-client/src/services/` | the run's socket, the message list, the save queue, the run view, recordings | start, stop, save in order, compress on request, follow or reopen a run | REST and websocket interfaces |
| data-processing scripts, `backend/workflows/*/scripts/` | none | pure functions over files and JSON | coordinator stages |

### What is hard about it

*Concurrency.* Everything in the backend interleaves at `await`. A run has at least four tasks
over one session; a stage or a subagent adds one per level. There are no locks: the code relies on
what happens between two suspensions being atomic, which is what an action is in the modules here.

*Cancellation.* `task.cancel()` makes the task's next resumption raise `CancelledError`, which is
no `Exception`. Every `except`, every `finally` and every awaited child task is a place where it
can be lost, turned into a failure, or leave an orphan.

*Order.* The client persists what it is told, in the order it is told; the server reads the
conversation back from the database after a compression. A result that reaches the client after
the request to compress is lost to the model.

*Answers.* A prompt can be answered twice, late, after an abort, in another mode, or never.

*Persistence.* The run's directory is written step by step and later read as the truth: by the run
view, and by the resumption that decides what to redo.

*Shared resources.* One model server, one GPU, one microphone, one database session per request.

### What makes each component correct

- handlers and session: whatever the client does, the agent task ends with the handler, or is
  cleaning up after its cancellation; what needs an approval has one; results come before
  compression and before the end; the first answer to a prompt counts; after an abort nothing new
  starts.
- stages: no stage outlives its caller; a stage always ends for its caller; its prompts can be
  answered through any number of levels; its errors are the caller's to judge.
- engine and recorder: the record on disk is that of nested stages and has no loose end; a stop
  and a broken condition are final; loops end; an item's result is its own; a resumption leaves
  earlier work alone, is answered, and reuses only what was completed.
- compression: no message leaves the context before a summary in force accounts for it; at most
  one working memory is in force on a branch; a summary replaces the result it summarises.
- conversation tree: the active message exists, whatever overlaps.
- retrieval: a space holds vectors of one model; a source is there with all of its chunks.
- model backends: text is shown once, executed calls are whole and recorded once; the server makes
  room for the image generator and comes back.
- speech: no text is committed twice or lost at a cut; a released microphone stays released.
- client services: saves are applied once, in order and to the conversation they belong to; a run
  that waits for the client is answered.

## 2. The modules

| module | models | checked by |
|---|---|---|
| `AgentRelay` | one agent run: client, handler tasks, session, agent loop, tool calls, subagent | `MCAgentRelay` |
| `StageRunner` | isolated stages, nested to any depth, and their caller behind a websocket | `MCStageRunner` |
| `WorkflowEngine` | a workflow run, its record on disk, its resumption | `MCWorkflowEngine` |
| `RunTree` | abstract: what the record on disk promises its readers | `WorkflowEngine` refines it |
| `ChatClient` | the browser's side of runs: sockets, subscription, save queue, conversations | `MCChatClient` |
| `Conversation` | the message tree under concurrent requests, compression and working memory | `MCConversation` |
| `LiveContext` | the agent's memory against the rows a compression rewrites during the run | `MCLiveContext` |
| `Retrieval` | one retrieval space under ingestions, deletions, recomputations and searches | `MCRetrieval` |
| `Completion` | the turns of an agent at the model server: gate, stream, parse, execute | extended by `ModelServer` |
| `ModelServer` | the llama-server process under those turns and under image tools | `MCModelServer` |
| `AgentRelayProofs`, `StageRunnerProofs`, `WorkflowEngineProofs`, `ChatClientProofs`, `ConversationProofs`, `RetrievalProofs`, `ModelServerProofs` | theorems about these modules | TLAPS |
| `Recursion` | lemmas: least numbers, and functions defined by recursion on a well-founded relation | TLAPS |

`ModelServer` is the composition of `Completion` with the image tools: they share the server, which
a tool ends under a completion in flight. `ChatClient` is the other end of `AgentRelay`: it has the
user, the queue and the conversations that `AgentRelay` abstracts to a client that answers, and the
server that `AgentRelay` details, seen from outside. `Conversation` is what both store into.

### AgentRelay

Code: `routers/ws.py`, and of `agent/agent.py` the session, `run_agent`, `chat_with_tools` and
`_execute_tool_calls`; the tools appear by what they do to the session (`Kinds`): *plain* acts at
once, *guarded* asks first, *ask* is a question or plan, *subagent* runs an agent of its own.

| variables | in the code |
|---|---|
| `outbound`, `pending`, `answer`, `woken`, `mode` | `AgentSession.outbound`, the `_pending_*` dicts and the results of their futures, `_compression_event`, `mode` |
| `pc`, `made`, `kind`, `name`, `left`, `iter`, `lenC`, `why` | where the agent task is suspended, and the locals of its loops; `name[c]` is the `tool_id` of call c |
| `recvPc`, `sendPc`, `mainPc`, `stopReq` | the handler's tasks; `agent_task.cancel()` was called |
| `ws`, `toServer`, `prompts`, `chose`, `twice`, `shown`, `asked`, `told`, `sent` | the connection, and what the client has seen and sent: `chose[c]` is its first answer to the prompt of c, `twice` the ids it has answered again |
| `examined`, `started`, `sub` | calls judged by the safety rules, calls whose tool has acted, the subagent's task |

An action is what a task does from one suspension to the next. `outbound` is unbounded and `emit`
never suspends, so that a prompt and the registration of its future are one step, as are the end
of a turn and the head of the next. The future of a confirmation is registered under a `tool_id`
made of the file's path, the query, the image's prompt or the address of the arguments, so that two
calls can share one (`ToolIds`): `pending` is a map from ids, a new registration replaces the one
before it, and an answer resolves whatever future is registered under its id when it is read. The
client may answer, repeat an answer, set a mode (also one
that does not exist), abort, or leave at any moment, with the tail of its messages lost.

The handler joins the cancelled agent for 5 s. Most suspensions end with the cancellation;
`generate_image` awaits the restart of the model server in its `finally`, for up to 60 s, and then
the handler returns while the agent task is still `"unwinding"` (`AgentCleansUp`, `HandlerReturns`).

Left out: plan mode and the pipeline handler (it relays the same way), the content of messages and
prompts, token counts (any call may overflow the context), isolated stages called from the agent
(their join is in `StageRunner`), and a cleanup that itself raises an `Exception` while a
cancellation unwinds (`os.unlink` of a file that is still open, on Windows), which would swallow the
cancellation. `compression_enabled` is false only in isolated stages, so the paths that end a run
instead of compressing are in `StageRunner`.

### StageRunner

Code: `run_stage` and `_run_stage_loop` of `agent/pipeline.py`, `explore_codebase` (which runs a
stage from within a stage), the finish tools, and the websocket's side of the caller's session.
Level 0 is the caller's task, as in the coding pipeline: it runs stages one after the other, asks
before it runs a compile command, and ends; which stage follows which is left open. The stage at
level l > 0 has a loop task and a session of its own, and the code that forwards its events runs in
the task of level l - 1. A confirmation carries its
future: bridging it is adding it to the parent's dict, and the answer resolves it from there.
`cancel[l]` is a cancellation on its way to the task of level l; `Cancels` hands it to the task
that the cancelled one is waiting for, as asyncio does. Not modelled: modes and safety rules (in
`AgentRelay`), a stage without a limit on its iterations, the subagent tool inside a stage.

### WorkflowEngine and RunTree

Code: `custom_workflow.py` (dispatch, conditions, loops, sub-workflows, respond stages, abort,
`run`, `resume`), `workflow_run_recorder.py` and `workflow_resume.py`. A workflow is a constant: a
record for every stage, nested as in the document that defines it. `frames` is the Python call stack
(a frame per stage list or loop), `slots` the registries, one per running sub-workflow; a slot holds
the stage instance that produced the value, which is what the properties tell apart. An address is a
stage with the item numbers of the loops around it. `status`, `seen`, `collected` and `run` are the
files of the run's directory, and change one write at a time.

LLM, agent and coordinator stages are one type, *leaf*: they suspend, then return, fail, or are
cancelled. A condition is any outcome that its slot allows: it cannot be evaluated over an
undefined slot, and a defined one may say either. A branch jumps within its own list; where its
target is not in that list, the list raises behind a branch that is done (inside a loop the target
is not even looked at). A resumption picks any node the user can select,
finds the resume point, rebuilds the slots from the record and enters the stages on the way down;
`pc = "dead"` is a task that raised before the `try` that reports errors.

`RunTree` is the abstract specification: stages start within the stages around them, only the
innermost running one ends, at every moment the running ones are a stage and those around it.
`RecordIsTree` states that `WorkflowEngine` implements it, with the statuses on disk as `record`.

Left out: transcripts in attempt files, templates, what a coordinator action computes, the mode a
workflow sets and restores, inputs seeded into a sub-workflow, the slots that a loop itself sets for
its stages (`item_var`, `on_retry`). A crash of the server needs no
action of its own: invariants of the files hold between any two writes.

### ChatClient

Code: `chat.service.ts` and `agent.service.ts` of the client. A run has a socket, and a
subscription with a queue of its own, into which every event that must be stored or answered puts a
task; the tasks of a queue run one at a time and are tried four times (`Attempts`) before the next.
All sockets feed one stream and only the last subscription listens to it, so that events of an old
socket reach the queue of a newer run.

| variables | in the code |
|---|---|
| `here`, `opening`, `created` | `_conversation`, the requests of `selectConversation`, conversations there are |
| `run` | what `startAgentRun`, `editUserMessage` and `runRagCommand` keep across their awaits |
| `socket`, `cur`, `running`, `sub` | the sockets, `AgentService.ws` and `agentRunning`, `_agentEventSub` |
| `queue`, `tries` | `saveQueue` of each subscription and the attempts of its first task |
| `server`, `signals`, `down`, `sent`, `pauses` | the run on the server and the two directions of its socket |
| `db` | the stored messages, by run, in the order they arrived |
| `lapses`, `upsets` | history: what went wrong for a run; bound of interruptions and failures |

The properties except what the code does not guard against and the client can meet: the user moves
while the request that starts a run is in flight (its answers go where the user is by then), starts
another run over it (nothing prevents it: Enter, editing and opening a conversation are not gated
by `busy`), or leaves before there is a socket to send the abort on.

Events of a nested stage carry `_pipeline_stage`. The subscription does not end on them, but
`agent.service.ts:60-62` clears `agentRunning` on any error, tagged or not, and it is this flag that
decides whether leaving sends an abort (`chat.service.ts:1109`). A run in `Failing` may have a stage
that fails (`StageFails`); from then on it is *muted*: leaving it abandons it without an abort.

Left out: streaming text, events of stages other than their errors, settings, mode changes, resumed
workflow runs.

### Conversation

Code: `routers/conversations.py`, `routers/tokens.py`, `conv_helpers.py`, and `agent/compress.py`.
A request is a database session: it reads the conversation (`req[r].rows`), computes with what it
read, flushes under SQLite's write lock (`lock`, `draft`), and commits (`db`) or is rolled back.
Requests that await a model in between hold the lock or outdated rows for as long. A row has a
role, a parent, a reason for its exclusion and a summary; `account[w]` is what the text of memory w
goes back to: all that its writer was given, through the memory it folded in, or nothing if the
model's answer could not be parsed and the stored memory is `{}` (`Told`, `compress.py:1192-1199`).

What can leave a message out of the context is modelled in full: the labels of the classifier, the
tags of the second pass, the working memory with the one before it folded in, superseded reads
marked by token counts and run starts, edits, deletions and navigation. What the model is told and
answers is free. `cut` notes that an overlap left a message without its parent: the properties of
memories hold until then. `ContextIsComplete` is about any tree, forked or not, from which nothing
was deleted: what is out of the context is in a memory in force *somewhere in the tree*. It does not
say that the active branch holds that memory, because the code does not see to it: after an edit
above the memory, or a save or a second compression that overlapped the request that wrote it, the
memory is on a branch of its own while what it covers stays excluded everywhere. Empty memories are
named (`Blank`, `Forgotten`): what they cover is lost, and the properties say so.

### LiveContext

Code: `apply_db_compressions` and what surrounds it (`routers/ws.py`, `agent/agent.py`). `live` is
the list of results the agent works with, `rows` what the client stored of it; a compression
rewrites the rows in a session of its own, and the run's session, which still holds the rows it
loaded (`known`), looks them up and patches `live` by call id. Abstracted: everything but tool
results and the identity and kind of their content.

### Retrieval

Code: `rag/ingestion.py`, `rag/store.py`, `routers/rag.py`, `rag_recompute.py`. A job is an
ingestion of a path or of a text, a recomputation (another process) or a search. As in
`Conversation`, `db` is committed, `draft` is flushed by the holder of `lock`. A chunk keeps who
wrote it, for which text and with which model, so that a mixture shows. A job can be abandoned at
any await: cancelled over the websocket, disconnected, failed, or out of the busy timeout. Not
modelled: cutting a text into chunks, vectors and scores, the progress display.

### Completion and ModelServer

Code: `llm/llama_server.py`, `llm/base.py`, `imagegen_pipeline.py`, the image tool, and what
`agent/agent.py` and the recorder make of the events. `Completion` follows one turn: the request,
the gate (thinking is streamed until its end, then prose and calls), the splitter of the live
stream, the parse at its end, the plain stream and the forced call, and the calls the agent then
executes; `transcript` is the folded activity of the run. The parse may raise on a whole call
(`_cast_tool_call_arguments`), and calls recovered from thinking have ids of a series of their own
(`Recovered`). The plain stream has one call at most, with the id `tc-0` that every turn repeats. Text is a sequence of four symbols, which
is what the splitter and the parser tell apart, cut into chunks anywhere.

`ModelServer` adds the process: image tools end it, run `sd-cli` and start it again; it can die, and
every tool can be aborted at its awaits, also more than once. `stop()` terminates the process and
waits until nothing answers, but goes on after 10 s with a server that still does, and returns at
once where it may not terminate it (`AccessDenied`): `ending` is a process that was terminated and
is still there, and `Terminated`, its end, an event of its own that may come at any later time.
`shared` names the tools that have run while another one did, or that `stop()` let go on beside a
server; `lost` is a server that is down for a reason the tools cannot know: it ended by itself, or
after every `stop()` had given it up, or an abort came, with the server down, before the `try` or
inside the restart. Left out: the agent's own recovery of calls from thinking (`agent.py:611`),
`ThinkingParser`, the Ollama backend.

## 3. The runs

| run | asks | bounds, and why they are enough |
|---|---|---|
| `relay_run` | one agent run: safety, and does it end | 2 tool calls of any kind, in one turn or two; threshold 2, so that a turn with a length compression can pass it; 1 extra message (abort, mode change or repeated answer); 3 modes. Two calls are needed for one to wait while another has acted, and for two to share a `tool_id`; further calls only repeat the loop, from which the proofs take over. RELAYSTATES states |
| `relay_suberror` | is only a top-level error terminal (it is not) | one subagent call |
| `engine_run` | the record, loops, aborts, one resumption | a workflow with every stage type: a leaf, a list loop with a sub-workflow inside and 2 items, a branch that jumps or goes on, a loop without a list with 2 attempts and `abort_workflow`, a respond stage; every outcome of every condition (the stage with the retries is gated by the result of the sub-workflow, which may be missing); in the sub-workflow a branch with one target only, before a loop over an empty list; a second resumption would start from the same kinds of records. 74 k states |
| `engine_respond`, `engine_resume`, `engine_reuse` | three claims the code does not keep | as above |
| `stage_run` | isolated stages | two levels, 2 turns of up to 2 calls, 2 confirmations in all, of the stage or of its caller, one stage: enough for a nested stage to be abandoned while it runs, has ended, or is being joined. The deepest level never asks here; that a prompt is answered through any number of levels is the theorem `AnswersArrive`. 197 k states |
| `conv_tree` | the message tree and its memories | 4 requests, two in flight, on a branch with a superseded read and an untouchable result: enough for two compressions to overlap each other or follow each other with an edit or a deletion in between; a fifth request was explored from a shorter start. 1.93 M states |
| `midrun_patch` | does a summary reach its own result (it does not) | 3 results, 2 per turn |
| `chat_runs` | the client over two runs | 2 runs, 2 conversations, 2 attempts, 1 interruption or failure; the first run says 1 message and has no pause, the second says 2, pauses for 1 compression, and may have a stage fail: enough for two saves to share a queue and a stream, for an event of the first run to reach the queue of the second, for a save to be repeated, and for a compression to be asked for while the user leaves. 963 k states; the proofs take over for what is stored |
| `rag_jobs` | one retrieval space | 3 jobs, 2 files, texts of 2 windows and 1, 2 models: two ingestions of a path and a recomputation, or a deletion, overlap in every order. 673 k states; the proofs take over |
| `model_server` | the stream and the server | responses of up to 5 pieces in chunks of 1 or 2, so that the tag of a call is cut, follows prose, and a call is left unfinished or followed by another tag; 2 turns, so that ids repeat; 2 image tools, so that they overlap; a `stop()` that waits, gives up or is refused. 4.9 M states |

What the passing runs show:

- `relay_run`: `GuardedWereAllowed` (a guarded tool acts only if the first answer to its own prompt
  approved it or the rules judged it safe, whatever is repeated or switched meanwhile and whichever
  calls share an id), `FirstAnswerCounts` (the answer a call gets is the first one to its own
  prompt). Both name the one way in which the code fails to give that (`Borrowed`): an answer sent
  *again* under an id that a later call shares decides the later call.
  `ResultsBeforeCompression`, `DoneAfterResults`, `CompressionKeepsUp` (the threshold is never
  overrun, even when a length compression postpones it by a turn), `NoHeadlessAgent` (when the
  handler has returned the agent task is over, or cancelled and in the cleanup of a tool),
  `NoToolAfterAbort`, and
  `RunEnds`: with a client that answers, and whether or not it aborts, leaves or the model fails,
  the handler returns and the agent task is over, its cleanup included. Excepted is a subagent that asks for a compression of a client that stays:
  the tool does not forward the request, so the run waits until the client aborts or leaves. That
  is a limit of the code, recorded in the property and not hidden by the fairness.
- `engine_run`: `NothingLeftRunning`, `ItemResultsAreOwn`, `StopIsRecorded`, `AbortIsFinal`,
  `EarlierWorkKept`, `RecordIsTree` (a refinement), `EveryRunEnds`.
- `stage_run`: `ConfirmsArrive`, `NoOrphanStage`, `StageErrorsAreNotFinal`, `StagesEnd`,
  `AbortEndsAll`.

- `conv_tree`: `OneMemoryInForce`, `MemoryAccountsForBranch` (up to what an empty memory has lost),
  `ContextIsComplete` (in any tree without deletions, a message that left the context is in a memory
  in force somewhere in the tree, is an outdated read, or was covered by an empty memory),
  `ActiveIsKept` (only deletions and navigation that overlap others can leave the conversation without its active
  message).
- `chat_runs`: `AnswersStay`, `StoredInOrder`, `ResumesAfterSaves`, `SuspendedRunGoesOn` (a suspended
  run goes on or ends, unless the client lost track of it; one way to lose it is to leave a run of
  which a stage has failed, and as long as the user stays with such a run it goes on too).
- `rag_jobs`: `SourcesAreWhole`, whatever is cancelled or ingested twice; `OneModelPerSpace`, until
  an ingestion overlaps a recomputation and again after one that nothing overlaps.
- `model_server`: `ProseIsShownOnce`, `CallsAreComplete` (a call that is executed has all of its
  arguments and one entry in the transcript; a call cut short is the one case that is otherwise, and
  the property says what the code does then: it executes that call alone, without arguments),
  `ServerMakesRoom` (a tool that waits for `sd-cli` has the GPU for itself unless it is in `shared`,
  and when all tools are over there is a server unless it was `lost`).

What the failing runs show, each a trace of the code against a sentence of its documentation:

- `OnlyTopLevelEndsRun`: the comment at `ws.py:186` says only a top-level error ends the run. The
  subagent tool forwards its error with a `_subagent` tag, and only `_pipeline_stage` is looked at:
  a failing subagent ends the run of the agent that called it, and the agent is cancelled.
- `InFlightIsShownStopped`: `CONTEXT.md:441` says what is in flight at a cancellation is shown as
  stopped. `run_agent` turns the cancellation into an error event and the respond stage swallows
  it: the stage is recorded as done and the workflow goes on, with nobody reading further aborts.
- `ResumeIsAnswered`: `CONTEXT.md:451` offers "Resume from here" on any stopped or failed node.
  For a stage inside a sub-workflow, or inside an ended item of a loop that iterates over no list,
  `reconstruct_slots` raises before the `try` of `resume`: the task dies, the client is never told,
  and `run.json` says "running" from then on.
- `OnlyCompletedItemsReused`: the same paragraph says later items that are *completed* are reused.
  The loop reuses every later item that has a result file, stopped ones included.

- `SummariesAreOwn`: `compress.py:1348` says the messages in memory are patched with *their*
  summaries. The patch goes by `tool_call_id`, which is the place of a call in its turn ("tc-0"):
  nearly all results share it, and after a compression in the middle of a run they all read as the
  summary of the last one, those that were to be kept included.

### What was noticed and no run shows

- A gated call that is cut off after its name was shown live is executed without arguments
  (`agent.py:735-737`), though `base.py:32` describes the live preview as "purely for display".
  `CallsAreComplete` states it as the one such case.
- Confirmations of one file, query, prompt or recycled address share a `tool_id`: an answer to the
  first that is sent twice is read as the answer to the second, and a repeated yes approves it
  (`agent.py:433`, `edit_file.py:128`, `run_shell.py:48`).
- The error of a nested stage clears the client's running flag (`agent.service.ts:60-62`): leaving
  the conversation then sends no abort, and the run goes on for nobody, or waits for ever for a
  compression.
- `stop()` goes on beside a server that still answers after 10 s or that it may not terminate, and
  the image is generated on a GPU that is in use (`llama_server.py:178-191`). A server that ends only
  after the tool has looked for it and found it answering is not started again.
- A working memory whose JSON cannot be parsed is stored as `{}` and covers its branch like any
  other (`compress.py:1192-1199`): what it covers, and the memory before it, are lost to the model.
- Text behind a written `<tool_call>` without a name is never shown, although
  `llama_server.py:650` says it was streamed.
- Live tool calls are folded by ids that repeat from turn to turn, so that a later call resets the
  entry of an earlier one (`workflow_run_recorder.py:336`, `workflow-run.service.ts:473`).
- A run whose start marks superseded reads keeps SQLite's write lock until it ends, if one of them
  was excluded for another reason before: saves and compressions then time out one by one.
- Editing above a working memory, or sending while a compression is under way, leaves messages out
  of the context without a memory that accounts for them, against `CONTEXT.md:191`.
- `onopen` sends the request of a run on the current socket, which may be a newer run's
  (`agent.service.ts:54`); a compression answered by the queue of an old run resumes the new one.
- An item that a resumption goes on in keeps the slots read back from disk
  (`custom_workflow.py:841-843`). Where a stage outside the loop writes to the name of an inner
  stage (`action_output`, `loop_output`), and the inner stage is skipped this time, the item's result
  holds the outer stage's value. `OwnNames` excludes such definitions; none of
  the workflows in `backend/workflows/` is one.
- A failure in an ingestion other than `ValueError` is never reported to the client
  (`routers/rag.py:143`), which waits until it cancels.
- An abort while the image tool waits for the server to end leaves none running.

### Fairness

Weak fairness of a task's steps says that the event loop gets to a task that can go on, which
asyncio guarantees (its ready queue is first in, first out) as long as no callback blocks it, and
that a model call or a tool ends, which is an assumption on the world. The client is fair only in
`PatientSpec`: it answers each prompt once and compresses when asked. Nothing is assumed of aborts,
mode changes and disconnects: `RunEnds` holds with and without them. `FairSpec` of `WorkflowEngine`
assumes that leaf stages end.

`ChatClient` assumes that an event that has arrived is handled, that the server reads the signals
it gets, and that the task at the head of a queue succeeds or fails: the browser's event loop and
the timeouts of requests see to it. It assumes nothing of the user,
of the model behind the server, of sockets opening, or of success. `Conversation`,
`Retrieval` and `ModelServer` are checked for safety only, as a model call or an embedding may take
any time; `model_server` checks that nobody waits for ever on another (deadlock is checked).

## 4. The proofs

Each theorem is about `Spec` and every value of the constants that satisfies the assumptions of its
module (`BoundsAssumption` and the others named there), which TLC evaluates in the runs.

| module | theorem | property | for any |
|---|---|---|---|
| `AgentRelayProofs` | `TypeCorrect` | `TypeOK` | calls, messages, kinds, modes, threshold |
| | `NoAgentOutlivesHandler` | `NoHeadlessAgent` | |
| | `AbortStopsTools` | `NoToolAfterAbort` | |
| | `CompressionAlwaysKeepsUp` | `CompressionKeepsUp` | |
| | `FirstAnswerAlwaysCounts` | `FirstAnswerCounts` | |
| | `GuardedToolsWereAllowed` | `GuardedWereAllowed` | |
| | `CompressionAfterResults` | `ResultsBeforeCompression` | |
| | `ResultsBeforeDone` | `DoneAfterResults` | |
| `StageRunnerProofs` | `TypeCorrect` | `TypeOK` | depth, turns, calls, confirmations |
| | `StagesHaveParents` | `NoOrphanStage` | |
| | `AnswersArrive` | `ConfirmsArrive` | |
| | `StageErrorsNotFinal` | `StageErrorsAreNotFinal` | |
| `WorkflowEngineProofs` | `EngineTypes` | `TypeOK` | workflow, resumptions |
| | `EveryStageIsEnded` | `NothingLeftRunning` | |
| | `RecordIsAlwaysATree` | `RecordIsTree` (refines `RunTree`) | |
| | `StopIsAlwaysRecorded` | `StopIsRecorded` | |
| | `BrokenConditionFailsRun` | `AbortIsFinal` | |
| | `ResultsAreAlwaysOwn` | `ItemResultsAreOwn` | with `OwnNames` |
| | `ResumptionKeepsEarlierWork` | `EarlierWorkKept` | with `JumpsForward` |
| `ChatClientProofs` | `TypeCorrect` | `TypeOK` | runs, conversations, messages, failures, attempts |
| | `AnswersAreHome` | `AnswersStay` | |
| | `SavesInOrder` | `StoredInOrder` | |
| | `ResumesOnlyAfterSaves` | `ResumesAfterSaves` | |
| `ConversationProofs` | `ConversationTypes` | `TypeOK` | requests, operations, starting branch |
| | `OneMemoryIsInForce` | `OneMemoryInForce` | |
| | `MemoryAlwaysAccounts` | `MemoryAccountsForBranch` | |
| | `ContextIsAlwaysComplete` | `ContextIsComplete` | |
| | `ActiveIsAlwaysKept` | `ActiveIsKept` | |
| `RetrievalProofs` | `TypeCorrect` | `TypeOK` | files, texts, models, jobs |
| | `SourcesWhole` | `SourcesAreWhole` | |
| | `OneModelCorrect` | `OneModelPerSpace` | |
| `ModelServerProofs` | `ServerAlwaysMakesRoom` | `ServerMakesRoom` | image tools, text, chunks, turns |
| | `ProseIsAlwaysShownOnce` | `ProseIsShownOnce` | |
| | `CallsAreAlwaysComplete` | `CallsAreComplete` | |

Argument: type correctness first, one step per action; then a strengthening for each property,
because hardly any is inductive as it stands.

`AgentRelay` (`BoundsAssumption`, `KindsAssumption`, `ModesAssumption`, `SubagentAssumption`)

- `AbortReached`: once the receive task has returned, the agent's cancellation is on its way or the
  agent has ended. Without it a state is conceivable where an abort was read and the agent goes on.
- `CompressionDue`: while a turn runs the iteration count is below the threshold, unless the last
  turn was compressed for its length, when it may equal it. Calls made in between must carry it.
- `Cancelled`: the handler waits for an agent that is cancelled or over, and only a cancellation
  starts a cleanup; it is what `NoAgentOutlivesHandler` needs.
- `Futures`: only the current call has a future, registered under its id, and a call whose prompt
  is on its way or was shown has its future or its answer already.
- `InFlight` is about the answers on their way. `AnswersFresh`: under an id that was never answered
  again there is at most one, the first answer to the prompt of the call registered there;
  `FirstInLine`: of the answers that can resolve a future that is not borrowed, the first is the
  first one given to its prompt; `StillComing`: it has not been lost while the connection is open.
  A repeated answer that resolves nothing would otherwise be conceivable ahead of the real one.
  `FirstAnswerAlwaysCounts` is part of it, and `GuardedToolsWereAllowed` follows with `examined`
  only growing.
- `Ordered` says that in the queue, or on the client already, the results of all
  calls that have acted come before a request to compress and before the end; `Delivered` that
  only the call that is still acting has no result in the queue or on the client. They hold only as
  there is one compression at a time, which is `Token`: its request is in the queue, or with the
  client, or its answer is on the way, or the event is set, and never two of these. With two, the
  agent could go on with an old answer while a request is still under way, and its next result
  would come after that request.

`StageRunner` (`DepthAssumption`, `BoundsAssumption`, `KindsAssumption`)

- `QueueOK`: a prompt in the queue of a level is in that level's dict of pending futures already, or
  has been answered, which is why an answer finds it at whatever level the prompt has come to; and
  a stage that has put its end into its queue is over, as is the caller after its last event.
  `AskedOK` and `ClientOK`: a prompt that was asked for has a future, and what the client was shown
  and has not answered is pending at the top. `NoOrphanStage` is part of the same invariant: a
  level waits for the stage below it until that one is over.

`WorkflowEngine` (`DefAssumption`, `NamesAssumption`, `BodiesAssumption`, `NestingAssumption`,
`ResumesAssumption`: what a nested document of stages is, and no bound on its size)

- The addresses come first. A stage has one owner; `Places[s]`, the item numbers a stage can run
  under, and `Around[s]`, the stages around it, are recursive functions over that nesting, and
  `PlacesRecursion` and `AroundRecursion` show that they satisfy their equations. From these:
  `Inwards` and `Descent` (below a node that is not the target of a resumption there is exactly one
  way on towards it), and `NotAroundItself`.
- `TreeInv` is `Control`, about the Python stack, and `Disk`, about the files. `Stacked`: the frame
  of the workflow is the outermost, every other frame is that of the stage the frame before it is
  at, and a cursor that a resumption left in a frame is below what is dispatched next (`Follows`).
  `Disk`: the nodes recorded as running are exactly those with a frame, and the leaf that is
  suspended. Without `Follows` a resumption could dispatch a stage that is not on its way, and
  without the equality in `Disk` no action could be told to end the *innermost* running stage. Each
  action keeps `TreeInv` and maps to a step of `RunTree` (`Keeps`), which gives
  `RecordIsAlwaysATree`, and `EveryStageIsEnded` as no frame is left when the run is over.
- `StopInv`: from the moment an abort reaches a leaf, the run can only unwind: the leaf is still
  suspended, or recorded as stopped under a cancellation, or the run is over and stopped.
- `EngineTypes` adds the slots and what the loops collect: a resumption fills registries from the
  files, so that their types depend on those of the files.
- `BrokenConditionFailsRun` from `UnwindingAlways`: there is an exception exactly while it unwinds.
  Every action that dispatches, retries or ends something therefore finds none.
- The two theorems about resumption rest on `ResumeInv`, which is `Ordered`: of every loop around a
  recorded address, the items before are recorded too, so that a resumption finds each item before
  its target on disk and reads it back instead of dispatching it (`ReadBack`); and `Aimed`: a frame
  looks for the resume point or for nothing, and no sub-workflow is on the way there.
- `ResultsAreAlwaysOwn` is about values: `Leveled` (as many registries as sub-workflows around the
  innermost frame), `Restored` (on the way down to the resume point the one registry is as it was
  read back: for the items on the way, each slot of an inner stage was written within that item),
  `Clean` (a loop that is trying an item sees in the slots of its inner stages only what was
  produced in that item) and `Collecting` (so do the results on disk). A registry changes at one slot
  at a time, at its innermost level, or loses slots (`SlotChanges`). The hypothesis `OwnNames`, that
  a slot named like a loop's inner stage is written within that loop alone, is used only where
  values are read back from disk: whatever writes while an item is tried runs within that item.
  Without the hypothesis TLC finds the counterexample described in section 3.
- `ResumptionKeepsEarlierWork` is about control: `OnTheWay` says of each frame of a resumed run that
  its stage list is at the stage the resume point is in, or past it (`Past`), that this stage is
  dispatched with the cursor that leads there (`Heads`), and that a loop starts no item before the
  one the resume point is in, and knows it as its target when it comes up (`Towards`). What a step
  writes is a stage that is running, the stage of a frame, or the item of one (`InHand`), and none
  of these is earlier. It holds within items that are tried once (`Single`): a retry of an
  outer item runs the earlier items of an inner loop again, which `Earlier` leaves out. The
  hypothesis `JumpsForward` is that a branch of the workflow's own list jumps to a stage behind it;
  `custom_workflow.py:472-477` looks a target up in the whole list, and a jump back redoes what it
  jumps over. Both hypotheses are assumed in `MCWorkflowEngine`, where TLC evaluates them, and hold
  of the workflows in `backend/workflows/`, which have no branches and share no such names.

`ChatClient` (`BoundsAssumption`, `FailingAssumption`)

- `Follows`: a run that has begun has the conversation on display, or notes that the user moved.
- `Connected`: a socket that is not open has no messages to deliver and no server that works, and a
  close is the last event of its socket; before the socket is open nothing is under way at all.
- `Subscribed`: only the last run started can have its socket open without having been overtaken,
  and a task that saves another run's message belongs to an overtaken one. `AnswersStay` needs all
  three: which queue a message gets into depends on which sockets can still speak.
- `Sends` and `InFlow`, for the order: the stored messages of a run, its saves in the queue, its
  messages on their way and the number of the next follow one another, except that the task at the
  head may be stored already, if its answer was lost. The known id makes the repetition harmless.
- `Paced`, for `ResumesOnlyAfterSaves`: while the run has its subscription, every message it has
  sent is stored, has a save in the queue, or is on its way; the request to compress is the last of
  what is on its way, its task comes in the queue behind saves of all that is not stored, and of
  the request, the task and the answer there is never more than one, only while the run is
  suspended. The order of the stream thus becomes that of the queue and then that of the database.
  `Resumes` is `Paced` as long as the run is `Tracked` (no save given up, no run overtaken): then
  only the run that has the subscription can have the client compress or be told that it has.

`Conversation` (`StartAssumption`, `RequestsAssumption`, `NoneAssumption`)

- A request computes with rows it read before others committed. `Since(s, d)` is what a reading s
  still says of the rows d: no id is used again, nothing deleted comes back, roles and the accounts
  of memories stay, a memory once excluded stays excluded, and a branch only loses messages, none of
  them a memory as long as nothing was cut off.
  `Read`: what each request in flight has read is `Since` the committed rows, and was sound. This is
  the heart of the argument: the writer of a memory folds in the memory it *read*, and only
  `Since` lets it conclude that the one in force *now* is that one or excluded already.
- `Committed` and `Flushed`: the rows in the database and in the open transaction have their shape
  and are sound (`Fit`), the second are later than the first; `Noted`: `cut` does tell whether a
  message lost its parent, at each commit. `Locked`: there is a draft only under the write lock, and
  it holds one new message at most. `Budget`: ids in use and requests in flight never exceed the
  requests made, so that a request in flight always has an id left.
- `Sound` is `OneMemoryInForce` and `MemoryAccountsForBranch`, of any rows; `Recalled` and
  `Replaced`, for `ContextIsComplete`, speak of rows from which nothing was deleted (`Gapless`): a
  message excluded for a memory is `Kept`, above a memory in force that accounts for it or above an
  empty one, and a read excluded for a later one is `Outdated`.
- Underneath are lemmas on the operators: the ancestors of a message (`OnBranch`, a recursive
  function over parents, which are always older), and what each edit of the rows, one lemma per
  operation, leaves of them.

`Retrieval` (`WindowsAssumption`, `FilesAssumption`, `NamesAssumption`)

- The types include that the job that embeds holds the write lock. `WholeSoFar` and `Writing`: what
  is flushed belongs to the one source being written and is its first windows, so that the last one
  completes it. `Comparable` and `Knows`: the model a job has read is the space's unless it
  overlapped the recomputation that changed it.

`ModelServer` (`BoundsAssumption` of `Completion`)

- `HasGpu`: the server is down while an image is generated for a tool that is not in `shared`;
  `WillRestart`: a server that is down has a tool that will start it, unless it was lost;
  `Overlaps`: two busy tools are both in `shared`.
- `SplitInv`: the splitter has sent the prose it has read but for what may begin a tag, once there is
  a tag all of the prose before it, and once the call has a name its start; it looks at the text
  read so far while the properties are about the text at the end, which `TagsGrow` relates (a tag
  found in a text is where it was when the text grows).
- `Once`: an id is in the folded transcript at most once, whatever turns reuse it. `CallsRecursion`:
  the recursive function that counts the calls of a text satisfies its equation.

`Recursion` is what the functions above rest on. The library states induction for a predicate as a
parameter, which the provers cannot instantiate; here it is stated about sets and functions
instead: a non-empty set of numbers has a least member (`LeastNumber`, from the well-foundedness of
strict inclusion), and an equation whose right side looks only below, in a well-founded relation,
has a solution (`RecursionExists`), so that the function that a module defines by `CHOOSE`, as
every recursive definition is, satisfies it.

Only model-checked:

- liveness under fairness, which is out of the prover's reach: `RunEnds`, `StagesEnd`,
  `AbortEndsAll`, `EveryRunEnds`, `SuspendedRunGoesOn`;
- `LiveContext`, of which one claim is checked and refuted, and the other runs that refute one.

## 5. The plan

Done, the most important behaviour first: `AgentRelay`, `StageRunner`, `WorkflowEngine` with
`RunTree`; then `ChatClient`, the other end of the run; `Conversation` and `LiveContext`, what both
store into and what a compression makes of it; the shared services `Retrieval`, `Completion` and
`ModelServer`; and the proofs above.

Left, in this order:

1. segmentation of system audio (frames, forced cuts and one transcription at a time), and the
   dictation recorder, whose microphone is released while a start is still under way.
2. the run history API, as a reader of the files that `WorkflowEngine` writes.
3. pure algorithms as recursive functions against reference definitions: the deepest leaf,
   word-level de-duplication at a forced cut, chunking with overlap, conflicting keys and gaps in
   the locale scripts.

There is one run per question; what is left adds its properties to existing runs where the
component is one of theirs, as `Completion` does with `model_server`.

## 6. Not modelled

Listed with reasons in `PROJECT.json`. Briefly: Angular components (rendering over the services),
the command-line tools and benchmarks, prompts and their editor, tokenisation and the chat
template (pure string work), the whisper benchmarks, database set-up and loaders, the file
tools (one call to the operating system behind a confirmation that is modelled). System audio and
the recorders are the next components of the plan.
