----------------------------- MODULE ModelServer -----------------------------
(***************************************************************************)
(* The one llama-server, under the completions of Completion and the image *)
(* generations that take its place on the GPU                              *)
(* (backend/llm/llama_server.py, agent/tools/generate_image.py,            *)
(* imagegen_pipeline.py).                                                  *)
(*                                                                         *)
(* An image tool has the server end, runs sd-cli in a thread and starts    *)
(* the server again.  It knows nothing of the other sessions: neither of   *)
(* their completions nor of their image tools.                             *)
(***************************************************************************)
EXTENDS Completion

CONSTANT Images     \* the image tools that run, each once

VARIABLES
  image,      \* what each image tool does next
  sd,         \* the tools whose sd-cli process is running
  ending,     \* the server has been terminated, but its process is still there
  shared,     \* history: the tools that have run while another one did, or that stop()
              \* let go on beside a server
  lost        \* history: the server is down by itself, or since an end that no stop()
              \* waited for any more, or an abort has hit a tool that was to restart it

images == <<image, sd, ending, shared, lost>>
vars == <<server, stream, images>>

Init ==
  /\ server = "up" /\ InitStream
  /\ image = [i \in Images |-> "ready"]
  /\ sd = {} /\ ending = FALSE
  /\ shared = {} /\ lost = FALSE

-----------------------------------------------------------------------------
(* The process *)

\* llama-server has loaded its model, which takes time.
Loaded ==
  /\ server = "loading" /\ server' = "up"
  /\ UNCHANGED <<stream, images>>

\* It exits by itself: it fails to load (for want of memory, say) or crashes.
Dies ==
  /\ ServerEnds
  /\ ending' = FALSE /\ lost' = TRUE
  /\ UNCHANGED <<image, sd, shared>>

\* The terminated process is gone, within the 10 s that some stop() waits for it or not.
Terminated ==
  /\ ending /\ ServerEnds
  /\ ending' = FALSE
  /\ lost' = (\A i \in Images : image[i] # "stopping")
  /\ UNCHANGED <<image, sd, shared>>

-----------------------------------------------------------------------------
(* The image tool, once it has been confirmed *)

Goes(i, phase) == image' = [image EXCEPT ![i] = phase]
Busy == {i \in Images : image[i] \notin {"ready", "over"}}

\* Those who overlap when a tool begins.
Meets(i) == IF Busy = {} THEN {} ELSE Busy \cup {i}

\* The tool has returned or unwound.
Over(i) == Goes(i, "over") /\ shared' = shared \ {i}

Stays(i, phase) == Goes(i, phase) /\ UNCHANGED shared

\* sd-cli is run in a thread, whether a server is still there or not.
Generates(i) == Goes(i, "generate") /\ sd' = sd \cup {i}

\* A tool that now goes on beside a server.
Beside(i) == IF server = "down" THEN {} ELSE {i}

\* backend.stop(): the llama-server.exe is terminated, whoever uses it, and waited for;
\* without one, or with one that it may not terminate (AccessDenied), it returns at once.
StopServer(i) ==
  /\ image[i] = "ready"
  /\ \/ /\ server # "down" /\ ending' = TRUE
        /\ Goes(i, "stopping") /\ UNCHANGED sd
        /\ shared' = shared \cup Meets(i)
     \/ /\ Generates(i) /\ UNCHANGED ending
        /\ shared' = shared \cup Meets(i) \cup Beside(i)
  /\ UNCHANGED <<server, stream, lost>>

\* Nothing answers any more, or 10 s have passed: it goes on either way.
Stopped(i) ==
  /\ image[i] = "stopping"
  /\ Generates(i) /\ shared' = shared \cup Beside(i)
  /\ UNCHANGED <<server, stream, ending, lost>>

\* Mutation of SdEnds: a failed generation returns its error without the finally.
SdEndsUnrestored(i) ==
  /\ i \in sd /\ sd' = sd \ {i}
  /\ \E next \in {"check", "over"} :
       image' = IF image[i] = "generate" THEN [image EXCEPT ![i] = next] ELSE image
  /\ UNCHANGED <<server, stream, ending, shared, lost>>

\* sd-cli has made the image, failed, or run for 180 s; the finally brings the server back.
SdEnds(i) ==
  /\ i \in sd /\ sd' = sd \ {i}
  /\ image' = IF image[i] = "generate" THEN [image EXCEPT ![i] = "check"] ELSE image
  /\ UNCHANGED <<server, stream, ending, shared, lost>>

\* ensure_running: a server that answers is left alone, also one that is about to end.
Check(i) ==
  /\ image[i] = "check"
  /\ IF server = "up" THEN Over(i) ELSE Stays(i, "launch")
  /\ UNCHANGED <<server, stream, sd, ending, lost>>

\* Otherwise one is launched; it exits at once when the port is another's, and the tool
\* goes on without waiting for that one.
Launch(i) ==
  /\ image[i] = "launch"
  /\ IF server = "down" THEN server' = "loading" /\ lost' = FALSE /\ Stays(i, "wait")
     ELSE UNCHANGED <<server, lost>> /\ Over(i)
  /\ UNCHANGED <<stream, sd, ending>>

\* It answers, has exited, or 60 s have passed ("continuing anyway").
Waited(i) ==
  /\ image[i] = "wait"
  /\ Over(i)
  /\ UNCHANGED <<server, stream, sd, ending, lost>>

\* The agent's task is cancelled at an await of the tool: by an abort, and again when its
\* client is gone.  Before the try nobody starts the server again, nor when ensure_running
\* itself is cut short; sd-cli's thread goes on while the finally starts the server.
AbortTool(i) ==
  /\ image[i] \in {"stopping", "generate", "check", "wait"}
  /\ IF image[i] = "generate" THEN Goes(i, "check") /\ UNCHANGED shared ELSE Over(i)
  /\ lost' = (lost \/ (server = "down" /\ image[i] \in {"stopping", "check"}))
  /\ UNCHANGED <<server, stream, sd, ending>>

-----------------------------------------------------------------------------
ImageTool(i) == \/ StopServer(i) \/ Stopped(i) \/ SdEnds(i) \/ Check(i) \/ Launch(i)
                \/ Waited(i) \/ AbortTool(i)

Next ==
  \/ Loaded \/ Dies \/ Terminated
  \/ \E i \in Images : ImageTool(i)
  \/ NextStream /\ UNCHANGED images

Spec == Init /\ [][Next]_vars

-----------------------------------------------------------------------------
(* Properties *)

\* The GPU goes from the server to sd-cli and back.  A tool that waits for sd-cli has it for
\* itself, from the end of the server to its own restart of it, unless another tool
\* overlaps, or stop() went on beside a server: after its 10 s, or unable to terminate it.
\* (The thread of an aborted tool has no such claim: the finally does not wait for it.)
\* And when no tool is busy any more there is a server, whatever failed and however the
\* tools interleaved, unless it ended by itself or after every stop() had given it up, or an
\* abort came, with the server down, before the try or inside ensure_running.
ServerMakesRoom ==
  /\ \A i \in sd \ shared : image[i] = "generate" => server = "down"
  /\ Busy = {} /\ ~lost => server # "down"
=============================================================================
