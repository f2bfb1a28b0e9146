----------------------------- MODULE LiveContext -----------------------------
(***************************************************************************)
(* The tool results an agent has in memory, and the rows the client has    *)
(* stored of them, which a compression in the middle of the run rewrites   *)
(* (backend/agent/compress.py, agent/agent.py, routers/ws.py).             *)
(*                                                                         *)
(* After the compression the summaries are carried from the rows to the    *)
(* messages in memory by the id of the tool call, which llama_server.py    *)
(* takes from the place of the call in its turn: "tc-0", "tc-1", ...       *)
(***************************************************************************)
EXTENDS Naturals, Sequences, SequencesExt

CONSTANTS
  MaxResults,   \* bound: tool results of the conversation
  MaxPerTurn    \* bound: calls of a turn

VARIABLES
  rows,     \* the stored results of the branch: their id, what they are, whether they are
            \* excluded from the context, and whether they have a compressed_summary
  live,     \* the results in memory: the row, and how its content reads now
  known,    \* the rows that the session of the websocket loaded when the run began
  had,      \* those of them that had a summary then
  running

vars == <<rows, live, known, had, running>>

Init == rows = <<>> /\ live = <<>> /\ known = {} /\ had = {} /\ running = FALSE

Verbatim(r) == [row |-> r, reads |-> "full", of |-> r]
Summary(r, of) == [row |-> r, reads |-> "summary", of |-> of]

\* Reads of the (one) file that a later read supersedes.
Superseded == {r \in DOMAIN rows : /\ rows[r].is = "read"
                                   /\ \E k \in r + 1 .. Len(rows) : rows[k].is = "read"}

\* _load_conversation_branch and build_inference_context: excluded rows are left out, or
\* read as their summaries.  The branch stays loaded while the websocket is open.
RunStarts ==
  /\ ~running /\ running' = TRUE
  /\ rows' = [r \in DOMAIN rows |-> IF r \in Superseded THEN [rows[r] EXCEPT !.out = TRUE] ELSE rows[r]]
  /\ LET context == SelectSeq([r \in DOMAIN rows |-> r], LAMBDA r : ~rows'[r].out \/ rows[r].summary)
     IN live' = [i \in DOMAIN context |->
          LET r == context[i] IN IF rows'[r].out THEN Summary(r, r) ELSE Verbatim(r)]
  /\ known' = DOMAIN rows
  /\ had' = {r \in DOMAIN rows : rows[r].summary}

\* chat_with_tools: results in memory of superseded reads are evicted, then the calls of
\* the turn are executed, and the client stores what they return.
Turn ==
  /\ running
  /\ \E n \in 1 .. MaxPerTurn : \E is \in [1 .. n -> {"read", "tool"}] :
       /\ Len(rows) + n <= MaxResults
       /\ rows' = rows \o [i \in 1 .. n |-> [id |-> i - 1, is |-> is[i], out |-> FALSE, summary |-> FALSE]]
       /\ live' = [i \in DOMAIN live |->
                     IF live[i].reads = "full" /\ live[i].row \in Superseded
                     THEN [live[i] EXCEPT !.reads = "evicted"] ELSE live[i]]
                  \o [i \in 1 .. n |-> Verbatim(Len(rows) + i)]
  /\ UNCHANGED <<known, had, running>>

\* run_compression, in another session: some results get a summary, and a working memory
\* may cover the others.
Squeezed ==
  LET candidates == {r \in DOMAIN rows : ~rows[r].out} IN
  {[r \in DOMAIN rows |-> [rows[r] EXCEPT !.out = @ \/ r \in some \/ covers,
                                          !.summary = @ \/ r \in some]] :
     some \in SUBSET candidates, covers \in BOOLEAN}

\* apply_db_compressions: the summaries of the rows, by id, the last one first.  Rows that
\* the session loaded before are not loaded again: they read as they did then.
Patch(stored) ==
  LET summarised == {r \in DOMAIN stored : stored[r].summary /\ (r \in known => r \in had)}
      found(id) == {r \in summarised : stored[r].id = id}
      last(S) == CHOOSE r \in S : \A k \in S : k <= r
  IN [i \in DOMAIN live |->
        LET same == found(stored[live[i].row].id) IN
        IF same = {} THEN live[i] ELSE Summary(live[i].row, last(same))]

\* A compression the run waits for.
Compression ==
  /\ running
  /\ rows' \in Squeezed
  /\ live' = Patch(rows')
  /\ UNCHANGED <<known, had, running>>

RunEnds ==
  /\ running /\ running' = FALSE
  /\ live' = <<>> /\ known' = {} /\ had' = {}
  /\ UNCHANGED rows

Next == RunStarts \/ Turn \/ Compression \/ RunEnds

Spec == Init /\ [][Next]_vars

-----------------------------------------------------------------------------
(* A claim of a comment that the code does not keep *)

\* compress.py:1348 "Patch in-memory tool messages with their compressed summaries after
\* mid-run compression."
SummariesAreOwn == \A i \in DOMAIN live : live[i].of = live[i].row
=============================================================================
