---------------------------- MODULE Conversation ----------------------------
(***************************************************************************)
(* The message tree of one conversation and the requests that rewrite it:  *)
(* saving, editing, deleting, selecting a branch, marking repeated file    *)
(* reads, and the compression with its working memory                      *)
(* (backend/routers/conversations.py, routers/tokens.py, conv_helpers.py,  *)
(* agent/compress.py).                                                     *)
(*                                                                         *)
(* Every request has a database session of its own.  It reads the whole    *)
(* conversation, computes with what it read, and takes SQLite's write lock *)
(* with the first change it flushes; other requests may have committed in  *)
(* between.  What it flushed is invisible to others until it commits.      *)
(***************************************************************************)
EXTENDS Naturals, Sequences, FiniteSets

CONSTANTS
  Start,        \* what the conversation holds at first: the roles, root first
  Roles,        \* roles of the messages the client saves
  Requests,     \* bound: requests in flight at the same time
  MaxRequests   \* bound: requests made altogether

\* "talk" is role user or assistant, "read" a successful read_file of one file,
\* "tool" any other classified tool result, "write" a tool in _SKIP_CLASSIFY.
Saved == {"talk", "read", "tool", "write"}
ASSUME StartAssumption == Start \in Seq(Saved) /\ Roles \subseteq Saved
ASSUME RequestsAssumption == MaxRequests \in Nat /\ IsFiniteSet(Requests)

NoMsg == 0                \* None
Ids == 1 .. Len(Start) + MaxRequests
None == "none"
ASSUME NoneAssumption == None \notin Requests

VARIABLES
  db,      \* the committed rows of the conversation
  draft,   \* the rows as the session that holds the write lock has flushed them
  lock,    \* the request whose session holds the write lock
  pc,      \* what each request does next
  req,     \* its operation, its message and the rows its session has in memory
  made     \* requests made so far

vars == <<db, draft, lock, pc, req, made>>

\* account[w] is what the text of memory w goes back to: the messages its writer was given,
\* the tags of those to leave out, and the memory before, whose account folds forward; it
\* is empty when the writer's answer could not be parsed.  cut is a history: some message's
\* parent has been deleted under it.
Rows == [used : 0 .. Len(Start) + MaxRequests, live : SUBSET Ids,
         parent : [Ids -> Ids \cup {NoMsg}], role : [Ids -> Saved \cup {"memory"}],
         reason : [Ids -> {"none", "compressed", "covered", "discarded", "superseded", "file"}],
         summary : SUBSET Ids, account : [Ids -> SUBSET Ids], active : Ids \cup {NoMsg},
         cut : BOOLEAN]

StartRows ==
  LET n == Len(Start) IN
  [used |-> n, live |-> 1 .. n, parent |-> [i \in Ids |-> IF i <= n THEN i - 1 ELSE NoMsg],
   role |-> [i \in Ids |-> IF i <= n THEN Start[i] ELSE "talk"],
   reason |-> [i \in Ids |-> "none"], summary |-> {},
   account |-> [i \in Ids |-> {}], active |-> n, cut |-> FALSE]

NoRequest == [op |-> "none", on |-> NoMsg, rows |-> StartRows]

Init ==
  /\ db = StartRows /\ draft = db /\ lock = None
  /\ pc = [r \in Requests |-> "idle"]
  /\ req = [r \in Requests |-> NoRequest]
  /\ made = 0

-----------------------------------------------------------------------------
(* The tree *)

Children(d, m) == {c \in d.live : d.parent[c] = m}

\* _build_active_branch_path: up the parents until there is none or it is missing.
\* (A parent is always older than its child.)
Branch(d, m) ==
  LET up[k \in Ids \cup {NoMsg}] == IF k \in d.live THEN Append(up[d.parent[k]], k) ELSE <<>>
  IN up[m]

OnBranch(d, m) == LET b == Branch(d, m) IN {b[i] : i \in DOMAIN b}

\* _find_deepest_leaf: down while there is exactly one child; a message that does
\* not exist is its own leaf.
DeepestLeaf(d, m) ==
  LET down[k \in Ids] == IF Cardinality(Children(d, k)) = 1
                         THEN down[CHOOSE c \in Children(d, k) : TRUE] ELSE k
  IN down[m]

Subtree(d, m) == {k \in d.live : m \in OnBranch(d, k)}

Excluded(d, m) == d.reason[m] # "none"
InForce(d, m) == d.role[m] = "memory" /\ ~Excluded(d, m)

\* build_inference_context: what the model sees of m, verbatim or as a stub.  Messages
\* a memory excluded are skipped; another excluded one shows its compressed_summary.
InContext(d, m) == \/ ~Excluded(d, m)
                   \/ m \in d.summary /\ d.reason[m] \notin {"covered", "discarded", "superseded"}

\* A new row below p, which becomes the active message.
Insert(d, p, ro, acc) ==
  LET n == d.used + 1 IN
  [d EXCEPT !.used = n, !.live = @ \cup {n}, !.parent[n] = p, !.role[n] = ro,
            !.account[n] = acc, !.active = n]

NoteCut(d) ==
  [d EXCEPT !.cut = @ \/ \E m \in d.live : d.parent[m] \notin d.live \cup {NoMsg}]

\* Mutation of Exclude: a reason that build_inference_context does not know.
ExcludeOtherwise(d, ms, why) ==
  [d EXCEPT !.reason = [i \in Ids |-> IF i \in ms THEN "evicted" ELSE @[i]]]

Exclude(d, ms, why) == [d EXCEPT !.reason = [i \in Ids |-> IF i \in ms THEN why ELSE @[i]]]

-----------------------------------------------------------------------------
(* Sessions *)

\* The handler starts: get_db_session, then the conversation and its messages.
Reads(r, op, m) ==
  /\ pc[r] = "idle" /\ made < MaxRequests
  /\ made' = made + 1
  /\ req' = [req EXCEPT ![r] = [op |-> op, on |-> m, rows |-> db]]
  /\ pc' = [pc EXCEPT ![r] = "write"]
  /\ UNCHANGED <<db, draft, lock>>

\* A message to edit or to delete must exist (404); the client lets the user edit user
\* messages, delete all but memories, and navigate to any message it has listed.
Request(r) ==
  \/ \E op \in {"add", "compress", "dedupe"} : Reads(r, op, NoMsg)
  \/ \E m \in db.live : db.role[m] = "talk" /\ Reads(r, "edit", m)
  \/ \E op \in {"delete", "remove"}, m \in db.live : db.role[m] # "memory" /\ Reads(r, op, m)
  \/ \E m \in 1 .. db.used : Reads(r, "select", m)

At(r, op, phase) == pc[r] = phase /\ req[r].op = op

\* get_db_session: an exception rolls the session back.
Rollback(r) ==
  /\ draft' = IF lock = r THEN db ELSE draft
  /\ lock' = IF lock = r THEN None ELSE lock
  /\ pc' = [pc EXCEPT ![r] = "idle"]
  /\ req' = [req EXCEPT ![r] = NoRequest]
  /\ UNCHANGED <<db, made>>

\* The busy timeout of 30 s passes while another session holds the lock.
LockTimesOut(r) ==
  /\ pc[r] \in {"write", "memory"} /\ lock \notin {None, r}
  /\ Rollback(r)

\* A request that flushes and commits with nothing to wait for in between; it waits for
\* the write lock unless it changes nothing.
Commits(r, d) ==
  /\ lock = None \/ d = db
  /\ db' = NoteCut(d) /\ draft' = IF lock = None THEN db' ELSE draft
  /\ pc' = [pc EXCEPT ![r] = "idle"]
  /\ req' = [req EXCEPT ![r] = NoRequest]
  /\ UNCHANGED <<lock, made>>

\* The session flushes its changes to ms, d being the rows with them: the first flush
\* takes the write lock, which stays with the session.  An UPDATE of a row that has been
\* deleted meanwhile fails the request (StaleDataError).
Flushes(r, ms, d, mine, next) ==
  LET nothing == ms = {} /\ d = draft IN
  /\ nothing \/ lock \in {None, r}
  /\ IF ~(ms \subseteq draft.live) THEN Rollback(r)
     ELSE /\ draft' = d
          /\ lock' = IF nothing THEN lock ELSE r
          /\ req' = [req EXCEPT ![r].rows = mine]
          /\ pc' = [pc EXCEPT ![r] = next]
          /\ UNCHANGED <<db, made>>

\* The handler returns and get_db_session commits.
Commit(r) ==
  /\ pc[r] = "commit"
  /\ IF lock = r THEN db' = NoteCut(draft) /\ draft' = db' ELSE UNCHANGED <<db, draft>>
  /\ lock' = IF lock = r THEN None ELSE lock
  /\ pc' = [pc EXCEPT ![r] = "idle"]
  /\ req' = [req EXCEPT ![r] = NoRequest]
  /\ UNCHANGED made

-----------------------------------------------------------------------------
(* The short requests *)

\* add_message: below the message that was active when the handler read.
AddMessage(r) ==
  /\ At(r, "add", "write")
  /\ \E ro \in Roles : Commits(r, Insert(db, req[r].rows.active, ro, {}))

\* branch_message: an edit is a new sibling; the conversation is read after the flush.
BranchMessage(r) ==
  /\ At(r, "edit", "write")
  /\ LET s == req[r].rows  m == req[r].on IN Commits(r, Insert(db, s.parent[m], s.role[m], {}))

\* The active message once ms is gone, by the rows s: the leaf below the first sibling,
\* else the parent, else the leaf below another root, else none.
ActiveAfterDelete(s, m, ms) ==
  LET rest == [s EXCEPT !.live = @ \ ms]
      siblings == Children(rest, s.parent[m])
  IN IF s.active \notin ms THEN {s.active}
     ELSE IF siblings # {} THEN {DeepestLeaf(rest, c) : c \in siblings}
     ELSE {s.parent[m]}

\* Mutation of DeleteSubtree: the active message is left alone.
DeleteLeavesActive(r) ==
  /\ At(r, "delete", "write")
  /\ Commits(r, [db EXCEPT !.live = @ \ Subtree(req[r].rows, req[r].on)])

\* delete_message_branch(subtree=True); the conversation is written if it changes.
DeleteSubtree(r) ==
  /\ At(r, "delete", "write")
  /\ LET s == req[r].rows
         gone == Subtree(s, req[r].on) IN
       \E a \in ActiveAfterDelete(s, req[r].on, gone) :
         Commits(r, [db EXCEPT !.live = @ \ gone, !.active = IF a = s.active THEN @ ELSE a])

\* The same when only m goes: below its first child, else its parent, else some root.
ActiveAfterRemove(s, m) ==
  LET rest == [s EXCEPT !.live = @ \ {m}]
      roots == Children(rest, NoMsg)
  IN IF s.active # m THEN {s.active}
     ELSE IF Children(s, m) # {} THEN {DeepestLeaf(rest, c) : c \in Children(s, m)}
     ELSE IF s.parent[m] # NoMsg THEN {s.parent[m]}
     ELSE IF roots # {} THEN roots ELSE {NoMsg}

\* delete_message_branch(subtree=False): the children move up to the parent.
RemoveMessage(r) ==
  /\ At(r, "remove", "write")
  /\ LET s == req[r].rows  m == req[r].on  cs == Children(s, m) IN
       IF ~(cs \subseteq db.live) THEN lock = None /\ Rollback(r)
       ELSE \E a \in ActiveAfterRemove(s, m) :
              Commits(r, [db EXCEPT !.live = @ \ {m},
                            !.parent = [i \in Ids |-> IF i \in cs THEN s.parent[m] ELSE @[i]],
                            !.active = IF a = s.active THEN @ ELSE a])

\* set_active_branch
SelectBranch(r) ==
  /\ At(r, "select", "write")
  /\ LET s == req[r].rows  leaf == DeepestLeaf(s, req[r].on) IN
       Commits(r, [db EXCEPT !.active = IF leaf = s.active THEN @ ELSE leaf])

\* Reads of the file that a later read on the same branch supersedes.
SupersededReads(d, m) ==
  LET b == Branch(d, m) IN
  {b[i] : i \in {j \in DOMAIN b : /\ d.role[b[j]] = "read"
                                  /\ \E k \in j + 1 .. Len(b) : d.role[b[k]] = "read"}}

\* Mutation of Dedupe: the last read of the file goes too.
DedupeAll(r) ==
  /\ At(r, "dedupe", "write")
  /\ LET s == req[r].rows
         ms == {m \in OnBranch(s, s.active) : s.role[m] = "read" /\ s.reason[m] # "file"} IN
       Flushes(r, ms, Exclude(draft, ms, "file"), Exclude(s, ms, "file"), "commit")

\* ctx-tokens, inference-context, debug-context, and the start of a run over a websocket
\* (whose session stays open, with its lock, until the run ends): the reason of every
\* superseded read is overwritten, whatever it was.
Dedupe(r) ==
  /\ At(r, "dedupe", "write")
  /\ LET s == req[r].rows
         ms == {m \in SupersededReads(s, s.active) : s.reason[m] # "file"} IN
       Flushes(r, ms, Exclude(draft, ms, "file"), Exclude(s, ms, "file"), "commit")

-----------------------------------------------------------------------------
(* The compression: run_compression *)

\* The results on the branch that may be compressed; those of _SKIP_CLASSIFY never are.
Candidates(s) ==
  {m \in OnBranch(s, s.active) : s.role[m] \in {"read", "tool"} /\ ~Excluded(s, m)}

\* _classify_and_summarize: the model labels each of them; without a usable answer all are
\* dropped.
Squeezable(s) == SUBSET Candidates(s)

\* Each of them gets a summary, a header at least: a shell output, a search or a file by the
\* model, chunk by chunk, a long glob or grep by what is left of its lines.
Summarize(d, ms) == [d EXCEPT !.summary = @ \cup ms]

\* _apply_compression_label: the summary takes the place of the content (labels drop,
\* 1-line-summary, summarize, and keep when the content is too long).
Squeeze(d, ms) == Summarize(Exclude(d, ms, "compressed"), ms)

\* Stage 1/2, compress_messages.
CompressTools(r) ==
  /\ At(r, "compress", "write")
  /\ \E ms \in Squeezable(req[r].rows) :
       Flushes(r, ms, Squeeze(draft, ms), Squeeze(req[r].rows, ms), "memory")

\* A call of the model fails in stage 1/2: nothing catches it.
CompressFails(r) ==
  /\ pc[r] = "write" /\ req[r].op = "compress"
  /\ Rollback(r)

\* The place of the first memory in force on the branch, 0 if there is none.
Previous(s) ==
  LET b == Branch(s, s.active)
      ws == {i \in DOMAIN b : InForce(s, b[i])}
  IN IF ws = {} THEN 0 ELSE CHOOSE i \in ws : \A j \in ws : i <= j

\* Mutation of Account: the previous memory is not passed to the writer.
AccountWithoutPrevious(s, prev, cover) == cover

\* The new memory's account: what it covers and what the previous one accounts for.
Account(s, prev, cover) == cover \cup UNION {s.account[p] \cup {p} : p \in prev}

\* write_working_memory: an answer that cannot be parsed makes an empty memory, all the same.
Told(s, prev, cover) == {Account(s, prev, cover), {}}

\* What leaves the context: not what is kept, already excluded, or of _SKIP_CLASSIFY.
Covered(s, cover, kept) ==
  {m \in cover \ kept : ~Excluded(s, m) /\ s.role[m] # "write"}

\* Mutation of Supersede: the previous memory stays in force.
SupersedeNothing(d, prev) == d

Supersede(d, prev) == Exclude(d, prev, "superseded")

\* _classify_conversation_messages: which of the user's and the assistant's messages stay
\* verbatim (data_payload, accepted, keep); one left untagged, asked for again, is kept.
Keepable(talk) == SUBSET talk

\* Stage 3, apply_working_memory: a memory below the branch that was read covers what came
\* after the previous one, which it folds in and supersedes.  User and assistant messages
\* are kept verbatim or (stale, drop) discarded; tool results are covered.
WriteMemory(r) ==
  /\ At(r, "compress", "memory")
  /\ LET s == req[r].rows
         b == Branch(s, s.active)
         from == Previous(s)
         cover == {b[i] : i \in from + 1 .. Len(b)}
         prev == IF from = 0 THEN {} ELSE {b[from]}
         talk == {m \in cover : s.role[m] = "talk"}
     IN /\ cover # {}
        /\ \E kept \in Keepable(talk), acc \in Told(s, prev, cover) :
             LET out == Covered(s, cover, kept)
                 Update(d) == Supersede(Exclude(Exclude(d, out \cap talk, "discarded"),
                                                out \ talk, "covered"), prev)
             IN Flushes(r, out \cup prev,
                        Insert(Update(draft), b[Len(b)], "memory", acc),
                        Update(s), "commit")

\* Nothing to cover, or an exception that run_compression logs: stage 1/2 alone counts.
SkipMemory(r) ==
  /\ pc[r] = "memory"
  /\ pc' = [pc EXCEPT ![r] = "commit"]
  /\ UNCHANGED <<db, draft, lock, req, made>>

-----------------------------------------------------------------------------
Step(r) ==
  \/ AddMessage(r) \/ BranchMessage(r) \/ DeleteSubtree(r) \/ RemoveMessage(r)
  \/ SelectBranch(r) \/ Dedupe(r) \/ CompressTools(r) \/ CompressFails(r)
  \/ WriteMemory(r) \/ SkipMemory(r) \/ Commit(r) \/ LockTimesOut(r)

Next == \E r \in Requests : Request(r) \/ Step(r)

Spec == Init /\ [][Next]_vars

-----------------------------------------------------------------------------
(* Properties *)

TypeOK ==
  /\ db \in Rows /\ draft \in Rows
  /\ lock \in Requests \cup {None}
  /\ pc \in [Requests -> {"idle", "write", "memory", "commit"}]
  /\ \A r \in Requests : req[r].on \in Ids \cup {NoMsg} /\ req[r].rows \in Rows
  /\ made \in 0 .. MaxRequests

\* Wherever the user goes, at most one working memory is in force on the way up to the
\* root: apply_working_memory looks for the first one only (compress.py:1409-1416), also
\* when several compressions overlap or a branch shares messages with another.  (A deletion
\* that overlaps a save can cut a message off its parent, and an older deletion then hang it
\* back below a memory its own branch knew nothing of.)
OneMemoryInForce ==
  ~db.cut => \A m \in db.live : Cardinality({w \in OnBranch(db, m) : InForce(db, w)}) <= 1

\* A memory whose text is empty, and what such memories at or above w have lost.
Blank(d, w) == d.role[w] = "memory" /\ d.account[w] = {}
Forgotten(d, w) == UNION {OnBranch(d, v) : v \in {u \in OnBranch(d, w) : Blank(d, u)}}

\* A memory in force accounts for all that is above it: its writer was given every
\* message, or the memory that was, whatever was edited, deleted or compressed on other
\* branches since (compress.py:1409-1419, 1432-1462).  What an empty memory covered is
\* lost to those that follow (1192-1199).
MemoryAccountsForBranch ==
  ~db.cut => \A w \in db.live :
    InForce(db, w) => OnBranch(db, w) \ {w} \subseteq db.account[w] \cup Forgotten(db, w)

\* As long as nothing is deleted, what the model no longer sees, verbatim or as a stub, is
\* in a memory in force, is a read with a later one below it, or went with an empty memory,
\* whatever saves, edits, compressions and token counts overlapped (compress.py:1470-1500,
\* conv_helpers.py:86-91).  The memory is somewhere in the tree: after an edit above it, or
\* a save or another compression that overlapped the one that wrote it, the active branch
\* may not hold it, and the model continues without both.
ContextIsComplete ==
  db.live = 1 .. db.used =>
    \A m \in db.live :
      \/ InContext(db, m)
      \/ \E w \in db.live : InForce(db, w) /\ m \in db.account[w]
      \/ \E k \in db.live : m \in SupersededReads(db, k)
      \/ \E w \in db.live : Blank(db, w) /\ m \in OnBranch(db, w)

ActiveExists == db.active \in db.live \cup {NoMsg}

\* Only a deletion or a navigation that decides by rows which have changed since, that is
\* about a message already deleted, or that leaves one cut off from its deleted parent, can
\* take the active message away; no save, edit, token count or compression does, however
\* outdated what it read (conversations.py:135-151, 327-400).
ActiveIsKept ==
  [][ActiveExists /\ ~ActiveExists' =>
       \E r \in Requests : LET m == req[r].on IN
         /\ pc[r] = "write" /\ pc'[r] = "idle"
         /\ req[r].op \in {"select", "delete", "remove"}
         /\ req[r].rows # db \/ m \notin db.live \/ db.parent[m] \notin db.live \cup {NoMsg}]_vars
=============================================================================
