------------------------------ MODULE Retrieval ------------------------------
(***************************************************************************)
(* One retrieval space: the sources ingested into it, their embedded       *)
(* chunks, and the jobs that write, re-embed, delete and search them       *)
(* (backend/rag/ingestion.py, rag/store.py, routers/rag.py,                *)
(* rag_recompute.py).                                                      *)
(*                                                                         *)
(* Every file is ingested in a database session of its own: it looks for a *)
(* source of the same path, reads the space's model, and from its first    *)
(* change on holds SQLite's write lock while the file is embedded, window  *)
(* by window, until it commits.  A recomputation is another process: it    *)
(* reads everything first and takes the lock only to write it back.        *)
(***************************************************************************)
EXTENDS Naturals, Sequences

CONSTANTS
  Files,     \* the candidate files of the workspace, in the order of the walk
  Windows,   \* Windows[v]: the embedding windows of text v
  Models,    \* embedding models
  Jobs       \* bound: the jobs that are ever started

ASSUME WindowsAssumption == Windows \in Seq(Nat) /\ Windows # <<>>

Texts == DOMAIN Windows
NoText == 0
Paths == {Files[i] : i \in DOMAIN Files}
NoPath == "none"                          \* pasted text: origin_path is None
Sources == Jobs \X (Paths \cup {NoPath})  \* a row's id: the job that added it, its origin_path
NoSource == <<>>
NoJob == "none"
NoModel == "none"
ASSUME FilesAssumption == Files \in Seq(Paths) /\ Files # <<>>
ASSUME NamesAssumption == NoPath \notin Paths /\ NoJob \notin Jobs

VARIABLES
  file,    \* the text of each file in the workspace
  db,      \* the committed rows
  draft,   \* the rows as the session that holds the write lock has flushed them
  lock,    \* the job whose session holds the write lock
  pc,      \* what each job does next
  job,     \* what it has in memory
  alone,   \* history: the recomputation that no other job has overlapped so far
  raced,   \* history: the last recomputation to commit was overlapped by another job
  passed   \* history: the searches that a recomputation has overtaken

vars == <<file, db, draft, lock, pc, job, alone, raced, passed>>

\* text[s] stands for the content hash of source s; of is the job that wrote the chunk.
Chunks == [src : Sources, of : Jobs, text : Texts, n : Nat \ {0}, model : Models]
Rows == [exists : BOOLEAN, model : Models, text : [Sources -> Texts \cup {NoText}],
         chunks : SUBSET Chunks]

NothingToDo == [todo |-> <<>>, text |-> NoText, src |-> NoSource, model |-> NoModel,
                win |-> 0, seen |-> {}, to |-> NoModel]

\* The space was created on some model, not always the one that is the default today.
Init ==
  /\ file = [p \in Paths |-> 1]
  /\ \E m \in Models :
       db = [exists |-> TRUE, model |-> m, text |-> [s \in Sources |-> NoText], chunks |-> {}]
  /\ draft = db /\ lock = NoJob
  /\ pc = [j \in Jobs |-> "new"]
  /\ job = [j \in Jobs |-> NothingToDo]
  /\ alone = NoJob /\ raced = FALSE /\ passed = {}

\* Someone edits a file of the workspace.
EditFile(p) ==
  /\ file[p] + 1 \in Texts
  /\ file' = [file EXCEPT ![p] = @ + 1]
  /\ UNCHANGED <<db, draft, lock, pc, job, alone, raced, passed>>

-----------------------------------------------------------------------------
(* Ingesting files, uploads and pasted text *)

Goes(j, phase, mine) ==
  /\ pc' = [pc EXCEPT ![j] = phase]
  /\ job' = [job EXCEPT ![j] = mine]

Ends(j) == Goes(j, "end", NothingToDo)

\* The session is closed or rolled back: what it flushed is gone.
Rollback(j) ==
  /\ draft' = IF lock = j THEN db ELSE draft
  /\ lock' = IF lock = j THEN NoJob ELSE lock
  /\ Ends(j)

\* A commit of rows d by a session that has the lock or does not have to wait for it.
Commits(d) == db' = d /\ draft' = d /\ lock' = NoJob

\* The files of the walk that are left, or the end of the job.
NextFile(j) == IF Len(job[j].todo) <= 1 THEN Ends(j)
               ELSE Goes(j, "look", [NothingToDo EXCEPT !.todo = Tail(job[j].todo)])

\* The handlers answer 404 or an error when there is no such space.
IngestPath(j) ==
  /\ pc[j] = "new" /\ db.exists
  /\ \E todo \in {Files} \cup {<<p>> : p \in Paths} :
       Goes(j, "look", [NothingToDo EXCEPT !.todo = todo])
  /\ UNCHANGED <<file, db, draft, lock, alone, raced, passed>>

\* An upload is named by the client, pasted text has no path; both always add a source.
AddSource(j) ==
  /\ pc[j] = "new" /\ db.exists
  /\ \E p \in Paths \cup {NoPath}, t \in Texts :
       Goes(j, "space", [NothingToDo EXCEPT !.todo = <<p>>, !.text = t])
  /\ UNCHANGED <<file, db, draft, lock, alone, raced, passed>>

Found(p) == {s \in Sources : s[2] = p /\ db.text[s] # NoText}

\* The file is read, then the source of its path, whichever row comes first.  A file
\* that cannot be read or has not changed is skipped.
Look(j) ==
  /\ pc[j] = "look"
  /\ LET p == Head(job[j].todo) IN
     \/ NextFile(j)
     \/ /\ Found(p) = {}
        /\ Goes(j, "space", [job[j] EXCEPT !.text = file[p]])
     \/ \E s \in Found(p) :
          IF db.text[s] = file[p] THEN NextFile(j)
          ELSE Goes(j, "space", [job[j] EXCEPT !.text = file[p], !.src = s])
  /\ UNCHANGED <<file, db, draft, lock, alone, raced, passed>>

\* The jobs that go by what they read of the space.
Relying == {j \in Jobs : pc[j] \in {"write", "embed", "chunks", "update"}}

\* Mutation of SpaceModel: today's default for every space.
DefaultModel == CHOOSE m \in Models : TRUE

SpaceModel == db.model

\* add_source_and_chunks: the model the space is on; ValueError when it has been deleted.
GetSpace(j) ==
  /\ pc[j] = "space"
  /\ IF db.exists THEN Goes(j, "write", [job[j] EXCEPT !.model = SpaceModel]) /\ alone' = NoJob
     ELSE Ends(j) /\ UNCHANGED alone
  /\ UNCHANGED <<file, db, draft, lock, raced, passed>>

Target(j) == IF job[j].src # NoSource THEN job[j].src ELSE <<j, Head(job[j].todo)>>

Without(chunks, s) == {c \in chunks : c.src # s}

\* Mutation of Replaced: the old chunks stay.
ReplacedKeepingChunks(d, s, t) == [d EXCEPT !.text[s] = t]

Replaced(d, s, t) == [d EXCEPT !.text[s] = t, !.chunks = Without(@, s)]

\* The first flush takes the write lock: the old chunks are deleted and the row updated,
\* which fails when it has been deleted meanwhile (StaleDataError), or a row is added.
Write(j) ==
  /\ pc[j] = "write" /\ lock = NoJob
  /\ IF job[j].src # NoSource /\ db.text[job[j].src] = NoText
     THEN Ends(j) /\ UNCHANGED <<draft, lock>>
     ELSE /\ draft' = Replaced(draft, Target(j), job[j].text)
          /\ lock' = j
          /\ Goes(j, "embed", job[j])
  /\ UNCHANGED <<file, db, alone, raced, passed>>

\* The next window of chunks is embedded in a thread and flushed.
Embed(j) ==
  /\ pc[j] = "embed" /\ job[j].win < Windows[job[j].text]
  /\ LET n == job[j].win + 1 IN
     /\ draft' = [draft EXCEPT !.chunks = @ \cup
          {[src |-> Target(j), of |-> j, text |-> job[j].text, n |-> n, model |-> job[j].model]}]
     /\ Goes(j, "embed", [job[j] EXCEPT !.win = n])
  /\ UNCHANGED <<file, db, lock, alone, raced, passed>>

CommitFile(j) ==
  /\ pc[j] = "embed" /\ job[j].win = Windows[job[j].text]
  /\ Commits(draft)
  /\ NextFile(j)
  /\ UNCHANGED <<file, alone, raced, passed>>

Abandonable == {"look", "space", "write", "embed", "chunks", "update", "scan"}

\* Mutation of Abandon: the session of a cancelled job is not closed.
AbandonHoldingLock(j) ==
  /\ pc[j] \in Abandonable
  /\ Ends(j)
  /\ UNCHANGED <<file, db, draft, lock, alone, raced, passed>>

\* At any of its awaits: the user cancels, the socket closes, embedding fails, or the
\* write lock stays taken for the 30 s of the busy timeout.
Abandon(j) ==
  /\ pc[j] \in Abandonable
  /\ Rollback(j)
  /\ UNCHANGED <<file, db, alone, raced, passed>>

-----------------------------------------------------------------------------
(* Recomputing, deleting, searching *)

\* rag_recompute.py <space> --model m --apply: the space, then its chunks.
Recompute(j) ==
  /\ pc[j] = "new" /\ db.exists
  /\ \E m \in Models : Goes(j, "chunks", [NothingToDo EXCEPT !.model = db.model, !.to = m])
  /\ alone' = IF Relying = {} THEN j ELSE NoJob
  /\ UNCHANGED <<file, db, draft, lock, raced, passed>>

\* Without a chunk it stops, the space stays on its model.
ReadChunks(j) ==
  /\ pc[j] = "chunks"
  /\ IF db.chunks = {} THEN Ends(j) ELSE Goes(j, "update", [job[j] EXCEPT !.seen = db.chunks])
  /\ UNCHANGED <<file, db, draft, lock, alone, raced, passed>>

Key(c) == <<c.src, c.of, c.n>>   \* a chunk's row

\* The rows with new embeddings in the changed chunks, the space on model to if it moves.
Recomputed(d, changed, moves, to) ==
  [d EXCEPT !.model = IF moves THEN to ELSE @,
            !.chunks = {IF Key(c) \in changed THEN [c EXCEPT !.model = to] ELSE c : c \in @}]

\* The chunks whose new embedding differs from the one that was read.
Changed(j) == {Key(c) : c \in {k \in job[j].seen : k.model # job[j].to}}
Moves(j) == job[j].model # job[j].to

\* At its end everything is flushed and committed: only values that differ from what was
\* read are updated, and one row missing (StaleDataError) undoes the whole.
UpdateSpace(j) ==
  /\ pc[j] = "update" /\ lock = NoJob
  /\ IF Changed(j) \subseteq {Key(c) : c \in db.chunks} /\ (Moves(j) => db.exists)
     THEN /\ Commits(Recomputed(db, Changed(j), Moves(j), job[j].to))
          /\ raced' = (alone # j)
          /\ passed' = {k \in Jobs : pc[k] = "scan"}
     ELSE UNCHANGED <<db, draft, lock, raced, passed>>
  /\ Ends(j)
  /\ UNCHANGED <<file, alone>>

\* delete_source and delete_space: the first DELETE takes the lock until the commit.
DeleteSource(s) ==
  /\ lock = NoJob /\ db.text[s] # NoText
  /\ Commits([db EXCEPT !.text[s] = NoText, !.chunks = Without(@, s)])
  /\ UNCHANGED <<file, pc, job, alone, raced, passed>>

DeleteSpace ==
  /\ lock = NoJob /\ db.exists
  /\ Commits([db EXCEPT !.exists = FALSE, !.text = [s \in Sources |-> NoText], !.chunks = {}])
  /\ UNCHANGED <<file, pc, job, alone, raced, passed>>

\* search: the space's model embeds the query, then one SELECT scans the chunks.
Search(j) ==
  /\ pc[j] = "new" /\ db.exists
  /\ Goes(j, "scan", [NothingToDo EXCEPT !.model = db.model])
  /\ UNCHANGED <<file, db, draft, lock, alone, raced, passed>>

Scan(j) ==
  /\ pc[j] = "scan"
  /\ Ends(j)
  /\ UNCHANGED <<file, db, draft, lock, alone, raced, passed>>

-----------------------------------------------------------------------------
Ingestion(j) == \/ IngestPath(j) \/ AddSource(j) \/ Look(j) \/ GetSpace(j) \/ Write(j)
                \/ Embed(j) \/ CommitFile(j) \/ Abandon(j)

Next ==
  \/ \E j \in Jobs : \/ Ingestion(j) \/ Recompute(j) \/ ReadChunks(j) \/ UpdateSpace(j)
                     \/ Search(j) \/ Scan(j)
  \/ \E p \in Paths : EditFile(p)
  \/ \E s \in Sources : DeleteSource(s)
  \/ DeleteSpace

Spec == Init /\ [][Next]_vars

-----------------------------------------------------------------------------
(* Properties *)

Phases == Abandonable \cup {"new", "end"}

\* The variables have their types; the write lock is held by the one job that is embedding
\* and by nobody when no job is, and an uncommitted change has its lock holder.
TypeOK ==
  /\ file \in [Paths -> Texts]
  /\ db \in Rows /\ draft \in Rows
  /\ pc \in [Jobs -> Phases]
  /\ \A j \in Jobs : job[j].todo = <<>> \/ Head(job[j].todo) \in Paths \cup {NoPath}
  /\ lock \in Jobs \cup {NoJob}
  /\ \A j \in Jobs : lock = j <=> pc[j] = "embed"
  /\ lock = NoJob => draft = db

\* The chunks of source s are the first n windows of its text as job j wrote them.
Written(d, s, j, n) ==
  LET mine == {c \in d.chunks : c.src = s} IN
  /\ \A c \in mine : c.of = j /\ c.text = d.text[s]
  /\ {c.n : c \in mine} = 1 .. n
  /\ \A c, k \in mine : c.n = k.n => c = k

\* They are all of them; a source that does not exist has none.
Whole(d, s) ==
  IF d.text[s] = NoText THEN Without(d.chunks, s) = d.chunks
  ELSE \E j \in Jobs : Written(d, s, j, Windows[d.text[s]])

\* Whatever is cancelled, fails, times out, deleted or ingested twice in between: a
\* committed source has all chunks of the text its hash stands for, so that a later
\* ingestion skips it rightly, and nothing else; no chunk outlives its source.
SourcesAreWhole == \A s \in Sources : Whole(db, s)

\* The chunks of a space are comparable: all on the model the space names, which a search
\* embeds its query with.  An ingestion that overlaps a recomputation breaks it; the next
\* recomputation that nothing overlaps mends it.  A recomputation that commits between a
\* search's two reads leaves that search with the former model.
OneModelPerSpace ==
  db.exists /\ ~raced =>
    \A c \in db.chunks :
      /\ c.model = db.model
      /\ \A j \in Jobs \ passed : pc[j] = "scan" => job[j].model = c.model
=============================================================================
