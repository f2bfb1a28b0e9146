-------------------------- MODULE RetrievalProofs --------------------------
(***************************************************************************)
(* What holds of Retrieval for any files, texts, models and jobs.          *)
(***************************************************************************)
EXTENDS Retrieval, TLAPS

Origins == Paths \cup {NoPath}

\* What jobs have in memory.
Memory == [todo : Seq(Origins), text : Texts \cup {NoText}, src : Sources \cup {NoSource},
           model : Models \cup {NoModel}, win : Nat, seen : SUBSET Chunks, to : Models \cup {NoModel}]

\* What job j has found out by the time it gets to its phase.
Ready(j) ==
  /\ pc[j] = "look" => job[j].todo \in Seq(Paths)
  /\ pc[j] \in {"look", "space", "write", "embed"} =>
       job[j].todo # <<>> /\ (job[j].todo \in Seq(Paths) \/ Len(job[j].todo) = 1)
  /\ pc[j] \in {"space", "write", "embed"} => job[j].text \in Texts
  /\ pc[j] \in {"write", "embed", "scan", "chunks", "update"} => job[j].model \in Models
  /\ pc[j] \in {"chunks", "update"} => job[j].to \in Models

\* The types of all variables, and the write lock.
Typed ==
  /\ file \in [Paths -> Texts]
  /\ db \in Rows /\ draft \in Rows
  /\ pc \in [Jobs -> Phases]
  /\ job \in [Jobs -> Memory]
  /\ \A j \in Jobs : Ready(j)
  /\ lock \in Jobs \cup {NoJob}
  /\ \A j \in Jobs : lock = j <=> pc[j] = "embed"
  /\ lock = NoJob => draft = db

\* A step of job j that leaves the lock and the rows alone keeps the types when what j
\* goes on with is typed.
LEMMA GoesTyped ==
  ASSUME Typed, NEW j \in Jobs, NEW phase \in Phases \ {"embed"}, NEW mine \in Memory,
         pc[j] # "embed", Goes(j, phase, mine), UNCHANGED <<file, db, draft, lock>>,
         phase = "look" => mine.todo \in Seq(Paths),
         phase \in {"look", "space", "write"} =>
           mine.todo # <<>> /\ (mine.todo \in Seq(Paths) \/ Len(mine.todo) = 1),
         phase \in {"space", "write"} => mine.text \in Texts,
         phase \in {"write", "scan", "chunks", "update"} => mine.model \in Models,
         phase \in {"chunks", "update"} => mine.to \in Models
  PROVE  Typed'
<1>1. pc' \in [Jobs -> Phases] /\ job' \in [Jobs -> Memory]
  BY DEF Typed, Goes
<1>2. pc'[j] = phase /\ job'[j] = mine
  BY DEF Typed, Goes
<1>3. \A k \in Jobs \ {j} : pc'[k] = pc[k] /\ job'[k] = job[k]
  BY DEF Typed, Goes
<1>4. \A k \in Jobs : Ready(k)'
  BY <1>2, <1>3 DEF Typed, Ready
<1>5. \A k \in Jobs : lock' = k <=> pc'[k] = "embed"
  BY <1>2, <1>3 DEF Typed
<1> QED BY <1>1, <1>4, <1>5 DEF Typed

LEMMA NothingTyped == NothingToDo \in Memory /\ NothingToDo.todo = <<>>
BY DEF NothingToDo, Memory

\* A job that ends gives the lock back, if it has it, with the rows that are committed.
LEMMA RollbackTyped ==
  ASSUME Typed, NEW j \in Jobs, Rollback(j), UNCHANGED <<file, db>>
  PROVE  Typed'
<1>1. pc' \in [Jobs -> Phases] /\ job' \in [Jobs -> Memory]
  BY NothingTyped DEF Typed, Rollback, Ends, Goes, Phases
<1>2. pc'[j] = "end"
  BY DEF Typed, Rollback, Ends, Goes
<1>3. \A k \in Jobs \ {j} : pc'[k] = pc[k] /\ job'[k] = job[k]
  BY DEF Typed, Rollback, Ends, Goes
<1>4. \A k \in Jobs : Ready(k)'
  BY <1>2, <1>3 DEF Typed, Ready
<1>5. /\ \A k \in Jobs : lock' = k <=> pc'[k] = "embed"
      /\ lock' \in Jobs \cup {NoJob} /\ draft' \in Rows /\ (lock' = NoJob => draft' = db')
  BY <1>2, <1>3, NamesAssumption DEF Typed, Rollback
<1> QED BY <1>1, <1>4, <1>5 DEF Typed

\* So does a job that ends without having the lock.
LEMMA EndsTyped ==
  ASSUME Typed, NEW j \in Jobs, pc[j] # "embed", Ends(j), UNCHANGED <<file, db, draft, lock>>
  PROVE  Typed'
<1>1. lock # j
  BY DEF Typed
<1>2. Rollback(j)
  BY <1>1 DEF Rollback
<1> QED BY <1>2, RollbackTyped

LEMMA TailOfMore ==
  ASSUME NEW S, NEW q \in Seq(S), ~(Len(q) <= 1)
  PROVE  Tail(q) \in Seq(S) /\ Tail(q) # <<>>
<1>1. Len(q) \in Nat /\ Len(q) > 1
  OBVIOUS
<1>2. Tail(q) \in Seq(S) /\ Len(Tail(q)) = Len(q) - 1
  BY <1>1
<1>3. Len(Tail(q)) # 0 /\ Len(<<>>) = 0
  BY <1>1, <1>2
<1> QED BY <1>2, <1>3

\* The job goes on with the next file, or ends.
LEMMA NextFileTyped ==
  ASSUME Typed, NEW j \in Jobs, pc[j] \in {"look", "embed"}, NextFile(j)
  PROVE  /\ pc' \in [Jobs -> Phases] /\ job' \in [Jobs -> Memory]
         /\ pc'[j] \in {"look", "end"}
         /\ \A k \in Jobs \ {j} : pc'[k] = pc[k] /\ job'[k] = job[k]
         /\ \A k \in Jobs : Ready(k)'
<1> DEFINE left == Tail(job[j].todo)
           next == [NothingToDo EXCEPT !.todo = left]
<1>1. job[j].todo \in Seq(Origins) /\ job[j].todo # <<>>
  BY DEF Typed, Memory, Ready
<1>2. CASE Len(job[j].todo) <= 1
  <2>1. Ends(j)
    BY <1>2 DEF NextFile
  <2>2. pc' \in [Jobs -> Phases] /\ job' \in [Jobs -> Memory] /\ pc'[j] = "end"
    BY <2>1, NothingTyped DEF Typed, Ends, Goes, Phases
  <2>3. \A k \in Jobs \ {j} : pc'[k] = pc[k] /\ job'[k] = job[k]
    BY <2>1 DEF Typed, Ends, Goes
  <2>4. \A k \in Jobs : Ready(k)'
    BY <2>2, <2>3 DEF Typed, Ready
  <2> QED BY <2>2, <2>3, <2>4
<1>3. CASE ~(Len(job[j].todo) <= 1)
  <2>1. left \in Seq(Origins) /\ Len(left) = Len(job[j].todo) - 1
    BY <1>1
  <2>2. left # <<>> /\ left \in Seq(Paths)
    <3>1. job[j].todo \in Seq(Paths) \/ Len(job[j].todo) = 1
      BY DEF Typed, Ready
    <3>2. Len(job[j].todo) # 1
      <4> SUFFICES ASSUME Len(job[j].todo) = 1 PROVE Len(job[j].todo) <= 1
        BY <1>3
      <4>1. 1 <= 1
        OBVIOUS
      <4> QED BY <4>1
    <3>3. job[j].todo \in Seq(Paths)
      BY <3>1, <3>2
    <3> QED BY <1>3, <3>3, TailOfMore
  <2>3. next \in Memory /\ next.todo = left
    BY <2>1 DEF NothingToDo, Memory
  <2>4. Goes(j, "look", next)
    BY <1>3 DEF NextFile
  <2> HIDE DEF next, left
  <2>5. pc' \in [Jobs -> Phases] /\ job' \in [Jobs -> Memory] /\ pc'[j] = "look" /\ job'[j] = next
    BY <2>3, <2>4 DEF Typed, Goes, Phases, Abandonable
  <2>6. \A k \in Jobs \ {j} : pc'[k] = pc[k] /\ job'[k] = job[k]
    BY <2>4 DEF Typed, Goes
  <2>7. \A k \in Jobs : Ready(k)'
    BY <2>2, <2>3, <2>5, <2>6 DEF Typed, Ready
  <2> QED BY <2>5, <2>6, <2>7
<1> QED BY <1>2, <1>3

-----------------------------------------------------------------------------
(* Types *)

\* The rows after a source has got a text and lost its chunks.
LEMMA ReplacedTyped ==
  ASSUME NEW d \in Rows, NEW s \in Sources, NEW t \in Texts
  PROVE  Replaced(d, s, t) \in Rows
BY DEF Replaced, Rows, Without

\* A job writes to a source.
LEMMA TargetTyped ==
  ASSUME Typed, NEW j \in Jobs, pc[j] \in {"write", "embed"}
  PROVE  Target(j) \in Sources
<1>1. job[j].todo \in Seq(Origins) /\ job[j].todo # <<>> /\ job[j].src \in Sources \cup {NoSource}
  BY DEF Typed, Memory, Ready
<1>2. Head(job[j].todo) \in Origins
  BY <1>1
<1> QED BY <1>1, <1>2 DEF Target, Sources, Origins

\* A walk of the workspace, or of a file of it, is a sequence of paths.
LEMMA WalkTyped ==
  ASSUME NEW todo \in {Files} \cup {<<p>> : p \in Paths}
  PROVE  todo \in Seq(Paths) /\ todo # <<>>
<1>1. CASE todo = Files
  BY <1>1, FilesAssumption
<1>2. ASSUME NEW p \in Paths, todo = <<p>> PROVE todo \in Seq(Paths) /\ todo # <<>>
  BY <1>2
<1> QED BY <1>1, <1>2

\* A path is an origin.
LEMMA PathsAreOrigins == \A todo \in Seq(Paths) : todo \in Seq(Origins)
BY DEF Origins

\* Recomputed rows are rows.
LEMMA RecomputedTyped ==
  ASSUME NEW d \in Rows, NEW to \in Models, NEW changed, NEW moves \in BOOLEAN
  PROVE  Recomputed(d, changed, moves, to) \in Rows
<1>1. \A c \in Chunks : [c EXCEPT !.model = to] \in Chunks
  BY DEF Chunks
<1> QED BY <1>1 DEF Recomputed, Rows

\* Every initial state is typed.
LEMMA InitTyped == Init => Typed
<1> SUFFICES ASSUME Init PROVE Typed
  OBVIOUS
<1>1. PICK m \in Models : db = [exists |-> TRUE, model |-> m, text |-> [s \in Sources |-> NoText], chunks |-> {}]
  BY DEF Init
<1>2. db \in Rows /\ draft \in Rows /\ draft = db
  BY <1>1 DEF Init, Rows
<1>3. file \in [Paths -> Texts]
  BY WindowsAssumption DEF Init, Texts
<1>4. pc \in [Jobs -> Phases] /\ job \in [Jobs -> Memory]
  BY NothingTyped DEF Init, Phases
<1>5. \A j \in Jobs : Ready(j) /\ (lock = j <=> pc[j] = "embed")
  BY NamesAssumption DEF Init, Ready
<1> QED BY <1>2, <1>3, <1>4, <1>5 DEF Init, Typed

\* So is every state after a step.
LEMMA StepTyped == Typed /\ [Next]_vars => Typed'
<1> SUFFICES ASSUME Typed, [Next]_vars PROVE Typed'
  OBVIOUS
<1>1. CASE UNCHANGED vars
  BY <1>1 DEF vars, Typed, Ready
<1>2. ASSUME NEW j \in Jobs, IngestPath(j) PROVE Typed'
  <2>1. PICK todo \in {Files} \cup {<<p>> : p \in Paths} :
          Goes(j, "look", [NothingToDo EXCEPT !.todo = todo])
    BY <1>2 DEF IngestPath
  <2> DEFINE mine == [NothingToDo EXCEPT !.todo = todo]
  <2>2. todo \in Seq(Paths) /\ todo # <<>> /\ todo \in Seq(Origins)
    BY WalkTyped, PathsAreOrigins
  <2>3. mine \in Memory /\ mine.todo = todo
    BY <2>2 DEF NothingToDo, Memory
  <2>4. "look" \in Phases \ {"embed"} /\ pc[j] # "embed"
    BY <1>2 DEF Phases, Abandonable, IngestPath
  <2> QED BY <1>2, <2>1, <2>2, <2>3, <2>4, GoesTyped DEF IngestPath
<1>3. ASSUME NEW j \in Jobs, AddSource(j) PROVE Typed'
  <2>1. PICK p \in Paths \cup {NoPath}, t \in Texts :
          Goes(j, "space", [NothingToDo EXCEPT !.todo = <<p>>, !.text = t])
    BY <1>3 DEF AddSource
  <2> DEFINE mine == [NothingToDo EXCEPT !.todo = <<p>>, !.text = t]
  <2>2. <<p>> \in Seq(Origins) /\ <<p>> # <<>> /\ Len(<<p>>) = 1
    BY DEF Origins
  <2>2a. mine \in Memory /\ mine.todo = <<p>> /\ mine.text = t
    BY <2>2 DEF NothingToDo, Memory
  <2>3. "space" \in Phases \ {"embed"} /\ pc[j] # "embed"
    BY <1>3 DEF Phases, Abandonable, AddSource
  <2> QED BY <1>3, <2>1, <2>2, <2>2a, <2>3, GoesTyped DEF AddSource
<1>4. ASSUME NEW j \in Jobs, Look(j) PROVE Typed'
  <2> DEFINE p == Head(job[j].todo)
  <2>1. /\ pc[j] = "look" /\ job[j] \in Memory
        /\ job[j].todo \in Seq(Paths) /\ job[j].todo # <<>>
    BY <1>4 DEF Typed, Ready, Look
  <2>2. p \in Paths
    BY <2>1
  <2>3. CASE NextFile(j)
    <3>1. \A k \in Jobs : lock = k <=> pc'[k] = "embed"
      BY <2>1, <2>3, NextFileTyped DEF Typed
    <3> QED BY <1>4, <2>1, <2>3, <3>1, NextFileTyped DEF Look, Typed
  <2>4. ASSUME NEW mine \in Memory, Goes(j, "space", mine),
               mine.todo = job[j].todo, mine.text \in Texts
        PROVE  Typed'
    <3>1. "space" \in Phases \ {"embed"} /\ pc[j] # "embed"
      BY <2>1 DEF Phases, Abandonable
    <3> QED BY <1>4, <2>1, <2>4, <3>1, GoesTyped DEF Look
  <2>5. CASE Goes(j, "space", [job[j] EXCEPT !.text = file[p]])
    <3> DEFINE mine == [job[j] EXCEPT !.text = file[p]]
    <3>1. mine \in Memory /\ mine.todo = job[j].todo /\ mine.text \in Texts
      BY <2>1, <2>2 DEF Memory, Typed
    <3> QED BY <2>4, <2>5, <3>1
  <2>6. ASSUME NEW s \in Found(p), Goes(j, "space", [job[j] EXCEPT !.text = file[p], !.src = s])
        PROVE  Typed'
    <3> DEFINE mine == [job[j] EXCEPT !.text = file[p], !.src = s]
    <3>1. mine \in Memory /\ mine.todo = job[j].todo /\ mine.text \in Texts
      BY <2>1, <2>2 DEF Memory, Typed, Found
    <3> QED BY <2>4, <2>6, <3>1
  <2>7. \/ NextFile(j) \/ Goes(j, "space", [job[j] EXCEPT !.text = file[p]])
        \/ \E s \in Found(p) : Goes(j, "space", [job[j] EXCEPT !.text = file[p], !.src = s])
    BY <1>4 DEF Look
  <2> QED BY <2>3, <2>5, <2>6, <2>7
<1>5. ASSUME NEW j \in Jobs, GetSpace(j) PROVE Typed'
  <2>1. pc[j] = "space" /\ job[j] \in Memory /\ db.model \in Models
    BY <1>5 DEF GetSpace, Typed, Rows
  <2> DEFINE mine == [job[j] EXCEPT !.model = db.model]
  <2>2. mine \in Memory /\ mine.todo = job[j].todo /\ mine.text = job[j].text /\ mine.model = db.model
    BY <2>1 DEF Memory
  <2>3. CASE Ends(j)
    BY <1>5, <2>1, <2>3, EndsTyped DEF GetSpace
  <2>4. CASE Goes(j, "write", mine)
    <3>1. "write" \in Phases \ {"embed"} /\ pc[j] # "embed"
      BY <2>1 DEF Phases, Abandonable
    <3>2. mine.todo # <<>> /\ (mine.todo \in Seq(Paths) \/ Len(mine.todo) = 1) /\ mine.text \in Texts
      BY <2>1, <2>2 DEF Typed, Ready
    <3> HIDE DEF mine
    <3> QED BY <1>5, <2>1, <2>2, <2>4, <3>1, <3>2, GoesTyped DEF GetSpace
  <2> QED BY <1>5, <2>3, <2>4 DEF GetSpace, SpaceModel
<1>6. ASSUME NEW j \in Jobs, Write(j) PROVE Typed'
  <2>1. pc[j] = "write" /\ lock = NoJob /\ job[j] \in Memory
    BY <1>6 DEF Write, Typed
  <2>2. CASE Ends(j) /\ UNCHANGED <<draft, lock>>
    BY <1>6, <2>1, <2>2, EndsTyped DEF Write
  <2>3. CASE /\ draft' = Replaced(draft, Target(j), job[j].text)
             /\ lock' = j
             /\ Goes(j, "embed", job[j])
    <3>1. draft' \in Rows
      BY <2>1, <2>3, TargetTyped, ReplacedTyped DEF Typed, Ready
    <3>2. pc' = [pc EXCEPT ![j] = "embed"] /\ job' = job /\ "embed" \in Phases
      BY <2>3 DEF Goes, Typed, Phases, Abandonable
    <3>3. pc' \in [Jobs -> Phases] /\ \A k \in Jobs : pc'[k] = IF k = j THEN "embed" ELSE pc[k]
      BY <3>2 DEF Typed
    <3>4. \A k \in Jobs : Ready(k)'
      BY <2>1, <3>2, <3>3 DEF Typed, Ready
    <3>5. \A k \in Jobs : lock' = k <=> pc'[k] = "embed"
      BY <2>1, <2>3, <3>3, NamesAssumption DEF Typed
    <3> QED BY <1>6, <2>3, <3>1, <3>2, <3>3, <3>4, <3>5, NamesAssumption DEF Write, Typed
  <2> QED BY <1>6, <2>2, <2>3 DEF Write
<1>7. ASSUME NEW j \in Jobs, Embed(j) PROVE Typed'
  <2>1. pc[j] = "embed" /\ job[j] \in Memory /\ lock = j
    BY <1>7 DEF Embed, Typed
  <2> DEFINE n == job[j].win + 1
             new == [src |-> Target(j), of |-> j, text |-> job[j].text, n |-> n, model |-> job[j].model]
             mine == [job[j] EXCEPT !.win = n]
  <2>2. new \in Chunks
    <3>1. n \in Nat \ {0}
      BY <2>1 DEF Memory
    <3>2. job[j].text \in Texts /\ job[j].model \in Models
      BY <2>1 DEF Typed, Ready
    <3>3. Target(j) \in Sources
      BY <2>1, TargetTyped
    <3> QED BY <3>1, <3>2, <3>3 DEF Chunks
  <2>3. draft' \in Rows
    <3>1. draft' = [draft EXCEPT !.chunks = @ \cup {new}]
      BY <1>7 DEF Embed
    <3> HIDE DEF new
    <3> QED BY <2>2, <3>1 DEF Typed, Rows
  <2>4. mine \in Memory /\ mine.todo = job[j].todo /\ mine.text = job[j].text /\ mine.model = job[j].model
    BY <2>1 DEF Memory
  <2>5. Goes(j, "embed", mine)
    BY <1>7 DEF Embed
  <2> HIDE DEF new, mine, n
  <2>6. pc' = pc /\ job' \in [Jobs -> Memory]
    BY <2>1, <2>4, <2>5 DEF Goes, Typed
  <2>7. job'[j] = mine /\ \A k \in Jobs \ {j} : job'[k] = job[k]
    BY <2>5 DEF Goes, Typed
  <2>8. \A k \in Jobs : Ready(k)'
    BY <2>1, <2>4, <2>6, <2>7 DEF Typed, Ready
  <2> QED BY <1>7, <2>1, <2>3, <2>6, <2>8, NamesAssumption DEF Embed, Typed
<1>8. ASSUME NEW j \in Jobs, CommitFile(j) PROVE Typed'
  <2>1. pc[j] = "embed" /\ lock = j /\ NextFile(j)
    BY <1>8 DEF CommitFile, Typed
  <2>2. db' = draft /\ draft' = draft /\ lock' = NoJob /\ file' = file
    BY <1>8 DEF CommitFile, Commits
  <2>3. \A k \in Jobs : lock' = k <=> pc'[k] = "embed"
    BY <2>1, <2>2, NextFileTyped, NamesAssumption DEF Typed
  <2> QED BY <2>1, <2>2, <2>3, NextFileTyped DEF Typed
<1>9. ASSUME NEW j \in Jobs, Abandon(j) PROVE Typed'
  BY <1>9, RollbackTyped DEF Abandon
<1>10. ASSUME NEW j \in Jobs, Recompute(j) PROVE Typed'
  <2>1. pc[j] = "new" /\ db.model \in Models
    BY <1>10 DEF Recompute, Typed, Rows
  <2>2. PICK m \in Models : Goes(j, "chunks", [NothingToDo EXCEPT !.model = db.model, !.to = m])
    BY <1>10 DEF Recompute
  <2> DEFINE mine == [NothingToDo EXCEPT !.model = db.model, !.to = m]
  <2>3. mine \in Memory /\ mine.model \in Models /\ mine.to \in Models
    BY <2>1, NothingTyped DEF NothingToDo, Memory
  <2>4. "chunks" \in Phases \ {"embed"} /\ pc[j] # "embed"
    BY <2>1 DEF Phases, Abandonable
  <2> HIDE DEF mine
  <2> QED BY <1>10, <2>2, <2>3, <2>4, GoesTyped DEF Recompute, mine
<1>11. ASSUME NEW j \in Jobs, ReadChunks(j) PROVE Typed'
  <2>1. pc[j] = "chunks" /\ job[j] \in Memory /\ db.chunks \in SUBSET Chunks
    BY <1>11 DEF ReadChunks, Typed, Rows
  <2> DEFINE mine == [job[j] EXCEPT !.seen = db.chunks]
  <2>2. mine \in Memory /\ mine.model = job[j].model /\ mine.to = job[j].to
    BY <2>1 DEF Memory
  <2>3. CASE Ends(j)
    BY <1>11, <2>1, <2>3, EndsTyped DEF ReadChunks
  <2>4. CASE Goes(j, "update", mine)
    <3>1. "update" \in Phases \ {"embed"} /\ pc[j] # "embed"
      BY <2>1 DEF Phases, Abandonable
    <3>2. mine.model \in Models /\ mine.to \in Models
      BY <2>1, <2>2 DEF Typed, Ready
    <3> HIDE DEF mine
    <3> QED BY <1>11, <2>2, <2>4, <3>1, <3>2, GoesTyped DEF ReadChunks
  <2> QED BY <1>11, <2>3, <2>4 DEF ReadChunks
<1>12. ASSUME NEW j \in Jobs, UpdateSpace(j) PROVE Typed'
  <2>1. pc[j] = "update" /\ lock = NoJob /\ Ends(j) /\ file' = file /\ draft = db
    BY <1>12 DEF UpdateSpace, Typed
  <2>2. CASE UNCHANGED <<db, draft, lock>>
    BY <2>1, <2>2, EndsTyped
  <2>3. CASE Commits(Recomputed(db, Changed(j), Moves(j), job[j].to))
    <3>1. db \in Rows /\ job[j].to \in Models /\ Moves(j) \in BOOLEAN
      BY <2>1 DEF Typed, Ready, Moves
    <3>2. db' \in Rows
      BY <2>3, <3>1, RecomputedTyped DEF Commits
    <3>3. pc' \in [Jobs -> Phases] /\ job' \in [Jobs -> Memory]
      BY <2>1, NothingTyped DEF Typed, Ends, Goes, Phases
    <3>4. /\ pc'[j] = "end"
          /\ \A k \in Jobs \ {j} : pc'[k] = pc[k] /\ job'[k] = job[k]
      BY <2>1 DEF Typed, Ends, Goes
    <3>5. \A k \in Jobs : Ready(k)'
      BY <3>4 DEF Typed, Ready
    <3>6. \A k \in Jobs : lock' = k <=> pc'[k] = "embed"
      BY <2>1, <2>3, <3>4, NamesAssumption DEF Commits, Typed
    <3> QED BY <2>1, <2>3, <3>2, <3>3, <3>5, <3>6 DEF Commits, Typed
  <2> QED BY <1>12, <2>2, <2>3 DEF UpdateSpace
<1>13. ASSUME NEW j \in Jobs, Search(j) PROVE Typed'
  <2>1. pc[j] = "new" /\ db.model \in Models
    BY <1>13 DEF Search, Typed, Rows
  <2> DEFINE mine == [NothingToDo EXCEPT !.model = db.model]
  <2>2. Goes(j, "scan", mine)
    BY <1>13 DEF Search
  <2>3. mine \in Memory /\ mine.model \in Models
    BY <2>1, NothingTyped DEF NothingToDo, Memory
  <2>4. "scan" \in Phases \ {"embed"} /\ pc[j] # "embed"
    BY <2>1 DEF Phases, Abandonable
  <2> HIDE DEF mine
  <2> QED BY <1>13, <2>2, <2>3, <2>4, GoesTyped DEF Search
<1>14. ASSUME NEW j \in Jobs, Scan(j) PROVE Typed'
  BY <1>14, EndsTyped DEF Scan
<1>15. ASSUME NEW p \in Paths, EditFile(p) PROVE Typed'
  <2>1. file' \in [Paths -> Texts]
    BY <1>15 DEF EditFile, Typed
  <2> QED BY <1>15, <2>1 DEF EditFile, Typed, Ready
<1>16. ASSUME NEW s \in Sources, DeleteSource(s) PROVE Typed'
  <2>1. db' \in Rows
    BY <1>16 DEF DeleteSource, Commits, Typed, Rows, Without
  <2> QED BY <1>16, <2>1 DEF DeleteSource, Commits, Typed, Ready
<1>17. ASSUME DeleteSpace PROVE Typed'
  <2>1. db' \in Rows
    BY <1>17 DEF DeleteSpace, Commits, Typed, Rows
  <2> QED BY <1>17, <2>1 DEF DeleteSpace, Commits, Typed, Ready
<1> QED
  BY <1>1, <1>2, <1>3, <1>4, <1>5, <1>6, <1>7, <1>8, <1>9, <1>10, <1>11, <1>12, <1>13, <1>14,
     <1>15, <1>16, <1>17 DEF Next, Ingestion

\* The rows, what jobs have in memory and the write lock are as the type invariant says:
\* of all jobs, the one that embeds has the lock.
THEOREM TypeCorrect == Spec => []TypeOK
<1>1. Typed => TypeOK
  <2> SUFFICES ASSUME Typed, NEW j \in Jobs, job[j].todo # <<>>
               PROVE  Head(job[j].todo) \in Paths \cup {NoPath}
    BY DEF Typed, TypeOK
  <2>1. job[j].todo \in Seq(Origins)
    BY DEF Typed, Memory
  <2> QED BY <2>1 DEF Origins
<1> QED BY <1>1, InitTyped, StepTyped, PTL DEF Spec

-----------------------------------------------------------------------------
(* Whole sources *)

\* What job j has written so far, while it has the lock, and the sources it leaves alone.
Writing(j) ==
  /\ draft.text[Target(j)] = job[j].text
  /\ job[j].win <= Windows[job[j].text]
  /\ Written(draft, Target(j), j, job[j].win)
  /\ \A s \in Sources \ {Target(j)} : Whole(draft, s)

WholeSoFar ==
  /\ SourcesAreWhole
  /\ \A j \in Jobs : /\ lock = j => Writing(j)
                     /\ pc[j] \in {"look", "space", "write"} => job[j].win = 0

Of(d, s) == {c \in d.chunks : c.src = s}

\* Whether a source is whole depends on its text and its own chunks.
LEMMA SameSourceWhole ==
  ASSUME NEW d, NEW e, NEW s, d.text[s] = e.text[s], Of(d, s) = Of(e, s), Whole(d, s)
  PROVE  Whole(e, s)
<1>1. \A x : Without(x.chunks, s) = x.chunks <=> Of(x, s) = {}
  BY DEF Without, Of
<1> QED BY <1>1 DEF Whole, Written, Of

\* Replacing a source leaves the others as they are, and the source without a chunk.
LEMMA ReplacedWhole ==
  ASSUME NEW d \in Rows, NEW s \in Sources, NEW t \in Texts
  PROVE  /\ Replaced(d, s, t).text[s] = t
         /\ Of(Replaced(d, s, t), s) = {}
         /\ \A r \in Sources \ {s} : Whole(d, r) => Whole(Replaced(d, s, t), r)
<1>1. /\ Replaced(d, s, t).text[s] = t
      /\ \A r \in Sources \ {s} : Replaced(d, s, t).text[r] = d.text[r]
      /\ Replaced(d, s, t).chunks = Without(d.chunks, s)
  BY DEF Replaced, Rows
<1>2. Of(Replaced(d, s, t), s) = {}
  BY <1>1 DEF Of, Without
<1>3. \A r \in Sources \ {s} : Of(Replaced(d, s, t), r) = Of(d, r)
  BY <1>1 DEF Of, Without
<1> QED BY <1>1, <1>2, <1>3, SameSourceWhole

\* New embeddings are new values in the same rows.
LEMMA RecomputedWhole ==
  ASSUME NEW d \in Rows, NEW s \in Sources, NEW to \in Models, NEW changed,
         NEW moves \in BOOLEAN, Whole(d, s)
  PROVE  Whole(Recomputed(d, changed, moves, to), s)
<1> DEFINE e == Recomputed(d, changed, moves, to)
           f(c) == IF Key(c) \in changed THEN [c EXCEPT !.model = to] ELSE c
<1>1. e.text = d.text /\ e.chunks = {f(c) : c \in d.chunks}
  BY DEF Recomputed, Rows
<1>2. \A c \in d.chunks : f(c).src = c.src /\ f(c).of = c.of /\ f(c).text = c.text /\ f(c).n = c.n
  BY DEF Rows, Chunks
<1>3. Of(e, s) = {f(c) : c \in Of(d, s)}
  BY <1>1, <1>2 DEF Of
<1>4. \A c \in Of(d, s) : c \in d.chunks
  BY DEF Of
<1> HIDE DEF e, f
<1>5. CASE d.text[s] = NoText
  <2>1. Of(d, s) = {}
    BY <1>5 DEF Whole, Without, Of
  <2>2. Of(e, s) = {}
    BY <2>1, <1>3
  <2> QED BY <1>1, <1>5, <2>2 DEF Whole, Without, Of, e
<1>6. CASE d.text[s] # NoText
  <2>1. PICK j \in Jobs : Written(d, s, j, Windows[d.text[s]])
    BY <1>6 DEF Whole
  <2>2. \A c \in Of(e, s) : c.of = j /\ c.text = e.text[s]
    BY <1>1, <1>2, <1>3, <1>4, <2>1 DEF Written, Of
  <2>3. {c.n : c \in Of(e, s)} = {c.n : c \in Of(d, s)}
    BY <1>2, <1>3, <1>4
  <2>4. \A c, k \in Of(e, s) : c.n = k.n => c = k
    <3> SUFFICES ASSUME NEW c \in Of(e, s), NEW k \in Of(e, s), c.n = k.n PROVE c = k
      OBVIOUS
    <3>1. PICK c0 \in Of(d, s) : c = f(c0)
      BY <1>3
    <3>2. PICK k0 \in Of(d, s) : k = f(k0)
      BY <1>3
    <3>3. c0.n = k0.n
      BY <1>2, <1>4, <3>1, <3>2
    <3> QED BY <2>1, <3>1, <3>2, <3>3 DEF Written, Of
  <2>5. Written(e, s, j, Windows[e.text[s]])
    BY <1>1, <2>1, <2>2, <2>3, <2>4 DEF Written, Of
  <2> QED BY <1>1, <1>6, <2>5 DEF Whole, e
<1> QED BY <1>5, <1>6

\* A step of a job that has not the lock and leaves it and the rows alone.
LEMMA GoesWhole ==
  ASSUME Typed, WholeSoFar, NEW j \in Jobs, NEW phase, NEW mine,
         pc[j] # "embed", Goes(j, phase, mine), UNCHANGED <<db, draft, lock>>,
         phase \in {"look", "space", "write"} => mine.win = 0
  PROVE  WholeSoFar'
<1>1. pc'[j] = phase /\ job'[j] = mine
  BY DEF Typed, Goes
<1>2. \A k \in Jobs \ {j} : pc'[k] = pc[k] /\ job'[k] = job[k]
  BY DEF Typed, Goes
<1>3. lock # j
  BY DEF Typed
<1>4. \A k \in Jobs : lock' = k => Writing(k)'
  BY <1>2, <1>3 DEF WholeSoFar, Writing, Target
<1>5. \A k \in Jobs : pc'[k] \in {"look", "space", "write"} => job'[k].win = 0
  BY <1>1, <1>2 DEF WholeSoFar
<1> QED BY <1>4, <1>5 DEF WholeSoFar, SourcesAreWhole

\* A job that ends without having committed leaves what was committed.
LEMMA RollbackWhole ==
  ASSUME Typed, WholeSoFar, NEW j \in Jobs, Rollback(j), UNCHANGED db
  PROVE  WholeSoFar'
<1>1. pc'[j] = "end" /\ \A k \in Jobs \ {j} : pc'[k] = pc[k] /\ job'[k] = job[k]
  BY DEF Typed, Rollback, Ends, Goes
<1>2. CASE lock = j
  BY <1>1, <1>2, NamesAssumption DEF WholeSoFar, SourcesAreWhole, Rollback
<1>3. CASE lock # j
  <2>1. \A k \in Jobs : lock' = k => Writing(k)'
    BY <1>1, <1>3 DEF WholeSoFar, Rollback, Writing, Target
  <2> QED BY <1>1, <2>1 DEF WholeSoFar, SourcesAreWhole
<1> QED BY <1>2, <1>3

\* The next file begins with nothing written.
LEMMA NextFileWhole ==
  ASSUME Typed, NEW j \in Jobs, NextFile(j)
  PROVE  /\ job'[j].win = 0
         /\ \A k \in Jobs \ {j} : pc'[k] = pc[k] /\ job'[k] = job[k]
<1>1. \A left : [NothingToDo EXCEPT !.todo = left].win = 0 /\ NothingToDo.win = 0
  BY DEF NothingToDo
<1>2. \A phase, mine : Goes(j, phase, mine) =>
        job'[j] = mine /\ \A k \in Jobs \ {j} : pc'[k] = pc[k] /\ job'[k] = job[k]
  BY DEF Typed, Goes
<1>3. PICK phase, mine : Goes(j, phase, mine) /\ mine.win = 0
  BY <1>1 DEF NextFile, Ends
<1> QED BY <1>2, <1>3

\* Rows changed without a lock that leave all sources whole.
LEMMA CommitsWhole ==
  ASSUME Typed, WholeSoFar, NEW d, Commits(d), \A s \in Sources : Whole(d, s),
         \A k \in Jobs : pc'[k] \in {"look", "space", "write"} => job'[k].win = 0
  PROVE  WholeSoFar'
BY NamesAssumption DEF Commits, WholeSoFar, SourcesAreWhole

\* At the first flush everything but the target is as it was committed.
LEMMA WriteWhole ==
  ASSUME Typed, WholeSoFar, NEW j \in Jobs, Write(j)
  PROVE  WholeSoFar'
<1>1. pc[j] = "write" /\ lock = NoJob /\ draft = db /\ db' = db /\ job[j].win = 0
  BY DEF Write, Typed, WholeSoFar
<1>2. CASE Ends(j) /\ UNCHANGED <<draft, lock>>
  BY <1>1, <1>2, GoesWhole DEF Ends
<1>3. CASE /\ draft' = Replaced(draft, Target(j), job[j].text)
           /\ lock' = j
           /\ Goes(j, "embed", job[j])
  <2> DEFINE t == job[j].text
  <2>1. Target(j) \in Sources /\ t \in Texts /\ Windows[t] \in Nat /\ draft \in Rows
    BY <1>1, TargetTyped, WindowsAssumption DEF Typed, Ready, Texts
  <2>2. job' = job /\ \A k \in Jobs : pc'[k] = IF k = j THEN "embed" ELSE pc[k]
    BY <1>3 DEF Goes, Typed
  <2>3. /\ draft'.text[Target(j)] = t
        /\ Of(draft', Target(j)) = {}
        /\ \A s \in Sources \ {Target(j)} : Whole(draft', s)
    BY <1>1, <1>3, <2>1, ReplacedWhole DEF WholeSoFar, SourcesAreWhole
  <2>4. Written(draft', Target(j), j, 0)
    <3>1. 1 .. 0 = {}
      OBVIOUS
    <3> QED BY <2>3, <3>1 DEF Written, Of
  <2>5. Target(j)' = Target(j)
    BY <2>2 DEF Target
  <2>6. Writing(j)'
    BY <1>1, <2>1, <2>2, <2>3, <2>4, <2>5 DEF Writing
  <2> QED BY <1>1, <1>3, <2>2, <2>6 DEF WholeSoFar, SourcesAreWhole
<1> QED BY <1>2, <1>3 DEF Write

\* A window adds the next chunk of the target.
LEMMA EmbedWhole ==
  ASSUME Typed, WholeSoFar, NEW j \in Jobs, Embed(j)
  PROVE  WholeSoFar'
<1>1. pc[j] = "embed" /\ lock = j /\ job[j] \in Memory /\ db' = db /\ lock' = lock
  BY DEF Embed, Typed
<1> DEFINE n == job[j].win + 1
           new == [src |-> Target(j), of |-> j, text |-> job[j].text, n |-> n, model |-> job[j].model]
           T == Target(j)
<1>2. /\ T \in Sources /\ job[j].text \in Texts /\ job[j].win \in Nat
      /\ Windows[job[j].text] \in Nat /\ job[j].win < Windows[job[j].text]
  BY <1>1, TargetTyped, WindowsAssumption DEF Typed, Ready, Texts, Memory, Embed
<1>3. draft'.text = draft.text /\ draft'.chunks = draft.chunks \cup {new}
  BY DEF Embed, Typed, Rows
<1>4. Writing(j)
  BY <1>1 DEF WholeSoFar
<1>5. Of(draft', T) = Of(draft, T) \cup {new}
  BY <1>3 DEF Of
<1>6. \A s \in Sources \ {T} : Of(draft', s) = Of(draft, s)
  BY <1>3 DEF Of
<1>7. \A s \in Sources \ {T} : Whole(draft', s)
  BY <1>3, <1>4, <1>6, SameSourceWhole DEF Writing
<1>8. Written(draft', T, j, n)
  <2>1. Written(draft, T, j, job[j].win) /\ draft.text[T] = job[j].text
    BY <1>4 DEF Writing
  <2>2. new.of = j /\ new.text = job[j].text /\ new.n = n
    OBVIOUS
  <2> HIDE DEF new
  <2>3. \A c \in Of(draft', T) : c.of = j /\ c.text = draft'.text[T]
    BY <1>3, <1>5, <2>1, <2>2 DEF Written, Of
  <2>4. {c.n : c \in Of(draft', T)} = {c.n : c \in Of(draft, T)} \cup {n}
    BY <1>5, <2>2
  <2>5. {c.n : c \in Of(draft, T)} = 1 .. job[j].win
    BY <2>1 DEF Written, Of
  <2>6. (1 .. job[j].win) \cup {n} = 1 .. n
    BY <1>2
  <2>7. \A c \in Of(draft, T) : c.n # n
    BY <1>2, <2>5
  <2>8. \A c, k \in Of(draft, T) : c.n = k.n => c = k
    BY <2>1 DEF Written, Of
  <2>9. \A c, k \in Of(draft', T) : c.n = k.n => c = k
    BY <1>5, <2>2, <2>7, <2>8
  <2>10. {c.n : c \in Of(draft', T)} = 1 .. n
    BY <2>4, <2>5, <2>6
  <2> HIDE DEF n, T
  <2> QED BY <2>3, <2>9, <2>10 DEF Written, Of
<1>9. Goes(j, "embed", [job[j] EXCEPT !.win = n])
  BY DEF Embed
<1>10. /\ job'[j].text = job[j].text /\ job'[j].src = job[j].src /\ job'[j].todo = job[j].todo
       /\ job'[j].win = n
       /\ \A k \in Jobs : pc'[k] = pc[k]
       /\ \A k \in Jobs \ {j} : job'[k] = job[k]
  BY <1>1, <1>9 DEF Goes, Typed, Memory
<1>11. Target(j)' = T
  BY <1>10 DEF Target
<1>12. n <= Windows[job[j].text]
  BY <1>2
<1>13. Writing(j)'
  <2> HIDE DEF n, new, T
  <2> QED BY <1>3, <1>4, <1>7, <1>8, <1>10, <1>11, <1>12 DEF Writing, T
<1> QED BY <1>1, <1>10, <1>13 DEF WholeSoFar, SourcesAreWhole

\* With the last window written the target is whole too.
LEMMA CommitWhole ==
  ASSUME Typed, WholeSoFar, NEW j \in Jobs, CommitFile(j)
  PROVE  WholeSoFar'
<1>1. pc[j] = "embed" /\ lock = j /\ Commits(draft) /\ NextFile(j) /\ job[j].win = Windows[job[j].text]
  BY DEF CommitFile, Typed
<1>2. Writing(j) /\ job[j].text \in Texts /\ Target(j) \in Sources
  BY <1>1, TargetTyped DEF WholeSoFar, Typed, Ready
<1>3. NoText \notin Texts
  BY WindowsAssumption DEF Texts, NoText
<1>4. Whole(draft, Target(j))
  BY <1>1, <1>2, <1>3 DEF Writing, Whole
<1>5. \A s \in Sources : Whole(draft, s)
  BY <1>2, <1>4 DEF Writing
<1>6. \A k \in Jobs : pc'[k] \in {"look", "space", "write"} => job'[k].win = 0
  BY <1>1, NextFileWhole DEF WholeSoFar
<1> QED BY <1>1, <1>5, <1>6, CommitsWhole

\* A deleted source leaves no chunk behind.
LEMMA DeleteWhole ==
  ASSUME NEW d \in Rows, NEW s \in Sources, \A r \in Sources : Whole(d, r)
  PROVE  \A r \in Sources : Whole([d EXCEPT !.text[s] = NoText, !.chunks = Without(@, s)], r)
<1> DEFINE e == [d EXCEPT !.text[s] = NoText, !.chunks = Without(@, s)]
<1>1. /\ e.text[s] = NoText /\ e.chunks = Without(d.chunks, s)
      /\ \A r \in Sources \ {s} : e.text[r] = d.text[r]
  BY DEF Rows
<1> HIDE DEF e
<1>2. Whole(e, s)
  BY <1>1 DEF Whole, Without
<1>3. ASSUME NEW r \in Sources \ {s} PROVE Whole(e, r)
  <2>1. Of(e, r) = Of(d, r)
    BY <1>1 DEF Of, Without
  <2> QED BY <1>1, <2>1, SameSourceWhole
<1> QED BY <1>2, <1>3 DEF e

LEMMA StepWhole == Typed /\ WholeSoFar /\ [Next]_vars => WholeSoFar'
<1> SUFFICES ASSUME Typed, WholeSoFar, [Next]_vars PROVE WholeSoFar'
  OBVIOUS
<1>1. CASE UNCHANGED vars
  BY <1>1 DEF vars, WholeSoFar, SourcesAreWhole, Writing, Target
<1>2. ASSUME NEW j \in Jobs, IngestPath(j) PROVE WholeSoFar'
  <2>1. PICK todo : Goes(j, "look", [NothingToDo EXCEPT !.todo = todo])
    BY <1>2 DEF IngestPath
  <2>2. [NothingToDo EXCEPT !.todo = todo].win = 0
    BY DEF NothingToDo
  <2> QED BY <1>2, <2>1, <2>2, GoesWhole DEF IngestPath
<1>3. ASSUME NEW j \in Jobs, AddSource(j) PROVE WholeSoFar'
  <2>1. PICK p, t : Goes(j, "space", [NothingToDo EXCEPT !.todo = <<p>>, !.text = t])
    BY <1>3 DEF AddSource
  <2>2. [NothingToDo EXCEPT !.todo = <<p>>, !.text = t].win = 0
    BY DEF NothingToDo
  <2> QED BY <1>3, <2>1, <2>2, GoesWhole DEF AddSource
<1>4. ASSUME NEW j \in Jobs, Look(j) PROVE WholeSoFar'
  <2>1. pc[j] = "look" /\ job[j].win = 0 /\ job[j] \in Memory /\ UNCHANGED <<db, draft, lock>>
    BY <1>4 DEF Look, WholeSoFar, Typed
  <2>2. \A left : [NothingToDo EXCEPT !.todo = left].win = 0 /\ NothingToDo.win = 0
    BY DEF NothingToDo
  <2>3. \A t, s : /\ [job[j] EXCEPT !.text = t].win = 0
                  /\ [job[j] EXCEPT !.text = t, !.src = s].win = 0
    BY <2>1 DEF Memory
  <2>4. CASE NextFile(j)
    <3>1. PICK phase, mine : Goes(j, phase, mine) /\ mine.win = 0
      BY <2>2, <2>4 DEF NextFile, Ends
    <3> QED BY <2>1, <3>1, GoesWhole
  <2>5. CASE \E mine : Goes(j, "space", mine) /\ mine.win = 0
    BY <2>1, <2>5, GoesWhole
  <2> QED BY <1>4, <2>3, <2>4, <2>5 DEF Look
<1>5. ASSUME NEW j \in Jobs, GetSpace(j) PROVE WholeSoFar'
  <2>1. pc[j] = "space" /\ [job[j] EXCEPT !.model = SpaceModel].win = 0 /\ UNCHANGED <<db, draft, lock>>
    BY <1>5 DEF GetSpace, WholeSoFar, Typed, Memory
  <2>2. CASE Ends(j)
    BY <2>1, <2>2, GoesWhole DEF Ends
  <2>3. CASE Goes(j, "write", [job[j] EXCEPT !.model = SpaceModel])
    BY <2>1, <2>3, GoesWhole
  <2> QED BY <1>5, <2>2, <2>3 DEF GetSpace
<1>6. ASSUME NEW j \in Jobs, Abandon(j) PROVE WholeSoFar'
  BY <1>6, RollbackWhole DEF Abandon
<1>7. ASSUME NEW j \in Jobs, Recompute(j) PROVE WholeSoFar'
  <2>1. PICK m : Goes(j, "chunks", [NothingToDo EXCEPT !.model = db.model, !.to = m])
    BY <1>7 DEF Recompute
  <2> QED BY <1>7, <2>1, GoesWhole DEF Recompute
<1>8. ASSUME NEW j \in Jobs, ReadChunks(j) PROVE WholeSoFar'
  BY <1>8, GoesWhole DEF ReadChunks, Ends
<1>9. ASSUME NEW j \in Jobs, UpdateSpace(j) PROVE WholeSoFar'
  <2>1. pc[j] = "update" /\ Goes(j, "end", NothingToDo) /\ db \in Rows /\ job[j].to \in Models
    BY <1>9 DEF UpdateSpace, Ends, Typed, Ready
  <2>2. CASE UNCHANGED <<db, draft, lock>>
    BY <2>1, <2>2, GoesWhole
  <2>3. CASE Commits(Recomputed(db, Changed(j), Moves(j), job[j].to))
    <3>1. \A s \in Sources : Whole(Recomputed(db, Changed(j), Moves(j), job[j].to), s)
      BY <2>1, RecomputedWhole DEF WholeSoFar, SourcesAreWhole, Moves
    <3>2. \A k \in Jobs : pc'[k] \in {"look", "space", "write"} => job'[k].win = 0
      BY <2>1 DEF Goes, Typed, WholeSoFar
    <3> QED BY <2>3, <3>1, <3>2, CommitsWhole
  <2> QED BY <1>9, <2>2, <2>3 DEF UpdateSpace
<1>10. ASSUME NEW j \in Jobs, Search(j) PROVE WholeSoFar'
  BY <1>10, GoesWhole DEF Search
<1>11. ASSUME NEW j \in Jobs, Scan(j) PROVE WholeSoFar'
  BY <1>11, GoesWhole DEF Scan, Ends
<1>12. ASSUME NEW p \in Paths, EditFile(p) PROVE WholeSoFar'
  BY <1>12 DEF EditFile, WholeSoFar, SourcesAreWhole, Writing, Target
<1>13. ASSUME NEW s \in Sources, DeleteSource(s) PROVE WholeSoFar'
  <2> DEFINE d == [db EXCEPT !.text[s] = NoText, !.chunks = Without(@, s)]
  <2>1. \A r \in Sources : Whole(d, r)
    BY DeleteWhole DEF Typed, WholeSoFar, SourcesAreWhole
  <2>2. Commits(d) /\ UNCHANGED <<pc, job>>
    BY <1>13 DEF DeleteSource
  <2> HIDE DEF d
  <2> QED BY <2>1, <2>2, CommitsWhole DEF WholeSoFar
<1>14. ASSUME DeleteSpace PROVE WholeSoFar'
  <2> DEFINE d == [db EXCEPT !.exists = FALSE, !.text = [s \in Sources |-> NoText], !.chunks = {}]
  <2>1. \A r \in Sources : Whole(d, r)
    BY DEF Typed, Rows, Whole, Without
  <2>2. Commits(d) /\ UNCHANGED <<pc, job>>
    BY <1>14 DEF DeleteSpace
  <2> HIDE DEF d
  <2> QED BY <2>1, <2>2, CommitsWhole DEF WholeSoFar
<1> QED
  BY <1>1, <1>2, <1>3, <1>4, <1>5, <1>6, <1>7, <1>8, <1>9, <1>10, <1>11, <1>12, <1>13, <1>14,
     WriteWhole, EmbedWhole, CommitWhole DEF Next, Ingestion

\* A source that is committed has all chunks of its text and no others, and a source that
\* does not exist has none, whatever jobs are cancelled, fail or overlap: what a job flushes
\* is its target's, window by window, and is committed with the last of them or not at all.
THEOREM SourcesWhole == Spec => []SourcesAreWhole
<1>1. Init => WholeSoFar
  <2> SUFFICES ASSUME Init PROVE WholeSoFar
    OBVIOUS
  <2>1. PICK m \in Models : db = [exists |-> TRUE, model |-> m, text |-> [s \in Sources |-> NoText], chunks |-> {}]
    BY DEF Init
  <2>2. \A s \in Sources : Whole(db, s)
    BY <2>1 DEF Whole, Without
  <2> QED BY <2>2, NamesAssumption DEF Init, WholeSoFar, SourcesAreWhole
<1>2. WholeSoFar => SourcesAreWhole
  BY DEF WholeSoFar
<1> QED BY <1>1, <1>2, InitTyped, StepTyped, StepWhole, PTL DEF Spec

-----------------------------------------------------------------------------
(* One model per space *)

OneModel(d) == \A c \in d.chunks : c.model = d.model

Reliant == {"write", "embed", "chunks", "update"}

\* What job j knows of the space: a search that was not overtaken, an ingestion since the
\* last recomputation went well and a recomputation that is alone know its model; a
\* recomputation that is alone has seen all its chunks.
Knows(j) ==
  /\ pc[j] = "scan" /\ j \notin passed => job[j].model = db.model
  /\ pc[j] \in {"write", "embed"} /\ ~raced => job[j].model = db.model
  /\ pc[j] \in {"chunks", "update"} /\ alone = j => job[j].model = db.model
  /\ pc[j] = "update" /\ alone = j => db.chunks \subseteq job[j].seen

Comparable ==
  /\ alone # NoJob => Relying \subseteq {alone}
  /\ \A j \in Jobs : Knows(j)
  /\ draft.model = db.model /\ draft.exists = db.exists
  /\ ~raced /\ db.exists => OneModel(db) /\ OneModel(draft)

\* A step of job j that does not move the space: what the others know stays true, chunks
\* being added only by a job that relies on the space itself.
LEMMA OthersKnow ==
  ASSUME Typed, Comparable, NEW j \in Jobs,
         NEW phase, NEW mine, Goes(j, phase, mine), UNCHANGED <<raced, passed>>,
         db'.model = db.model, db'.chunks \subseteq db.chunks \/ pc[j] \in Reliant,
         \/ alone' = alone /\ (phase \in Reliant => pc[j] \in Reliant)
         \/ alone' = NoJob
         \/ alone' = j /\ Relying = {}
  PROVE  /\ alone' # NoJob => Relying' \subseteq {alone'}
         /\ \A k \in Jobs \ {j} : Knows(k)'
         /\ pc'[j] = phase /\ job'[j] = mine
<1>1. pc'[j] = phase /\ job'[j] = mine
  BY DEF Typed, Goes
<1>2. \A k \in Jobs \ {j} : pc'[k] = pc[k] /\ job'[k] = job[k]
  BY DEF Typed, Goes
<1>3. Relying = {k \in Jobs : pc[k] \in Reliant} /\ Relying' = {k \in Jobs : pc'[k] \in Reliant}
  BY DEF Relying, Reliant
<1>4. alone' # NoJob => Relying' \subseteq {alone'}
  BY <1>1, <1>2, <1>3 DEF Comparable
<1>5. ASSUME NEW k \in Jobs \ {j} PROVE Knows(k)'
  <2>1. alone' = k => alone = k
    BY <1>5, NamesAssumption
  <2>2. alone = k => pc[j] \notin Reliant
    BY <1>3, <1>5, NamesAssumption DEF Comparable
  <2> QED BY <1>2, <2>1, <2>2 DEF Comparable, Knows
<1> QED BY <1>1, <1>4, <1>5

\* A step of a job that leaves the rows alone and knows what it has to.
LEMMA GoesComparable ==
  ASSUME Typed, Comparable, NEW j \in Jobs,
         NEW phase, NEW mine, Goes(j, phase, mine), UNCHANGED <<db, draft, raced, passed>>,
         \/ alone' = alone /\ (phase \in Reliant => pc[j] \in Reliant)
         \/ alone' = NoJob
         \/ alone' = j /\ Relying = {},
         phase \in {"scan", "write", "chunks"} => mine.model = db.model,
         phase \notin {"embed", "update"}
  PROVE  Comparable'
<1>1. /\ alone' # NoJob => Relying' \subseteq {alone'}
      /\ \A k \in Jobs \ {j} : Knows(k)'
      /\ pc'[j] = phase /\ job'[j] = mine
  BY OthersKnow
<1>2. Knows(j)'
  BY <1>1 DEF Knows
<1> QED BY <1>1, <1>2 DEF Comparable, OneModel

\* An ended or abandoned job takes what it flushed with it.
LEMMA RollbackComparable ==
  ASSUME Typed, Comparable, NEW j \in Jobs, Rollback(j), UNCHANGED <<db, alone, raced, passed>>
  PROVE  Comparable'
<1>1. Goes(j, "end", NothingToDo) /\ "end" \notin Reliant
  BY DEF Rollback, Ends, Reliant
<1>2. /\ alone' # NoJob => Relying' \subseteq {alone'}
      /\ \A k \in Jobs \ {j} : Knows(k)'
      /\ pc'[j] = "end"
  BY <1>1, OthersKnow
<1>3. Knows(j)'
  BY <1>2 DEF Knows
<1> QED BY <1>2, <1>3 DEF Comparable, OneModel, Rollback

\* A job goes on to the next file, having left the rows alone or committed its own.
LEMMA NextFileComparable ==
  ASSUME Typed, Comparable, NEW j \in Jobs, NextFile(j), UNCHANGED <<alone, raced, passed>>,
         \/ UNCHANGED <<db, draft>>
         \/ pc[j] = "embed" /\ db' = draft /\ draft' = draft
  PROVE  Comparable'
<1>1. PICK phase, mine : phase \in {"look", "end"} /\ Goes(j, phase, mine)
  BY DEF NextFile, Ends
<1>2. /\ alone' # NoJob => Relying' \subseteq {alone'}
      /\ \A k \in Jobs \ {j} : Knows(k)'
      /\ pc'[j] = phase
  <2>1. db'.model = db.model /\ (db'.chunks \subseteq db.chunks \/ pc[j] \in Reliant)
    BY DEF Comparable, Reliant
  <2>2. phase \notin Reliant
    BY <1>1 DEF Reliant
  <2> QED BY <1>1, <2>1, <2>2, OthersKnow
<1>3. Knows(j)'
  BY <1>1, <1>2 DEF Knows
<1> QED BY <1>2, <1>3 DEF Comparable, OneModel

\* The first flush takes chunks away.
LEMMA WriteComparable ==
  ASSUME Typed, Comparable, NEW j \in Jobs, Write(j)
  PROVE  Comparable'
<1>1. pc[j] = "write" /\ UNCHANGED <<db, alone, raced, passed>> /\ pc[j] \in Reliant
  BY DEF Write, Reliant
<1>2. CASE Ends(j) /\ UNCHANGED <<draft, lock>>
  <2>1. Goes(j, "end", NothingToDo) /\ "end" \notin Reliant
    BY <1>2 DEF Ends, Reliant
  <2> QED BY <1>1, <1>2, <2>1, GoesComparable
<1>3. CASE draft' = Replaced(draft, Target(j), job[j].text) /\ Goes(j, "embed", job[j])
  <2>1. /\ alone' # NoJob => Relying' \subseteq {alone'}
        /\ \A k \in Jobs \ {j} : Knows(k)'
        /\ pc'[j] = "embed" /\ job'[j] = job[j]
    BY <1>1, <1>3, OthersKnow
  <2>2. Knows(j)'
    BY <1>1, <2>1 DEF Comparable, Knows
  <2>3. draft'.model = draft.model /\ draft'.exists = draft.exists /\ draft'.chunks \subseteq draft.chunks
    BY <1>3 DEF Replaced, Without, Typed, Rows
  <2> QED BY <1>1, <2>1, <2>2, <2>3 DEF Comparable, OneModel
<1> QED BY <1>2, <1>3 DEF Write

\* A new chunk is on the model its job has read.
LEMMA EmbedComparable ==
  ASSUME Typed, Comparable, NEW j \in Jobs, Embed(j)
  PROVE  Comparable'
<1>1. pc[j] = "embed" /\ UNCHANGED <<db, alone, raced, passed>> /\ pc[j] \in Reliant /\ job[j] \in Memory
  BY DEF Embed, Reliant, Typed
<1> DEFINE mine == [job[j] EXCEPT !.win = job[j].win + 1]
           new == [src |-> Target(j), of |-> j, text |-> job[j].text, n |-> job[j].win + 1,
                   model |-> job[j].model]
<1>2. Goes(j, "embed", mine) /\ mine.model = job[j].model
  BY <1>1 DEF Embed, Memory
<1>3. /\ draft'.model = draft.model /\ draft'.exists = draft.exists
      /\ draft'.chunks = draft.chunks \cup {new}
  BY DEF Embed, Typed, Rows
<1>4. new.model = job[j].model
  OBVIOUS
<1> HIDE DEF mine, new
<1>5. /\ alone' # NoJob => Relying' \subseteq {alone'}
      /\ \A k \in Jobs \ {j} : Knows(k)'
      /\ pc'[j] = "embed" /\ job'[j] = mine
  BY <1>1, <1>2, OthersKnow
<1>6. Knows(j)'
  BY <1>1, <1>2, <1>5 DEF Comparable, Knows
<1>7. ~raced => job[j].model = db.model
  BY <1>1 DEF Comparable, Knows
<1>8. ~raced /\ db.exists => OneModel(draft')
  BY <1>3, <1>4, <1>7 DEF Comparable, OneModel
<1> QED BY <1>1, <1>3, <1>5, <1>6, <1>8 DEF Comparable, OneModel

\* A recomputation that is alone leaves all chunks on its model; any other is a race.
LEMMA UpdateComparable ==
  ASSUME Typed, Comparable, NEW j \in Jobs, UpdateSpace(j)
  PROVE  Comparable'
<1>1. pc[j] = "update" /\ Goes(j, "end", NothingToDo) /\ "end" \notin Reliant /\ alone' = alone
  BY DEF UpdateSpace, Ends, Reliant
<1>2. CASE UNCHANGED <<db, draft, raced, passed>>
  BY <1>1, <1>2, GoesComparable
<1>3. CASE /\ Commits(Recomputed(db, Changed(j), Moves(j), job[j].to))
           /\ raced' = (alone # j)
           /\ passed' = {k \in Jobs : pc[k] = "scan"}
           /\ Moves(j) => db.exists
  <2> DEFINE to == job[j].to
             f(c) == IF Key(c) \in Changed(j) THEN [c EXCEPT !.model = to] ELSE c
  <2>1. /\ db'.model = IF Moves(j) THEN to ELSE db.model
        /\ db'.chunks = {f(c) : c \in db.chunks}
        /\ draft' = db'
    BY <1>3 DEF Commits, Recomputed, Typed, Rows
  <2>2. pc'[j] = "end" /\ \A k \in Jobs \ {j} : pc'[k] = pc[k] /\ job'[k] = job[k]
    BY <1>1 DEF Goes, Typed
  <2>3. j \in Relying /\ \A k \in Relying' : k \in Relying /\ k # j
    BY <1>1, <2>2 DEF Relying
  <2>4. alone # NoJob => alone = j /\ Relying' = {}
    BY <2>3 DEF Comparable
  <2>5. \A k \in Jobs : pc'[k] = "scan" => k \in passed'
    BY <1>3, <2>2
  <2>6. ~raced' => \A k \in Jobs : pc'[k] \notin {"write", "embed"}
    BY <1>3, <2>4, NamesAssumption DEF Relying
  <2>7. \A k \in Jobs : alone = k => pc'[k] \notin {"chunks", "update"}
    BY <2>2, <2>4, NamesAssumption
  <2>8. \A k \in Jobs : Knows(k)'
    BY <1>1, <2>5, <2>6, <2>7 DEF Knows
  <2>9. ASSUME alone = j PROVE OneModel(db')
    <3>1. db.chunks \subseteq job[j].seen /\ job[j].model = db.model
      BY <1>1, <2>9 DEF Comparable, Knows
    <3>2. db'.model = to
      BY <2>1, <3>1 DEF Moves
    <3>3. \A c \in db.chunks : c.model # to => Key(c) \in Changed(j)
      BY <3>1 DEF Changed
    <3>4. \A c \in db.chunks : f(c).model = to
      BY <3>3 DEF Typed, Rows, Chunks
    <3> HIDE DEF f, to
    <3> QED BY <2>1, <3>2, <3>4 DEF OneModel
  <2>10. OneModel(db')  <=> OneModel(db)'
    BY DEF OneModel
  <2>11. OneModel(draft)' <=> OneModel(db)'
    BY <2>1 DEF OneModel
  <2> QED BY <1>1, <1>3, <2>1, <2>4, <2>8, <2>9, <2>10, <2>11 DEF Comparable
<1> QED BY <1>2, <1>3 DEF UpdateSpace

LEMMA StepComparable == Typed /\ Comparable /\ [Next]_vars => Comparable'
<1> SUFFICES ASSUME Typed, Comparable, [Next]_vars PROVE Comparable'
  OBVIOUS
<1> USE DEF Reliant
<1>1. CASE UNCHANGED vars
  BY <1>1 DEF vars, Comparable, Relying, Knows, OneModel
<1>2. ASSUME NEW j \in Jobs, IngestPath(j) PROVE Comparable'
  BY <1>2, GoesComparable DEF IngestPath
<1>3. ASSUME NEW j \in Jobs, AddSource(j) PROVE Comparable'
  BY <1>3, GoesComparable DEF AddSource
<1>4. ASSUME NEW j \in Jobs, Look(j) PROVE Comparable'
  <2>1. CASE NextFile(j)
    <3>1. UNCHANGED <<db, draft>> /\ UNCHANGED <<alone, raced, passed>>
      BY <1>4 DEF Look
    <3> QED BY <2>1, <3>1, NextFileComparable
  <2>2. CASE \E mine : Goes(j, "space", mine)
    BY <1>4, <2>2, GoesComparable DEF Look
  <2> QED BY <1>4, <2>1, <2>2 DEF Look
<1>5. ASSUME NEW j \in Jobs, GetSpace(j) PROVE Comparable'
  <2>1. [job[j] EXCEPT !.model = db.model].model = db.model
    BY DEF Typed, Memory
  <2>2. CASE Ends(j) /\ UNCHANGED alone
    BY <1>5, <2>2, GoesComparable DEF GetSpace, Ends
  <2>3. CASE Goes(j, "write", [job[j] EXCEPT !.model = db.model]) /\ alone' = NoJob
    <3>1. PICK mine : Goes(j, "write", mine) /\ mine.model = db.model
      BY <2>1, <2>3
    <3> QED BY <1>5, <2>3, <3>1, GoesComparable DEF GetSpace
  <2> QED BY <1>5, <2>2, <2>3 DEF GetSpace, SpaceModel
<1>6. ASSUME NEW j \in Jobs, CommitFile(j) PROVE Comparable'
  BY <1>6, NextFileComparable DEF CommitFile, Commits
<1>7. ASSUME NEW j \in Jobs, Abandon(j) PROVE Comparable'
  BY <1>7, RollbackComparable DEF Abandon
<1>8. ASSUME NEW j \in Jobs, Recompute(j) PROVE Comparable'
  <2>1. PICK m : Goes(j, "chunks", [NothingToDo EXCEPT !.model = db.model, !.to = m])
    BY <1>8 DEF Recompute
  <2>2. [NothingToDo EXCEPT !.model = db.model, !.to = m].model = db.model
    BY DEF NothingToDo
  <2>3. PICK mine : Goes(j, "chunks", mine) /\ mine.model = db.model
    BY <2>1, <2>2
  <2>4. /\ UNCHANGED <<db, draft, raced, passed>>
        /\ alone' = NoJob \/ (alone' = j /\ Relying = {})
    BY <1>8 DEF Recompute
  <2> QED BY <2>3, <2>4, GoesComparable
<1>9. ASSUME NEW j \in Jobs, ReadChunks(j) PROVE Comparable'
  <2>1. CASE Ends(j)
    BY <1>9, <2>1, GoesComparable DEF ReadChunks, Ends
  <2>2. CASE Goes(j, "update", [job[j] EXCEPT !.seen = db.chunks])
    <3>1. /\ [job[j] EXCEPT !.seen = db.chunks].seen = db.chunks
          /\ [job[j] EXCEPT !.seen = db.chunks].model = job[j].model
      BY DEF Typed, Memory
    <3>2. /\ alone' # NoJob => Relying' \subseteq {alone'}
          /\ \A k \in Jobs \ {j} : Knows(k)'
          /\ pc'[j] = "update" /\ job'[j] = [job[j] EXCEPT !.seen = db.chunks]
      BY <1>9, <2>2, OthersKnow DEF ReadChunks
    <3>3. Knows(j)'
      BY <1>9, <3>1, <3>2 DEF ReadChunks, Comparable, Knows
    <3> QED BY <1>9, <3>2, <3>3 DEF ReadChunks, Comparable, OneModel
  <2> QED BY <1>9, <2>1, <2>2 DEF ReadChunks
<1>10. ASSUME NEW j \in Jobs, Search(j) PROVE Comparable'
  <2>1. [NothingToDo EXCEPT !.model = db.model].model = db.model
    BY DEF NothingToDo
  <2>2. PICK mine : Goes(j, "scan", mine) /\ mine.model = db.model
    BY <1>10, <2>1 DEF Search
  <2>3. UNCHANGED <<db, draft, raced, passed>> /\ alone' = alone /\ "scan" \notin Reliant
    BY <1>10 DEF Search
  <2> QED BY <2>2, <2>3, GoesComparable
<1>11. ASSUME NEW j \in Jobs, Scan(j) PROVE Comparable'
  BY <1>11, GoesComparable DEF Scan, Ends
<1>12. ASSUME NEW p \in Paths, EditFile(p) PROVE Comparable'
  BY <1>12 DEF EditFile, Comparable, Relying, Knows, OneModel
<1>13. ASSUME Commits(db'), UNCHANGED <<pc, job, alone, raced, passed>>,
              db'.model = db.model, db'.chunks \subseteq db.chunks, db'.exists => db.exists
       PROVE  Comparable'
  <2>1. draft' = db' /\ Relying' = Relying
    BY <1>13 DEF Commits, Relying
  <2>2. \A k \in Jobs : Knows(k)'
    BY <1>13 DEF Comparable, Knows
  <2> QED BY <1>13, <2>1, <2>2 DEF Comparable, OneModel
<1>14. ASSUME NEW s \in Sources, DeleteSource(s) PROVE Comparable'
  BY <1>13, <1>14 DEF DeleteSource, Commits, Without, Typed, Rows
<1>15. ASSUME DeleteSpace PROVE Comparable'
  BY <1>13, <1>15 DEF DeleteSpace, Commits, Typed, Rows
<1> QED
  BY <1>1, <1>2, <1>3, <1>4, <1>5, <1>6, <1>7, <1>8, <1>9, <1>10, <1>11, <1>12, <1>14, <1>15,
     WriteComparable, EmbedComparable, UpdateComparable DEF Next, Ingestion

\* Unless an ingestion overlapped the last recomputation, all chunks of a space are on the
\* space's model, and so is every search that no recomputation has overtaken: an ingestion
\* embeds with the model it has read, a recomputation moves what it has read.
THEOREM OneModelCorrect == Spec => []OneModelPerSpace
<1>1. Init => Comparable
  BY NamesAssumption DEF Init, Comparable, Knows, OneModel, Relying
<1>2. Comparable => OneModelPerSpace
  BY DEF Comparable, OneModel, Knows, OneModelPerSpace
<1> QED BY <1>1, <1>2, InitTyped, StepTyped, StepComparable, PTL DEF Spec
=============================================================================
