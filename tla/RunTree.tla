------------------------------ MODULE RunTree ------------------------------
(***************************************************************************)
(* What the run directory of a workflow promises to those who read it (the *)
(* run view, the resumption): every stage has one status, and the running  *)
(* stages are at every moment a single stage and the stages around it.     *)
(***************************************************************************)
CONSTANTS
  Nodes,     \* the stages, at every loop item they may run for
  Enclosing  \* Enclosing[n]: the stages n runs within

VARIABLE record

Ended == {"done", "failed", "stopped", "skipped"}
Running == {n \in Nodes : record[n] = "running"}

Init == record = [n \in Nodes |-> "absent"]

\* A stage starts within those around it, for the first time or once more.
Starts(n) ==
  /\ Running = Enclosing[n]
  /\ record' = [record EXCEPT ![n] = "running"]

\* Only the innermost running stage ends.
Stops(n) ==
  /\ Running = Enclosing[n] \cup {n}
  /\ \E st \in Ended \ {"skipped"} : record' = [record EXCEPT ![n] = st]

\* A skipped stage, or a branch, is over at once.
Passes(n) ==
  /\ Running = Enclosing[n]
  /\ \E st \in {"skipped", "done", "failed"} : record' = [record EXCEPT ![n] = st]

Next == \E n \in Nodes : Starts(n) \/ Stops(n) \/ Passes(n)

Spec == Init /\ [][Next]_record
=============================================================================
