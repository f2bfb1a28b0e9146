-------------------------- MODULE MCWorkflowEngine --------------------------
(* WorkflowEngine on a small workflow with every type of stage. *)
EXTENDS WorkflowEngine

Stage(type) ==
  [type |-> type, body |-> <<>>, gate |-> "none", out |-> "none", exit |-> "none",
   items |-> 0, over |-> FALSE, attempts |-> 1, onMax |-> "continue", independent |-> TRUE,
   ifTrue |-> "none", ifFalse |-> "none"]
Leaf(s) == [Stage("leaf") EXCEPT !.out = s]

\* plan; each (2 items: draft, sub-workflow polish); pick; fix (no list: patch); reply.
\* polish: part; route, which has a target for one side only; gloss, over an empty list.
MCWorkflow ==
  [flow   |-> [Stage("workflow") EXCEPT !.body = <<"plan", "each", "pick", "fix", "reply">>],
   plan   |-> Leaf("plan"),
   each   |-> [Stage("loop") EXCEPT !.body = <<"draft", "polish">>, !.out = "each", !.items = 2,
                                    !.over = TRUE, !.exit = "draft"],
   draft  |-> Leaf("draft"),
   polish |-> [Stage("workflow") EXCEPT !.body = <<"part", "route", "gloss">>,
                                        !.out = "polish"],
   part   |-> Leaf("part"),
   route  |-> [Stage("branch") EXCEPT !.gate = "part", !.ifTrue = "gloss"],
   gloss  |-> [Stage("loop") EXCEPT !.out = "gloss", !.over = TRUE],
   pick   |-> [Stage("branch") EXCEPT !.gate = "draft", !.ifTrue = "reply", !.ifFalse = "fix"],
   fix    |-> [Stage("loop") EXCEPT !.body = <<"patch">>, !.items = 1, !.attempts = 2,
                                    !.onMax = "abort_workflow", !.exit = "patch"],
   patch  |-> [Leaf("patch") EXCEPT !.gate = "polish"],
   reply  |-> Stage("respond")]

\* What the theorems about resumption assume of a workflow holds of this one.
ASSUME ResumptionAssumption == OwnNames /\ JumpsForward
=============================================================================
