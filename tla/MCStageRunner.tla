--------------------------- MODULE MCStageRunner ---------------------------
(* StageRunner with a stage that asks and explores, as the workflow stages do. *)
EXTENDS StageRunner

MCKinds == <<{"plain", "guarded", "explore"}, {"plain"}>>
=============================================================================
