---------------------------- MODULE MCModelServer ----------------------------
(* ModelServer with two image tools. *)
EXTENDS ModelServer, TLC
MCSymmetry == Permutations(Images)
=============================================================================
