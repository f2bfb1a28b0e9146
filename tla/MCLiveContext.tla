---------------------------- MODULE MCLiveContext ----------------------------
(* LiveContext on a small instance. *)
EXTENDS LiveContext
=============================================================================
