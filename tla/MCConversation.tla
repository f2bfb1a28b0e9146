---------------------------- MODULE MCConversation --------------------------
(* Conversation on small instances. *)
EXTENDS Conversation, TLC
CONSTANTS r1, r2

MCStart == <<"talk", "read", "write", "read">>
MCRequests == {r1, r2}
MCSymmetry == Permutations(MCRequests)
=============================================================================
