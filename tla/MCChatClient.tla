---------------------------- MODULE MCChatClient ----------------------------
(* Two runs, of which either may be an edit or a rag command, and two conversations. *)
EXTENDS ChatClient

\* The second run says more, waits for a compression and survives the failure of a stage;
\* the first is there for the events and tasks it leaves behind.
MCMessages == <<1, 2>>
MCPauses == <<0, 1>>
=============================================================================
