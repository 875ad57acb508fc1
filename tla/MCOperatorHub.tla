--------------------------- MODULE MCOperatorHub ---------------------------
(***************************************************************************)
(* OperatorHub for TLC: every hub there is makes all connections, and one  *)
(* of the chats has come in on a channel the gateway cannot answer on, as  *)
(* a webhook may name any.                                                 *)
(***************************************************************************)
EXTENDS OperatorHub

CONSTANTS m1, m2, qq, other

MCHubOf == [c \in Conns |-> CHOOSE h \in Hubs : TRUE]

MCChannelOf == [m \in Chats |-> IF m = m2 THEN other ELSE qq]
=============================================================================
