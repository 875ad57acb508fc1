----------------------------- MODULE MCClawRun -----------------------------
(***************************************************************************)
(* ClawRun for TLC: the agents of the test select_by_keyword, with two     *)
(* more keywords, and one that has a template; three chats, two of them of *)
(* one conversation.                                                       *)
(***************************************************************************)
EXTENDS ClawRun

CONSTANTS a, b, s1, s2

MCAgents ==
  <<[channels |-> {}, keywords |-> <<>>, engine |-> "copilot_sdk"],
    [channels |-> {"qq"}, keywords |-> <<"refund", "money", "back">>,
     engine |-> "copilot_sdk"],
    [channels |-> {"feishu"}, keywords |-> <<"back">>, engine |-> "template"]>>

MCWords == {"refund", "money", "back"}

MCChat ==
  [r \in Requests |->
     IF r = 3 THEN [session |-> "p2", channel |-> "qq", words |-> {"refund"}]
               ELSE [session |-> "p1", channel |-> "wecom", words |-> {}]]

MCHubOf == [r \in Requests |-> IF r = 3 THEN b ELSE a]

MCSessionOf == [r \in Requests |-> IF r = 3 THEN s2 ELSE s1]
=============================================================================
