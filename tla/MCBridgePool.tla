---------------------------- MODULE MCBridgePool ----------------------------
(***************************************************************************)
(* BridgePool for TLC: up to four requests of three sessions.  r1 and r2   *)
(* belong to one session; with two workers its worker serves a second      *)
(* session, so that tasks of different sessions mix in one queue.          *)
(***************************************************************************)
EXTENDS BridgePool, TLC

CONSTANTS r1, r2, r3, r4, s1, s2, s3

MCSessionOf ==
  [r \in Requests |-> CASE r \in {r1, r2} -> s1
                        [] r = r3 -> s2
                        [] r = r4 -> s3]

\* The two requests of s1 are alike.
Symmetry == Permutations({r1, r2})
=============================================================================
