---------------------------- MODULE OperatorFeed ----------------------------
(***************************************************************************)
(* What the gateway promises its operators, without saying how: there is   *)
(* one log of normalized events; an operator that joins sees the events    *)
(* logged after it joined, each once, in log order and without a gap,      *)
(* until it leaves; and once it has left it never comes back.  An event is *)
(* logged only while somebody is there to see it.                          *)
(***************************************************************************)
EXTENDS Integers, Sequences

CONSTANTS Conns,    \* the operators' connections
          Events    \* what may be published

VARIABLES log,      \* the events published so far
          stage,    \* stage[c]: "out", then "in", then "over"
          from,     \* from[c]: how long the log was when c joined
          feed      \* feed[c]: the events c has seen

vars == <<log, stage, from, feed>>

Init ==
  /\ log = <<>>
  /\ stage = [c \in Conns |-> "out"]
  /\ from = [c \in Conns |-> 0]
  /\ feed = [c \in Conns |-> <<>>]

Publish(e) ==
  /\ \E c \in Conns : stage[c] = "in"
  /\ log' = Append(log, e)
  /\ UNCHANGED <<stage, from, feed>>

Join(c) ==
  /\ stage[c] = "out"
  /\ stage' = [stage EXCEPT ![c] = "in"]
  /\ from' = [from EXCEPT ![c] = Len(log)]
  /\ UNCHANGED <<log, feed>>

See(c) ==
  LET upcoming == from[c] + Len(feed[c]) + 1
  IN  /\ stage[c] = "in"
      /\ upcoming <= Len(log)
      /\ feed' = [feed EXCEPT ![c] = Append(@, log[upcoming])]
      /\ UNCHANGED <<log, stage, from>>

Leave(c) ==
  /\ stage[c] = "in"
  /\ stage' = [stage EXCEPT ![c] = "over"]
  /\ UNCHANGED <<log, from, feed>>

Next ==
  \/ \E e \in Events : Publish(e)
  \/ \E c \in Conns : Join(c) \/ See(c) \/ Leave(c)

Spec == Init /\ [][Next]_vars
=============================================================================
