---------------------------- MODULE ChatAnswers ----------------------------
(***************************************************************************)
(* What an operator hub promises the people who chat, without saying how:  *)
(* a hub answers the chats of the log in the order of the log and none of  *)
(* them twice, however often it loses its connection; and what is handed   *)
(* to a platform is an answer the hub gave, and each of them only once.    *)
(* Which chats it does not answer is left open, and so is the order in     *)
(* which the platform gets the answers.                                    *)
(***************************************************************************)
EXTENDS Integers, Sequences

CONSTANTS Hubs,       \* the processes that answer chats
          Events,     \* what may be published
          Answerable  \* the chats that have a text

VARIABLES log,        \* the events published so far
          answers,    \* answers[h]: the positions of the chats h answered
          handed      \* handed[h]: those whose answer a platform was given

vars == <<log, answers, handed>>

Init ==
  /\ log = <<>>
  /\ answers = [h \in Hubs |-> <<>>]
  /\ handed = [h \in Hubs |-> <<>>]

Publish(e) ==
  /\ log' = Append(log, e)
  /\ UNCHANGED <<answers, handed>>

Answer(h, i) ==
  /\ i \in DOMAIN log
  /\ log[i] \in Answerable
  /\ \A k \in DOMAIN answers[h] : answers[h][k] < i
  /\ answers' = [answers EXCEPT ![h] = Append(@, i)]
  /\ UNCHANGED <<log, handed>>

Hand(h, i) ==
  /\ \E k \in DOMAIN answers[h] : answers[h][k] = i
  /\ \A k \in DOMAIN handed[h] : handed[h][k] # i
  /\ handed' = [handed EXCEPT ![h] = Append(@, i)]
  /\ UNCHANGED <<log, answers>>

Next ==
  \/ \E e \in Events : Publish(e)
  \/ \E h \in Hubs, i \in DOMAIN log : Answer(h, i) \/ Hand(h, i)

Spec == Init /\ [][Next]_vars
=============================================================================
