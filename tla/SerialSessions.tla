--------------------------- MODULE SerialSessions ---------------------------
(***************************************************************************)
(* What a pool of workers promises the sessions it serves, without saying  *)
(* which worker serves whom: the requests of a session form one line, they *)
(* are taken up one at a time and in the order of the line, and each gets  *)
(* one result.  Sessions do not wait for each other.                       *)
(***************************************************************************)
EXTENDS Integers, Sequences

CONSTANTS Requests, Sessions, SessionOf, Results, None

VARIABLES line,     \* line[s]: the requests of s accepted so far, in order
          begun,    \* begun[s]: how many of them were taken up
          current,  \* current[s]: the request of s in hand, or None
          result    \* result[r]: what r came to, or None

vars == <<line, begun, current, result>>

Init ==
  /\ line = [s \in Sessions |-> <<>>]
  /\ begun = [s \in Sessions |-> 0]
  /\ current = [s \in Sessions |-> None]
  /\ result = [r \in Requests |-> None]

Accept(s, r) ==
  /\ SessionOf[r] = s
  /\ \A i \in 1 .. Len(line[s]) : line[s][i] # r
  /\ line' = [line EXCEPT ![s] = Append(@, r)]
  /\ UNCHANGED <<begun, current, result>>

Begin(s) ==
  /\ current[s] = None
  /\ begun[s] < Len(line[s])
  /\ begun' = [begun EXCEPT ![s] = @ + 1]
  /\ current' = [current EXCEPT ![s] = line[s][begun[s] + 1]]
  /\ UNCHANGED <<line, result>>

Finish(s, x) ==
  /\ current[s] # None
  /\ result[current[s]] = None
  /\ result' = [result EXCEPT ![current[s]] = x]
  /\ current' = [current EXCEPT ![s] = None]
  /\ UNCHANGED <<line, begun>>

Next ==
  \E s \in Sessions :
    \/ \E r \in Requests : Accept(s, r)
    \/ Begin(s)
    \/ \E x \in Results : Finish(s, x)

Spec == Init /\ [][Next]_vars
=============================================================================
