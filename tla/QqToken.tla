------------------------------- MODULE QqToken -------------------------------
(***************************************************************************)
(* The access token of the QQ channel (QqChannel in                        *)
(* src/src/channels/qq.rs): the cache all senders share, which is locked   *)
(* to look at it and locked again to fill it, but not in between, so that  *)
(* several senders may fetch a token at the same time.                     *)
(*                                                                         *)
(* The platform counts the life of a token from the moment it issues it,   *)
(* the cache from the moment the answer has been read; time passes between *)
(* any two steps.                                                          *)
(***************************************************************************)
EXTENDS Integers

CONSTANTS
  Senders,    \* calls of send that may be under way at the same time
  Lifetimes,  \* the values of expires_in the platform may answer
  Margin,     \* the 60 s a cached token must have left to be used
  MinLife,    \* the 120 s a token is taken to live at least
  None,
  MaxTime     \* bound: how far the clock runs

ASSUME TokenAssumption ==
  /\ Lifetimes \subseteq Nat
  /\ Margin \in Nat
  /\ MinLife \in Nat /\ MinLife >= Margin
  /\ MaxTime \in Nat

\* A token: when the platform issued it, how long it lives, and when its
\* answer was read (for a token still on its way, when it was issued).
Token == [issued : Nat, life : Lifetimes, stored : Nat]

ASSUME NoneIsNoToken == None \notin Token

VARIABLES
  now,      \* the clock, in seconds
  cache,    \* token_cache
  stage,    \* stage[s]: how far send has come
  held,     \* held[s]: the token s was issued or is sending with
  decided   \* decided[s]: when s settled for that token

vars == <<now, cache, stage, held, decided>>

Stages ==
  {"idle",
   "asking",    \* the token request is on its way to the platform
   "issued",    \* the platform's answer is on its way back
   "sending"}   \* the message is on its way to the platform

ExpiresAt(t) == t.stored + (IF t.life > MinLife THEN t.life ELSE MinLife)

\* Mutant: a token is used up to the moment the cache takes it to expire.
UsableWithoutMargin == cache # None /\ ExpiresAt(cache) > now

\* The look at the cache of get_app_access_token.
Usable == cache # None /\ ExpiresAt(cache) > now + Margin

Init ==
  /\ now = 0
  /\ cache = None
  /\ stage = [s \in Senders |-> "idle"]
  /\ held = [s \in Senders |-> None]
  /\ decided = [s \in Senders |-> 0]

-----------------------------------------------------------------------------
EnterStage(s, from, to) ==
  /\ stage[s] = from
  /\ stage' = [stage EXCEPT ![s] = to]

UseCached(s) ==
  /\ EnterStage(s, "idle", "sending")
  /\ Usable
  /\ held' = [held EXCEPT ![s] = cache]
  /\ decided' = [decided EXCEPT ![s] = now]
  /\ UNCHANGED <<now, cache>>

Ask(s) ==
  /\ EnterStage(s, "idle", "asking")
  /\ ~Usable
  /\ UNCHANGED <<now, cache, held, decided>>

\* The platform issues a token.
Issue(s) ==
  /\ EnterStage(s, "asking", "issued")
  /\ \E e \in Lifetimes :
       held' = [held EXCEPT ![s] = [issued |-> now, life |-> e, stored |-> now]]
  /\ UNCHANGED <<now, cache, decided>>

\* The answer is read and cached, over what another sender may have cached
\* in the meantime.
Store(s) ==
  LET t == [held[s] EXCEPT !.stored = now]
  IN  /\ EnterStage(s, "issued", "sending")
      /\ cache' = t
      /\ held' = [held EXCEPT ![s] = t]
      /\ decided' = [decided EXCEPT ![s] = now]
      /\ UNCHANGED now

\* Mutant: a failed request counts as an empty token.
FetchFailureSends(s) ==
  /\ stage[s] \in {"asking", "issued"}
  /\ stage' = [stage EXCEPT ![s] = "sending"]
  /\ held' = [held EXCEPT ![s] = None]
  /\ UNCHANGED <<now, cache, decided>>

\* The request or its answer is lost, refused or unreadable: send fails.
FetchFailure(s) ==
  /\ stage[s] \in {"asking", "issued"}
  /\ stage' = [stage EXCEPT ![s] = "idle"]
  /\ held' = [held EXCEPT ![s] = None]
  /\ UNCHANGED <<now, cache, decided>>

\* The message was accepted, refused or lost: either way send returns, and a
\* refused token stays in the cache.
Return(s) ==
  /\ EnterStage(s, "sending", "idle")
  /\ held' = [held EXCEPT ![s] = None]
  /\ UNCHANGED <<now, cache, decided>>

Tick ==
  /\ now < MaxTime
  /\ now' = now + 1
  /\ UNCHANGED <<cache, stage, held, decided>>

Sender(s) ==
  \/ UseCached(s)
  \/ Ask(s)
  \/ Issue(s)
  \/ Store(s)
  \/ FetchFailure(s)
  \/ Return(s)

Next == Tick \/ \E s \in Senders : Sender(s)

Spec == Init /\ [][Next]_vars

-----------------------------------------------------------------------------
\* The type invariant; nobody sends without a token, and a token is stored
\* neither before it is issued nor in the future.
TypeOK ==
  /\ now \in Nat
  /\ cache \in Token \cup {None}
  /\ stage \in [Senders -> Stages]
  /\ held \in [Senders -> Token \cup {None}]
  /\ decided \in [Senders -> Nat]
  /\ \A s \in Senders : stage[s] \in {"issued", "sending"} => held[s] # None
  /\ \A t \in {cache} \cup {held[s] : s \in Senders} :
       t # None => t.issued <= t.stored /\ t.stored <= now

\* How long the answer with the token, and so far the message, have been on
\* the way.
Delay(s) == (held[s].stored - held[s].issued) + (now - decided[s])

\* The margin of get_app_access_token: a message that is on its way carries a
\* token the platform still accepts, as long as the two delays the sender
\* cannot see stay within the margin together, and the platform did not
\* answer with less than the life max(120) takes for granted.
SendsFreshToken ==
  \A s \in Senders :
    stage[s] = "sending" /\ held[s].life >= MinLife /\ Delay(s) <= Margin
      => now <= held[s].issued + held[s].life

\* What makes it inductive: a sender settled for a token that, as the cache
\* reckons, had the margin left, or that it had just been issued.
SettledInTime ==
  \A s \in Senders :
    stage[s] = "sending" =>
      /\ decided[s] <= now
      /\ decided[s] = held[s].stored \/ ExpiresAt(held[s]) > decided[s] + Margin

IInv == TypeOK /\ SettledInTime
=============================================================================
