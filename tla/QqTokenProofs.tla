---------------------------- MODULE QqTokenProofs ----------------------------
(***************************************************************************)
(* Proofs about QqToken, for any number of senders and whatever lifetimes  *)
(* the platform answers with.  The step from the inductive invariant to    *)
(* SendsFreshToken is arithmetic: a sender settled for its token with the  *)
(* margin left on the cache's clock, which is late by exactly the delay of *)
(* the answer.                                                             *)
(***************************************************************************)
EXTENDS QqToken, TLAPS

LEMMA InitIInv == Init => IInv
BY NoneIsNoToken DEF Init, IInv, TypeOK, SettledInTime, Stages

\* Storing a token keeps what it was issued with.
LEMMA Stored ==
  ASSUME NEW t \in Token
  PROVE  /\ [t EXCEPT !.stored = now] =
              [issued |-> t.issued, life |-> t.life, stored |-> now]
         /\ t.issued \in Nat /\ t.life \in Nat /\ t.stored \in Nat
BY TokenAssumption DEF Token

LEMMA NextIInv == IInv /\ [Next]_vars => IInv'
<1> SUFFICES ASSUME IInv, [Next]_vars PROVE IInv'
  OBVIOUS
<1> USE TokenAssumption, NoneIsNoToken DEF IInv
<1>1. ASSUME NEW s \in Senders, UseCached(s) PROVE IInv'
  <2> USE <1>1 DEF UseCached, EnterStage, Usable
  <2>1. TypeOK'
    BY DEF TypeOK, Stages
  <2>2. SettledInTime'
    BY DEF SettledInTime, TypeOK, ExpiresAt
  <2> QED BY <2>1, <2>2
<1>2. ASSUME NEW s \in Senders, Ask(s) PROVE IInv'
  <2> USE <1>2 DEF Ask, EnterStage
  <2>1. TypeOK'
    BY DEF TypeOK, Stages
  <2>2. SettledInTime'
    BY DEF SettledInTime, TypeOK, ExpiresAt
  <2> QED BY <2>1, <2>2
<1>3. ASSUME NEW s \in Senders, Issue(s) PROVE IInv'
  <2> USE <1>3 DEF Issue, EnterStage
  <2>0. PICK e \in Lifetimes :
          held' = [held EXCEPT ![s] = [issued |-> now, life |-> e, stored |-> now]]
    OBVIOUS
  <2>1. [issued |-> now, life |-> e, stored |-> now] \in Token
    BY DEF TypeOK, Token
  <2>2. TypeOK'
    BY <2>0, <2>1 DEF TypeOK, Stages
  <2>3. SettledInTime'
    BY <2>0 DEF SettledInTime, TypeOK, ExpiresAt
  <2> QED BY <2>2, <2>3
<1>4. ASSUME NEW s \in Senders, Store(s) PROVE IInv'
  <2> DEFINE t == [held[s] EXCEPT !.stored = now]
  <2>0. /\ held[s] \in Token
        /\ held[s].issued <= held[s].stored
        /\ held[s].stored <= now
    BY <1>4 DEF Store, EnterStage, TypeOK
  <2>1. /\ t = [issued |-> held[s].issued, life |-> held[s].life, stored |-> now]
        /\ held[s].issued \in Nat /\ held[s].stored \in Nat /\ now \in Nat
    BY <2>0, Stored DEF TypeOK
  <2>2. /\ t \in Token
        /\ t.stored = now
        /\ t.issued <= t.stored
    BY <2>0, <2>1 DEF Token
  <2>3. /\ stage[s] = "issued"
        /\ stage' = [stage EXCEPT ![s] = "sending"]
        /\ cache' = t
        /\ held' = [held EXCEPT ![s] = t]
        /\ decided' = [decided EXCEPT ![s] = now]
        /\ now' = now
    BY <1>4 DEF Store, EnterStage
  <2> HIDE DEF t
  <2>4. TypeOK'
    BY <2>1, <2>2, <2>3 DEF TypeOK, Stages
  <2>5. SettledInTime'
    BY <2>1, <2>2, <2>3 DEF SettledInTime, TypeOK, ExpiresAt
  <2> QED BY <2>4, <2>5
<1>5. ASSUME NEW s \in Senders, FetchFailure(s) PROVE IInv'
  <2> USE <1>5 DEF FetchFailure
  <2>1. TypeOK'
    BY DEF TypeOK, Stages
  <2>2. SettledInTime'
    BY DEF SettledInTime, TypeOK, ExpiresAt
  <2> QED BY <2>1, <2>2
<1>6. ASSUME NEW s \in Senders, Return(s) PROVE IInv'
  <2> USE <1>6 DEF Return, EnterStage
  <2>1. TypeOK'
    BY DEF TypeOK, Stages
  <2>2. SettledInTime'
    BY DEF SettledInTime, TypeOK, ExpiresAt
  <2> QED BY <2>1, <2>2
<1>7. CASE Tick
  <2> USE <1>7 DEF Tick
  <2>1. TypeOK'
    BY DEF TypeOK, Token
  <2>2. SettledInTime'
    BY DEF SettledInTime, TypeOK, ExpiresAt
  <2> QED BY <2>1, <2>2
<1>8. CASE UNCHANGED vars
  BY <1>8 DEF vars, TypeOK, SettledInTime, ExpiresAt
<1> QED
  BY <1>1, <1>2, <1>3, <1>4, <1>5, <1>6, <1>7, <1>8 DEF Next, Sender

LEMMA SettledIsFresh == IInv => SendsFreshToken
<1> SUFFICES ASSUME IInv,
                    NEW s \in Senders,
                    stage[s] = "sending", held[s].life >= MinLife,
                    Delay(s) <= Margin
             PROVE  now <= held[s].issued + held[s].life
  BY DEF SendsFreshToken
<1>1. /\ held[s] \in Token
      /\ decided[s] \in Nat /\ now \in Nat
    BY DEF IInv, TypeOK
<1>2. held[s].issued \in Nat /\ held[s].life \in Nat /\ held[s].stored \in Nat
  BY <1>1, Stored
<1>3. ExpiresAt(held[s]) = held[s].stored + held[s].life
  BY <1>2, TokenAssumption DEF ExpiresAt
<1>4. /\ decided[s] <= now
      /\ decided[s] = held[s].stored \/ ExpiresAt(held[s]) > decided[s] + Margin
  BY DEF IInv, SettledInTime
<1> QED BY <1>1, <1>2, <1>3, <1>4, TokenAssumption DEF Delay

-----------------------------------------------------------------------------
\* Every reachable state satisfies the inductive invariant.
THEOREM Invariance == Spec => []IInv
BY InitIInv, NextIInv, PTL DEF Spec

\* TypeOK of get_app_access_token: nobody sends without a token.
THEOREM TypeCorrect == Spec => []TypeOK
<1>1. IInv => TypeOK
  BY DEF IInv
<1> QED BY <1>1, Invariance, PTL

\* The 60 s margin of get_app_access_token absorbs up to 60 s of delay, for
\* any number of senders that fetch and store at the same time.
THEOREM TokensAreFresh == Spec => []SendsFreshToken
BY Invariance, SettledIsFresh, PTL
=============================================================================
