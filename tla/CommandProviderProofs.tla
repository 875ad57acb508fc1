------------------------ MODULE CommandProviderProofs ------------------------
(***************************************************************************)
(* Proofs about CommandProvider, for every timeout, retry limit and        *)
(* backoff.  The inductive invariant is IInv: that a punctual command      *)
(* leaves no orphan needs to know that, while it is waited for, the clock  *)
(* of the timeout has not passed the budget the command was given, and     *)
(* that this budget ends before the timeout does.                          *)
(***************************************************************************)
EXTENDS CommandProvider, TLAPS

\* The tenth that encode_command_request keeps back: the host's budget ends
\* before the timeout does, provided the timeout is longer than a second.
LEMMA BudgetWithinTimeout ==
  /\ HostBudget \in Nat
  /\ RequestTimeout > MinBudget => HostBudget < RequestTimeout
BY CommandAssumption DEF HostBudget

LEMMA InitIInv == Init => IInv
<1> SUFFICES ASSUME Init PROVE IInv
  OBVIOUS
<1>1. TypeOK
  BY DEF Init, TypeOK, Stages, Ends, Verdicts, ProcStates
<1>2. AttemptsBounded
  BY CommandAssumption DEF Init, AttemptsBounded
<1>3. PunctualLeavesNoOrphan /\ PunctualListens /\ WithinBudget
  BY DEF Init, PunctualLeavesNoOrphan, PunctualListens, WithinBudget
<1> QED BY <1>1, <1>2, <1>3 DEF IInv

\* The Err arm of the loop, wherever it is taken: it keeps the invariant if
\* the last command, when it is a punctual one, has exited.
LEMMA FailIInv ==
  ASSUME IInv,
         NEW e \in Verdicts, Fail(e),
         \/ stage = "start" /\ ~Retryable(e)
         \/ stage \in {"writing", "waiting"},
         RequestTimeout > MinBudget /\ command = "punctual" /\ stage # "start"
           => procs[Last] = "exited"
  PROVE  IInv'
<1> USE DEF IInv, Fail
<1>1. TypeOK'
  BY DEF TypeOK, Stages, Ends
<1>2. AttemptsBounded'
  <2>1. Len(procs) \in Nat /\ attempt \in Nat /\ MaxRetries \in Nat
    BY CommandAssumption DEF TypeOK
  <2>2. protocol = "raw-text" => ~Retryable(e)
    BY DEF Retryable
  <2> QED BY <2>1, <2>2 DEF AttemptsBounded, TypeOK
<1>3. PunctualLeavesNoOrphan'
  BY DEF PunctualLeavesNoOrphan, Last, TypeOK
<1>4. WithinBudget' /\ PunctualListens'
  BY DEF WithinBudget, PunctualListens
<1> QED BY <1>1, <1>2, <1>3, <1>4

LEMMA NextIInv == IInv /\ [Next]_vars => IInv'
<1> SUFFICES ASSUME IInv, [Next]_vars PROVE IInv'
  OBVIOUS
<1> USE DEF IInv
<1>1. CASE Spawn
  <2> USE <1>1 DEF Spawn
  <2>1. procs' \in Seq(ProcStates) /\ Len(procs') = Len(procs) + 1
    BY DEF TypeOK, ProcStates
  <2>2. TypeOK'
    BY <2>1 DEF TypeOK, Stages
  <2>3. AttemptsBounded'
    BY <2>1 DEF AttemptsBounded, TypeOK
  <2>4. PunctualLeavesNoOrphan'
    BY <2>1 DEF PunctualLeavesNoOrphan, Last, TypeOK
  <2>5. WithinBudget'
    BY DEF WithinBudget
  <2>6. PunctualListens'
    BY DEF PunctualListens, TypeOK
  <2> QED BY <2>2, <2>3, <2>4, <2>5, <2>6
<1>2. CASE SpawnFailure
  BY <1>2, FailIInv DEF SpawnFailure, Verdicts, Retryable
<1>3. CASE Written
  <2> USE <1>3 DEF Written
  <2>1. TypeOK'
    BY CommandAssumption DEF TypeOK, Stages
  <2>2. AttemptsBounded'
    BY DEF AttemptsBounded
  <2>3. PunctualLeavesNoOrphan'
    BY DEF PunctualLeavesNoOrphan, Last
  <2>4. WithinBudget' /\ PunctualListens'
    BY BudgetWithinTimeout DEF WithinBudget, PunctualListens, HostBudget
  <2> QED BY <2>1, <2>2, <2>3, <2>4
<1>4. CASE WriteFailure
  <2>1. Last \in DOMAIN procs
    BY <1>4 DEF WriteFailure, TypeOK, Last
  <2>2. command = "punctual" => procs[Last] = "exited"
    BY <1>4, <2>1 DEF WriteFailure, PunctualListens
  <2> QED BY <1>4, <2>2, FailIInv DEF WriteFailure, Verdicts
<1>5. CASE Answer
  <2> USE <1>5 DEF Answer
  <2>1. TypeOK'
    BY DEF TypeOK, Stages, Ends, Verdicts
  <2>2. AttemptsBounded'
    BY DEF AttemptsBounded
  <2>3. PunctualLeavesNoOrphan'
    BY DEF PunctualLeavesNoOrphan, Last
  <2>4. WithinBudget' /\ PunctualListens'
    BY DEF WithinBudget, PunctualListens
  <2> QED BY <2>1, <2>2, <2>3, <2>4
<1>6. ASSUME NEW e \in Verdicts, BadOutput(e) PROVE IInv'
  BY <1>6, FailIInv DEF BadOutput
<1>7. CASE Timeout
  \* a punctual command that still ran would be past its budget
  <2>1. RequestTimeout > MinBudget /\ command = "punctual" => procs[Last] = "exited"
    BY <1>7, BudgetWithinTimeout, CommandAssumption DEF Timeout, WithinBudget, TypeOK
  <2> QED BY <1>7, <2>1, FailIInv DEF Timeout, Verdicts
<1>8. CASE Resume
  <2> USE <1>8 DEF Resume
  <2>1. TypeOK'
    BY DEF TypeOK, Stages
  <2>2. AttemptsBounded'
    BY DEF AttemptsBounded
  <2>3. PunctualLeavesNoOrphan'
    BY DEF PunctualLeavesNoOrphan, Last
  <2>4. WithinBudget' /\ PunctualListens'
    BY DEF WithinBudget, PunctualListens
  <2> QED BY <2>1, <2>2, <2>3, <2>4
<1>9. CASE Disconnect
  <2> USE <1>9 DEF Disconnect
  <2>1. TypeOK'
    BY DEF TypeOK, Stages, Ends
  <2>2. AttemptsBounded'
    BY DEF AttemptsBounded, TypeOK
  <2>3. PunctualLeavesNoOrphan'
    BY DEF PunctualLeavesNoOrphan
  <2>4. WithinBudget' /\ PunctualListens'
    BY DEF WithinBudget, PunctualListens
  <2> QED BY <2>1, <2>2, <2>3, <2>4
<1>10. CASE Tick
  <2> USE <1>10 DEF Tick
  <2>1. TypeOK'
    BY CommandAssumption DEF TypeOK, Stages
  <2>2. AttemptsBounded'
    BY DEF AttemptsBounded
  <2>3. PunctualLeavesNoOrphan'
    BY DEF PunctualLeavesNoOrphan, Last
  <2>4. WithinBudget' /\ PunctualListens'
    BY BudgetWithinTimeout DEF WithinBudget, PunctualListens, Last, HostBudget, TypeOK
  <2> QED BY <2>1, <2>2, <2>3, <2>4
<1>11. ASSUME NEW i \in DOMAIN procs, TakeIn(i) \/ CloseInput(i) \/ Exit(i) PROVE IInv'
  <2>0. /\ procs' \in Seq(ProcStates)
        /\ Len(procs') = Len(procs)
        /\ DOMAIN procs' = DOMAIN procs
        /\ \A j \in DOMAIN procs : procs[j] = "exited" => procs'[j] = "exited"
        /\ UNCHANGED <<protocol, command, stage, attempt, clock, verdict>>
    BY <1>11 DEF TakeIn, CloseInput, Exit, TypeOK, ProcStates
  <2>1. TypeOK'
    BY <2>0 DEF TypeOK
  <2>2. AttemptsBounded'
    BY <2>0 DEF AttemptsBounded
  <2>3. PunctualLeavesNoOrphan'
    BY <2>0 DEF PunctualLeavesNoOrphan, Last
  <2>4. WithinBudget'
    <3>1. stage = "waiting" => Last \in DOMAIN procs
      BY DEF TypeOK, Last
    <3> QED BY <2>0, <3>1 DEF WithinBudget, Last, HostBudget
  <2>5. PunctualListens'
    BY <1>11 DEF TakeIn, CloseInput, Exit, PunctualListens, TypeOK
  <2> QED BY <2>1, <2>2, <2>3, <2>4, <2>5
<1>12. CASE UNCHANGED vars
  BY <1>12 DEF vars, TypeOK, AttemptsBounded, PunctualLeavesNoOrphan, PunctualListens,
       WithinBudget, Last, HostBudget
<1> QED
  BY <1>1, <1>2, <1>3, <1>4, <1>5, <1>6, <1>7, <1>8, <1>9, <1>10, <1>11, <1>12
  DEF Next, Provider

-----------------------------------------------------------------------------
\* Every reachable state satisfies the inductive invariant.
THEOREM Invariance == Spec => []IInv
BY InitIInv, NextIInv, PTL DEF Spec

\* TypeOK of run_command_provider: no timer runs past its time, and there is
\* a process whenever one is written to or waited for.
THEOREM TypeCorrect == Spec => []TypeOK
<1>1. IInv => TypeOK
  BY DEF IInv
<1> QED BY <1>1, Invariance, PTL

\* max_retries bounds the processes that one request can start, and raw-text
\* commands are never retried.
THEOREM AttemptsAreBounded == Spec => []AttemptsBounded
<1>1. IInv => AttemptsBounded
  BY DEF IInv
<1> QED BY <1>1, Invariance, PTL

\* Nine tenths are enough: with any timeout longer than a second a command
\* that keeps to timeout_ms is never abandoned by the provider's own timeout.
THEOREM NoPunctualOrphan == Spec => []PunctualLeavesNoOrphan
<1>1. IInv => PunctualLeavesNoOrphan
  BY DEF IInv
<1> QED BY <1>1, Invariance, PTL
=============================================================================
