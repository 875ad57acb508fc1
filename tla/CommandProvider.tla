--------------------------- MODULE CommandProvider ---------------------------
(***************************************************************************)
(* The command provider of clawbridge (run_command_provider in             *)
(* src/crates/clawbridge/src/lib.rs): one request, served by a command     *)
(* that is started anew for every attempt, gets the request on its         *)
(* standard input and answers on its standard output.                      *)
(*                                                                         *)
(* Time is counted in ticks, and only where the code has a timer: while it *)
(* waits for the output and between two attempts.  A tick never goes past  *)
(* a timer that is due; a timer that is late adds nothing.                 *)
(***************************************************************************)
EXTENDS Integers, Sequences

CONSTANTS
  RequestTimeout,  \* request_timeout, at least one second
  MinBudget,       \* one second: the 1000 ms of encode_command_request
  MaxRetries,      \* max_retries
  RetryBackoff,    \* retry_backoff
  MaxShift         \* the largest shift of the backoff, 8 in the code

ASSUME CommandAssumption ==
  /\ MinBudget \in Nat \ {0}
  /\ RequestTimeout \in Nat /\ RequestTimeout >= MinBudget
  /\ MaxRetries \in Nat
  /\ RetryBackoff \in Nat \ {0}
  /\ MaxShift \in Nat

VARIABLES
  protocol,  \* what the provider was configured to speak
  command,   \* what kind of command it was given
  stage,     \* how far run_command_provider has come
  attempt,   \* the retries so far
  clock,     \* ticks since the timer of this stage was set
  verdict,   \* what the last attempt came to
  procs      \* the processes of the attempts, in order

vars == <<protocol, command, stage, attempt, clock, verdict, procs>>

-----------------------------------------------------------------------------
Protocols == {"raw-text", "zene-host-v1"}

Commands ==
  {"punctual",  \* takes its request and exits within the budget it was given
   "slow",      \* takes its request, and may never exit
   "deaf"}      \* may leave a request that does not fit the pipe unread

Ends == {"answered", "failed", "gone"}
Stages == {"start", "writing", "waiting", "backoff"} \cup Ends

ProcStates ==
  {"reading",  \* the pipe has not taken the whole request yet
   "running",
   "closed",   \* still there, its standard input closed
   "exited"}

Verdicts ==
  {"none", "text",
   "timed_out",                 \* the provider's own timeout
   "placeholder", "suspicious", \* a success that is not model output
   "host_timeout",              \* error_code TIMEOUT
   "worded",                    \* an error that quotes the command's output,
                                \* with one of the retried phrases in it
   "other"}

\* is_retryable_command_error searches the text of the error for four phrases.
Retryable(e) ==
  /\ protocol = "zene-host-v1"
  /\ e \in {"timed_out", "placeholder", "suspicious", "host_timeout", "worded"}

\* What decode_command_response, and the exit status before it, can make of
\* the output: placeholders and token counts are a matter of the Zene host.
Decoded ==
  IF protocol = "raw-text"
    THEN {"text", "worded", "other"}
    ELSE Verdicts \ {"none", "timed_out"}

\* Mutant: the host is given the whole of the timeout.
WholeBudget == IF RequestTimeout > MinBudget THEN RequestTimeout ELSE MinBudget

\* timeout_ms: nine tenths of the timeout, never below a second.
HostBudget ==
  LET share == (RequestTimeout * 9) \div 10
  IN  IF share > MinBudget THEN share ELSE MinBudget

Delay(n) == RetryBackoff * 2 ^ (IF n - 1 < MaxShift THEN n - 1 ELSE MaxShift)

Last == Len(procs)

Init ==
  /\ protocol \in Protocols
  /\ command \in Commands
  /\ stage = "start"
  /\ attempt = 0
  /\ clock = 0
  /\ verdict = "none"
  /\ procs = <<>>

-----------------------------------------------------------------------------
\* Mutant: max_retries counts the retries already made, not those allowed.
FailOnceMore(e) ==
  /\ verdict' = e
  /\ clock' = 0
  /\ IF attempt <= MaxRetries /\ Retryable(e)
       THEN attempt' = attempt + 1 /\ stage' = "backoff"
       ELSE stage' = "failed" /\ UNCHANGED attempt
  /\ UNCHANGED <<protocol, command, procs>>

\* The Err arm of the loop: give up, or go to sleep before the next attempt.
Fail(e) ==
  /\ verdict' = e
  /\ clock' = 0
  /\ IF attempt < MaxRetries /\ Retryable(e)
       THEN attempt' = attempt + 1 /\ stage' = "backoff"
       ELSE stage' = "failed" /\ UNCHANGED attempt
  /\ UNCHANGED <<protocol, command, procs>>

Spawn ==
  /\ stage = "start"
  /\ stage' = "writing"
  /\ procs' = Append(procs, "reading")
  /\ UNCHANGED <<protocol, command, attempt, clock, verdict>>

\* Mutant: a command that cannot be started is written to all the same.
SpawnFailureIgnored ==
  /\ stage = "start"
  /\ stage' = "writing"
  /\ UNCHANGED <<protocol, command, attempt, clock, verdict, procs>>

SpawnFailure == stage = "start" /\ Fail("other")

\* write_all returns and stdin is dropped; only now is the timeout set.
Written ==
  /\ stage = "writing"
  /\ procs[Last] # "reading"
  /\ stage' = "waiting"
  /\ clock' = 0
  /\ UNCHANGED <<protocol, command, attempt, verdict, procs>>

\* A broken pipe: the command closed its standard input, or is gone.
WriteFailure ==
  /\ stage = "writing"
  /\ procs[Last] \in {"closed", "exited"}
  /\ Fail("other")

Answer ==
  /\ stage = "waiting"
  /\ procs[Last] = "exited"
  /\ stage' = "answered"
  /\ verdict' = "text"
  /\ clock' = 0
  /\ UNCHANGED <<protocol, command, attempt, procs>>

BadOutput(e) ==
  /\ stage = "waiting"
  /\ procs[Last] = "exited"
  /\ e \in Decoded \ {"text"}
  /\ Fail(e)

\* Mutant: wait_with_output without a timeout around it.
TimeoutNever ==
  /\ stage = "waiting"
  /\ procs[Last] = "exited"
  /\ clock >= RequestTimeout
  /\ Fail("timed_out")

\* The child is dropped, which does not end its process.
Timeout ==
  /\ stage = "waiting"
  /\ clock >= RequestTimeout
  /\ Fail("timed_out")

Resume ==
  /\ stage = "backoff"
  /\ clock >= Delay(attempt)
  /\ stage' = "start"
  /\ clock' = 0
  /\ UNCHANGED <<protocol, command, attempt, verdict, procs>>

\* The client hangs up and the future is dropped where it awaits.
Disconnect ==
  /\ stage \in {"writing", "waiting", "backoff"}
  /\ stage' = "gone"
  /\ clock' = 0
  /\ UNCHANGED <<protocol, command, attempt, verdict, procs>>

-----------------------------------------------------------------------------
(* The command, and time *)

TakeIn(i) ==
  /\ procs[i] = "reading"
  /\ procs' = [procs EXCEPT ![i] = "running"]
  /\ UNCHANGED <<protocol, command, stage, attempt, clock, verdict>>

CloseInput(i) ==
  /\ command # "punctual"
  /\ procs[i] = "reading"
  /\ procs' = [procs EXCEPT ![i] = "closed"]
  /\ UNCHANGED <<protocol, command, stage, attempt, clock, verdict>>

Exit(i) ==
  /\ procs[i] # "exited"
  /\ procs' = [procs EXCEPT ![i] = "exited"]
  /\ UNCHANGED <<protocol, command, stage, attempt, clock, verdict>>

\* A punctual command exits before its budget is over.
Tick ==
  /\ \/ /\ stage = "waiting"
        /\ clock < RequestTimeout
        /\ command = "punctual" /\ procs[Last] # "exited" => clock < HostBudget
     \/ stage = "backoff" /\ clock < Delay(attempt)
  /\ clock' = clock + 1
  /\ UNCHANGED <<protocol, command, stage, attempt, verdict, procs>>

Provider ==
  \/ Spawn
  \/ SpawnFailure
  \/ Written
  \/ WriteFailure
  \/ Answer
  \/ \E e \in Verdicts : BadOutput(e)
  \/ Timeout
  \/ Resume

Next ==
  \/ Provider
  \/ Disconnect
  \/ Tick
  \/ \E i \in DOMAIN procs : TakeIn(i) \/ CloseInput(i) \/ Exit(i)

Spec == Init /\ [][Next]_vars

\* The provider goes on when it can and time passes.  Of the commands, the
\* deaf one alone may leave its request unread; a punctual one exits.
FairSpec ==
  /\ Spec
  /\ WF_vars(Provider)
  /\ WF_vars(Tick)
  /\ WF_vars(command # "deaf" /\ procs # <<>> /\ TakeIn(Last))
  /\ WF_vars(command = "punctual" /\ procs # <<>> /\ Exit(Last))

-----------------------------------------------------------------------------
\* The type invariant; no timer runs past its time, and as long as a command
\* is written to or waited for there is one.
TypeOK ==
  /\ protocol \in Protocols
  /\ command \in Commands
  /\ stage \in Stages
  /\ attempt \in Nat
  /\ clock \in Nat
  /\ stage = "waiting" => clock <= RequestTimeout
  /\ verdict \in Verdicts
  /\ procs \in Seq(ProcStates)
  /\ stage \in {"writing", "waiting"} => procs # <<>>

\* The loop of run_command_provider: max_retries bounds the processes one
\* request can start, and a raw-text command is never started twice.
AttemptsBounded ==
  /\ Len(procs) <= attempt + 1
  /\ stage \in {"start", "backoff"} => Len(procs) <= attempt
  /\ attempt <= IF protocol = "raw-text" THEN 0 ELSE MaxRetries

\* The tenth encode_command_request keeps back: with a timeout of more than a
\* second, a command that keeps to its budget is never still running when a
\* retry starts, or when the request has been answered or has failed.
PunctualLeavesNoOrphan ==
  RequestTimeout > MinBudget /\ command = "punctual" /\ stage # "gone" =>
    \A i \in DOMAIN procs :
      procs[i] # "exited" => i = Last /\ stage \in {"writing", "waiting"}

\* What makes it inductive: a punctual command does not turn its input away,
\* and while it is waited for it is within its budget.
PunctualListens ==
  command = "punctual" => \A i \in DOMAIN procs : procs[i] # "closed"

WithinBudget ==
  command = "punctual" /\ stage = "waiting" /\ procs[Last] # "exited"
    => clock <= HostBudget

IInv ==
  /\ TypeOK
  /\ AttemptsBounded
  /\ PunctualLeavesNoOrphan
  /\ PunctualListens
  /\ WithinBudget

\* The timeout around wait_with_output: a request ends, however slow the
\* command is, if the command takes its request in.
RequestEnds ==
  command # "deaf" /\ stage = "start" ~> stage \in Ends

-----------------------------------------------------------------------------
\* docs/session-worker-pool-flow.md: if a request times out, clawbridge
\* returns a timeout error.  So it ends in any case.
RequestTimesOut ==
  stage = "writing" ~> stage \in Ends
=============================================================================
