----------------------------- MODULE BridgePool -----------------------------
(***************************************************************************)
(* The worker pool of clawbridge (CopilotCliPool in                        *)
(* src/crates/clawbridge/src/lib.rs): the HTTP handlers that await run(),  *)
(* the session affinity map, one bounded queue and one worker task for     *)
(* each slot of the pool, and the copilot processes the workers start,     *)
(* which the timeout of a request abandons but does not kill.              *)
(*                                                                         *)
(* A session is what map_to_copilot_session_id makes of a request: one     *)
(* Copilot conversation.  line and begun are history: the order in which   *)
(* the requests of a session entered its worker's queue, and how many of   *)
(* them the worker has taken from it.                                      *)
(***************************************************************************)
EXTENDS Integers, Sequences, FiniteSets

CONSTANTS
  Requests,   \* the HTTP requests, each made once
  Sessions,   \* the Copilot session ids
  SessionOf,  \* SessionOf[r]: the one map_to_copilot_session_id gives r
  PoolSize,   \* copilot_pool_size.max(1)
  QueueSize,  \* copilot_worker_queue.max(1)
  None

Workers == 0 .. PoolSize - 1

Results == {"ok", "error", "timeout"}

ASSUME PoolAssumption ==
  /\ PoolSize \in Nat \ {0}
  /\ QueueSize \in Nat \ {0}
  /\ SessionOf \in [Requests -> Sessions]
  /\ None \notin Requests
  /\ None \notin Workers
  /\ None \notin Results

\* The map of the sessions is finite.
ASSUME SessionsAssumption == IsFiniteSet(Sessions)

VARIABLES
  handler,    \* handler[r]: how far respond() has come for r
  idx,        \* idx[r]: the worker worker_for_key returned
  affinity,   \* affinity[s]: the worker of session s, None at first
  rr,         \* the round-robin counter; 2^64 sessions do not happen
  queue,      \* queue[w]: the tasks in the mpsc channel of w
  work,       \* work[w]: the task w is running, or None
  process,    \* process[r]: the copilot process started for r
  reply,      \* reply[r]: what the worker sent on r's oneshot, or None
  line,       \* line[s]: the requests of s in the order they were queued
  begun       \* begun[s]: how many of them a worker has taken

routing == <<idx, affinity, rr>>
history == <<line, begun>>
vars == <<handler, idx, affinity, rr, queue, work, process, reply, line, begun>>

HandlerStates ==
  {"idle",      \* not arrived yet
   "routed",    \* in run(), its worker chosen, its task not queued yet
   "waiting",   \* its task queued, awaiting reply_rx
   "answered",  \* the HTTP response was sent
   "gone"}      \* the client hung up and the handler was dropped

ProcessStates == {"none", "running", "exited"}

Init ==
  /\ handler = [r \in Requests |-> "idle"]
  /\ idx = [r \in Requests |-> None]
  /\ affinity = [s \in Sessions |-> None]
  /\ rr = 0
  /\ queue = [w \in Workers |-> <<>>]
  /\ work = [w \in Workers |-> None]
  /\ process = [r \in Requests |-> "none"]
  /\ reply = [r \in Requests |-> None]
  /\ line = [s \in Sessions |-> <<>>]
  /\ begun = [s \in Sessions |-> 0]

-----------------------------------------------------------------------------
(* The HTTP handler *)

\* Mutant: the counter moves on with every request, not every new session.
RouteCountsRequests(r) ==
  LET s == SessionOf[r]
      w == IF affinity[s] # None THEN affinity[s] ELSE rr % PoolSize
  IN  /\ handler[r] = "idle"
      /\ handler' = [handler EXCEPT ![r] = "routed"]
      /\ affinity' = [affinity EXCEPT ![s] = w]
      /\ idx' = [idx EXCEPT ![r] = w]
      /\ rr' = rr + 1
      /\ UNCHANGED <<queue, work, process, reply, history>>

\* Mutant: the map is written and never looked up.
RouteForgets(r) ==
  LET w == rr % PoolSize
  IN  /\ handler[r] = "idle"
      /\ handler' = [handler EXCEPT ![r] = "routed"]
      /\ affinity' = [affinity EXCEPT ![SessionOf[r]] = w]
      /\ idx' = [idx EXCEPT ![r] = w]
      /\ rr' = rr + 1
      /\ UNCHANGED <<queue, work, process, reply, history>>

\* run() up to worker_for_key, which looks up and inserts under one lock.
Route(r) ==
  LET s == SessionOf[r]
      w == IF affinity[s] # None THEN affinity[s] ELSE rr % PoolSize
  IN  /\ handler[r] = "idle"
      /\ handler' = [handler EXCEPT ![r] = "routed"]
      /\ affinity' = [affinity EXCEPT ![s] = w]
      /\ idx' = [idx EXCEPT ![r] = w]
      /\ rr' = IF affinity[s] # None THEN rr ELSE rr + 1
      /\ UNCHANGED <<queue, work, process, reply, history>>

\* Mutant: an unbounded channel.
SendUnbounded(r) ==
  LET s == SessionOf[r]
      w == idx[r]
  IN  /\ handler[r] = "routed"
      /\ handler' = [handler EXCEPT ![r] = "waiting"]
      /\ queue' = [queue EXCEPT ![w] = Append(@, r)]
      /\ line' = [line EXCEPT ![s] = Append(@, r)]
      /\ UNCHANGED <<routing, work, process, reply, begun>>

\* The bounded send: of the handlers that wait for a slot any one may be next.
Send(r) ==
  LET s == SessionOf[r]
      w == idx[r]
  IN  /\ handler[r] = "routed"
      /\ Len(queue[w]) < QueueSize
      /\ handler' = [handler EXCEPT ![r] = "waiting"]
      /\ queue' = [queue EXCEPT ![w] = Append(@, r)]
      /\ line' = [line EXCEPT ![s] = Append(@, r)]
      /\ UNCHANGED <<routing, work, process, reply, begun>>

\* The client hangs up and run() is dropped where it awaits: a task that has
\* not been queued never will be, one that has stays where it is.
Disconnect(r) ==
  /\ handler[r] \in {"routed", "waiting"}
  /\ handler' = [handler EXCEPT ![r] = "gone"]
  /\ UNCHANGED <<routing, queue, work, process, reply, history>>

\* reply_rx resolves and the response goes out.
Answer(r) ==
  /\ handler[r] = "waiting"
  /\ reply[r] # None
  /\ handler' = [handler EXCEPT ![r] = "answered"]
  /\ UNCHANGED <<routing, queue, work, process, reply, history>>

-----------------------------------------------------------------------------
(* The worker task *)

\* Mutant: the worker takes the newest task.
DequeueNewest(w) ==
  LET q == queue[w]
      r == q[Len(q)]
  IN  /\ work[w] = None
      /\ q # <<>>
      /\ work' = [work EXCEPT ![w] = r]
      /\ queue' = [queue EXCEPT ![w] = SubSeq(q, 1, Len(q) - 1)]
      /\ begun' = [begun EXCEPT ![SessionOf[r]] = @ + 1]
      /\ UNCHANGED <<handler, routing, process, reply, line>>

\* rx.recv() yields the oldest task.
Dequeue(w) ==
  LET r == Head(queue[w])
  IN  /\ work[w] = None
      /\ queue[w] # <<>>
      /\ work' = [work EXCEPT ![w] = r]
      /\ queue' = [queue EXCEPT ![w] = Tail(@)]
      /\ begun' = [begun EXCEPT ![SessionOf[r]] = @ + 1]
      /\ UNCHANGED <<handler, routing, process, reply, line>>

\* cmd.output() starts the process.
Spawn(w) ==
  LET r == work[w]
  IN  /\ r # None
      /\ process[r] = "none"
      /\ process' = [process EXCEPT ![r] = "running"]
      /\ UNCHANGED <<handler, routing, queue, work, reply, history>>

\* reply_tx.send(result), to a handler that may be gone; the next recv().
Respond(w, x) ==
  /\ work[w] # None
  /\ reply' = [reply EXCEPT ![work[w]] = x]
  /\ work' = [work EXCEPT ![w] = None]
  /\ UNCHANGED <<handler, routing, queue, process, history>>

SpawnFailure(w) ==
  /\ work[w] # None
  /\ process[work[w]] = "none"
  /\ Respond(w, "error")

\* Mutant: the first output is taken for the answer, the exit not waited for.
FinishEarly(w, x) ==
  /\ work[w] # None
  /\ process[work[w]] # "none"
  /\ Respond(w, x)

\* The output of the process is there: its reply, or a non-zero exit, text
\* that is not UTF-8 or an empty text.
Finish(w, x) ==
  /\ work[w] # None
  /\ process[work[w]] = "exited"
  /\ Respond(w, x)

\* Mutant: the timeout gives up on the task without a reply.
TimeoutForgets(w) ==
  /\ work[w] # None
  /\ process[work[w]] # "none"
  /\ work' = [work EXCEPT ![w] = None]
  /\ UNCHANGED <<handler, routing, queue, process, reply, history>>

\* Mutant: the timeout only fires when the process has exited.
TimeoutTooLate(w) ==
  /\ work[w] # None
  /\ process[work[w]] = "exited"
  /\ Respond(w, "timeout")

\* request_timeout elapses.  The future of cmd.output() is dropped and the
\* process, which nobody kills, runs on.  (An exit may not have been noticed.)
Timeout(w) ==
  /\ work[w] # None
  /\ process[work[w]] # "none"
  /\ Respond(w, "timeout")

-----------------------------------------------------------------------------
\* A copilot process, waited for or abandoned, ends by itself.
Exit(r) ==
  /\ process[r] = "running"
  /\ process' = [process EXCEPT ![r] = "exited"]
  /\ UNCHANGED <<handler, routing, queue, work, reply, history>>

Handler(r) == Route(r) \/ Send(r) \/ Disconnect(r) \/ Answer(r)

Worker(w) ==
  \/ Dequeue(w)
  \/ Spawn(w)
  \/ SpawnFailure(w)
  \/ \E x \in {"ok", "error"} : Finish(w, x)
  \/ Timeout(w)

Next ==
  \/ \E r \in Requests : Handler(r) \/ Exit(r)
  \/ \E w \in Workers : Worker(w)

Spec == Init /\ [][Next]_vars

\* Handlers and workers are polled while they can go on; the semaphore of a
\* channel is fair, so nobody is passed over for ever; and the timeout ends
\* every wait for a process.  No process is assumed to exit.
FairSpec ==
  /\ Spec
  /\ \A r \in Requests : SF_vars(Send(r)) /\ WF_vars(Answer(r))
  /\ \A w \in Workers : WF_vars(Worker(w))

-----------------------------------------------------------------------------
(* Safety *)

\* The type invariant; no queue outgrows its bound.
TypeOK ==
  /\ handler \in [Requests -> HandlerStates]
  /\ idx \in [Requests -> Workers \cup {None}]
  /\ affinity \in [Sessions -> Workers \cup {None}]
  /\ rr \in Nat
  /\ queue \in [Workers -> Seq(Requests)]
  /\ \A w \in Workers : Len(queue[w]) <= QueueSize
  /\ work \in [Workers -> Requests \cup {None}]
  /\ process \in [Requests -> ProcessStates]
  /\ reply \in [Requests -> Results \cup {None}]
  /\ line \in [Sessions -> Seq(Requests)]
  /\ begun \in [Sessions -> Nat]

\* The places where the task of r is: slots of queues, or in a worker's hands.
Places(r) ==
  {p \in Workers \X (0 .. QueueSize) :
     IF p[2] = 0 THEN work[p[1]] = r
                 ELSE p[2] <= Len(queue[p[1]]) /\ queue[p[1]][p[2]] = r}

\* worker_for_key: wherever a task is, queued or running, it is with the one
\* worker its session has, also when sessions are routed at the same time.
StickyWorker ==
  \A r \in Requests : \A p \in Places(r) : affinity[SessionOf[r]] = p[1]

Load(w) == Cardinality({s \in Sessions : affinity[s] = w})

\* rr.fetch_add(1) % workers.len(), once for each new session: sessions are
\* spread evenly, however many requests each of them makes.
Balanced ==
  \A v, w \in Workers : Load(v) <= Load(w) + 1

\* The worker loop and run(): a task that was queued is at every moment in
\* exactly one place or has its reply, whoever hung up or timed out; so a
\* handler that waits has something to wait for, and nothing runs twice.
TaskConserved ==
  \A r \in Requests :
    LET queued == \E i \in DOMAIN line[SessionOf[r]] : line[SessionOf[r]][i] = r
    IN  /\ handler[r] \in {"waiting", "answered"} => queued
        /\ Cardinality(Places(r)) + (IF reply[r] = None THEN 0 ELSE 1)
             = (IF queued THEN 1 ELSE 0)

\* The sticky worker, which awaits cmd.output(): two processes resume one
\* Copilot session at a time only if one of them was given up by its timeout.
OverlapOnlyByTimeout ==
  \A q, r \in Requests :
    (process[q] = "running" /\ process[r] = "running" /\ SessionOf[q] = SessionOf[r])
      => q = r \/ reply[q] = "timeout" \/ reply[r] = "timeout"

Current ==
  [s \in Sessions |->
     IF \E w \in Workers : work[w] # None /\ SessionOf[work[w]] = s
       THEN work[CHOOSE w \in Workers : work[w] # None /\ SessionOf[work[w]] = s]
       ELSE None]

Serial == INSTANCE SerialSessions WITH current <- Current, result <- reply

\* The pool implements SerialSessions: the tasks of a session are taken up one
\* at a time, in the order they were queued (the ordering crates/clawbridge/
\* README.md promises, as far as the pool's tasks are concerned).
ImplementsSerialSessions == Serial!Spec

\* What makes the pool's ordering inductive: a request is routed by the map,
AffinityKept ==
  \A r \in Requests :
    /\ handler[r] = "idle" \/ idx[r] \in Workers
    /\ idx[r] # None => idx[r] = affinity[SessionOf[r]]

\* a worker holds only tasks of its own sessions,
TasksAtHome ==
  \A w \in Workers :
    /\ \A i \in 1 .. Len(queue[w]) : affinity[SessionOf[queue[w][i]]] = w
    /\ work[w] # None => affinity[SessionOf[work[w]]] = w

\* the line of a session lists its requests, each once,
LineOfSession ==
  \A s \in Sessions :
    /\ begun[s] <= Len(line[s])
    /\ \A p \in 1 .. Len(line[s]) :
         /\ SessionOf[line[s][p]] = s
         /\ handler[line[s][p]] \notin {"idle", "routed"}
    /\ \A p, q \in 1 .. Len(line[s]) : line[s][p] = line[s][q] => p = q

\* what is queued is exactly the part of the lines that was not begun,
QueuedNotBegun ==
  /\ \A w \in Workers : \A i \in 1 .. Len(queue[w]) :
       LET s == SessionOf[queue[w][i]]
       IN  \E p \in begun[s] + 1 .. Len(line[s]) : line[s][p] = queue[w][i]
  /\ \A s \in Sessions : \A p \in begun[s] + 1 .. Len(line[s]) :
       /\ affinity[s] \in Workers
       /\ \E i \in 1 .. Len(queue[affinity[s]]) : queue[affinity[s]][i] = line[s][p]

\* in the same order,
QueuedInOrder ==
  \A w \in Workers : \A i, j \in 1 .. Len(queue[w]) :
    \A s \in Sessions : \A p, q \in 1 .. Len(line[s]) :
      i < j /\ queue[w][i] = line[s][p] /\ queue[w][j] = line[s][q] => p < q

\* what is in a worker's hands, or has its reply, was begun,
BegunOrAnswered ==
  /\ \A w \in Workers : work[w] # None =>
       LET s == SessionOf[work[w]]
       IN  /\ \E p \in 1 .. begun[s] : line[s][p] = work[w]
           /\ reply[work[w]] = None
  /\ \A r \in Requests : reply[r] # None =>
       \E p \in 1 .. begun[SessionOf[r]] : line[SessionOf[r]][p] = r

\* what was begun is in a worker's hands or has its reply, and a handler that
\* waits has queued its task.
NothingLost ==
  /\ \A s \in Sessions : \A p \in 1 .. begun[s] :
       reply[line[s][p]] # None \/ work[affinity[s]] = line[s][p]
  /\ \A r \in Requests : handler[r] \in {"waiting", "answered"} =>
       \E p \in 1 .. Len(line[SessionOf[r]]) : line[SessionOf[r]][p] = r

\* A process that runs is the one a worker waits for, or its request timed out.
ProcessesFollowWork ==
  \A r \in Requests : process[r] = "running" =>
    reply[r] = "timeout" \/ \E w \in Workers : work[w] = r

\* The counter went q times round the workers, and on to m.
EvenLoads ==
  \E q \in 0 .. rr, m \in Workers :
    /\ rr = PoolSize * q + m
    /\ \A w \in Workers : Load(w) = IF w < m THEN q + 1 ELSE q

IInv ==
  /\ TypeOK
  /\ AffinityKept
  /\ TasksAtHome
  /\ LineOfSession
  /\ QueuedNotBegun
  /\ QueuedInOrder
  /\ BegunOrAnswered
  /\ NothingLost
  /\ ProcessesFollowWork
  /\ EvenLoads

-----------------------------------------------------------------------------
(* Liveness, under FairSpec *)

\* The timeout of run_copilot_cli_provider: a request is answered or given up
\* by its client, even if no copilot process ever exits.
EveryRequestEnds ==
  \A r \in Requests : handler[r] = "routed" ~> handler[r] \in {"answered", "gone"}

-----------------------------------------------------------------------------
(* What the repository says and the code does not do *)

\* crates/clawbridge/README.md: the same mapped session is routed to the same
\* worker for ordered processing; so no two processes resume it at a time.
OneProcessPerSession ==
  \A q, r \in Requests :
    process[q] = "running" /\ process[r] = "running" /\ SessionOf[q] = SessionOf[r]
      => q = r
=============================================================================
