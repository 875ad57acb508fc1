-------------------------- MODULE BridgePoolProofs --------------------------
(***************************************************************************)
(* Proofs about BridgePool, for any requests, sessions, pool size and      *)
(* queue size: a session's tasks never leave its worker, none is lost, the *)
(* sessions are spread evenly, and the pool implements SerialSessions.     *)
(***************************************************************************)
EXTENDS BridgePool, SequenceTheorems, FiniteSetTheorems, TLAPS

USE PoolAssumption

-----------------------------------------------------------------------------
(* The queues *)

LEMMA HeadOfQueue ==
  ASSUME NEW S, NEW q \in Seq(S), q # <<>>
  PROVE  /\ Len(q) \in Nat \ {0}
         /\ Head(q) = q[1]
         /\ Head(q) \in S
         /\ Tail(q) \in Seq(S)
         /\ Len(Tail(q)) = Len(q) - 1
         /\ \A i \in 1 .. Len(q) - 1 : Tail(q)[i] = q[i + 1]
BY HeadTailProperties, LenProperties, EmptySeq

-----------------------------------------------------------------------------
(* Type correctness *)

\* Initially nothing has arrived and every queue is empty.
LEMMA InitType == Init => TypeOK
BY DEF Init, TypeOK, HandlerStates, ProcessStates, Workers, Results

\* One step keeps the types and the bounds of the queues.
LEMMA TypeStep == TypeOK /\ AffinityKept /\ [Next]_vars => TypeOK'
<1> SUFFICES ASSUME TypeOK, AffinityKept, [Next]_vars
             PROVE  TypeOK'
  OBVIOUS
<1> USE DEF routing, history
<1>1. ASSUME NEW r \in Requests, Route(r)
      PROVE  TypeOK'
  <2>1. rr % PoolSize \in Workers
    BY DEF TypeOK, Workers
  <2>2. QED
    BY <1>1, <2>1 DEF Route, TypeOK, HandlerStates
<1>2. ASSUME NEW r \in Requests, Send(r)
      PROVE  TypeOK'
  <2>1. idx[r] \in Workers /\ SessionOf[r] \in Sessions
    BY <1>2 DEF Send, AffinityKept
  <2>2. /\ Append(queue[idx[r]], r) \in Seq(Requests)
        /\ Len(Append(queue[idx[r]], r)) <= QueueSize
        /\ Append(line[SessionOf[r]], r) \in Seq(Requests)
    BY <1>2, <2>1, AppendProperties, LenProperties DEF Send, TypeOK
  <2>3. QED
    BY <1>2, <2>1, <2>2 DEF Send, TypeOK, HandlerStates
<1>3. ASSUME NEW r \in Requests, Disconnect(r) \/ Answer(r) \/ Exit(r)
      PROVE  TypeOK'
  BY <1>3 DEF Disconnect, Answer, Exit, TypeOK, HandlerStates, ProcessStates
<1>4. ASSUME NEW w \in Workers, Dequeue(w)
      PROVE  TypeOK'
  <2>1. /\ Head(queue[w]) \in Requests
        /\ Tail(queue[w]) \in Seq(Requests)
        /\ Len(Tail(queue[w])) <= QueueSize
    BY <1>4, HeadOfQueue DEF Dequeue, TypeOK
  <2>2. QED
    BY <1>4, <2>1 DEF Dequeue, TypeOK
<1>5. ASSUME NEW w \in Workers, Spawn(w)
      PROVE  TypeOK'
  BY <1>5 DEF Spawn, TypeOK, ProcessStates
<1>6. ASSUME NEW w \in Workers, NEW x \in Results, Respond(w, x)
      PROVE  TypeOK'
  BY <1>6 DEF Respond, TypeOK
<1>7. CASE UNCHANGED vars
  BY <1>7 DEF vars, TypeOK
<1>8. ASSUME NEW w \in Workers, Worker(w)
      PROVE  TypeOK'
  BY <1>4, <1>5, <1>6, <1>8 DEF Worker, SpawnFailure, Finish, Timeout, Results
<1>9. QED
  BY <1>1, <1>2, <1>3, <1>7, <1>8 DEF Next, Handler

-----------------------------------------------------------------------------
(* What the actions do, point by point *)

LEMMA NextCases ==
  ASSUME [Next]_vars
  PROVE  \/ \E r \in Requests : Route(r) \/ Send(r) \/ Disconnect(r) \/ Answer(r) \/ Exit(r)
         \/ \E w \in Workers : Dequeue(w) \/ Spawn(w) \/ \E x \in Results : Respond(w, x)
         \/ UNCHANGED vars
BY DEF Next, Handler, Worker, SpawnFailure, Finish, Timeout, Results

\* worker_for_key never changes an entry of the map.
LEMMA RouteEffect ==
  ASSUME TypeOK, NEW r \in Requests, Route(r)
  PROVE  /\ handler[r] = "idle"
         /\ \A q \in Requests : handler'[q] = IF q = r THEN "routed" ELSE handler[q]
         /\ \A q \in Requests : q # r => idx'[q] = idx[q]
         /\ idx'[r] \in Workers
         /\ idx'[r] = affinity'[SessionOf[r]]
         /\ \A s \in Sessions : affinity[s] # None => affinity'[s] = affinity[s]
         /\ UNCHANGED <<queue, work, process, reply, line, begun>>
<1>1. SessionOf[r] \in Sessions
  OBVIOUS
<1>2. rr % PoolSize \in Workers
  BY DEF TypeOK, Workers
<1>3. QED
  BY <1>1, <1>2 DEF Route, TypeOK, history

LEMMA SendEffect ==
  ASSUME TypeOK, AffinityKept, NEW r \in Requests, Send(r)
  PROVE  /\ handler[r] = "routed"
         /\ \A q \in Requests : handler'[q] = IF q = r THEN "waiting" ELSE handler[q]
         /\ idx[r] \in Workers /\ SessionOf[r] \in Sessions
         /\ idx[r] = affinity[SessionOf[r]]
         /\ \A w \in Workers \ {idx[r]} : queue'[w] = queue[w]
         /\ Len(queue[idx[r]]) \in Nat
         /\ Len(queue'[idx[r]]) = Len(queue[idx[r]]) + 1
         /\ \A i \in 1 .. Len(queue[idx[r]]) : queue'[idx[r]][i] = queue[idx[r]][i]
         /\ queue'[idx[r]][Len(queue[idx[r]]) + 1] = r
         /\ \A s \in Sessions \ {SessionOf[r]} : line'[s] = line[s]
         /\ Len(line[SessionOf[r]]) \in Nat
         /\ Len(line'[SessionOf[r]]) = Len(line[SessionOf[r]]) + 1
         /\ \A i \in 1 .. Len(line[SessionOf[r]]) :
              line'[SessionOf[r]][i] = line[SessionOf[r]][i]
         /\ line'[SessionOf[r]][Len(line[SessionOf[r]]) + 1] = r
         /\ UNCHANGED <<idx, affinity, work, process, reply, begun>>
<1>1. idx[r] \in Workers /\ idx[r] = affinity[SessionOf[r]] /\ SessionOf[r] \in Sessions
  BY DEF Send, AffinityKept
<1>2. /\ queue'[idx[r]] = Append(queue[idx[r]], r)
      /\ line'[SessionOf[r]] = Append(line[SessionOf[r]], r)
      /\ queue[idx[r]] \in Seq(Requests) /\ line[SessionOf[r]] \in Seq(Requests)
  BY <1>1 DEF Send, TypeOK
<1>3. /\ \A w \in Workers \ {idx[r]} : queue'[w] = queue[w]
      /\ \A s \in Sessions \ {SessionOf[r]} : line'[s] = line[s]
      /\ handler[r] = "routed"
      /\ \A q \in Requests : handler'[q] = IF q = r THEN "waiting" ELSE handler[q]
      /\ UNCHANGED <<idx, affinity, work, process, reply, begun>>
  BY DEF Send, TypeOK, routing
<1>4. QED
  BY <1>1, <1>2, <1>3, AppendProperties, LenProperties

LEMMA DequeueEffect ==
  ASSUME TypeOK, NEW w \in Workers, Dequeue(w)
  PROVE  /\ work[w] = None
         /\ Len(queue[w]) \in Nat \ {0}
         /\ queue[w][1] \in Requests
         /\ \A v \in Workers : work'[v] = IF v = w THEN queue[w][1] ELSE work[v]
         /\ \A v \in Workers \ {w} : queue'[v] = queue[v]
         /\ Len(queue'[w]) = Len(queue[w]) - 1
         /\ \A i \in 1 .. Len(queue'[w]) : queue'[w][i] = queue[w][i + 1]
         /\ \A s \in Sessions :
              begun'[s] = IF s = SessionOf[queue[w][1]] THEN begun[s] + 1 ELSE begun[s]
         /\ UNCHANGED <<handler, idx, affinity, process, reply, line>>
<1>1. queue[w] \in Seq(Requests) /\ queue[w] # <<>>
  BY DEF Dequeue, TypeOK
<1>2. /\ Len(queue[w]) \in Nat \ {0}
      /\ Head(queue[w]) = queue[w][1]
      /\ Head(queue[w]) \in Requests
      /\ Len(Tail(queue[w])) = Len(queue[w]) - 1
      /\ \A i \in 1 .. Len(queue[w]) - 1 : Tail(queue[w])[i] = queue[w][i + 1]
  BY <1>1, HeadOfQueue
<1>3. QED
  BY <1>2 DEF Dequeue, TypeOK, routing

LEMMA RespondEffect ==
  ASSUME TypeOK, NEW w \in Workers, NEW x \in Results, Respond(w, x)
  PROVE  /\ work[w] \in Requests
         /\ \A v \in Workers : work'[v] = IF v = w THEN None ELSE work[v]
         /\ \A r \in Requests : reply'[r] = IF r = work[w] THEN x ELSE reply[r]
         /\ UNCHANGED <<handler, idx, affinity, queue, process, line, begun>>
BY DEF Respond, TypeOK, routing, history

-----------------------------------------------------------------------------
(* Sticky workers *)

\* One step keeps AffinityKept and TasksAtHome.
LEMMA HomeStep ==
  TypeOK /\ AffinityKept /\ TasksAtHome /\ [Next]_vars
    => AffinityKept' /\ TasksAtHome'
<1> SUFFICES ASSUME TypeOK, AffinityKept, TasksAtHome, [Next]_vars
             PROVE  AffinityKept' /\ TasksAtHome'
  OBVIOUS
<1>0. \A w \in Workers : Len(queue[w]) \in Nat /\ \A i \in 1 .. Len(queue[w]) : queue[w][i] \in Requests
  BY LenProperties, ElementOfSeq DEF TypeOK
<1>1. ASSUME NEW r \in Requests, Route(r)
      PROVE  AffinityKept' /\ TasksAtHome'
  <2>1. AffinityKept'
    BY <1>1, RouteEffect DEF AffinityKept, TypeOK
  <2>2. TasksAtHome'
    <3>1. UNCHANGED <<queue, work>>
      BY <1>1, RouteEffect
    <3>2. \A s \in Sessions : \A w \in Workers : affinity[s] = w => affinity'[s] = w
      BY <1>1, RouteEffect, PoolAssumption
    <3>3. \A w \in Workers : work[w] # None => work[w] \in Requests
      BY DEF TypeOK
    <3>4. \A r1 \in Requests : SessionOf[r1] \in Sessions
      BY PoolAssumption
    <3>5. QED
      BY <1>0, <3>1, <3>2, <3>3, <3>4 DEF TasksAtHome
  <2>3. QED
    BY <2>1, <2>2
<1>2. ASSUME NEW r \in Requests, Send(r)
      PROVE  AffinityKept' /\ TasksAtHome'
  <2>1. AffinityKept'
    BY <1>2, SendEffect DEF AffinityKept
  <2>2. ASSUME NEW w \in Workers, NEW i \in 1 .. Len(queue'[w])
        PROVE  affinity'[SessionOf[queue'[w][i]]] = w
    <3>1. CASE w # idx[r]
      BY <1>2, <2>2, <3>1, SendEffect DEF TasksAtHome
    <3>2. CASE w = idx[r]
      <4>1. /\ Len(queue'[w]) = Len(queue[w]) + 1 /\ Len(queue[w]) \in Nat
            /\ \A j \in 1 .. Len(queue[w]) : queue'[w][j] = queue[w][j]
            /\ queue'[w][Len(queue[w]) + 1] = r
            /\ affinity' = affinity /\ affinity[SessionOf[r]] = w
        BY <1>2, <3>2, SendEffect
      <4>2. CASE i \in 1 .. Len(queue[w])
        BY <4>1, <4>2 DEF TasksAtHome
      <4>3. CASE i = Len(queue[w]) + 1
        BY <4>1, <4>3
      <4>4. QED
        BY <2>2, <4>1, <4>2, <4>3
    <3>3. QED
      BY <3>1, <3>2
  <2>3. QED
    BY <1>2, <2>1, <2>2, SendEffect DEF TasksAtHome
<1>3. ASSUME NEW r \in Requests, Disconnect(r) \/ Answer(r) \/ Exit(r)
      PROVE  AffinityKept' /\ TasksAtHome'
  BY <1>3 DEF Disconnect, Answer, Exit, AffinityKept, TasksAtHome, TypeOK, routing
<1>4. ASSUME NEW w \in Workers, Dequeue(w)
      PROVE  AffinityKept' /\ TasksAtHome'
  <2>1. ASSUME NEW v \in Workers, NEW i \in 1 .. Len(queue'[v])
        PROVE  affinity'[SessionOf[queue'[v][i]]] = v
    <3>1. CASE v # w
      BY <1>4, <2>1, <3>1, DequeueEffect DEF TasksAtHome
    <3>2. CASE v = w
      <4>1. i + 1 \in 1 .. Len(queue[w]) /\ queue'[w][i] = queue[w][i + 1]
        BY <1>4, <2>1, <3>2, DequeueEffect
      <4>2. QED
        BY <1>4, <3>2, <4>1, DequeueEffect DEF TasksAtHome
    <3>3. QED
      BY <3>1, <3>2
  <2>2. QED
    BY <1>4, <2>1, DequeueEffect DEF AffinityKept, TasksAtHome
<1>5. ASSUME NEW w \in Workers, NEW x \in Results, Respond(w, x)
      PROVE  AffinityKept' /\ TasksAtHome'
  BY <1>5, RespondEffect DEF AffinityKept, TasksAtHome
<1>6. ASSUME NEW w \in Workers, Spawn(w)
      PROVE  AffinityKept' /\ TasksAtHome'
  BY <1>6 DEF Spawn, AffinityKept, TasksAtHome, routing
<1>7. CASE UNCHANGED vars
  BY <1>7 DEF vars, AffinityKept, TasksAtHome
<1>8. QED
  BY <1>1, <1>2, <1>3, <1>4, <1>5, <1>6, <1>7, NextCases

-----------------------------------------------------------------------------
(* The lines of the sessions *)

\* Sequences have lengths in Nat and elements among the requests.
LEMMA SeqTypes ==
  ASSUME TypeOK
  PROVE  /\ \A w \in Workers : Len(queue[w]) \in Nat
         /\ \A w \in Workers : \A i \in 1 .. Len(queue[w]) :
              queue[w][i] \in Requests /\ SessionOf[queue[w][i]] \in Sessions
         /\ \A s \in Sessions : Len(line[s]) \in Nat /\ begun[s] \in Nat
         /\ \A s \in Sessions : \A p \in 1 .. Len(line[s]) : line[s][p] \in Requests
<1>1. \A w \in Workers : queue[w] \in Seq(Requests)
  BY DEF TypeOK
<1>2. \A s \in Sessions : line[s] \in Seq(Requests) /\ begun[s] \in Nat
  BY DEF TypeOK
<1>3. \A w \in Workers : \A i \in 1 .. Len(queue[w]) : queue[w][i] \in Requests
  BY <1>1, ElementOfSeq
<1>4. \A s \in Sessions : \A p \in 1 .. Len(line[s]) : line[s][p] \in Requests
  BY <1>2, ElementOfSeq
<1>5. QED
  BY <1>1, <1>2, <1>3, <1>4, LenProperties

\* The oldest task of a queue is the next one its session's line has.
LEMMA HeadIsNext ==
  ASSUME TypeOK, TasksAtHome, LineOfSession, QueuedNotBegun, QueuedInOrder,
         NEW w \in Workers, Len(queue[w]) \in Nat \ {0}
  PROVE  LET s == SessionOf[queue[w][1]]
         IN  /\ s \in Sessions
             /\ affinity[s] = w
             /\ begun[s] + 1 \in 1 .. Len(line[s])
             /\ line[s][begun[s] + 1] = queue[w][1]
<1> DEFINE r == queue[w][1]
           s == SessionOf[r]
           n == begun[s] + 1
<1>1. r \in Requests /\ s \in Sessions /\ affinity[s] = w
  BY SeqTypes DEF TasksAtHome
<1>2. begun[s] \in Nat /\ Len(line[s]) \in Nat
  BY <1>1, SeqTypes
<1>3. PICK p \in begun[s] + 1 .. Len(line[s]) : line[s][p] = r
  <2>1. 1 \in 1 .. Len(queue[w])
    OBVIOUS
  <2>2. QED
    BY <2>1 DEF QueuedNotBegun
<1>4. n \in begun[s] + 1 .. Len(line[s])
  BY <1>2, <1>3
<1>5. PICK i \in 1 .. Len(queue[w]) : queue[w][i] = line[s][n]
  BY <1>1, <1>4 DEF QueuedNotBegun
<1>6. i = 1
  <2>1. SUFFICES ASSUME i > 1
                 PROVE  FALSE
    BY <1>5
  <2>2. p < n
    <3>1. p \in 1 .. Len(line[s]) /\ n \in 1 .. Len(line[s])
      BY <1>2, <1>3, <1>4
    <3>2. 1 \in 1 .. Len(queue[w]) /\ 1 < i
      BY <1>5, <2>1
    <3>3. queue[w][1] = line[s][p] /\ queue[w][i] = line[s][n]
      BY <1>3, <1>5
    <3>4. QED
      BY <1>1, <3>1, <3>2, <3>3 DEF QueuedInOrder
  <2>3. QED
    BY <1>2, <1>3, <2>2
<1>7. QED
  BY <1>1, <1>2, <1>4, <1>5, <1>6

\* One step keeps LineOfSession.
LEMMA LineStep ==
  TypeOK /\ AffinityKept /\ TasksAtHome /\ LineOfSession /\ QueuedNotBegun /\ QueuedInOrder
    /\ [Next]_vars => LineOfSession'
<1> SUFFICES ASSUME TypeOK, AffinityKept, TasksAtHome, LineOfSession, QueuedNotBegun,
                    QueuedInOrder, [Next]_vars
             PROVE  LineOfSession'
  OBVIOUS
<1>1. CASE /\ UNCHANGED <<line, begun>>
           /\ \A r \in Requests :
                handler[r] \notin {"idle", "routed"} => handler'[r] \notin {"idle", "routed"}
  BY <1>1, SeqTypes DEF LineOfSession
<1>2. ASSUME NEW r \in Requests, Route(r)
      PROVE  LineOfSession'
  BY <1>1, <1>2, RouteEffect
<1>3. ASSUME NEW r \in Requests, Disconnect(r) \/ Answer(r) \/ Exit(r)
      PROVE  LineOfSession'
  BY <1>1, <1>3 DEF Disconnect, Answer, Exit, TypeOK, history
<1>4. ASSUME NEW r \in Requests, Send(r)
      PROVE  LineOfSession'
  <2> DEFINE s == SessionOf[r]
             m == Len(line[s])
  <2>1. /\ s \in Sessions /\ m \in Nat /\ Len(line'[s]) = m + 1
        /\ \A p \in 1 .. m : line'[s][p] = line[s][p]
        /\ line'[s][m + 1] = r
        /\ begun' = begun
        /\ handler[r] = "routed"
        /\ \A q \in Requests : handler'[q] = IF q = r THEN "waiting" ELSE handler[q]
    BY <1>4, SendEffect
  <2>2. \A p \in 1 .. m : line[s][p] # r
    BY <2>1 DEF LineOfSession
  <2>3. /\ begun'[s] <= Len(line'[s])
        /\ \A p \in 1 .. Len(line'[s]) :
             /\ SessionOf[line'[s][p]] = s
             /\ handler'[line'[s][p]] \notin {"idle", "routed"}
        /\ \A p, q \in 1 .. Len(line'[s]) : line'[s][p] = line'[s][q] => p = q
    <3>1. \A p \in 1 .. m + 1 : p \in 1 .. m \/ p = m + 1
      BY <2>1
    <3>2. begun'[s] <= Len(line'[s])
      BY <2>1, SeqTypes DEF LineOfSession
    <3>3. \A p \in 1 .. m + 1 :
            SessionOf[line'[s][p]] = s /\ handler'[line'[s][p]] \notin {"idle", "routed"}
      <4>1. ASSUME NEW p \in 1 .. m
            PROVE  SessionOf[line'[s][p]] = s /\ handler'[line'[s][p]] \notin {"idle", "routed"}
        <5>1. /\ line'[s][p] = line[s][p] /\ line[s][p] \in Requests
              /\ line[s][p] # r
          BY <2>1, <2>2, SeqTypes
        <5>2. SessionOf[line[s][p]] = s /\ handler[line[s][p]] \notin {"idle", "routed"}
          BY <2>1 DEF LineOfSession
        <5>3. QED
          BY <2>1, <5>1, <5>2
      <4>2. SessionOf[line'[s][m + 1]] = s /\ handler'[line'[s][m + 1]] \notin {"idle", "routed"}
        BY <2>1
      <4>3. QED
        BY <3>1, <4>1, <4>2
    <3>4. ASSUME NEW p \in 1 .. m + 1, NEW q \in 1 .. m + 1, line'[s][p] = line'[s][q]
          PROVE  p = q
      <4>1. CASE p \in 1 .. m /\ q \in 1 .. m
        <5>1. line[s][p] = line[s][q]
          BY <2>1, <3>4, <4>1
        <5>2. QED
          BY <2>1, <4>1, <5>1 DEF LineOfSession
      <4>2. CASE p = m + 1 /\ q \in 1 .. m
        BY <2>1, <2>2, <3>4, <4>2
      <4>3. CASE p \in 1 .. m /\ q = m + 1
        BY <2>1, <2>2, <3>4, <4>3
      <4>4. QED
        BY <3>1, <4>1, <4>2, <4>3
    <3>5. QED
      BY <2>1, <3>2, <3>3, <3>4
  <2>4. ASSUME NEW t \in Sessions \ {s}
        PROVE  /\ begun'[t] <= Len(line'[t])
               /\ \A p \in 1 .. Len(line'[t]) :
                    /\ SessionOf[line'[t][p]] = t
                    /\ handler'[line'[t][p]] \notin {"idle", "routed"}
               /\ \A p, q \in 1 .. Len(line'[t]) : line'[t][p] = line'[t][q] => p = q
    <3>1. line'[t] = line[t] /\ begun' = begun
      BY <1>4, SendEffect
    <3>2. QED
      BY <2>1, <3>1, SeqTypes DEF LineOfSession
  <2>5. QED
    BY <2>3, <2>4 DEF LineOfSession
<1>5. ASSUME NEW w \in Workers, Dequeue(w)
      PROVE  LineOfSession'
  <2>1. Len(queue[w]) \in Nat \ {0}
    BY <1>5, DequeueEffect
  <2>2. begun[SessionOf[queue[w][1]]] + 1 <= Len(line[SessionOf[queue[w][1]]])
    BY <2>1, HeadIsNext, SeqTypes
  <2>3. QED
    BY <1>5, <2>2, DequeueEffect DEF LineOfSession
<1>6. ASSUME NEW w \in Workers, NEW x \in Results, Respond(w, x)
      PROVE  LineOfSession'
  BY <1>1, <1>6, RespondEffect
<1>7. ASSUME NEW w \in Workers, Spawn(w)
      PROVE  LineOfSession'
  BY <1>1, <1>7 DEF Spawn, history
<1>8. CASE UNCHANGED vars
  BY <1>1, <1>8 DEF vars
<1>9. QED
  BY <1>2, <1>3, <1>4, <1>5, <1>6, <1>7, <1>8, NextCases

-----------------------------------------------------------------------------
(* Queues and lines *)

\* A queue holds no task twice.
LEMMA QueueInjective ==
  ASSUME TypeOK, QueuedNotBegun, QueuedInOrder, NEW w \in Workers,
         NEW i \in 1 .. Len(queue[w]), NEW j \in 1 .. Len(queue[w]), i < j
  PROVE  queue[w][i] # queue[w][j]
<1> DEFINE s == SessionOf[queue[w][i]]
<1>1. s \in Sessions /\ begun[s] \in Nat /\ Len(line[s]) \in Nat
  BY SeqTypes
<1>2. PICK p \in begun[s] + 1 .. Len(line[s]) : line[s][p] = queue[w][i]
  BY DEF QueuedNotBegun
<1>3. p \in 1 .. Len(line[s])
  BY <1>1, <1>2
<1>4. QED
  BY <1>1, <1>2, <1>3 DEF QueuedInOrder

\* One step keeps QueuedNotBegun.
LEMMA QueuedStep ==
  TypeOK /\ AffinityKept /\ TasksAtHome /\ LineOfSession /\ QueuedNotBegun /\ QueuedInOrder
    /\ [Next]_vars => QueuedNotBegun'
<1> SUFFICES ASSUME TypeOK, AffinityKept, TasksAtHome, LineOfSession, QueuedNotBegun,
                    QueuedInOrder, [Next]_vars
             PROVE  QueuedNotBegun'
  OBVIOUS
<1>1. CASE /\ UNCHANGED <<queue, line, begun>>
           /\ \A s \in Sessions : affinity[s] # None => affinity'[s] = affinity[s]
  BY <1>1 DEF QueuedNotBegun
<1>2. ASSUME NEW r \in Requests, Send(r)
      PROVE  QueuedNotBegun'
  <2> DEFINE w0 == idx[r]
             s0 == SessionOf[r]
             n == Len(queue[w0])
             m == Len(line[s0])
  <2>1. /\ w0 \in Workers /\ s0 \in Sessions /\ affinity[s0] = w0
        /\ n \in Nat /\ Len(queue'[w0]) = n + 1
        /\ \A i \in 1 .. n : queue'[w0][i] = queue[w0][i]
        /\ queue'[w0][n + 1] = r
        /\ \A w \in Workers \ {w0} : queue'[w] = queue[w]
    BY <1>2, SendEffect
  <2>2. /\ m \in Nat /\ Len(line'[s0]) = m + 1
        /\ \A p \in 1 .. m : line'[s0][p] = line[s0][p]
        /\ line'[s0][m + 1] = r
        /\ \A s \in Sessions \ {s0} : line'[s] = line[s]
        /\ affinity' = affinity /\ begun' = begun
        /\ begun[s0] \in Nat /\ begun[s0] <= m
    BY <1>2, <2>1, SendEffect, SeqTypes DEF LineOfSession
  <2>3. \A s \in Sessions : \A p \in begun[s] + 1 .. Len(line[s]) :
          p \in begun'[s] + 1 .. Len(line'[s]) /\ line'[s][p] = line[s][p]
    BY <2>2, SeqTypes
  <2>4. \A w \in Workers : \A i \in 1 .. Len(queue[w]) :
          i \in 1 .. Len(queue'[w]) /\ queue'[w][i] = queue[w][i]
    BY <2>1, SeqTypes
  <2>5. ASSUME NEW w \in Workers, NEW i \in 1 .. Len(queue'[w])
        PROVE  LET s == SessionOf[queue'[w][i]]
               IN  \E p \in begun'[s] + 1 .. Len(line'[s]) : line'[s][p] = queue'[w][i]
    <3>1. CASE w = w0 /\ i = n + 1
      <4>1. queue'[w][i] = r
        BY <2>1, <3>1
      <4>2. m + 1 \in begun'[s0] + 1 .. Len(line'[s0])
        BY <2>2
      <4>3. QED
        BY <2>2, <4>1, <4>2
    <3>2. CASE i \in 1 .. Len(queue[w])
      <4> DEFINE s == SessionOf[queue[w][i]]
      <4>1. s \in Sessions /\ queue'[w][i] = queue[w][i]
        BY <2>4, <3>2, SeqTypes
      <4>2. PICK p \in begun[s] + 1 .. Len(line[s]) : line[s][p] = queue[w][i]
        BY <3>2 DEF QueuedNotBegun
      <4>3. QED
        BY <2>3, <4>1, <4>2
    <3>3. QED
      BY <2>1, <2>5, <3>1, <3>2
  <2>6. ASSUME NEW s \in Sessions, NEW p \in begun'[s] + 1 .. Len(line'[s])
        PROVE  /\ affinity'[s] \in Workers
               /\ \E i \in 1 .. Len(queue'[affinity'[s]]) :
                    queue'[affinity'[s]][i] = line'[s][p]
    <3>1. CASE s = s0 /\ p = m + 1
      <4>1. n + 1 \in 1 .. Len(queue'[w0])
        BY <2>1
      <4>2. QED
        BY <2>1, <2>2, <3>1, <4>1
    <3>2. CASE p \in begun[s] + 1 .. Len(line[s])
      <4>1. affinity[s] \in Workers
        BY <3>2 DEF QueuedNotBegun
      <4>2. PICK i \in 1 .. Len(queue[affinity[s]]) : queue[affinity[s]][i] = line[s][p]
        BY <3>2 DEF QueuedNotBegun
      <4>3. line'[s][p] = line[s][p]
        BY <2>3, <3>2
      <4>4. QED
        BY <2>2, <2>4, <4>1, <4>2, <4>3
    <3>3. QED
      BY <2>2, <2>6, <3>1, <3>2, SeqTypes
  <2>7. QED
    BY <2>5, <2>6 DEF QueuedNotBegun
<1>3. ASSUME NEW w \in Workers, Dequeue(w)
      PROVE  QueuedNotBegun'
  <2> DEFINE r == queue[w][1]
             s0 == SessionOf[r]
             n == begun[s0] + 1
             Pending(q) ==
               \E p \in begun'[SessionOf[q]] + 1 .. Len(line'[SessionOf[q]]) :
                 line'[SessionOf[q]][p] = q
  <2>1. /\ Len(queue[w]) \in Nat \ {0}
        /\ Len(queue'[w]) = Len(queue[w]) - 1
        /\ \A i \in 1 .. Len(queue'[w]) : queue'[w][i] = queue[w][i + 1]
        /\ \A v \in Workers \ {w} : queue'[v] = queue[v]
        /\ \A s \in Sessions : begun'[s] = IF s = s0 THEN begun[s] + 1 ELSE begun[s]
        /\ line' = line /\ affinity' = affinity
    BY <1>3, DequeueEffect
  <2>2. s0 \in Sessions /\ affinity[s0] = w /\ n \in 1 .. Len(line[s0]) /\ line[s0][n] = r
    BY <2>1, HeadIsNext
  <2>3. ASSUME NEW v \in Workers, NEW i \in 1 .. Len(queue[v]), queue[v][i] # r
        PROVE  Pending(queue[v][i])
    <3> DEFINE s == SessionOf[queue[v][i]]
    <3>1. PICK p \in begun[s] + 1 .. Len(line[s]) : line[s][p] = queue[v][i]
      BY DEF QueuedNotBegun
    <3>2. s \in Sessions /\ begun[s] \in Nat /\ Len(line[s]) \in Nat
      BY SeqTypes
    <3>3. s = s0 => p # n
      BY <2>2, <2>3, <3>1
    <3>4. begun'[s] = (IF s = s0 THEN begun[s] + 1 ELSE begun[s]) /\ line' = line
      BY <2>1, <3>2
    <3>5. CASE s = s0
      <4>1. begun'[s] = n /\ p # n
        BY <3>3, <3>4, <3>5
      <4>2. n = begun[s] + 1 /\ n \in Nat
        BY <3>2, <3>5
      <4>3. p \in begun'[s] + 1 .. Len(line[s])
        BY <3>1, <3>2, <4>1, <4>2
      <4>4. QED
        BY <3>1, <3>4, <4>3
    <3>6. CASE s # s0
      BY <3>1, <3>4, <3>6
    <3>7. QED
      BY <3>5, <3>6
  <2>4. ASSUME NEW v \in Workers, NEW i \in 1 .. Len(queue'[v])
        PROVE  Pending(queue'[v][i])
    <3> HIDE DEF Pending
    <3>1. CASE v = w
      <4>1. 1 \in 1 .. Len(queue[w]) /\ i + 1 \in 1 .. Len(queue[w]) /\ 1 < i + 1
        BY <2>1, <2>4, <3>1
      <4>2. queue[w][i + 1] # r
        BY <4>1, QueueInjective
      <4>3. queue'[v][i] = queue[w][i + 1]
        BY <2>1, <2>4, <3>1
      <4>4. QED
        BY <2>3, <4>1, <4>2, <4>3
    <3>2. CASE v # w
      <4>1. queue'[v] = queue[v]
        BY <2>1, <3>2
      <4>2. affinity[SessionOf[queue[v][i]]] = v
        BY <2>4, <4>1 DEF TasksAtHome
      <4>3. queue[v][i] # r
        BY <2>2, <3>2, <4>2
      <4>4. QED
        BY <2>3, <2>4, <4>1, <4>3
    <3>3. QED
      BY <3>1, <3>2
  <2>5. ASSUME NEW s \in Sessions, NEW p \in begun'[s] + 1 .. Len(line'[s])
        PROVE  /\ affinity'[s] \in Workers
               /\ \E i \in 1 .. Len(queue'[affinity'[s]]) :
                    queue'[affinity'[s]][i] = line'[s][p]
    <3>1. begun[s] \in Nat /\ Len(line[s]) \in Nat
      BY SeqTypes
    <3>2. p \in begun[s] + 1 .. Len(line[s]) /\ (s = s0 => p # n)
      BY <2>1, <2>5, <3>1
    <3>3. affinity[s] \in Workers
      BY <3>2 DEF QueuedNotBegun
    <3>4. PICK i \in 1 .. Len(queue[affinity[s]]) : queue[affinity[s]][i] = line[s][p]
      BY <3>2 DEF QueuedNotBegun
    <3>5. CASE affinity[s] # w
      BY <2>1, <3>3, <3>4, <3>5
    <3>6. CASE affinity[s] = w
      <4>1. line[s][p] # r
        <5>1. CASE s = s0
          <6>1. p \in 1 .. Len(line[s0]) /\ n \in 1 .. Len(line[s0]) /\ p # n
            BY <2>2, <3>1, <3>2, <5>1
          <6>2. line[s0][p] # line[s0][n]
            BY <2>2, <6>1 DEF LineOfSession
          <6>3. QED
            BY <2>2, <5>1, <6>2
        <5>2. CASE s # s0
          BY <3>1, <3>2, <5>2 DEF LineOfSession
        <5>3. QED
          BY <5>1, <5>2
      <4>2. i # 1
        BY <3>4, <3>6, <4>1
      <4>3. i - 1 \in 1 .. Len(queue'[w])
        BY <2>1, <3>4, <3>6, <4>2
      <4>4. queue'[w][i - 1] = queue[w][i]
        BY <2>1, <3>4, <3>6, <4>3
      <4>5. QED
        BY <2>1, <3>3, <3>4, <3>6, <4>3, <4>4
    <3>7. QED
      BY <3>5, <3>6
  <2>6. QED
    BY <2>4, <2>5 DEF QueuedNotBegun
<1>4. ASSUME NEW r \in Requests, Route(r)
      PROVE  QueuedNotBegun'
  <2>1. \A s \in Sessions : affinity[s] # None => affinity'[s] = affinity[s]
    BY <1>4, RouteEffect
  <2>2. UNCHANGED <<queue, line, begun>>
    BY <1>4, RouteEffect
  <2>3. QED
    BY <1>1, <2>1, <2>2
<1>5. ASSUME NEW r \in Requests, Disconnect(r) \/ Answer(r) \/ Exit(r)
      PROVE  QueuedNotBegun'
  BY <1>1, <1>5 DEF Disconnect, Answer, Exit, history, routing
<1>6. ASSUME NEW w \in Workers, NEW x \in Results, Respond(w, x)
      PROVE  QueuedNotBegun'
  BY <1>1, <1>6, RespondEffect
<1>7. ASSUME NEW w \in Workers, Spawn(w)
      PROVE  QueuedNotBegun'
  BY <1>1, <1>7 DEF Spawn, history, routing
<1>8. CASE UNCHANGED vars
  BY <1>1, <1>8 DEF vars
<1>9. QED
  BY <1>2, <1>3, <1>4, <1>5, <1>6, <1>7, <1>8, NextCases

\* A request that is not queued yet is in no queue and in no line.
LEMMA NotYetQueued ==
  ASSUME TypeOK, LineOfSession, QueuedNotBegun, NEW r \in Requests, handler[r] = "routed"
  PROVE  /\ \A s \in Sessions : \A p \in 1 .. Len(line[s]) : line[s][p] # r
         /\ \A w \in Workers : \A i \in 1 .. Len(queue[w]) : queue[w][i] # r
<1>1. \A s \in Sessions : \A p \in 1 .. Len(line[s]) : line[s][p] # r
  BY DEF LineOfSession
<1>2. ASSUME NEW w \in Workers, NEW i \in 1 .. Len(queue[w])
      PROVE  queue[w][i] # r
  <2> DEFINE s == SessionOf[queue[w][i]]
  <2>1. s \in Sessions /\ begun[s] \in Nat
    BY SeqTypes
  <2>2. PICK p \in begun[s] + 1 .. Len(line[s]) : line[s][p] = queue[w][i]
    BY DEF QueuedNotBegun
  <2>3. p \in 1 .. Len(line[s])
    BY <2>1, <2>2, SeqTypes
  <2>4. QED
    BY <1>1, <2>1, <2>2, <2>3
<1>3. QED
  BY <1>1, <1>2

\* One step keeps QueuedInOrder.
LEMMA OrderStep ==
  TypeOK /\ AffinityKept /\ LineOfSession /\ QueuedNotBegun /\ QueuedInOrder /\ [Next]_vars
    => QueuedInOrder'
<1> SUFFICES ASSUME TypeOK, AffinityKept, LineOfSession, QueuedNotBegun, QueuedInOrder,
                    [Next]_vars
             PROVE  QueuedInOrder'
  OBVIOUS
<1>1. CASE UNCHANGED <<queue, line>>
  BY <1>1 DEF QueuedInOrder
<1>2. ASSUME NEW r \in Requests, Send(r)
      PROVE  QueuedInOrder'
  <2> DEFINE w0 == idx[r]
             s0 == SessionOf[r]
             n == Len(queue[w0])
             m == Len(line[s0])
  <2>1. /\ w0 \in Workers /\ n \in Nat /\ Len(queue'[w0]) = n + 1
        /\ \A i \in 1 .. n : queue'[w0][i] = queue[w0][i]
        /\ queue'[w0][n + 1] = r
        /\ \A w \in Workers \ {w0} : queue'[w] = queue[w]
    BY <1>2, SendEffect
  <2>2. /\ s0 \in Sessions /\ m \in Nat /\ Len(line'[s0]) = m + 1
        /\ \A p \in 1 .. m : line'[s0][p] = line[s0][p]
        /\ line'[s0][m + 1] = r
        /\ \A s \in Sessions \ {s0} : line'[s] = line[s]
    BY <1>2, SendEffect
  <2>3. /\ \A s \in Sessions : \A p \in 1 .. Len(line[s]) : line[s][p] # r
        /\ \A w \in Workers : \A i \in 1 .. Len(queue[w]) : queue[w][i] # r
    BY <1>2, SendEffect, NotYetQueued
  <2>4. ASSUME NEW s \in Sessions, NEW p \in 1 .. Len(line'[s]), line'[s][p] # r
        PROVE  p \in 1 .. Len(line[s]) /\ line'[s][p] = line[s][p]
    BY <2>2, <2>4
  <2>5. ASSUME NEW s \in Sessions, NEW p \in 1 .. Len(line'[s]), line'[s][p] = r
        PROVE  s = s0 /\ p = m + 1
    <3>1. CASE s # s0
      BY <2>2, <2>3, <2>5, <3>1
    <3>2. CASE s = s0 /\ p \in 1 .. m
      BY <2>2, <2>3, <2>5, <3>2
    <3>3. QED
      BY <2>2, <2>5, <3>1, <3>2
  <2>6. ASSUME NEW w \in Workers, NEW i \in 1 .. Len(queue'[w]), NEW j \in 1 .. Len(queue'[w]),
               i < j
        PROVE  /\ i \in 1 .. Len(queue[w])
               /\ queue'[w][i] = queue[w][i]
               /\ \/ j \in 1 .. Len(queue[w]) /\ queue'[w][j] = queue[w][j]
                  \/ queue'[w][j] = r
    <3>1. CASE w = w0
      <4>1. i \in 1 .. Len(queue[w0]) /\ (j \in 1 .. Len(queue[w0]) \/ j = Len(queue[w0]) + 1)
        BY <2>1, <2>6, <3>1
      <4>2. QED
        BY <2>1, <3>1, <4>1
    <3>2. CASE w # w0
      BY <2>1, <2>6, <3>2
    <3>3. QED
      BY <3>1, <3>2
  <2>7. ASSUME NEW w \in Workers, NEW i \in 1 .. Len(queue'[w]), NEW j \in 1 .. Len(queue'[w]),
               NEW s \in Sessions, NEW p \in 1 .. Len(line'[s]), NEW q \in 1 .. Len(line'[s]),
               i < j, queue'[w][i] = line'[s][p], queue'[w][j] = line'[s][q]
        PROVE  p < q
    <3>1. p \in 1 .. Len(line[s]) /\ line'[s][p] = line[s][p] /\ queue[w][i] = line[s][p]
          /\ i \in 1 .. Len(queue[w])
      BY <2>3, <2>4, <2>6, <2>7
    <3>2. CASE queue'[w][j] = r
      <4>1. s = s0 /\ q = m + 1
        BY <2>5, <2>7, <3>2
      <4>2. QED
        BY <2>2, <3>1, <4>1
    <3>3. CASE queue'[w][j] # r
      <4>1. j \in 1 .. Len(queue[w]) /\ queue'[w][j] = queue[w][j]
        BY <2>6, <2>7, <3>3
      <4>2. q \in 1 .. Len(line[s]) /\ line'[s][q] = line[s][q]
        BY <2>4, <2>7, <3>3
      <4>3. QED
        BY <2>7, <3>1, <4>1, <4>2 DEF QueuedInOrder
    <3>4. QED
      BY <3>2, <3>3
  <2>8. QED
    BY <2>7 DEF QueuedInOrder
<1>3. ASSUME NEW w \in Workers, Dequeue(w)
      PROVE  QueuedInOrder'
  <2>1. /\ Len(queue[w]) \in Nat \ {0}
        /\ Len(queue'[w]) = Len(queue[w]) - 1
        /\ \A i \in 1 .. Len(queue'[w]) : queue'[w][i] = queue[w][i + 1]
        /\ \A v \in Workers \ {w} : queue'[v] = queue[v]
        /\ line' = line
    BY <1>3, DequeueEffect
  <2>2. ASSUME NEW v \in Workers, NEW i \in 1 .. Len(queue'[v]), NEW j \in 1 .. Len(queue'[v]),
               NEW s \in Sessions, NEW p \in 1 .. Len(line[s]), NEW q \in 1 .. Len(line[s]),
               i < j, queue'[v][i] = line[s][p], queue'[v][j] = line[s][q]
        PROVE  p < q
    <3>1. CASE v = w
      <4>1. /\ i + 1 \in 1 .. Len(queue[w]) /\ j + 1 \in 1 .. Len(queue[w]) /\ i + 1 < j + 1
            /\ queue[w][i + 1] = line[s][p] /\ queue[w][j + 1] = line[s][q]
        BY <2>1, <2>2, <3>1
      <4>2. QED
        BY <4>1 DEF QueuedInOrder
    <3>2. CASE v # w
      BY <2>1, <2>2, <3>2 DEF QueuedInOrder
    <3>3. QED
      BY <3>1, <3>2
  <2>3. QED
    BY <2>1, <2>2 DEF QueuedInOrder
<1>4. ASSUME NEW r \in Requests, Route(r) \/ Disconnect(r) \/ Answer(r) \/ Exit(r)
      PROVE  QueuedInOrder'
  BY <1>1, <1>4 DEF Route, Disconnect, Answer, Exit, history
<1>5. ASSUME NEW w \in Workers, NEW x \in Results, Respond(w, x)
      PROVE  QueuedInOrder'
  BY <1>1, <1>5, RespondEffect
<1>6. ASSUME NEW w \in Workers, Spawn(w)
      PROVE  QueuedInOrder'
  BY <1>1, <1>6 DEF Spawn, history
<1>7. CASE UNCHANGED vars
  BY <1>1, <1>7 DEF vars
<1>8. QED
  BY <1>2, <1>3, <1>4, <1>5, <1>6, <1>7, NextCases

\* One step keeps BegunOrAnswered.
LEMMA BegunStep ==
  TypeOK /\ AffinityKept /\ TasksAtHome /\ LineOfSession /\ QueuedNotBegun /\ QueuedInOrder
    /\ BegunOrAnswered /\ [Next]_vars => BegunOrAnswered'
<1> SUFFICES ASSUME TypeOK, AffinityKept, TasksAtHome, LineOfSession, QueuedNotBegun,
                    QueuedInOrder, BegunOrAnswered, [Next]_vars
             PROVE  BegunOrAnswered'
  OBVIOUS
<1>1. CASE UNCHANGED <<work, reply, line, begun>>
  BY <1>1 DEF BegunOrAnswered
<1>2. \A w \in Workers : work[w] # None =>
        work[w] \in Requests /\ SessionOf[work[w]] \in Sessions
  BY DEF TypeOK
<1>3. ASSUME NEW r \in Requests, Send(r)
      PROVE  BegunOrAnswered'
  <2>1. UNCHANGED <<work, reply, begun>>
    BY <1>3, SendEffect
  <2>2. ASSUME NEW s \in Sessions, NEW p \in 1 .. begun[s]
        PROVE  line'[s][p] = line[s][p]
    <3>1. p \in 1 .. Len(line[s])
      BY SeqTypes DEF LineOfSession
    <3>2. QED
      BY <1>3, <3>1, SendEffect
  <2>3. QED
    BY <1>2, <2>1, <2>2 DEF BegunOrAnswered
<1>4. ASSUME NEW w \in Workers, Dequeue(w)
      PROVE  BegunOrAnswered'
  <2> DEFINE r == queue[w][1]
             s0 == SessionOf[r]
             n == begun[s0] + 1
  <2>1. /\ Len(queue[w]) \in Nat \ {0} /\ r \in Requests
        /\ \A v \in Workers : work'[v] = IF v = w THEN r ELSE work[v]
        /\ \A s \in Sessions : begun'[s] = IF s = s0 THEN begun[s] + 1 ELSE begun[s]
        /\ line' = line /\ reply' = reply
    BY <1>4, DequeueEffect
  <2>2. s0 \in Sessions /\ n \in 1 .. Len(line[s0]) /\ line[s0][n] = r
    BY <2>1, HeadIsNext
  <2>3. begun[s0] \in Nat /\ Len(line[s0]) \in Nat /\ begun'[s0] = n
    BY <2>1, <2>2, SeqTypes
  <2>4. reply[r] = None
    <3>1. SUFFICES ASSUME reply[r] # None
                   PROVE  FALSE
      OBVIOUS
    <3>2. PICK p \in 1 .. begun[s0] : line[s0][p] = r
      BY <2>1, <3>1 DEF BegunOrAnswered
    <3>3. p \in 1 .. Len(line[s0]) /\ p # n
      BY <2>2, <2>3, <3>2
    <3>4. QED
      BY <2>2, <3>2, <3>3 DEF LineOfSession
  <2>5. \A s \in Sessions : \A p \in 1 .. begun[s] : p \in 1 .. begun'[s]
    BY <2>1, SeqTypes
  <2>6. n \in 1 .. begun'[s0]
    BY <2>2, <2>3
  <2>7. ASSUME NEW v \in Workers, work'[v] # None
        PROVE  /\ \E p \in 1 .. begun'[SessionOf[work'[v]]] :
                    line'[SessionOf[work'[v]]][p] = work'[v]
               /\ reply'[work'[v]] = None
    <3>1. CASE v = w
      <4>1. work'[v] = r
        BY <2>1, <3>1
      <4>2. QED
        BY <2>1, <2>2, <2>4, <2>6, <4>1
    <3>2. CASE v # w
      <4>1. work'[v] = work[v]
        BY <2>1, <3>2
      <4>2. QED
        BY <1>2, <2>1, <2>5, <2>7, <4>1 DEF BegunOrAnswered
    <3>3. QED
      BY <3>1, <3>2
  <2>8. \A q \in Requests : reply'[q] # None =>
          \E p \in 1 .. begun'[SessionOf[q]] : line'[SessionOf[q]][p] = q
    BY <2>1, <2>5 DEF BegunOrAnswered
  <2>9. QED
    BY <2>7, <2>8 DEF BegunOrAnswered
<1>5. ASSUME NEW w \in Workers, NEW x \in Results, Respond(w, x)
      PROVE  BegunOrAnswered'
  <2>1. /\ work[w] \in Requests
        /\ \A v \in Workers : work'[v] = IF v = w THEN None ELSE work[v]
        /\ \A r \in Requests : reply'[r] = IF r = work[w] THEN x ELSE reply[r]
        /\ line' = line /\ begun' = begun
    BY <1>5, RespondEffect
  <2>2. ASSUME NEW v \in Workers, work'[v] # None
        PROVE  /\ \E p \in 1 .. begun'[SessionOf[work'[v]]] :
                    line'[SessionOf[work'[v]]][p] = work'[v]
               /\ reply'[work'[v]] = None
    <3>1. v # w /\ work'[v] = work[v]
      BY <2>1, <2>2
    <3>2. work[v] # work[w]
      BY <2>1, <2>2, <3>1 DEF TasksAtHome
    <3>3. reply'[work[v]] = reply[work[v]]
      BY <1>2, <2>1, <2>2, <3>1, <3>2
    <3>4. QED
      BY <2>1, <2>2, <3>1, <3>3 DEF BegunOrAnswered
  <2>3. \A q \in Requests : reply'[q] # None =>
          \E p \in 1 .. begun'[SessionOf[q]] : line'[SessionOf[q]][p] = q
    BY <2>1 DEF BegunOrAnswered
  <2>4. QED
    BY <2>2, <2>3 DEF BegunOrAnswered
<1>6. ASSUME NEW r \in Requests, Route(r) \/ Disconnect(r) \/ Answer(r) \/ Exit(r)
      PROVE  BegunOrAnswered'
  BY <1>1, <1>6 DEF Route, Disconnect, Answer, Exit, history
<1>7. ASSUME NEW w \in Workers, Spawn(w)
      PROVE  BegunOrAnswered'
  BY <1>1, <1>7 DEF Spawn, history
<1>8. CASE UNCHANGED vars
  BY <1>1, <1>8 DEF vars
<1>9. QED
  BY <1>3, <1>4, <1>5, <1>6, <1>7, <1>8, NextCases

-----------------------------------------------------------------------------
(* No task is lost *)

LEMMA LostStep ==
  TypeOK /\ AffinityKept /\ TasksAtHome /\ LineOfSession /\ QueuedNotBegun /\ QueuedInOrder
    /\ BegunOrAnswered /\ NothingLost /\ [Next]_vars => NothingLost'
<1> SUFFICES ASSUME TypeOK, AffinityKept, TasksAtHome, LineOfSession, QueuedNotBegun,
                    QueuedInOrder, BegunOrAnswered, NothingLost, [Next]_vars
             PROVE  NothingLost'
  OBVIOUS
<1>0. \A s \in Sessions : \A p \in 1 .. begun[s] :
        p \in 1 .. Len(line[s]) /\ line[s][p] \in Requests
  BY SeqTypes DEF LineOfSession
<1>1. CASE /\ UNCHANGED <<line, begun, work, reply>>
           /\ \A s \in Sessions : affinity[s] # None => affinity'[s] = affinity[s]
           /\ \A r \in Requests : handler'[r] \in {"waiting", "answered"} =>
                handler[r] \in {"waiting", "answered"}
  <2>1. ASSUME NEW s \in Sessions, NEW p \in 1 .. begun[s],
               reply[line[s][p]] = None
        PROVE  work[affinity'[s]] = line[s][p]
    <3>1. SessionOf[line[s][p]] = s /\ handler[line[s][p]] # "idle" /\ line[s][p] \in Requests
      BY <1>0, <2>1 DEF LineOfSession
    <3>2. \A r \in Requests : handler[r] # "idle" => affinity[SessionOf[r]] # None
      BY <1>0 DEF AffinityKept
    <3>3. affinity'[s] = affinity[s]
      BY <1>1, <3>1, <3>2
    <3>4. QED
      BY <2>1, <3>3 DEF NothingLost
  <2>2. QED
    BY <1>1, <2>1 DEF NothingLost
<1>2. ASSUME NEW r \in Requests, Route(r)
      PROVE  NothingLost'
  BY <1>1, <1>2, RouteEffect
<1>3. ASSUME NEW r \in Requests, Disconnect(r) \/ Exit(r)
      PROVE  NothingLost'
  BY <1>1, <1>3 DEF Disconnect, Exit, routing, history, TypeOK
<1>4. ASSUME NEW r \in Requests, Answer(r)
      PROVE  NothingLost'
  BY <1>1, <1>4 DEF Answer, routing, history, TypeOK
<1>5. ASSUME NEW w \in Workers, Spawn(w)
      PROVE  NothingLost'
  BY <1>1, <1>5 DEF Spawn, routing, history
<1>6. CASE UNCHANGED vars
  BY <1>1, <1>6 DEF vars
<1>7. ASSUME NEW r \in Requests, Send(r)
      PROVE  NothingLost'
  <2>1. ASSUME NEW s \in Sessions, NEW p \in 1 .. Len(line[s])
        PROVE  line'[s][p] = line[s][p] /\ p \in 1 .. Len(line'[s])
    BY <1>7, SendEffect, SeqTypes
  <2>2. \A s \in Sessions : \A p \in 1 .. begun'[s] :
          reply'[line'[s][p]] # None \/ work'[affinity'[s]] = line'[s][p]
    BY <1>0, <1>7, <2>1, SendEffect DEF NothingLost
  <2>3. ASSUME NEW q \in Requests, handler'[q] \in {"waiting", "answered"}
        PROVE  \E p \in 1 .. Len(line'[SessionOf[q]]) : line'[SessionOf[q]][p] = q
    <3>1. CASE q = r
      BY <1>7, <3>1, SendEffect
    <3>2. CASE q # r
      <4>1. handler[q] \in {"waiting", "answered"}
        BY <1>7, <2>3, <3>2, SendEffect
      <4>2. PICK p \in 1 .. Len(line[SessionOf[q]]) : line[SessionOf[q]][p] = q
        BY <4>1 DEF NothingLost
      <4>3. QED
        BY <2>1, <4>2
    <3>3. QED
      BY <3>1, <3>2
  <2>4. QED
    BY <2>2, <2>3 DEF NothingLost
<1>8. ASSUME NEW w \in Workers, Dequeue(w)
      PROVE  NothingLost'
  <2> DEFINE r == queue[w][1]
             s0 == SessionOf[r]
  <2>1. /\ work[w] = None /\ Len(queue[w]) \in Nat \ {0}
        /\ \A v \in Workers : work'[v] = IF v = w THEN r ELSE work[v]
        /\ \A s \in Sessions : begun'[s] = IF s = s0 THEN begun[s] + 1 ELSE begun[s]
        /\ UNCHANGED <<handler, affinity, line, reply>>
    BY <1>8, DequeueEffect
  <2>2. s0 \in Sessions /\ affinity[s0] = w /\ line[s0][begun[s0] + 1] = r /\ begun[s0] \in Nat
    BY <2>1, HeadIsNext, SeqTypes
  <2>3. ASSUME NEW s \in Sessions, NEW p \in 1 .. begun[s], reply[line[s][p]] = None
        PROVE  work'[affinity[s]] = line[s][p]
    <3>1. work[affinity[s]] = line[s][p] /\ line[s][p] \in Requests /\ SessionOf[line[s][p]] = s
      BY <1>0, <2>3 DEF NothingLost, LineOfSession
    <3>2. affinity[s] \in Workers
      <4>1. handler[line[s][p]] # "idle"
        BY <1>0, <2>3 DEF LineOfSession
      <4>2. QED
        BY <3>1, <4>1 DEF AffinityKept
    <3>3. affinity[s] # w
      BY <2>1, <3>1
    <3>4. QED
      BY <2>1, <3>1, <3>2, <3>3
  <2>4. ASSUME NEW s \in Sessions, NEW p \in 1 .. begun'[s]
        PROVE  reply'[line'[s][p]] # None \/ work'[affinity'[s]] = line'[s][p]
    <3>1. CASE p \in 1 .. begun[s]
      BY <2>1, <2>3, <3>1
    <3>2. CASE s = s0 /\ p = begun[s0] + 1
      BY <2>1, <2>2, <3>2
    <3>3. QED
      BY <2>1, <2>2, <2>4, <3>1, <3>2
  <2>5. QED
    BY <2>1, <2>4 DEF NothingLost
<1>9. ASSUME NEW w \in Workers, NEW x \in Results, Respond(w, x)
      PROVE  NothingLost'
  <2>1. /\ \A v \in Workers : work'[v] = IF v = w THEN None ELSE work[v]
        /\ work[w] \in Requests
        /\ \A r \in Requests : reply'[r] = IF r = work[w] THEN x ELSE reply[r]
        /\ UNCHANGED <<handler, affinity, line, begun>>
    BY <1>9, RespondEffect
  <2>2. x # None
    BY DEF Results
  <2>3. ASSUME NEW s \in Sessions, NEW p \in 1 .. begun[s]
        PROVE  reply'[line[s][p]] # None \/ work'[affinity[s]] = line[s][p]
    <3>1. line[s][p] \in Requests /\ SessionOf[line[s][p]] = s /\ handler[line[s][p]] # "idle"
      BY <1>0 DEF LineOfSession
    <3>2. affinity[s] \in Workers
      BY <3>1 DEF AffinityKept
    <3>3. CASE line[s][p] = work[w]
      BY <2>1, <2>2, <3>1, <3>3
    <3>4. CASE line[s][p] # work[w]
      BY <2>1, <3>1, <3>2, <3>4 DEF NothingLost
    <3>5. QED
      BY <3>3, <3>4
  <2>4. QED
    BY <2>1, <2>3 DEF NothingLost
<1>10. QED
  BY <1>2, <1>3, <1>4, <1>5, <1>6, <1>7, <1>8, <1>9, NextCases

-----------------------------------------------------------------------------
(* The processes of a session *)

LEMMA ProcessStep ==
  TypeOK /\ BegunOrAnswered /\ ProcessesFollowWork /\ [Next]_vars => ProcessesFollowWork'
<1> SUFFICES ASSUME TypeOK, BegunOrAnswered, ProcessesFollowWork, [Next]_vars,
                    NEW r \in Requests, process'[r] = "running"
             PROVE  reply'[r] = "timeout" \/ \E w \in Workers : work'[w] = r
  BY DEF ProcessesFollowWork
<1>1. process[r] = "running" => reply[r] = "timeout" \/ \E w \in Workers : work[w] = r
  BY DEF ProcessesFollowWork
<1>2. CASE process[r] = "running" /\ UNCHANGED <<work, reply>>
  BY <1>1, <1>2
<1>3. ASSUME NEW q \in Requests, Route(q) \/ Send(q) \/ Disconnect(q) \/ Answer(q) \/ Exit(q)
      PROVE  process[r] = "running" /\ UNCHANGED <<work, reply>>
  BY <1>3 DEF Route, Send, Disconnect, Answer, Exit, TypeOK
<1>4. ASSUME NEW w \in Workers, Dequeue(w)
      PROVE  reply'[r] = "timeout" \/ \E v \in Workers : work'[v] = r
  <2>1. /\ work[w] = None /\ UNCHANGED <<process, reply>>
        /\ \A v \in Workers \ {w} : work'[v] = work[v]
    BY <1>4, DequeueEffect
  <2>2. QED
    BY <1>1, <2>1
<1>5. ASSUME NEW w \in Workers, Spawn(w)
      PROVE  reply'[r] = "timeout" \/ \E v \in Workers : work'[v] = r
  <2>1. UNCHANGED <<work, reply>> /\ (r = work[w] \/ process'[r] = process[r])
    BY <1>5 DEF Spawn, TypeOK
  <2>2. QED
    BY <1>1, <2>1
<1>6. ASSUME NEW w \in Workers, NEW x \in Results, Respond(w, x),
             x = "timeout" \/ process[work[w]] # "running"
      PROVE  reply'[r] = "timeout" \/ \E v \in Workers : work'[v] = r
  <2>1. /\ work[w] \in Requests /\ UNCHANGED process
        /\ \A v \in Workers : work'[v] = IF v = w THEN None ELSE work[v]
        /\ \A q \in Requests : reply'[q] = IF q = work[w] THEN x ELSE reply[q]
    BY <1>6, RespondEffect
  <2>2. CASE r = work[w]
    BY <1>6, <2>1, <2>2
  <2>3. CASE r # work[w]
    BY <1>1, <2>1, <2>3
  <2>4. QED
    BY <2>2, <2>3
<1>7. ASSUME NEW w \in Workers, Worker(w)
      PROVE  \/ Dequeue(w) \/ Spawn(w)
             \/ \E x \in Results : Respond(w, x) /\ (x = "timeout" \/ process[work[w]] # "running")
  BY <1>7 DEF Worker, SpawnFailure, Finish, Timeout, Results
<1>8. CASE UNCHANGED vars
  BY <1>2, <1>8 DEF vars
<1>9. QED
  BY <1>2, <1>3, <1>4, <1>5, <1>6, <1>7, <1>8 DEF Next, Handler

-----------------------------------------------------------------------------
(* The sessions are spread evenly *)

LEMMA Remainder ==
  ASSUME NEW n \in Nat \ {0}, NEW q \in Nat, NEW m \in 0 .. n - 1
  PROVE  (n * q + m) % n = m
BY Z3

LEMMA NextInTurn ==
  ASSUME NEW n \in Nat \ {0}, NEW q \in Nat
  PROVE  n * q + (n - 1) + 1 = n * (q + 1) + 0
BY Z3

\* A session that had no worker gets w.
LEMMA LoadStep ==
  ASSUME NEW s \in Sessions, NEW w \in Workers, affinity[s] = None,
         affinity \in [Sessions -> Workers \cup {None}],
         affinity' = [affinity EXCEPT ![s] = w]
  PROVE  \A v \in Workers : Load(v)' = IF v = w THEN Load(v) + 1 ELSE Load(v)
<1>1. ASSUME NEW v \in Workers, v # w
      PROVE  {t \in Sessions : affinity'[t] = v} = {t \in Sessions : affinity[t] = v}
  BY <1>1
<1>2. {t \in Sessions : affinity'[t] = w} = {t \in Sessions : affinity[t] = w} \cup {s}
  OBVIOUS
<1>3. s \notin {t \in Sessions : affinity[t] = w}
  OBVIOUS
<1>4. IsFiniteSet({t \in Sessions : affinity[t] = w})
  BY FS_Subset, SessionsAssumption
<1>5. Cardinality({t \in Sessions : affinity[t] = w} \cup {s})
        = Cardinality({t \in Sessions : affinity[t] = w}) + 1
  BY <1>3, <1>4, FS_AddElement
<1>6. QED
  BY <1>1, <1>2, <1>5 DEF Load

LEMMA EvenStep == TypeOK /\ EvenLoads /\ [Next]_vars => EvenLoads'
<1> SUFFICES ASSUME TypeOK, EvenLoads, [Next]_vars
             PROVE  EvenLoads'
  OBVIOUS
<1>1. CASE UNCHANGED <<affinity, rr>>
  BY <1>1 DEF EvenLoads, Load
<1>2. ASSUME NEW r \in Requests, Route(r), affinity[SessionOf[r]] = None
      PROVE  EvenLoads'
  <2> DEFINE s == SessionOf[r]
  <2>1. PICK q \in 0 .. rr, m \in Workers :
          /\ rr = PoolSize * q + m
          /\ \A w \in Workers : Load(w) = IF w < m THEN q + 1 ELSE q
    BY DEF EvenLoads
  <2>2. rr \in Nat /\ q \in Nat /\ m \in 0 .. PoolSize - 1
    BY <2>1 DEF TypeOK, Workers
  <2>3. rr % PoolSize = m
    BY <2>1, <2>2, Remainder
  <2>4. s \in Sessions /\ rr' = rr + 1 /\ affinity' = [affinity EXCEPT ![s] = m]
    BY <1>2, <2>3 DEF Route
  <2>5. \A v \in Workers : Load(v)' = IF v = m THEN Load(v) + 1 ELSE Load(v)
    BY <1>2, <2>4, LoadStep DEF TypeOK
  <2>6. CASE m < PoolSize - 1
    <3>1. m + 1 \in Workers /\ rr' = PoolSize * q + (m + 1) /\ q \in 0 .. rr'
      BY <2>1, <2>2, <2>4, <2>6 DEF Workers
    <3>2. ASSUME NEW w \in Workers
          PROVE  Load(w)' = IF w < m + 1 THEN q + 1 ELSE q
      BY <2>1, <2>2, <2>5 DEF Workers
    <3>3. QED
      BY <3>1, <3>2 DEF EvenLoads
  <2>7. CASE m = PoolSize - 1
    <3>1. 0 \in Workers /\ rr' = PoolSize * (q + 1) + 0 /\ q + 1 \in 0 .. rr'
      BY <2>1, <2>2, <2>4, <2>7, NextInTurn DEF Workers
    <3>2. ASSUME NEW w \in Workers
          PROVE  Load(w)' = IF w < 0 THEN (q + 1) + 1 ELSE q + 1
      BY <2>1, <2>2, <2>5, <2>7 DEF Workers
    <3>3. QED
      BY <3>1, <3>2 DEF EvenLoads
  <2>8. QED
    BY <2>2, <2>6, <2>7
<1>3. ASSUME NEW r \in Requests, Route(r), affinity[SessionOf[r]] # None
      PROVE  UNCHANGED <<affinity, rr>>
  BY <1>3 DEF Route, TypeOK
<1>4. ASSUME NEW r \in Requests, Send(r) \/ Disconnect(r) \/ Answer(r) \/ Exit(r)
      PROVE  UNCHANGED <<affinity, rr>>
  BY <1>4 DEF Send, Disconnect, Answer, Exit, routing
<1>5. ASSUME NEW w \in Workers, Dequeue(w) \/ Spawn(w) \/ \E x \in Results : Respond(w, x)
      PROVE  UNCHANGED <<affinity, rr>>
  BY <1>5 DEF Dequeue, Spawn, Respond, routing
<1>6. CASE UNCHANGED vars
  BY <1>1, <1>6 DEF vars
<1>7. QED
  BY <1>1, <1>2, <1>3, <1>4, <1>5, <1>6, NextCases

-----------------------------------------------------------------------------
(* The invariants *)

LEMMA InitInv == Init => IInv
<1> SUFFICES ASSUME Init
             PROVE  IInv
  OBVIOUS
<1>1. TypeOK
  BY InitType
<1>2. /\ \A w \in Workers : Len(queue[w]) = 0
      /\ \A s \in Sessions : Len(line[s]) = 0 /\ begun[s] = 0
  BY DEF Init
<1>3. AffinityKept
  BY DEF Init, AffinityKept
<1>4. TasksAtHome
  BY <1>2 DEF Init, TasksAtHome
<1>5. LineOfSession
  BY <1>2 DEF LineOfSession
<1>6. QueuedNotBegun
  BY <1>2 DEF QueuedNotBegun
<1>7. QueuedInOrder
  BY <1>2 DEF QueuedInOrder
<1>8. BegunOrAnswered
  BY DEF Init, BegunOrAnswered
<1>9. NothingLost
  BY <1>2 DEF Init, NothingLost
<1>10. EvenLoads
  <2>1. \A w \in Workers : {s \in Sessions : affinity[s] = w} = {}
    BY DEF Init
  <2>2. \A w \in Workers : Load(w) = 0
    BY <2>1, FS_EmptySet DEF Load
  <2>3. 0 \in Workers /\ 0 \in 0 .. rr /\ rr = PoolSize * 0 + 0
    BY DEF Init, Workers
  <2>4. \A w \in Workers : Load(w) = IF w < 0 THEN 0 + 1 ELSE 0
    BY <2>2 DEF Workers
  <2>5. QED
    BY <2>3, <2>4 DEF EvenLoads
<1>11. ProcessesFollowWork
  BY DEF Init, ProcessesFollowWork
<1>12. QED
  BY <1>1, <1>3, <1>4, <1>5, <1>6, <1>7, <1>8, <1>9, <1>10, <1>11 DEF IInv

LEMMA InvStep == IInv /\ [Next]_vars => IInv'
BY TypeStep, HomeStep, LineStep, QueuedStep, OrderStep, BegunStep, LostStep, ProcessStep,
   EvenStep DEF IInv

\* The inductive invariant of the pool: how the affinity map, the queues, the
\* workers and the order in which tasks were queued hang together.
THEOREM Invariance == Spec => []IInv
BY InitInv, InvStep, PTL DEF Spec

\* The state of the pool keeps its types, and no queue outgrows its bound.
THEOREM TypeCorrect == Spec => []TypeOK
<1>1. IInv => TypeOK
  BY DEF IInv
<1>2. QED
  BY <1>1, Invariance, PTL

\* CopilotCliPool::worker_for_key: every task, queued or running, is with the
\* worker of its session.
THEOREM TasksStick == Spec => []StickyWorker
<1>1. IInv => StickyWorker
  <2> SUFFICES ASSUME IInv, NEW r \in Requests, NEW p \in Places(r)
               PROVE  affinity[SessionOf[r]] = p[1]
    BY DEF StickyWorker
  <2>1. p[1] \in Workers /\ p[2] \in 0 .. QueueSize
    BY DEF Places
  <2>2. CASE p[2] = 0
    <3>1. work[p[1]] = r
      BY <2>2 DEF Places
    <3>2. QED
      BY <2>1, <3>1 DEF IInv, TasksAtHome
  <2>3. CASE p[2] # 0
    <3>1. p[2] <= Len(queue[p[1]]) /\ queue[p[1]][p[2]] = r
      BY <2>3 DEF Places
    <3>2. p[2] \in 1 .. Len(queue[p[1]])
      BY <2>1, <2>3, <3>1, SeqTypes DEF IInv
    <3>3. QED
      BY <2>1, <3>1, <3>2 DEF IInv, TasksAtHome
  <2>4. QED
    BY <2>2, <2>3
<1>2. QED
  BY <1>1, Invariance, PTL

\* worker_for_key: sessions are spread evenly over the workers, whichever of
\* them make requests at the same time.
THEOREM SessionsSpread == Spec => []Balanced
<1>1. IInv => Balanced
  <2> SUFFICES ASSUME IInv, NEW v \in Workers, NEW w \in Workers
               PROVE  Load(v) <= Load(w) + 1
    BY DEF Balanced
  <2>1. PICK q \in 0 .. rr, m \in Workers :
          \A u \in Workers : Load(u) = IF u < m THEN q + 1 ELSE q
    BY DEF IInv, EvenLoads
  <2>2. q \in Nat
    BY DEF IInv, TypeOK
  <2>3. QED
    BY <2>1, <2>2
<1>2. QED
  BY <1>1, Invariance, PTL

\* run_copilot_cli_provider under the worker loop: two processes resume one
\* session at a time only when the timeout has given one of them up.
THEOREM OverlapByTimeout == Spec => []OverlapOnlyByTimeout
<1>1. IInv => OverlapOnlyByTimeout
  <2> SUFFICES ASSUME IInv, NEW q \in Requests, NEW r \in Requests,
                      process[q] = "running", process[r] = "running",
                      SessionOf[q] = SessionOf[r],
                      reply[q] # "timeout", reply[r] # "timeout"
               PROVE  q = r
    BY DEF OverlapOnlyByTimeout
  <2>1. PICK v \in Workers : work[v] = q
    BY DEF IInv, ProcessesFollowWork
  <2>2. PICK w \in Workers : work[w] = r
    BY DEF IInv, ProcessesFollowWork
  <2>3. affinity[SessionOf[q]] = v /\ affinity[SessionOf[r]] = w
    BY <2>1, <2>2 DEF IInv, TasksAtHome
  <2>4. QED
    BY <2>1, <2>2, <2>3
<1>2. QED
  BY <1>1, Invariance, PTL

\* Where the task of a request is: nowhere before it is queued,
LEMMA PlacesBefore ==
  ASSUME IInv, NEW r \in Requests,
         \A p \in 1 .. Len(line[SessionOf[r]]) : line[SessionOf[r]][p] # r
  PROVE  Places(r) = {} /\ reply[r] = None
<1>0. TypeOK /\ LineOfSession /\ QueuedNotBegun /\ BegunOrAnswered
  BY DEF IInv
<1>1. \A w \in Workers : work[w] # r
  <2> SUFFICES ASSUME NEW w \in Workers, work[w] = r
               PROVE  FALSE
    OBVIOUS
  <2>1. PICK p \in 1 .. begun[SessionOf[r]] : line[SessionOf[r]][p] = r
    BY <1>0 DEF BegunOrAnswered
  <2>2. p \in 1 .. Len(line[SessionOf[r]])
    BY <1>0, SeqTypes DEF LineOfSession
  <2>3. QED
    BY <2>1, <2>2
<1>2. ASSUME NEW w \in Workers, NEW i \in 1 .. Len(queue[w])
      PROVE  queue[w][i] # r
  <2>1. PICK p \in begun[SessionOf[queue[w][i]]] + 1 .. Len(line[SessionOf[queue[w][i]]]) :
          line[SessionOf[queue[w][i]]][p] = queue[w][i]
    BY <1>0 DEF QueuedNotBegun
  <2>2. p \in 1 .. Len(line[SessionOf[queue[w][i]]])
    BY <1>0, SeqTypes
  <2>3. QED
    BY <2>1, <2>2
<1>3. reply[r] = None
  <2> SUFFICES ASSUME reply[r] # None
               PROVE  FALSE
    OBVIOUS
  <2>1. PICK p \in 1 .. begun[SessionOf[r]] : line[SessionOf[r]][p] = r
    BY <1>0 DEF BegunOrAnswered
  <2>2. p \in 1 .. Len(line[SessionOf[r]])
    BY <1>0, SeqTypes DEF LineOfSession
  <2>3. QED
    BY <2>1, <2>2
<1>4. ASSUME NEW p \in Places(r)
      PROVE  FALSE
  <2>1. p[1] \in Workers /\ p[2] \in 0 .. QueueSize
    BY DEF Places
  <2>2. CASE p[2] = 0
    BY <1>1, <2>1, <2>2 DEF Places
  <2>3. CASE p[2] # 0
    <3>1. p[2] <= Len(queue[p[1]]) /\ queue[p[1]][p[2]] = r
      BY <2>3 DEF Places
    <3>2. p[2] \in 1 .. Len(queue[p[1]])
      BY <1>0, <2>1, <2>3, <3>1, SeqTypes
    <3>3. QED
      BY <1>2, <2>1, <3>1, <3>2
  <2>4. QED
    BY <2>1, <2>2, <2>3
<1>5. QED
  BY <1>3, <1>4

\* in one slot of its worker's queue while it waits there,
LEMMA PlacesQueued ==
  ASSUME IInv, NEW r \in Requests,
         NEW p \in begun[SessionOf[r]] + 1 .. Len(line[SessionOf[r]]),
         line[SessionOf[r]][p] = r
  PROVE  (\E x : Places(r) = {x}) /\ reply[r] = None
<1> DEFINE s == SessionOf[r]
           w == affinity[s]
<1>0. /\ TypeOK /\ TasksAtHome /\ LineOfSession /\ QueuedNotBegun /\ QueuedInOrder
      /\ BegunOrAnswered /\ s \in Sessions
  BY DEF IInv
<1>1. begun[s] \in Nat /\ Len(line[s]) \in Nat /\ p \in 1 .. Len(line[s])
  BY <1>0, SeqTypes
<1>2. \A q \in 1 .. begun[s] : line[s][q] # r
  <2>1. \A q \in 1 .. begun[s] : q \in 1 .. Len(line[s]) /\ q # p
    BY <1>0, <1>1 DEF LineOfSession
  <2>2. QED
    BY <1>0, <1>1, <2>1 DEF LineOfSession
<1>3. reply[r] = None /\ \A v \in Workers : work[v] # r
  BY <1>0, <1>2 DEF BegunOrAnswered
<1>4. w \in Workers
  BY <1>0 DEF QueuedNotBegun
<1>5. PICK i \in 1 .. Len(queue[w]) : queue[w][i] = r
  BY <1>0 DEF QueuedNotBegun
<1>6. Len(queue[w]) \in Nat /\ Len(queue[w]) <= QueueSize
  BY <1>0, <1>4, SeqTypes DEF TypeOK
<1>7. <<w, i>> \in Places(r)
  BY <1>4, <1>5, <1>6 DEF Places
<1>8. ASSUME NEW x \in Places(r)
      PROVE  x = <<w, i>>
  <2>1. x \in Workers \X (0 .. QueueSize) /\ x[1] \in Workers /\ x[2] \in 0 .. QueueSize
    BY DEF Places
  <2>2. x[2] # 0
    BY <1>3, <2>1 DEF Places
  <2>3. x[2] <= Len(queue[x[1]]) /\ queue[x[1]][x[2]] = r
    BY <2>2 DEF Places
  <2>4. x[2] \in 1 .. Len(queue[x[1]])
    BY <1>0, <2>1, <2>2, <2>3, SeqTypes
  <2>5. x[1] = w
    BY <1>0, <2>1, <2>3, <2>4 DEF TasksAtHome
  <2>6. ~(x[2] < i) /\ ~(i < x[2])
    BY <1>0, <1>4, <1>5, <2>3, <2>4, <2>5, QueueInjective
  <2>7. x[2] = i
    BY <1>5, <2>1, <2>6
  <2>8. QED
    BY <2>1, <2>5, <2>7
<1>9. QED
  BY <1>3, <1>7, <1>8

\* and then in its worker's hands until it has its reply.
LEMMA PlacesBegun ==
  ASSUME IInv, NEW r \in Requests, NEW p \in 1 .. begun[SessionOf[r]],
         line[SessionOf[r]][p] = r
  PROVE  IF reply[r] = None THEN \E x : Places(r) = {x} ELSE Places(r) = {}
<1> DEFINE s == SessionOf[r]
           w == affinity[s]
<1>0. /\ TypeOK /\ TasksAtHome /\ LineOfSession /\ QueuedNotBegun /\ AffinityKept
      /\ BegunOrAnswered /\ NothingLost /\ s \in Sessions
  BY DEF IInv
<1>1. begun[s] \in Nat /\ Len(line[s]) \in Nat /\ p \in 1 .. Len(line[s])
  BY <1>0, SeqTypes DEF LineOfSession
<1>2. ASSUME NEW v \in Workers, NEW i \in 1 .. Len(queue[v]), queue[v][i] = r
      PROVE  FALSE
  <2>1. PICK q \in begun[s] + 1 .. Len(line[s]) : line[s][q] = r
    BY <1>0, <1>2 DEF QueuedNotBegun
  <2>2. q \in 1 .. Len(line[s]) /\ q # p
    BY <1>1, <2>1
  <2>3. QED
    BY <1>0, <1>1, <2>1, <2>2 DEF LineOfSession
<1>3. ASSUME NEW x \in Places(r)
      PROVE  /\ x \in Workers \X (0 .. QueueSize) /\ x[1] \in Workers
             /\ x[2] = 0 /\ work[x[1]] = r
  <2>1. x \in Workers \X (0 .. QueueSize) /\ x[1] \in Workers /\ x[2] \in 0 .. QueueSize
    BY DEF Places
  <2>2. x[2] = 0
    <3> SUFFICES ASSUME x[2] # 0
                 PROVE  FALSE
      OBVIOUS
    <3>1. x[2] <= Len(queue[x[1]]) /\ queue[x[1]][x[2]] = r
      BY DEF Places
    <3>2. x[2] \in 1 .. Len(queue[x[1]])
      BY <1>0, <2>1, <3>1, SeqTypes
    <3>3. QED
      BY <1>2, <2>1, <3>1, <3>2
  <2>3. QED
    BY <2>1, <2>2 DEF Places
<1>4. CASE reply[r] # None
  <2>1. \A v \in Workers : work[v] # r
    BY <1>0, <1>4 DEF BegunOrAnswered
  <2>2. QED
    BY <1>3, <1>4, <2>1
<1>5. CASE reply[r] = None
  <2>1. w \in Workers
    <3>1. handler[r] # "idle"
      BY <1>0, <1>1 DEF LineOfSession
    <3>2. QED
      BY <1>0, <3>1 DEF AffinityKept
  <2>2. work[w] = r
    BY <1>0, <1>5 DEF NothingLost
  <2>3. <<w, 0>> \in Places(r)
    BY <2>1, <2>2 DEF Places
  <2>4. ASSUME NEW x \in Places(r)
        PROVE  x = <<w, 0>>
    <3>1. x[1] = w
      BY <1>0, <1>3 DEF TasksAtHome
    <3>2. QED
      BY <1>3, <3>1
  <2>5. QED
    BY <1>5, <2>3, <2>4
<1>6. QED
  BY <1>4, <1>5

\* The worker loop and run(): whoever hangs up or times out, a queued task is in
\* one place or has its reply.
THEOREM TasksAreConserved == Spec => []TaskConserved
<1>1. IInv => TaskConserved
  <2> SUFFICES ASSUME IInv, NEW r \in Requests
               PROVE  LET queued == \E i \in DOMAIN line[SessionOf[r]] : line[SessionOf[r]][i] = r
                      IN  /\ handler[r] \in {"waiting", "answered"} => queued
                          /\ Cardinality(Places(r)) + (IF reply[r] = None THEN 0 ELSE 1)
                               = (IF queued THEN 1 ELSE 0)
    BY DEF TaskConserved
  <2> DEFINE s == SessionOf[r]
             queued == \E i \in DOMAIN line[s] : line[s][i] = r
  <2>1. /\ s \in Sessions /\ line[s] \in Seq(Requests) /\ begun[s] \in Nat
        /\ Len(line[s]) \in Nat /\ DOMAIN line[s] = 1 .. Len(line[s])
    BY SeqTypes, LenProperties DEF IInv, TypeOK
  <2>2. handler[r] \in {"waiting", "answered"} => queued
    BY <2>1 DEF IInv, NothingLost
  <2>3. Cardinality({}) = 0 /\ \A x : Cardinality({x}) = 1
    BY FS_EmptySet, FS_Singleton
  <2>4. CASE ~queued
    <3>1. Places(r) = {} /\ reply[r] = None
      BY <2>1, <2>4, PlacesBefore
    <3>2. QED
      BY <2>2, <2>3, <2>4, <3>1
  <2>5. CASE queued
    <3>1. PICK p \in 1 .. Len(line[s]) : line[s][p] = r
      BY <2>1, <2>5
    <3>2. CASE p \in 1 .. begun[s]
      <4>1. IF reply[r] = None THEN \E x : Places(r) = {x} ELSE Places(r) = {}
        BY <3>1, <3>2, PlacesBegun
      <4>2. CASE reply[r] = None
        <5>1. Cardinality(Places(r)) = 1
          BY <2>3, <4>1, <4>2
        <5>2. QED
          BY <2>2, <2>5, <4>2, <5>1
      <4>3. CASE reply[r] # None
        <5>1. Cardinality(Places(r)) = 0
          BY <2>3, <4>1, <4>3
        <5>2. QED
          BY <2>2, <2>5, <4>3, <5>1
      <4>4. QED
        BY <4>2, <4>3
    <3>3. CASE p \in begun[s] + 1 .. Len(line[s])
      <4>1. (\E x : Places(r) = {x}) /\ reply[r] = None
        BY <3>1, <3>3, PlacesQueued
      <4>2. Cardinality(Places(r)) = 1
        BY <2>3, <4>1
      <4>3. QED
        BY <2>2, <2>5, <4>1, <4>2
    <3>4. QED
      BY <2>1, <3>1, <3>2, <3>3
  <2>6. QED
    BY <2>4, <2>5
<1>2. QED
  BY <1>1, Invariance, PTL

-----------------------------------------------------------------------------
(* Refinement *)

\* At most one worker works for a session, so that Current is well defined.
LEMMA CurrentOf ==
  ASSUME TypeOK, TasksAtHome
  PROVE  /\ Current \in [Sessions -> Requests \cup {None}]
         /\ \A w \in Workers : work[w] # None => Current[SessionOf[work[w]]] = work[w]
         /\ \A s \in Sessions :
              (\A w \in Workers : work[w] # None => SessionOf[work[w]] # s) => Current[s] = None
<1> DEFINE Serves(w, s) == work[w] # None /\ SessionOf[work[w]] = s
<1>1. \A v, w \in Workers : \A s \in Sessions : Serves(v, s) /\ Serves(w, s) => v = w
  BY DEF TasksAtHome
<1>2. ASSUME NEW s \in Sessions, NEW w \in Workers, Serves(w, s)
      PROVE  Current[s] = work[w]
  <2>1. (CHOOSE v \in Workers : Serves(v, s)) = w
    BY <1>1, <1>2
  <2>2. QED
    BY <1>2, <2>1 DEF Current
<1>3. \A s \in Sessions : ~(\E w \in Workers : Serves(w, s)) => Current[s] = None
  BY DEF Current
<1>4. \A w \in Workers : work[w] # None =>
        work[w] \in Requests /\ SessionOf[work[w]] \in Sessions
  BY DEF TypeOK
<1>5. \A s \in Sessions : Current[s] \in Requests \cup {None}
  BY <1>2, <1>3, <1>4
<1>6. Current \in [Sessions -> Requests \cup {None}]
  BY <1>5 DEF Current
<1>7. QED
  BY <1>2, <1>3, <1>4, <1>6

LEMMA InitSerial == Init => Serial!Init
<1> SUFFICES ASSUME Init
             PROVE  Serial!Init
  OBVIOUS
<1>1. Current = [s \in Sessions |-> None]
  BY DEF Init, Current
<1>2. QED
  BY <1>1 DEF Init, Serial!Init

\* Current changes at most for the session of the worker that moves.
LEMMA CurrentChange ==
  ASSUME TypeOK, TypeOK', TasksAtHome, TasksAtHome', NEW w \in Workers,
         NEW s \in Sessions, NEW x \in Requests \cup {None},
         \A v \in Workers \ {w} : work'[v] = work[v],
         work[w] # None => SessionOf[work[w]] = s,
         work'[w] # None => SessionOf[work'[w]] = s,
         Current'[s] = x
  PROVE  Current' = [Current EXCEPT ![s] = x]
<1>1. ASSUME NEW t \in Sessions \ {s}
      PROVE  Current'[t] = Current[t]
  <2>1. CASE \E v \in Workers : work[v] # None /\ SessionOf[work[v]] = t
    <3>1. PICK v \in Workers : work[v] # None /\ SessionOf[work[v]] = t
      BY <2>1
    <3>2. v # w /\ work'[v] = work[v]
      BY <3>1
    <3>3. Current[t] = work[v]
      BY <3>1, CurrentOf
    <3>4. Current'[t] = work'[v]
      <4>1. work'[v] # None /\ SessionOf[work'[v]] = t
        BY <3>1, <3>2
      <4>2. (CHOOSE u \in Workers : work'[u] # None /\ SessionOf[work'[u]] = t) = v
        BY <4>1 DEF TasksAtHome
      <4>3. QED
        BY <4>1, <4>2 DEF Current
    <3>5. QED
      BY <3>2, <3>3, <3>4
  <2>2. CASE ~ \E v \in Workers : work[v] # None /\ SessionOf[work[v]] = t
    BY <2>2 DEF Current
  <2>3. QED
    BY <2>1, <2>2
<1>2. Current \in [Sessions -> Requests \cup {None}]
  BY CurrentOf
<1>3. Current' = [t \in Sessions |-> Current'[t]]
  BY DEF Current
<1>4. QED
  BY <1>1, <1>2, <1>3

\* Every step of the pool is a step of SerialSessions, or one it does not see.
LEMMA StepSerial == IInv /\ IInv' /\ [Next]_vars => [Serial!Next]_(Serial!vars)
<1> SUFFICES ASSUME IInv, IInv', [Next]_vars
             PROVE  [Serial!Next]_(Serial!vars)
  OBVIOUS
<1>a. /\ TypeOK /\ AffinityKept /\ TasksAtHome /\ LineOfSession /\ QueuedNotBegun
      /\ QueuedInOrder /\ BegunOrAnswered /\ TypeOK' /\ TasksAtHome'
  BY DEF IInv
<1>1. CASE UNCHANGED <<line, begun, work, reply>>
  BY <1>1 DEF Current, Serial!vars
<1>2. ASSUME NEW r \in Requests, Send(r)
      PROVE  Serial!Next
  <2> DEFINE s == SessionOf[r]
  <2>1. s \in Sessions /\ \A i \in 1 .. Len(line[s]) : line[s][i] # r
    BY <1>a, <1>2, SendEffect, NotYetQueued
  <2>2. line' = [line EXCEPT ![s] = Append(@, r)] /\ UNCHANGED <<begun, work, reply>>
    BY <1>2 DEF Send
  <2>3. UNCHANGED Current
    BY <2>2 DEF Current
  <2>4. Serial!Accept(s, r)
    BY <2>1, <2>2, <2>3 DEF Serial!Accept
  <2>5. QED
    BY <2>1, <2>4 DEF Serial!Next
<1>3. ASSUME NEW w \in Workers, Dequeue(w)
      PROVE  Serial!Next
  <2> DEFINE r == queue[w][1]
             s == SessionOf[r]
  <2>1. /\ Len(queue[w]) \in Nat \ {0} /\ r \in Requests /\ work[w] = None
        /\ \A v \in Workers : work'[v] = IF v = w THEN r ELSE work[v]
        /\ UNCHANGED <<line, reply>>
    BY <1>a, <1>3, DequeueEffect
  <2>2. /\ s \in Sessions /\ affinity[s] = w
        /\ begun[s] + 1 \in 1 .. Len(line[s]) /\ line[s][begun[s] + 1] = r
    BY <1>a, <2>1, HeadIsNext
  <2>3. begun' = [begun EXCEPT ![s] = @ + 1]
    <3>1. Head(queue[w]) = r
      BY <1>a, <1>3, HeadOfQueue DEF Dequeue, TypeOK
    <3>2. QED
      BY <1>3, <3>1 DEF Dequeue
  <2>4. Current[s] = None
    <3>1. \A v \in Workers : work[v] # None => SessionOf[work[v]] # s
      BY <1>a, <2>1, <2>2 DEF TasksAtHome
    <3>2. QED
      BY <1>a, <2>2, <3>1, CurrentOf
  <2>5. begun[s] < Len(line[s])
    BY <1>a, <2>2, SeqTypes
  <2>6. Current'[s] = r
    <3>1. work'[w] = r /\ r # None
      BY <2>1
    <3>2. (CHOOSE u \in Workers : work'[u] # None /\ SessionOf[work'[u]] = s) = w
      BY <1>a, <3>1 DEF TasksAtHome
    <3>3. QED
      BY <2>2, <3>1, <3>2 DEF Current
  <2>7. Current' = [Current EXCEPT ![s] = r]
    BY <1>a, <2>1, <2>2, <2>6, CurrentChange
  <2>8. Serial!Begin(s)
    BY <2>1, <2>2, <2>3, <2>4, <2>5, <2>7 DEF Serial!Begin
  <2>9. QED
    BY <2>2, <2>8 DEF Serial!Next
<1>4. ASSUME NEW w \in Workers, NEW x \in Results, Respond(w, x)
      PROVE  Serial!Next
  <2> DEFINE s == SessionOf[work[w]]
  <2>1. /\ work[w] \in Requests
        /\ \A v \in Workers : work'[v] = IF v = w THEN None ELSE work[v]
        /\ UNCHANGED <<line, begun>>
    BY <1>a, <1>4, RespondEffect
  <2>2. s \in Sessions /\ work[w] # None
    BY <2>1
  <2>3. Current[s] = work[w]
    BY <1>a, <2>2, CurrentOf
  <2>4. Current'[s] = None
    <3>1. \A v \in Workers : work'[v] # None => SessionOf[work'[v]] # s
      BY <1>a, <2>1, <2>2 DEF TasksAtHome
    <3>2. QED
      BY <2>2, <3>1 DEF Current
  <2>5. Current' = [Current EXCEPT ![s] = None]
    BY <1>a, <2>1, <2>2, <2>4, CurrentChange
  <2>6. reply[work[w]] = None
    BY <1>a, <2>2 DEF BegunOrAnswered
  <2>7. reply' = [reply EXCEPT ![work[w]] = x]
    BY <1>4 DEF Respond
  <2>8. Serial!Finish(s, x)
    BY <2>1, <2>2, <2>3, <2>5, <2>6, <2>7 DEF Serial!Finish
  <2>9. QED
    BY <2>2, <2>8 DEF Serial!Next
<1>5. ASSUME NEW r \in Requests, Route(r) \/ Disconnect(r) \/ Answer(r) \/ Exit(r)
      PROVE  UNCHANGED <<line, begun, work, reply>>
  BY <1>5 DEF Route, Disconnect, Answer, Exit, history
<1>6. ASSUME NEW w \in Workers, Spawn(w)
      PROVE  UNCHANGED <<line, begun, work, reply>>
  BY <1>6 DEF Spawn, history
<1>7. CASE UNCHANGED vars
  BY <1>1, <1>7 DEF vars
<1>8. QED
  BY <1>1, <1>2, <1>3, <1>4, <1>5, <1>6, <1>7, NextCases

\* The pool takes up the tasks of a session one at a time in the order they
\* were queued and gives each one result, whoever disconnects or times out.
THEOREM PoolImplementsSerial == Spec => ImplementsSerialSessions
<1>1. Spec => Serial!Spec
  BY InitSerial, StepSerial, Invariance, PTL DEF Spec, Serial!Spec
<1>2. QED
  BY <1>1 DEF ImplementsSerialSessions
=============================================================================
