--------------------------- MODULE ClawRunProofs ---------------------------
(***************************************************************************)
(* Proofs about ClawRun, for any requests, hubs, sessions and agents: a    *)
(* conversation goes in the order of its chats, Copilot is started on one  *)
(* at a time though clawrun gives up sooner than the bridge, and the best  *)
(* agent is chosen.                                                        *)
(***************************************************************************)
EXTENDS ClawRun, BridgePoolProofs, WellFoundedInduction

USE PoolAssumption

-----------------------------------------------------------------------------
(* The bridge under clawrun is BridgePool *)

LEMMA PoolStep == [RunNext]_runvars => [Next]_vars
<1> SUFFICES ASSUME RunNext
             PROVE  [Next]_vars
  BY DEF runvars
<1>1. ASSUME NEW r \in Requests, Ask(r) \/ Take(r) \/ GiveUp(r)
      PROVE  UNCHANGED vars
  BY <1>1 DEF Ask, Take, GiveUp
<1>2. ASSUME NEW r \in Requests, Arrive(r) \/ HangUp(r) \/ Send(r) \/ Answer(r) \/ Exit(r)
      PROVE  Next
  BY <1>2 DEF Arrive, HangUp, Next, Handler
<1>3. ASSUME NEW w \in Workers, Worker(w)
      PROVE  Next
  BY <1>3 DEF Next
<1>4. QED
  BY <1>1, <1>2, <1>3 DEF RunNext

\* So what BridgePoolProofs says of the bridge can be said of it under clawrun.
LEMMA RunsThePool == RunSpec => Spec
<1>1. RunInit => Init
  BY DEF RunInit
<1>2. QED
  BY <1>1, PoolStep, PTL DEF RunSpec, Spec

-----------------------------------------------------------------------------
(* What a step does *)

\* The outcome of one chat is decided, or a request that was posted moves on.
LEMMA RunCases ==
  ASSUME TypeOK, [RunNext]_runvars
  PROVE  \/ /\ UNCHANGED outcome
            /\ \A r \in Requests : handler[r] = "idle" =>
                 handler'[r] = "idle" \/ outcome[r] # "none"
         \/ \E r \in Requests : (Ask(r) \/ Take(r) \/ GiveUp(r)) /\ UNCHANGED vars
<1>1. ASSUME NEW q \in Requests, Arrive(q)
      PROVE  /\ UNCHANGED outcome
             /\ \A r \in Requests : handler[r] = "idle" =>
                  handler'[r] = "idle" \/ outcome[r] # "none"
  BY <1>1 DEF Arrive, Route, TypeOK
<1>2. ASSUME NEW q \in Requests, HangUp(q) \/ Send(q) \/ Answer(q)
      PROVE  \A r \in Requests : handler[r] = "idle" => handler'[r] = "idle"
  BY <1>2 DEF HangUp, Disconnect, Send, Answer, TypeOK
<1>3. ASSUME NEW q \in Requests, Exit(q)
      PROVE  UNCHANGED handler
  BY <1>3 DEF Exit
<1>4. ASSUME NEW w \in Workers, Worker(w)
      PROVE  UNCHANGED handler
  BY <1>4 DEF Worker, Dequeue, Spawn, SpawnFailure, Finish, Timeout, Respond
<1>5. ASSUME NEW q \in Requests, Ask(q) \/ Take(q) \/ GiveUp(q)
      PROVE  UNCHANGED vars
  BY <1>5 DEF Ask, Take, GiveUp
<1>6. CASE UNCHANGED runvars
  BY <1>6 DEF runvars, vars
<1>7. ASSUME NEW q \in Requests, HangUp(q)
      PROVE  UNCHANGED outcome
  BY <1>7 DEF HangUp
<1>8. QED
  BY <1>1, <1>2, <1>3, <1>4, <1>5, <1>6, <1>7 DEF RunNext

\* A decision is final.
LEMMA OutcomeStep ==
  ASSUME TypeOK, RunTypeOK, [RunNext]_runvars, NEW r \in Requests
  PROVE  /\ outcome[r] \in {"copilot", "template"} => outcome'[r] = outcome[r]
         /\ outcome[r] # "none" => outcome'[r] # "none"
         /\ outcome'[r] = "copilot" => outcome[r] = "copilot" \/ (reply[r] = "ok" /\ reply' = reply)
<1>1. CASE UNCHANGED outcome
  BY <1>1
<1>2. ASSUME NEW q \in Requests, Ask(q) \/ Take(q) \/ GiveUp(q)
      PROVE  /\ outcome[q] \in {"none", "asked"}
             /\ outcome'[q] \in {"asked", "copilot", "template"}
             /\ \A x \in Requests \ {q} : outcome'[x] = outcome[x]
             /\ outcome'[q] = "copilot" => reply[q] = "ok" /\ reply' = reply
  BY <1>2 DEF Ask, Take, GiveUp, Decide, RunTypeOK, vars
<1>3. QED
  BY <1>1, <1>2, RunCases

\* A reply of the bridge is final.
LEMMA ReplyStays ==
  ASSUME IInv, [Next]_vars, NEW r \in Requests, reply[r] # None
  PROVE  reply'[r] = reply[r]
<1>1. TypeOK /\ BegunOrAnswered
  BY DEF IInv
<1>2. ASSUME NEW w \in Workers, NEW x \in Results, Respond(w, x)
      PROVE  reply'[r] = reply[r]
  <2>1. work[w] \in Requests /\ \A q \in Requests : reply'[q] = IF q = work[w] THEN x ELSE reply[q]
    BY <1>1, <1>2, RespondEffect
  <2>2. reply[work[w]] = None
    BY <1>1, <2>1 DEF BegunOrAnswered
  <2>3. QED
    BY <2>1, <2>2
<1>3. ASSUME NEW q \in Requests, Route(q) \/ Send(q) \/ Disconnect(q) \/ Answer(q) \/ Exit(q)
      PROVE  UNCHANGED reply
  BY <1>3 DEF Route, Send, Disconnect, Answer, Exit
<1>4. ASSUME NEW w \in Workers, Dequeue(w) \/ Spawn(w)
      PROVE  UNCHANGED reply
  BY <1>4 DEF Dequeue, Spawn
<1>5. QED
  BY <1>2, <1>3, <1>4, NextCases DEF vars

LEMMA RunTypeStep == IInv /\ RunTypeOK /\ [RunNext]_runvars => RunTypeOK'
<1> SUFFICES ASSUME IInv, RunTypeOK, [RunNext]_runvars
             PROVE  RunTypeOK'
  OBVIOUS
<1>1. TypeOK
  BY DEF IInv
<1>2. outcome' \in [Requests -> Outcomes]
  BY <1>1, RunCases DEF RunTypeOK, Ask, Take, GiveUp, Decide, Outcomes
<1>3. ASSUME NEW r \in Requests, outcome'[r] = "copilot"
      PROVE  reply'[r] = "ok"
  <2>1. CASE outcome[r] = "copilot"
    <3>1. reply[r] = "ok" /\ reply[r] # None
      BY <2>1 DEF RunTypeOK, Results
    <3>2. QED
      BY <3>1, ReplyStays, PoolStep
  <2>2. CASE outcome[r] # "copilot"
    BY <1>1, <1>3, <2>2, OutcomeStep
  <2>3. QED
    BY <2>1, <2>2
<1>4. QED
  BY <1>2, <1>3 DEF RunTypeOK

LEMMA AskedStep == IInv /\ RunTypeOK /\ AskedInOrder /\ [RunNext]_runvars => AskedInOrder'
<1> SUFFICES ASSUME IInv, RunTypeOK, AskedInOrder, [RunNext]_runvars
             PROVE  AskedInOrder'
  OBVIOUS
<1>1. TypeOK
  BY DEF IInv
<1>2. ASSUME NEW r \in Requests, handler'[r] # "idle"
      PROVE  outcome'[r] # "none"
  <2>1. CASE handler[r] # "idle"
    BY <1>1, <2>1, OutcomeStep DEF AskedInOrder
  <2>2. CASE handler[r] = "idle"
    BY <1>1, <1>2, <2>2, OutcomeStep, RunCases DEF vars
  <2>3. QED
    BY <2>1, <2>2
<1>3. ASSUME NEW r \in Requests, outcome'[r] # "none", NEW q \in Earlier(r)
      PROVE  outcome'[q] \in {"copilot", "template"}
  <2>1. q \in Requests
    BY DEF Earlier
  <2>2. outcome[q] \in {"copilot", "template"}
    <3>1. CASE outcome[r] # "none"
      BY <3>1 DEF AskedInOrder
    <3>2. CASE outcome[r] = "none"
      <4>1. PICK x \in Requests : Ask(x) \/ Take(x) \/ GiveUp(x)
        BY <1>1, <1>3, <3>2, RunCases
      <4>2. x = r
        BY <1>3, <3>2, <4>1 DEF Ask, Take, GiveUp, Decide, RunTypeOK
      <4>3. Ask(r)
        BY <3>2, <4>1, <4>2 DEF Take, GiveUp
      <4>4. QED
        BY <4>3 DEF Ask
    <3>3. QED
      BY <3>1, <3>2
  <2>3. QED
    BY <1>1, <2>1, <2>2, OutcomeStep
<1>4. QED
  BY <1>2, <1>3 DEF AskedInOrder, Earlier

-----------------------------------------------------------------------------
(* The order of a conversation *)

\* The lines change by a send, which comes after the chat was asked for.
LEMMA LineCases ==
  ASSUME [RunNext]_runvars
  PROVE  \/ UNCHANGED line
         \/ \E r \in Requests : Send(r) /\ UNCHANGED outcome
<1>1. ASSUME NEW r \in Requests,
             Ask(r) \/ Take(r) \/ GiveUp(r) \/ Arrive(r) \/ HangUp(r) \/ Answer(r) \/ Exit(r)
      PROVE  UNCHANGED line
  BY <1>1 DEF Ask, Take, GiveUp, Arrive, HangUp, Route, Disconnect, Answer, Exit, vars, history
<1>2. ASSUME NEW w \in Workers, Worker(w)
      PROVE  UNCHANGED line
  BY <1>2 DEF Worker, Dequeue, Spawn, SpawnFailure, Finish, Timeout, Respond, history
<1>3. CASE UNCHANGED runvars
  BY <1>3 DEF runvars, vars
<1>4. QED
  BY <1>1, <1>2, <1>3 DEF RunNext

LEMMA ConversationStep ==
  IInv /\ IInv' /\ RunTypeOK /\ AskedInOrder /\ ConversationInOrder /\ [RunNext]_runvars
    => ConversationInOrder'
<1> SUFFICES ASSUME IInv, IInv', RunTypeOK, AskedInOrder, ConversationInOrder, [RunNext]_runvars,
                    NEW r \in Requests, NEW q \in Earlier(r),
                    SessionOf[q] = SessionOf[r], outcome'[q] # "template",
                    PositionOf(r)' # {}
             PROVE  \E j \in PositionOf(q)' : \A k \in PositionOf(r)' : j < k
  BY DEF ConversationInOrder, Earlier
<1> DEFINE s == SessionOf[r]
<1>1. TypeOK /\ TypeOK' /\ AffinityKept /\ LineOfSession /\ QueuedNotBegun /\ BegunOrAnswered
  BY DEF IInv
<1>2. q \in Requests /\ s \in Sessions
  BY DEF Earlier
<1>3. outcome[q] # "template"
  BY <1>1, <1>2, OutcomeStep
<1>4. \A x \in {q, r} :
        /\ PositionOf(x) = {p \in 1 .. Len(line[s]) : line[s][p] = x}
        /\ PositionOf(x)' = {p \in 1 .. Len(line'[s]) : line'[s][p] = x}
  <2>1. DOMAIN line[s] = 1 .. Len(line[s]) /\ DOMAIN line'[s] = 1 .. Len(line'[s])
    BY <1>1, <1>2 DEF TypeOK
  <2>2. QED
    BY <2>1 DEF PositionOf
<1>5. PositionOf(r) # {} => \E j \in PositionOf(q) : \A k \in PositionOf(r) : j < k
  BY <1>3 DEF ConversationInOrder
<1>6. CASE UNCHANGED line
  BY <1>4, <1>5, <1>6
<1>7. ASSUME NEW x \in Requests, Send(x), UNCHANGED outcome
      PROVE  \E j \in PositionOf(q)' : \A k \in PositionOf(r)' : j < k
  <2>1. CASE SessionOf[x] # s
    <3>1. line'[s] = line[s]
      BY <1>1, <1>2, <1>7, <2>1, SendEffect
    <3>2. QED
      BY <1>4, <1>5, <3>1
  <2>2. CASE SessionOf[x] = s
    <3>1. /\ handler[x] = "routed"
          /\ Len(line[s]) \in Nat
          /\ Len(line'[s]) = Len(line[s]) + 1
          /\ \A i \in 1 .. Len(line[s]) : line'[s][i] = line[s][i]
          /\ line'[s][Len(line[s]) + 1] = x
      BY <1>1, <1>7, <2>2, SendEffect
    <3>2. CASE x # r
      <4> DEFINE new == Len(line[s]) + 1
      <4>1. \A k \in 1 .. Len(line'[s]) : k \in 1 .. Len(line[s]) \/ k = new
        BY <3>1
      <4>2. PositionOf(r)' = PositionOf(r)
        <5>1. ASSUME NEW k \in PositionOf(r)'
              PROVE  k \in PositionOf(r)
          BY <1>4, <3>1, <3>2, <4>1
        <5>2. ASSUME NEW k \in PositionOf(r)
              PROVE  k \in PositionOf(r)'
          BY <1>4, <3>1
        <5>3. QED
          BY <5>1, <5>2
      <4>3. PositionOf(q) \subseteq PositionOf(q)'
        BY <1>4, <3>1
      <4>4. QED
        BY <1>5, <4>2, <4>3
    <3>3. CASE x = r
      <4>1. \A p \in 1 .. Len(line[s]) : line[s][p] # r
        BY <1>1, <1>2, <3>1, <3>3, NotYetQueued
      <4>2. \A k \in PositionOf(r)' : k = Len(line[s]) + 1
        BY <1>4, <3>1, <4>1
      <4>3. reply[q] = "ok"
        <5>1. outcome[r] # "none"
          BY <3>1, <3>3 DEF AskedInOrder
        <5>2. outcome[q] = "copilot"
          BY <1>3, <5>1 DEF AskedInOrder
        <5>3. QED
          BY <1>2, <5>2 DEF RunTypeOK
      <4>4. PICK p \in 1 .. begun[s] : line[s][p] = q
        <5>1. reply[q] # None
          BY <4>3 DEF Results
        <5>2. QED
          BY <1>1, <1>2, <5>1 DEF BegunOrAnswered
      <4>5. p \in 1 .. Len(line[s])
        BY <1>1, <1>2, <3>1, SeqTypes DEF LineOfSession
      <4>6. p \in PositionOf(q)'
        BY <1>4, <3>1, <4>4, <4>5
      <4>7. QED
        BY <3>1, <4>2, <4>5, <4>6
    <3>4. QED
      BY <3>2, <3>3
  <2>3. QED
    BY <2>1, <2>2
<1>8. QED
  BY <1>6, <1>7, LineCases

-----------------------------------------------------------------------------
(* Copilot takes turns *)

\* Only for the task in its hands does a worker start a process.
LEMMA StartedStep ==
  IInv /\ StartedWhenTaken /\ [Next]_vars => StartedWhenTaken'
<1> SUFFICES ASSUME IInv, StartedWhenTaken, [Next]_vars,
                    NEW r \in Requests, process'[r] # "none"
             PROVE  reply'[r] # None \/ \E w \in Workers : work'[w] = r
  BY DEF StartedWhenTaken
<1>1. TypeOK
  BY DEF IInv
<1>2. process[r] # "none" => reply[r] # None \/ \E w \in Workers : work[w] = r
  BY DEF StartedWhenTaken
<1>3. ASSUME NEW q \in Requests, Route(q) \/ Send(q) \/ Disconnect(q) \/ Answer(q)
      PROVE  UNCHANGED <<process, reply, work>>
  BY <1>3 DEF Route, Send, Disconnect, Answer
<1>4. ASSUME NEW q \in Requests, Exit(q)
      PROVE  process[r] # "none" /\ UNCHANGED <<reply, work>>
  BY <1>1, <1>4 DEF Exit, TypeOK
<1>5. ASSUME NEW w \in Workers, Dequeue(w)
      PROVE  reply'[r] # None \/ \E v \in Workers : work'[v] = r
  <2>1. /\ work[w] = None
        /\ \A v \in Workers \ {w} : work'[v] = work[v]
        /\ UNCHANGED <<process, reply>>
    BY <1>1, <1>5, DequeueEffect
  <2>2. r # None
    BY PoolAssumption
  <2>3. QED
    BY <1>2, <2>1, <2>2
<1>6. ASSUME NEW w \in Workers, Spawn(w)
      PROVE  reply'[r] # None \/ \E v \in Workers : work'[v] = r
  <2>1. r = work[w] \/ process[r] # "none"
    BY <1>1, <1>6 DEF Spawn, TypeOK
  <2>2. UNCHANGED <<reply, work>>
    BY <1>6 DEF Spawn
  <2>3. QED
    BY <1>2, <2>1, <2>2
<1>7. ASSUME NEW w \in Workers, NEW x \in Results, Respond(w, x)
      PROVE  reply'[r] # None \/ \E v \in Workers : work'[v] = r
  <2>1. /\ \A v \in Workers \ {w} : work'[v] = work[v]
        /\ \A q \in Requests : reply'[q] = IF q = work[w] THEN x ELSE reply[q]
        /\ UNCHANGED process
    BY <1>1, <1>7, RespondEffect
  <2>2. x # None
    BY PoolAssumption
  <2>3. QED
    BY <1>2, <2>1, <2>2
<1>8. CASE UNCHANGED vars
  BY <1>2, <1>8 DEF vars
<1>9. QED
  BY <1>2, <1>3, <1>4, <1>5, <1>6, <1>7, <1>8, NextCases

\* A worker with a task in its hands takes no other, and its sessions are its own.
LEMMA LastStep ==
  IInv /\ IInv' /\ LastInHands /\ [Next]_vars => LastInHands'
<1> SUFFICES ASSUME IInv, IInv', LastInHands, [Next]_vars,
                    NEW w \in Workers, work'[w] # None
             PROVE  line'[SessionOf[work'[w]]][begun'[SessionOf[work'[w]]]] = work'[w]
  BY DEF LastInHands
<1>1. /\ TypeOK /\ TypeOK' /\ AffinityKept /\ TasksAtHome /\ TasksAtHome' /\ LineOfSession
      /\ QueuedNotBegun /\ QueuedInOrder /\ BegunOrAnswered
  BY DEF IInv
<1> DEFINE s == SessionOf[work'[w]]
<1>2. work'[w] \in Requests /\ s \in Sessions
  BY <1>1, PoolAssumption DEF TypeOK
<1>3. work'[w] = work[w] => line[s][begun[s]] = work[w]
  BY DEF LastInHands
<1>4. ASSUME NEW x \in Requests, Send(x)
      PROVE  line'[s][begun'[s]] = work'[w]
  <2>1. UNCHANGED <<work, begun>>
    BY <1>1, <1>4, SendEffect
  <2>2. begun[s] \in 1 .. Len(line[s])
    <3>1. \E p \in 1 .. begun[s] : line[s][p] = work[w]
      BY <1>1, <2>1 DEF BegunOrAnswered
    <3>2. begun[s] \in Nat /\ Len(line[s]) \in Nat /\ begun[s] <= Len(line[s])
      BY <1>1, <1>2, SeqTypes DEF LineOfSession
    <3>3. QED
      BY <3>1, <3>2
  <2>3. line'[s][begun[s]] = line[s][begun[s]]
    BY <1>1, <1>2, <1>4, <2>2, SendEffect
  <2>4. QED
    BY <1>3, <2>1, <2>3
<1>5. ASSUME NEW v \in Workers, Dequeue(v)
      PROVE  line'[s][begun'[s]] = work'[w]
  <2> DEFINE t == SessionOf[queue[v][1]]
  <2>1. /\ work[v] = None
        /\ Len(queue[v]) \in Nat \ {0}
        /\ \A u \in Workers : work'[u] = IF u = v THEN queue[v][1] ELSE work[u]
        /\ begun'[s] = IF s = t THEN begun[s] + 1 ELSE begun[s]
        /\ UNCHANGED <<affinity, line>>
    BY <1>1, <1>2, <1>5, DequeueEffect
  <2>2. line[t][begun[t] + 1] = queue[v][1] /\ affinity[t] = v
    BY <1>1, <2>1, HeadIsNext
  <2>3. CASE w = v
    BY <2>1, <2>2, <2>3
  <2>4. CASE w # v
    <3>1. work'[w] = work[w] /\ affinity[s] = w
      BY <1>1, <2>1, <2>4 DEF TasksAtHome
    <3>2. s # t
      BY <2>2, <2>4, <3>1
    <3>3. QED
      BY <1>3, <2>1, <3>1, <3>2
  <2>5. QED
    BY <2>3, <2>4
<1>6. ASSUME NEW v \in Workers, NEW x \in Results, Respond(v, x)
      PROVE  line'[s][begun'[s]] = work'[w]
  <2>1. work'[w] = work[w] /\ UNCHANGED <<line, begun>>
    BY <1>1, <1>6, RespondEffect
  <2>2. QED
    BY <1>3, <2>1
<1>7. ASSUME NEW x \in Requests, Route(x) \/ Disconnect(x) \/ Answer(x) \/ Exit(x)
      PROVE  UNCHANGED <<work, line, begun>>
  BY <1>7 DEF Route, Disconnect, Answer, Exit, history
<1>8. ASSUME NEW v \in Workers, Spawn(v)
      PROVE  UNCHANGED <<work, line, begun>>
  BY <1>8 DEF Spawn, history
<1>9. CASE UNCHANGED vars
  BY <1>3, <1>9 DEF vars
<1>10. QED
  BY <1>3, <1>4, <1>5, <1>6, <1>7, <1>8, <1>9, NextCases

\* A request with a process has a place in its line that the worker has passed.
LEMMA StartedIsBegun ==
  ASSUME IInv, StartedWhenTaken, NEW r \in Requests, process[r] # "none"
  PROVE  \E p \in 1 .. begun[SessionOf[r]] : line[SessionOf[r]][p] = r
<1>1. BegunOrAnswered /\ r # None
  BY PoolAssumption DEF IInv
<1>2. CASE reply[r] # None
  BY <1>1, <1>2 DEF BegunOrAnswered
<1>3. ASSUME NEW w \in Workers, work[w] = r
      PROVE  \E p \in 1 .. begun[SessionOf[r]] : line[SessionOf[r]][p] = r
  BY <1>1, <1>3 DEF BegunOrAnswered
<1>4. QED
  BY <1>2, <1>3 DEF StartedWhenTaken

\* A result ends the worker's part: a process it leaves behind timed out.
LEMMA RepliedIsDone ==
  ASSUME IInv, NEW r \in Requests, reply[r] # None
  PROVE  DoneWith(r)
<1>1. BegunOrAnswered /\ ProcessesFollowWork /\ r # None
  BY PoolAssumption DEF IInv
<1>2. \A w \in Workers : work[w] # r
  BY <1>1 DEF BegunOrAnswered
<1>3. QED
  BY <1>1, <1>2 DEF ProcessesFollowWork, DoneWith

\* Of two tasks of a session that were begun the first has its result.
LEMMA EarlierBegunIsDone ==
  ASSUME IInv, LastInHands, NEW s \in Sessions,
         NEW i \in 1 .. begun[s], NEW j \in 1 .. begun[s], i < j
  PROVE  DoneWith(line[s][i])
<1>1. TypeOK /\ AffinityKept /\ LineOfSession /\ NothingLost
  BY DEF IInv
<1>2. begun[s] \in Nat /\ Len(line[s]) \in Nat /\ begun[s] <= Len(line[s])
  BY <1>1, SeqTypes DEF LineOfSession
<1>3. i \in 1 .. Len(line[s]) /\ begun[s] \in 1 .. Len(line[s]) /\ i # begun[s]
  BY <1>2
<1>4. /\ line[s][i] \in Requests /\ SessionOf[line[s][i]] = s
      /\ handler[line[s][i]] # "idle"
  BY <1>1, <1>3, SeqTypes DEF LineOfSession
<1>5. reply[line[s][i]] # None
  <2> SUFFICES ASSUME reply[line[s][i]] = None
               PROVE  FALSE
    OBVIOUS
  <2>1. work[affinity[s]] = line[s][i]
    BY <1>1 DEF NothingLost
  <2>2. affinity[s] \in Workers
    BY <1>1, <1>4, PoolAssumption DEF AffinityKept
  <2>3. line[s][begun[s]] = line[s][i]
    BY <1>4, <2>1, <2>2, PoolAssumption DEF LastInHands
  <2>4. QED
    BY <1>1, <1>3, <2>3 DEF LineOfSession
<1>6. QED
  BY <1>4, <1>5, RepliedIsDone

LEMMA TakesTurns ==
  IInv /\ RunTypeOK /\ AskedInOrder /\ StartedWhenTaken /\ LastInHands => CopilotTakesTurns
<1> SUFFICES ASSUME IInv, RunTypeOK, AskedInOrder, StartedWhenTaken, LastInHands,
                    NEW r \in Requests, NEW q \in Earlier(r),
                    SessionOf[q] = SessionOf[r], process[r] # "none"
             PROVE  \/ DoneWith(q)
                    \/ outcome[q] = "template" /\ (process[q] = "none" \/ DoneWith(r))
  BY DEF CopilotTakesTurns
<1> DEFINE s == SessionOf[r]
<1>1. TypeOK /\ LineOfSession /\ BegunOrAnswered
  BY DEF IInv
<1>2. q \in Requests /\ q # r /\ s \in Sessions
  BY ClawRunAssumption, PoolAssumption DEF Earlier
<1>3. PICK k \in 1 .. begun[s] : line[s][k] = r
  BY StartedIsBegun
<1>4. outcome[q] \in {"copilot", "template"}
  <2>1. handler[r] # "idle"
    <3>1. begun[s] \in Nat /\ Len(line[s]) \in Nat /\ begun[s] <= Len(line[s])
      BY <1>1, <1>2, SeqTypes DEF LineOfSession
    <3>2. k \in 1 .. Len(line[s])
      BY <3>1
    <3>3. QED
      BY <1>1, <1>2, <1>3, <3>2 DEF LineOfSession
  <2>2. QED
    BY <2>1 DEF AskedInOrder
<1>5. CASE outcome[q] = "copilot"
  <2>1. reply[q] # None
    BY <1>2, <1>5, PoolAssumption DEF RunTypeOK, Results
  <2>2. QED
    BY <1>2, <2>1, RepliedIsDone
<1>6. CASE outcome[q] = "template" /\ process[q] # "none"
  <2>1. PICK i \in 1 .. begun[s] : line[s][i] = q
    BY <1>2, <1>6, StartedIsBegun
  <2>2. i < k \/ k < i
    <3>1. i # k
      BY <1>2, <1>3, <2>1
    <3>2. begun[s] \in Nat
      BY <1>1, <1>2, SeqTypes
    <3>3. QED
      BY <3>1, <3>2
  <2>3. CASE i < k
    BY <1>2, <2>1, <2>3, EarlierBegunIsDone
  <2>4. CASE k < i
    BY <1>2, <1>3, <1>6, <2>4, EarlierBegunIsDone
  <2>5. QED
    BY <2>2, <2>3, <2>4
<1>7. QED
  BY <1>4, <1>5, <1>6

-----------------------------------------------------------------------------
(* Invariance *)

LEMMA RunInitInv == RunInit => RunInv
<1> SUFFICES ASSUME RunInit
             PROVE  RunInv
  OBVIOUS
<1>1. IInv
  BY InitInv DEF RunInit
<1>2. RunTypeOK /\ AskedInOrder
  BY DEF RunInit, Init, RunTypeOK, AskedInOrder, Outcomes
<1>3. ConversationInOrder
  <2>1. \A r \in Requests : PositionOf(r) = {}
    BY DEF RunInit, Init, PositionOf
  <2>2. QED
    BY <2>1 DEF ConversationInOrder
<1>4. StartedWhenTaken /\ LastInHands
  BY DEF RunInit, Init, StartedWhenTaken, LastInHands
<1>5. QED
  BY <1>1, <1>2, <1>3, <1>4 DEF RunInv

LEMMA RunInvStep == RunInv /\ [RunNext]_runvars => RunInv'
<1> SUFFICES ASSUME RunInv, [RunNext]_runvars
             PROVE  RunInv'
  OBVIOUS
<1>1. IInv'
  BY PoolStep, InvStep DEF RunInv
<1>2. RunTypeOK' /\ AskedInOrder'
  BY RunTypeStep, AskedStep DEF RunInv
<1>3. ConversationInOrder'
  BY <1>1, ConversationStep DEF RunInv
<1>4. StartedWhenTaken' /\ LastInHands'
  BY <1>1, PoolStep, StartedStep, LastStep DEF RunInv
<1>5. QED
  BY <1>1, <1>2, <1>3, <1>4 DEF RunInv

\* The inductive invariant of clawrun over the bridge: the bridge's own, what
\* was decided and asked for, the order of the conversations, and what the
\* workers have started and have in their hands.
THEOREM RunInvariance == RunSpec => []RunInv
BY RunInitInv, RunInvStep, PTL DEF RunSpec

\* generate_reply: a chat is answered with what the bridge said to that chat,
\* and with nothing else than that or its agent's template.
THEOREM RunTypeCorrect == RunSpec => []RunTypeOK
<1>1. RunInv => RunTypeOK
  BY DEF RunInv
<1>2. QED
  BY <1>1, RunInvariance, PTL

\* The hub's one chat at a time and the bridge's one worker per session: unless
\* clawrun gave a chat up, no later chat of its session is queued before it.
THEOREM ConversationKeepsOrder == RunSpec => []ConversationInOrder
<1>1. RunInv => ConversationInOrder
  BY DEF RunInv
<1>2. QED
  BY <1>1, RunInvariance, PTL

\* The two timeouts, clawrun's and the bridge's: a prompt that clawrun gave up is
\* never at work beside another of its conversation, unless the bridge gave one
\* of them up too; and only a chat that clawrun gave up comes after a later one.
THEOREM CopilotKeepsTurns == RunSpec => []CopilotTakesTurns
<1>1. RunInv => CopilotTakesTurns
  BY TakesTurns DEF RunInv
<1>2. QED
  BY <1>1, RunInvariance, PTL

-----------------------------------------------------------------------------
(* The choice of an agent.  That a list has a best agent is an induction   *)
(* over the list, carried out on its shortest prefix that had none.        *)

\* The least of some numbers.
LEMMA LeastElement ==
  ASSUME NEW T, T \subseteq Nat, T # {}
  PROVE  \E m \in T : \A n \in T : m <= n
<1> DEFINE R == OpToRel(<, Nat)
<1>1. IsWellFoundedOn(R, Nat)
  BY NatLessThanWellFounded
<1>2. PICK m \in T : \A n \in T : <<n, m>> \notin R
  <2> HIDE DEF R
  <2> QED  BY <1>1, WFMin
<1>3. \A n \in T : ~(n < m)
  BY <1>2 DEF OpToRel
<1>4. QED
  BY <1>3

\* Iterator::max_by_key: a list that is not empty has a last maximum.
LEMMA LastMaximum ==
  ASSUME NEW n \in Nat \ {0}, NEW f \in [1 .. n -> Nat]
  PROVE  \E i \in 1 .. n : \A j \in 1 .. n : f[j] < f[i] \/ (f[j] = f[i] /\ j <= i)
<1> DEFINE Best(m, i) == \A j \in 1 .. m : f[j] < f[i] \/ (f[j] = f[i] /\ j <= i)
           T == {m \in 1 .. n : ~ \E i \in 1 .. m : Best(m, i)}
<1>1. \A m \in 1 .. n : m \in T \/ \E i \in 1 .. m : Best(m, i)
  BY Zenon
<1>2. T \subseteq Nat
  OBVIOUS
<1>3. Best(1, 1)
  OBVIOUS
<1>4. ASSUME NEW m \in 2 .. n, NEW i \in 1 .. m - 1, Best(m - 1, i)
      PROVE  Best(m, m) \/ Best(m, i)
  <2>1. f[m] \in Nat /\ f[i] \in Nat
    OBVIOUS
  <2>2. \A j \in 1 .. m : j \in 1 .. m - 1 \/ j = m
    OBVIOUS
  <2>3. \A j \in 1 .. m : f[j] \in Nat
    OBVIOUS
  <2>4. CASE f[m] >= f[i]
    BY <1>4, <2>1, <2>2, <2>3, <2>4
  <2>5. CASE f[m] < f[i]
    BY <1>4, <2>1, <2>2, <2>3, <2>5
  <2>6. QED
    BY <2>1, <2>4, <2>5
<1>5. T = {}
  <2> SUFFICES ASSUME T # {}
               PROVE  FALSE
    OBVIOUS
  <2>1. PICK m \in T : \A k \in T : m <= k
    <3> HIDE DEF T
    <3> QED  BY <1>2, LeastElement
  <2>2. m \in 1 .. n /\ \A i \in 1 .. m : ~ Best(m, i)
    BY <2>1, Zenon
  <2>3. m \in 2 .. n /\ m - 1 \in 1 .. n /\ ~ (m <= m - 1)
    <3>1. m # 1
      <4> HIDE DEF Best
      <4> QED  BY <1>3, <2>2
    <3>2. QED
      BY <2>2, <3>1
  <2>4. PICK i \in 1 .. m - 1 : Best(m - 1, i)
    <3> HIDE DEF T, Best
    <3> QED  BY <1>1, <2>1, <2>3
  <2>5. m \in 1 .. m /\ i \in 1 .. m
    BY <2>3
  <2> HIDE DEF Best
  <2>6. QED
    BY <1>4, <2>2, <2>3, <2>4, <2>5
<1>6. n \in 1 .. n
  OBVIOUS
<1>7. QED
  <2> HIDE DEF T
  <2> QED  BY <1>1, <1>5, <1>6

LEMMA HitsType ==
  ASSUME NEW i \in DOMAIN Agents, NEW words
  PROVE  Hits(i, words) \in Nat
<1> DEFINE n == Len(Agents[i].keywords)
           hits == {k \in DOMAIN Agents[i].keywords : Agents[i].keywords[k] \in words}
<1>1. n \in Nat /\ DOMAIN Agents[i].keywords = 1 .. n
  BY AgentsAssumption
<1>2. hits \subseteq 1 .. n
  BY <1>1
<1>3. IsFiniteSet(1 .. n)
  BY <1>1, FS_Interval
<1>4. IsFiniteSet(hits)
  BY <1>2, <1>3, FS_Subset
<1>5. QED
  BY <1>4, FS_CardinalityType DEF Hits

LEMMA ScoreType ==
  ASSUME NEW i \in DOMAIN Agents, NEW ch, NEW words
  PROVE  Score(i, ch, words) \in Nat
<1>1. Hits(i, words) \in Nat
  BY HitsType
<1>2. QED
  BY <1>1 DEF Score

\* select_agent: whatever the channel and the text, there is an agent whose
\* score no other exceeds and no later one equals, and it is the one chosen.
THEOREM SelectsLastBest ==
  \A ch, words :
    /\ select_agent(ch, words) \in DOMAIN Agents
    /\ \A j \in DOMAIN Agents :
         \/ Score(j, ch, words) < Score(select_agent(ch, words), ch, words)
         \/ /\ Score(j, ch, words) = Score(select_agent(ch, words), ch, words)
            /\ j <= select_agent(ch, words)
<1> SUFFICES ASSUME NEW ch, NEW words
             PROVE  /\ select_agent(ch, words) \in DOMAIN Agents
                    /\ \A j \in DOMAIN Agents :
                         \/ Score(j, ch, words) < Score(select_agent(ch, words), ch, words)
                         \/ /\ Score(j, ch, words) = Score(select_agent(ch, words), ch, words)
                            /\ j <= select_agent(ch, words)
  OBVIOUS
<1> DEFINE n == Len(Agents)
           f == [i \in 1 .. n |-> Score(i, ch, words)]
<1>1. DOMAIN Agents = 1 .. n
  BY AgentsAssumption
<1>2. n \in Nat \ {0}
  BY AgentsAssumption
<1>3. f \in [1 .. n -> Nat]
  BY <1>1, ScoreType
<1>4. PICK i \in 1 .. n : \A j \in 1 .. n : f[j] < f[i] \/ (f[j] = f[i] /\ j <= i)
  <2> HIDE DEF f, n
  <2> QED  BY <1>2, <1>3, LastMaximum
<1>5. \E k \in DOMAIN Agents : \A j \in DOMAIN Agents :
        \/ Score(j, ch, words) < Score(k, ch, words)
        \/ Score(j, ch, words) = Score(k, ch, words) /\ j <= k
  BY <1>1, <1>4
<1>6. QED
  BY <1>5, Zenon DEF select_agent

\* select_agent: an agent that is not for the channel is only chosen if the
\* text has two more of its keywords than of any agent's that is.
THEOREM ChannelOutweighsKeyword == RunSpec => []OffChannelNeedsKeywords
<1>1. OffChannelNeedsKeywords
  <2> SUFFICES ASSUME NEW ch, NEW words,
                      ~ OnChannel(select_agent(ch, words), ch),
                      NEW j \in DOMAIN Agents, OnChannel(j, ch)
               PROVE  Hits(select_agent(ch, words), words) >= Hits(j, words) + 2
    BY Zenon DEF OffChannelNeedsKeywords
  <2> DEFINE i == select_agent(ch, words)
  <2>1. i \in DOMAIN Agents /\ Score(j, ch, words) <= Score(i, ch, words)
    <3>1. i \in DOMAIN Agents
      BY SelectsLastBest
    <3>2. Score(j, ch, words) \in Nat /\ Score(i, ch, words) \in Nat
      BY <3>1, ScoreType
    <3>3. Score(j, ch, words) < Score(i, ch, words) \/ Score(j, ch, words) = Score(i, ch, words)
      BY SelectsLastBest
    <3>4. QED
      BY <3>1, <3>2, <3>3
  <2>2. Hits(i, words) \in Nat /\ Hits(j, words) \in Nat
    BY <2>1, HitsType
  <2>3. Score(i, ch, words) = 5 * Hits(i, words) /\ Score(j, ch, words) = 10 + 5 * Hits(j, words)
    BY <2>2 DEF Score
  <2> HIDE DEF i
  <2>4. QED
    BY <2>1, <2>2, <2>3 DEF i
<1>2. QED
  BY <1>1, PTL

\* What the bridge promises its clients it keeps with clawrun as the client,
\* which asks for one conversation at a time and gives up after its timeout.
THEOREM RunKeepsPoolPromises ==
  RunSpec => /\ ImplementsSerialSessions
             /\ []TaskConserved
             /\ []OverlapOnlyByTimeout
BY RunsThePool, PoolImplementsSerial, TasksAreConserved, OverlapByTimeout
=============================================================================
