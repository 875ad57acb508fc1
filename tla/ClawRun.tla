------------------------------ MODULE ClawRun ------------------------------
(***************************************************************************)
(* clawrun (src/crates/clawrun/src/) as the client of the bridge: a hub    *)
(* asks for the reply to one chat at a time (generate_reply), clawrun      *)
(* chooses an agent (select_agent), posts the prompt to clawbridge if the  *)
(* agent's engine says so, and falls back to the agent's template when     *)
(* that comes to nothing, its own timeout included.  The bridge is         *)
(* BridgePool; a request there exists from the moment clawrun posts it,    *)
(* and its client hangs up when clawrun has given up on it.                *)
(*                                                                         *)
(* A text is the set of the words that some agent's keywords name.         *)
(* Requests are numbered in the order in which their chats came to a hub.  *)
(***************************************************************************)
EXTENDS BridgePool

CONSTANTS
  Hubs,        \* the clawops processes
  HubOf,       \* HubOf[r]: the one that has the chat of r to answer
  Chat,        \* Chat[r]: its session_id, its channel_id and its words
  Words,       \* the words texts are made of
  Agents       \* cfg.agents: their channels, keywords and engine

OnChannel(i, ch) == Agents[i].channels = {} \/ ch \in Agents[i].channels

Hits(i, words) ==
  Cardinality({k \in DOMAIN Agents[i].keywords : Agents[i].keywords[k] \in words})

\* Mutant: the weights of channel and keyword are exchanged.
ScoreSwapped(i, ch, words) ==
  (IF OnChannel(i, ch) THEN 5 ELSE 0) + 10 * Hits(i, words)

Score(i, ch, words) ==
  (IF OnChannel(i, ch) THEN 10 ELSE 0) + 5 * Hits(i, words)

\* max_by_key: of several best agents the last.
select_agent(ch, words) ==
  CHOOSE i \in DOMAIN Agents : \A j \in DOMAIN Agents :
    \/ Score(j, ch, words) < Score(i, ch, words)
    \/ Score(j, ch, words) = Score(i, ch, words) /\ j <= i

AgentOf(r) == select_agent(Chat[r].channel, Chat[r].words)

\* What the bridge makes its session id of (run of CopilotSdkAgent).
Key(r) == <<Chat[r].session, Chat[r].channel, AgentOf(r)>>

ASSUME ClawRunAssumption ==
  /\ Requests \subseteq Nat
  /\ HubOf \in [Requests -> Hubs]
  /\ \A q, r \in Requests : SessionOf[q] = SessionOf[r] <=> Key(q) = Key(r)

\* Agents and the keywords of each are lists, and there is an agent.
ASSUME AgentsAssumption ==
  /\ Len(Agents) \in Nat \ {0}
  /\ DOMAIN Agents = 1 .. Len(Agents)
  /\ \A i \in DOMAIN Agents :
       /\ Len(Agents[i].keywords) \in Nat
       /\ DOMAIN Agents[i].keywords = 1 .. Len(Agents[i].keywords)

VARIABLE
  outcome   \* outcome[r]: what generate_reply came to for the chat of r

runvars == <<vars, outcome>>

Outcomes == {"none", "asked", "copilot", "template"}

RunInit ==
  /\ Init
  /\ outcome = [r \in Requests |-> "none"]

Decide(r, o) == outcome' = [outcome EXCEPT ![r] = o]

Earlier(r) == {q \in Requests : HubOf[q] = HubOf[r] /\ q < r}

Fallback(r) == Agents[AgentOf(r)].engine = "template"

\* Mutant: the hub starts a task for each chat it reads.
AskAtOnce(r) ==
  /\ outcome[r] = "none"
  /\ \A q \in Earlier(r) : outcome[q] # "none"
  /\ Decide(r, IF Fallback(r) THEN "template" ELSE "asked")
  /\ UNCHANGED vars

\* The hub, done with the chat before, calls generate_reply for the next one,
\* which posts the prompt or fills the template in.
Ask(r) ==
  /\ outcome[r] = "none"
  /\ \A q \in Earlier(r) : outcome[q] \in {"copilot", "template"}
  /\ Decide(r, IF Fallback(r) THEN "template" ELSE "asked")
  /\ UNCHANGED vars

\* Mutant: a response is taken for a reply whatever it says.
TakeAnything(r) ==
  /\ outcome[r] = "asked"
  /\ handler[r] = "answered"
  /\ Decide(r, "copilot")
  /\ UNCHANGED vars

\* The response is there: its text, or the template in place of an error.
Take(r) ==
  /\ outcome[r] = "asked"
  /\ handler[r] = "answered"
  /\ Decide(r, IF reply[r] = "ok" THEN "copilot" ELSE "template")
  /\ UNCHANGED vars

\* timeout_secs pass, the bridge cannot be reached, or its connection breaks.
GiveUp(r) ==
  /\ outcome[r] = "asked"
  /\ Decide(r, "template")
  /\ UNCHANGED vars

\* A request that was posted arrives, which may be after its client gave up.
Arrive(r) ==
  /\ outcome[r] # "none" /\ ~Fallback(r)
  /\ Route(r)
  /\ UNCHANGED outcome

\* The bridge notices that the client has hung up.
HangUp(r) ==
  /\ outcome[r] = "template"
  /\ Disconnect(r)
  /\ UNCHANGED outcome

RunNext ==
  \/ \E r \in Requests :
       \/ Ask(r)
       \/ Take(r)
       \/ GiveUp(r)
       \/ Arrive(r)
       \/ HangUp(r)
       \/ (Send(r) \/ Answer(r) \/ Exit(r)) /\ UNCHANGED outcome
  \/ \E w \in Workers : Worker(w) /\ UNCHANGED outcome

RunSpec == RunInit /\ [][RunNext]_runvars

\* The fairness of BridgePool; clawrun's own timeout is not needed.
RunFairSpec ==
  /\ RunSpec
  /\ \A r \in Requests :
       /\ SF_runvars(Send(r) /\ UNCHANGED outcome)
       /\ WF_runvars(Answer(r) /\ UNCHANGED outcome)
  /\ \A w \in Workers : WF_runvars(Worker(w) /\ UNCHANGED outcome)

-----------------------------------------------------------------------------
(* Safety *)

\* The type invariant; and what a chat was answered with is the bridge's word
\* for that very chat.
RunTypeOK ==
  /\ outcome \in [Requests -> Outcomes]
  /\ \A r \in Requests : outcome[r] = "copilot" => reply[r] = "ok"

PositionOf(r) ==
  {p \in DOMAIN line[SessionOf[r]] : line[SessionOf[r]][p] = r}

\* docs/session-worker-pool-flow.md has the pool keep the order of a session's
\* requests; it keeps that of their tasks.  That a conversation goes in the
\* order of its chats is because a hub waits for its answer: unless it gave up
\* on a chat, no later chat of the session is before it in the worker's line.
ConversationInOrder ==
  \A r \in Requests : \A q \in Earlier(r) :
    (SessionOf[q] = SessionOf[r] /\ outcome[q] # "template" /\ PositionOf(r) # {})
      => \E j \in PositionOf(q) : \A k \in PositionOf(r) : j < k

\* The bridge has the result for r, and only its own timeout leaves the process.
DoneWith(r) ==
  /\ reply[r] # None
  /\ process[r] = "running" => reply[r] = "timeout"

\* clawrun's timeout_secs is shorter than the bridge's request_timeout, and what
\* it gives up on is still run.  Yet Copilot is started on a chat only when it
\* is done with each earlier one of the hub's conversation; and where clawrun
\* gave the earlier one up and its prompt came later, or never, it is started
\* on that one only when it is done with the later chat.
CopilotTakesTurns ==
  \A r \in Requests : \A q \in Earlier(r) :
    (SessionOf[q] = SessionOf[r] /\ process[r] # "none")
      => \/ DoneWith(q)
         \/ outcome[q] = "template" /\ (process[q] = "none" \/ DoneWith(r))

\* What makes the two inductive: a hub has decided on the chats before the one it
\* asks for, and only what was asked for arrives.
AskedInOrder ==
  \A r \in Requests :
    /\ outcome[r] # "none" => \A q \in Earlier(r) : outcome[q] \in {"copilot", "template"}
    /\ handler[r] # "idle" => outcome[r] # "none"

\* a process was started for a task that a worker had taken, and for no other,
StartedWhenTaken ==
  \A r \in Requests : process[r] # "none" =>
    reply[r] # None \/ \E w \in Workers : work[w] = r

\* and what a worker has in its hands it took last of its session.
LastInHands ==
  \A w \in Workers : work[w] # None =>
    line[SessionOf[work[w]]][begun[SessionOf[work[w]]]] = work[w]

RunInv ==
  /\ IInv
  /\ RunTypeOK
  /\ AskedInOrder
  /\ ConversationInOrder
  /\ StartedWhenTaken
  /\ LastInHands

\* The channels of the chats whose prompts are on their way to the bridge.
ChannelsAsked ==
  {Chat[r].channel : r \in {q \in Requests : outcome[q] = "asked" /\ handler[q] = "idle"}}

\* select_agent: on every channel that is asked for, and whatever a text says, an
\* agent that is not for the channel is preferred to one that is only for two
\* more of its keywords in the text, wherever the two stand in the list.
OffChannelNeedsKeywords ==
  \A ch \in ChannelsAsked : \A words \in SUBSET Words :
    LET i == select_agent(ch, words)
    IN  ~OnChannel(i, ch) =>
          \A j \in DOMAIN Agents :
            OnChannel(j, ch) => Hits(i, words) >= Hits(j, words) + 2
=============================================================================
