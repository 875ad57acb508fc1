# ClawLink in TLA+

A verification development for ClawLink: TLA+ modules translated from the Rust
source, TLC configurations that model-check them, and TLAPS proofs about them.
Source paths below start at `src/`, the root of the repository.

## The system

ClawLink connects chat platforms to an "operator", a process that answers chats
with the help of a command-line model.  There are four programs in the workspace.

| part | code | state | operations |
|---|---|---|---|
| gateway | `src/src/ws.rs`, `security.rs`, `protocol.rs` | nonce store, broadcast channel of 512 slots, per connection a reader (`handle_socket`) and a writer task | handshake, subscribe, read loop (ping, chat send), writer loop, webhook |
| QQ token cache | `src/src/channels/qq.rs` (`QqChannel`) | `token_cache`: a token and its expiry | look up, fetch, store, send |
| QQ gateway task | `src/src/channels/qq.rs` (`run_gateway_once`) | one session with the platform | reconnect, hello, identify, dispatch, auto-reply |
| worker pool | `src/crates/clawbridge/src/lib.rs` (`CopilotCliPool`) | affinity map, round-robin counter, one bounded queue and one worker per slot, copilot processes | route, send, dequeue, spawn, timeout, respond |
| command provider | same file (`run_command_provider`) | per request: attempt, timers, processes | spawn, write, wait, retry |
| operator hub | `src/crates/clawops/src/hub.rs`, `main.rs` | one WebSocket connection | reconnect, handshake, ping, answer a chat |
| inference client | `src/crates/clawrun/src/` | none | choose an agent, call clawbridge, fall back to a template |
| input limits | `validate_payload_limits`, `json_depth` (`ws.rs`, `security.rs`) | none | measure and scan a text |
| other | `config.rs`, `main.rs`, Noop adapters, tests | none that changes | |

How they interact:

    QQ platform --ws--> QQ task --+                      +--> writer task --> clawops
                                  |--> broadcast channel-|                      |
    webhooks ----HTTP------------ +                      +--> writer task --> ...  HTTP
                                                                                v
    platform <--HTTP-- channel adapter <-- read loop <--ws-- clawops    clawbridge pool
                                                                                |
                                                                      copilot processes

* The QQ task and the webhooks publish on a tokio broadcast channel; each
  operator's connection holds a receiver.  `events.send` fails when there is no
  receiver; that is how the QQ task finds out that nobody is there.
* An operator answers with `chat.send` on its connection, which the read loop
  hands to the channel adapter and awaits.
* clawops calls clawrun, which posts to clawbridge, which hands the prompt to
  the worker of the prompt's session.

What is hard: the reader and the writer of a connection are two tasks over one
socket that fail separately; the ring of the broadcast channel overwrites what a
slow operator has not read; steps of several connections interleave in the
handshake; an await in the QQ task stops everything it does; timeouts in
clawbridge abandon processes without killing them; and several timers (clawrun,
clawbridge, the host's budget, token lifetimes) race each other.

What makes each part correct:

* *gateway*: a nonce authenticates one connection and only its own; an operator
  is sent a gap-free stretch of the published events; nothing but lagging ends
  the feed of an operator that is there; a handshake ends; a connection that is
  closed stops counting as an operator.
* *token cache*: no message is sent with a token that the platform has let
  expire, given delays within the margin.
* *QQ task*: chats are published in the platform's order; the automatic reply
  and an operator's feed exclude each other.
* *pool*: a session stays with one worker, sessions spread evenly, no task is
  lost or run twice, the tasks of a session are taken up one at a time in
  order, two processes of one session run only after a timeout, every request
  ends.
* *command provider*: attempts are bounded; a command that keeps to its budget
  leaves no process behind; every request ends.
* *hub*: a chat is answered at most once by a hub, in the order of the log, and
  its answer handed to a platform at most once, whatever is lost; no chat it read
  is passed over; a chat that came while its hub was there is answered; a hub that lost its connection comes
  back.
* *clawrun*: what a chat is answered with was said to that chat; a conversation
  reaches its worker in order; what clawrun gave up is never at work beside the
  conversation's next, unless the bridge gave one of them up too; the channel
  counts for more than one keyword.
* *limits*: a text that passes is never too deep for the parser, and one that is
  refused and parses is.

## Modules

| module | what it is |
|---|---|
| `OperatorFeed` | abstract: one log, operators that join, see what comes after, leave for good |
| `Gateway` | `ws.rs` and the nonce store; implements `OperatorFeed` |
| `GatewayProofs` | proofs about `Gateway` |
| `ChatAnswers` | abstract: what a hub promises the people who chat |
| `OperatorHub`, `MCOperatorHub` | `clawops` composed with `Gateway`; implements both `Gateway` and `ChatAnswers` |
| `OperatorHubProofs` | proofs about the composition |
| `ClawRun`, `MCClawRun`, `ClawRunProofs` | clawrun, called by hubs, as the client of `BridgePool` |
| `PayloadLimits`, `MCPayloadLimits`, `PayloadLimitsProofs` | the limits on a text and the parser behind them |
| `QqIngress` | the QQ task composed with `Gateway`; implements `Gateway` |
| `QqIngressProofs` | proofs about the composition |
| `QqToken`, `MCQqToken`, `QqTokenProofs` | the token cache under concurrent senders |
| `SerialSessions` | abstract: one line of requests for each session, taken up one at a time |
| `BridgePool`, `MCBridgePool`, `BridgePoolProofs` | the worker pool; implements `SerialSessions` |
| `CommandProvider`, `CommandProviderProofs` | one request of the command provider |

`PROJECT.json` maps every definition to the lines it stands for.  Operators whose
comment begins with "Mutant:" are wrong variants of the definition that follows;
each property is known to fail with one of them in place.

### Gateway

`phase[c]` is where `handle_socket` stands for connection `c`, and each await in
it separates two actions: `Accept` (challenge), `Connect` or `HandshakeFailure`
(`authenticate_connect` and the 15 s timeout), `SendConnectOk` or
`ConnectOkFailure`, `Subscribe` (subscribe, spawn the writer), then the read loop
(`Ping`, `ChatSend`, `ChannelSent`, `ChannelError`, `BadFrame`, `ReadError`,
`PeerGone`).  `writer[c]` is the spawned writer task.  The broadcast channel is
`log`, all it ever accepted, and `next[c]`, the cursor of a receiver, which is
told `Lagged` when more than `Capacity` events lie ahead of it.  A writer that
is aborted keeps its receiver until the runtime drops it (`WriterStop`).

Abstracted: a connect frame is its nonce and whether the checks before and after
the nonce is consumed pass (role and token; known device and signature).  That
frames exceed the size, depth or rate limit is one reason for `BadFrame`.  Event
contents do not matter to any property, except that a pong, too, goes through
the broadcast channel.  `sub`, `delivered` and `dropped` are history.

### QqIngress

Extends `Gateway` with the task's stage, its session and the platform.
`Dispatch` is the whole of the text-frame branch: publish; if that finds no
receiver, refuse the chat and, where configured and possible, go and answer it,
reading nothing until the answer is sent.  A chat the platform has while there
is no session is gone: the task identifies anew and never resumes.  What was
pushed but not read dies with the session.  Heartbeats and the sequence number
they carry are left out: they change nothing but whether a dead session is
noticed, which may happen at any time after it died.

### OperatorHub

Extends `Gateway` with the other end of the connections: `stage[c]` is where
`run_once` stands on connection `c`, `read[c]` how much of `delivered[c]` it has
read, `outbox[c]` what it has written and the gateway's reader has not taken.
`Dial` is one turn of the loop of `main()` and takes place only when the hub is
through with its connection before.  Awaiting `generate_reply` is the stage
`thinking`, in which the hub does nothing else; `Reply` writes the answer, which
is named by the position of its chat in the log.  On the gateway's side
`ReadConnect`, `ReadPing`, `ReadReply` and `FrameRefused` are `Connect`, `Ping`,
`ChatSend` and `BadFrame` with the frame at the head of the outbox;
`WriterSendHub` is `WriterSend` into a socket that holds `SocketBuffer` events.
`LinkBreaks` leaves both sides to find out: the gateway in `ReadError` or
`WriterSendLost`, the hub in `Disconnected`.

A hub does not say goodbye: nothing in `hub.rs` sends a close frame, so the
gateway's `PeerGone` does not occur here.  `generate_reply` always returns (its
HTTP client has a timeout, and any error becomes the template's text); what it
returns is the business of `ClawRun`.

### ClawRun

Extends `BridgePool` with the side of the client: `outcome[r]` is what
`generate_reply` came to for the chat of `r`.  A text is the set of the words in
it that agents have as keywords; `Score` and `select_agent` are the code's, the
last of equals included.  `Ask` waits until the hub's chat before is decided.
`GiveUp` is clawrun's timeout, shorter by default than the bridge's, or a broken
connection; then the template answers, while the request goes on in the bridge,
may even arrive later, until the bridge notices (`HangUp`).  That session ids of
the bridge are made of session, channel and agent is `ClawRunAssumption`.

What clawrun gives up is not undone: the prompt may wait in the queue, be at work,
or come after the conversation's next.  So `ConversationInOrder` can only speak
of chats that were not given up.  `CopilotTakesTurns` speaks of the others as
well: a prompt given up and a later chat of the hub's conversation are at work in
either order, but the second only when the bridge has a result for the first, and
both processes run at once only if that result is the bridge's own timeout.

### PayloadLimits

One text.  `Step` is a turn of the loop of `json_depth`, the mode being its two
flags; `Judge` compares the maximum with the limit.  Beside it `Read` is the
parser: it knows which bracket is open and stops at the first wrong one, which
the scanner does neither.  `Fault` is any other fault of the text.  The parser
is also run on a text that was refused for its depth, to say what it would have
made of it.  Sizes are counted in characters, not bytes.

### QqToken

Time is explicit.  A token is when it was issued, how long it lives and when its
answer was read; the platform reckons from the first, the cache from the last,
and raises the life to `MinLife`.  The mutex is held for the look-up and for the
store, so that these are atomic and a fetch in between is not.

### BridgePool

Handlers route under the affinity lock, then wait for a slot of their worker's
queue, then for the reply.  The timeout of a task drops the future that waits for
the process and leaves the process running (`process[r]`).  A client may hang up
at any await.  The string `session|channel|agent` is the session.

### CommandProvider

One request.  Time advances only where the code has a timer, which shows that
writing the request has none.  The verdicts are the classes of error the retry
rule can tell apart; `worded` is an error that quotes output of the command in
which one of the searched phrases occurs.

## Runs

| run | bounds | shows |
|---|---|---|
| `gateway` | 2 connections, 2 nonces, 1 chat, 1 pong, ring of 1 | `NonceLifecycle`, `FeedIsLogSlice`, `FeedEndsOnlyByLag`, refinement of `OperatorFeed`, `HandshakeEnds`, `FeedAdvances`, `ClosedIsReleased` |
| `gateway_ack_gap` | the same | **violated**: a chat is refused although an operator has its `connect.ok` |
| `hub` | 1 hub, 2 connections, 2 chats (one for a channel without adapter), 1 pong, at most 2 of the three, ring of 1, socket of 1 | `NoChatPassedOver`, refinement of `Gateway` and of `ChatAnswers`, `ChatIsAnswered`, `HubReconnects` |
| `hub_stranded` | 1 connection, otherwise the same | **violated**: a hub stays connected for ever and its chat unanswered |
| `qq_ingress` | 1 connection, 3 chats (2 by QQ, 1 of them anonymous), 2 sessions, ring of 1 | `QqInOrder`, `AutoReplyInsteadOfOperator`, `PushedIsRead`, refinement of `Gateway` |
| `qq_token` | 2 senders, lives 1, 4 and 5, margin 2, clock to 8 | `SendsFreshToken` |
| `pool_safety` | 4 requests of 3 sessions, 2 workers, queues of 2 | `StickyWorker`, `Balanced`, `TaskConserved`, `OverlapOnlyByTimeout`, refinement of `SerialSessions` |
| `clawrun` | 2 hubs, 3 chats in 2 conversations, 3 agents (one with a template), 2 workers, queues of 1 | `ConversationInOrder`, `CopilotTakesTurns`, `OffChannelNeedsKeywords`, `EveryRequestEnds` |
| `pool_overlap` | as `pool_safety` | **violated**: two processes resume one session |
| `command` | timeout 4, minimum 2, 3 retries, backoff 1 and 2 | `AttemptsBounded`, `PunctualLeavesNoOrphan`, `RequestEnds` |
| `command_deaf` | the same | **violated**: a request that is never timed out |
| `limits` | texts of up to 5 characters, depth 1, size 5 | `LimitBoundsParser`, `RefusalIsRight` |

The bounds are the smallest at which the interesting cases happen.  A ring of
one slot lags as soon as two events are ahead, and a chat and a pong are two;
two connections are what it takes to present another's nonce, to lag beside one
that does not, and to have a closed and a live operator; a third connection adds
only more of the same, since connections meet nowhere but in the store and the
log.  A hub with two connections loses the first with a reply in its hands, in
the socket or in the reader's, and goes on with the second.  Two sessions of the
QQ task suffice for a chat to be lost between sessions and for order across
them.  In the pool two requests share a session and two sessions share a worker,
and the queue of two can hold tasks of both; the queue of one in `clawrun` makes
a handler wait for its slot, there behind a prompt its client gave up.  Two chats
of one conversation are enough for the first to be given up in the queue, at work
or on its way, and for either to be taken up before the other.  The
three agents of `clawrun` have two, one and no keywords that the other lacks, so
that a wrong weight, or a wrong order of equals, changes a choice.  In `command`
three retries reach the cap of the backoff.  Five characters hold two brackets
in or behind a string with an escaped quote.  The proofs cover all other sizes
for safety.

Deadlock is not checked: each model ends when its finite supply of chats,
requests, connections, sessions or ticks is used up, which is no fault of the
code.

### The four disagreements

* `hub_stranded` (a bug): every error path of the read loop returns before
  `writer.abort()`.  The writer task is detached, holds its half of the socket
  and the receiver, and goes on; a failed send to a platform is such an error,
  so one unanswerable chat (a webhook may name a channel that has no adapter)
  makes the connection half-open.  The other way round `while let Ok(..)` ends
  the writer on `Lagged` and the reader goes on.  The hub could notice either
  from its pings, but takes a missing pong for nothing.  In the run the hub is
  connected for ever and a chat delivered to it is never answered; and the
  receiver that stays makes the QQ task believe that an operator is there.
* `gateway_ack_gap`: `connect.ok` is sent before `subscribe()`; the test
  `echo_ws.rs` relies on the reverse.
* `pool_overlap`: a timed-out process is not killed and the next task of its
  session is started beside it, against the README's ordered processing.  The
  other half is `OverlapOnlyByTimeout`, which holds: nothing else brings two
  processes of a session together.
* `command_deaf`: the request is written outside of the timeout.

### Fairness

*Gateway*: the runtime polls tasks that can go on and fires timers, so the end of
the handshake, the steps between connect and subscription, the reader's end once
its peer is gone, and the writer task (an operator that is there drains its
socket) are weakly fair.  Nothing is assumed of operators, webhooks or platforms.
*OperatorHub*: of each connection the hub's `run_once`, the reader with the
frames there are for it, and the writer are three tasks, each weakly fair; no
link breaks, no ping is due and no platform answers by necessity, which is why
`ChatIsAnswered` leaves out a connection whose reader waits for a platform for
ever.
*QqIngress*: the task reads what is there (`Dispatch`); hello frames and HTTP
answers may never come.  *BridgePool*: weak fairness of workers and of answers,
strong fairness of `Send`, because tokio's bounded channel queues its senders
first come, first served; processes need never exit.  *ClawRun*: the same, and
nothing of clawrun's: neither that it asks nor that it gives up.  *CommandProvider*: weak
fairness of the provider and of time; a command that is not deaf takes its input
in and a punctual one exits.

## Proofs

All constants are arbitrary within the named assumptions (`GatewayAssumption`,
`QqAssumption`, `TokenAssumption`, `NoneIsNoToken`, `PoolAssumption`,
`SessionsAssumption`, `CommandAssumption`, `HubAssumption`,
`ClawRunAssumption`, `AgentsAssumption`, `LimitsAssumption`), which TLC evaluates
in the runs.  No other assumption is made.  `OperatorHub` and `QqIngress` have a
theorem that they behave as the gateway below them does (`HubRunsGateway`,
`IngressImplementsGateway`), and each composition has one that carries the
promises of the component below over (`HubKeepsGatewayPromises`,
`IngressKeepsGatewayPromises`, `RunKeepsPoolPromises`).

*Gateway.*  `FeedIsLogSlice` is not inductive: an event is appended to a feed
from the cursor, so one must know that the cursor is as far ahead of the
subscription as the feed is long (`CursorMatchesFeed`), by one more while the
writer holds an event, and only while the peer is there, because events sent
to nobody are not recorded.  That a feed starts empty needs that a connection
which has not subscribed has no writer (`WriterMatchesReader`).  With
`NonceLifecycle` and `FeedEndsOnlyByLag` this is `IInv`, inductive with one
lemma per conjunct.  The refinement of `OperatorFeed` follows step by step:
`Subscribe` joins, `WriterSend` sees, whatever ends a writer leaves.

*QqIngress.*  Every step is a step of `Gateway` or leaves it alone
(`StepOfGateway`); the one that needs proof is `Dispatch`, which is an `Inbound`
only because what is in the inbox was never published before.  That is part
of `InboxAhead`: all in the inbox stands, in what the platform had (`sent`), after all that
was handled, in order.  With `SentOnce` it gives `QqInOrder`; with
`RefusedOrLogged` and the gateway's `FeedIsLogSlice` it gives that an
automatic reply and an operator exclude each other.  `FeedIsLogSlice` with
`QqInOrder` gives the order from end to end, from the platform to an operator's
socket (`QqOrderReachesOperators`).

*QqToken.*  `SendsFreshToken` needs that a sender settled for its token with the
margin left or straight from the platform (`SettledInTime`), then is arithmetic.

*BridgePool.*  The tasks of a session stay in line because the map never forgets
(`AffinityKept`), a worker holds only tasks of its sessions (`TasksAtHome`), the queue
holds exactly the part of the lines that was not begun (`QueuedNotBegun`) in the
same order (`QueuedInOrder`), and what was begun is in hand or answered
(`BegunOrAnswered`).  The head of a queue is then the next of its session's
line, and `Dequeue` is a `Begin` of `SerialSessions`.  `TaskConserved` adds that
what was begun is in a worker's hands or has its reply (`NothingLost`): the
places of a task are then a set of one element or none.  `Balanced` is a count:
the round-robin counter has gone `q` times round the workers and `m` further, so
that those below `m` have `q + 1` sessions and the others `q` (`EvenLoads`, with
`Remainder` and `NextInTurn` about `rr % PoolSize`).  `OverlapOnlyByTimeout` needs
to know what a running process is for (`ProcessesFollowWork`): the task in its
worker's hands, or one whose reply was the timeout.  A session has one worker
and a worker one task in hand, so of two such processes one was timed out.

*OperatorHub*.  Each step is one of `Gateway` or leaves it alone, so that
`GatewayProofs` carries over.  That no chat is answered twice, even across
connections, needs that a hub is through with one before the next
(`OneAtATime`), and that its answers lie behind where it reads
(`AnswersBehind`): a new connection subscribes at the end of the log, which is
past everything answered.  That no answer is handed over twice needs that each
reply on its way is there once, and was not handed over (`RepliesOpen`).  Then
`Reply` is `Answer`, `ReadReply` is `Hand`, and `Inbound` and `Ping` publish.
`NoChatPassedOver` follows a reply: a step leaves it in the socket, hands it over
or ends the reader with it (`SettledStays`).  What is left is the last chat of a
connection.  While it is thought about, all answers of the hub are to earlier chats;
when the hub is through with the connection, what it answers next is in a feed
that begins after all it read on this one (`DoneIsPast`), so that a chat which
had no answer then never gets one.
The other direction is `OnlyReadChatsAreAnswered`.

*ClawRun*.  `PoolStep` carries `BridgePoolProofs` over.  `ConversationInOrder` is
inductive with `AskedInOrder`: when a task is queued, the hub has decided on the
chats before it; one it did not give up has the bridge's reply (`RunTypeOK`), so
its task was begun (`BegunOrAnswered`) and stands in the line already.
`CopilotTakesTurns` needs two more facts: a process is only started for a task
that a worker took (`StartedWhenTaken`), so its place in the line has been passed
(`StartedIsBegun`), and what a worker has in its hands is the last it passed
(`LastInHands`).  Hence of two chats with a process the one that was queued first
has its result (`EarlierBegunIsDone`), and its process ended or was left by the
bridge's timeout (`RepliedIsDone`).  Which of the two was queued first is open
only if the earlier chat was given up: an earlier one that stands was answered
by Copilot before the later was asked for (`AskedInOrder`, `RunTypeOK`).  About
`select_agent` the proof is a least counterexample, since no installed prover can
instantiate the induction theorems: of the lists of agents that have no last best
one take the shortest; without its last agent it has one, and either that or the
last agent is the best of all (`LastMaximum`).  `SelectsLastBest` says so of
`select_agent` for any list, and `OffChannelNeedsKeywords` is then arithmetic.

*PayloadLimits*.  Scanner and parser agree character by character for as long as
the parser finds no fault (`ParserInStep`, along the trail of the scanner), and
each keeps the maximum of what it passes (`MaximumIsReached`,
`DeepestIsReached`); an accepted text was scanned to its end (`JudgedInFull`).

*CommandProvider.*  A punctual command within its budget exits before the
timeout as nine tenths of a timeout of more than a second are less than the whole
(`BudgetWithinTimeout`); so the timeout never fires on it, and a retry finds all
former processes gone.

Only model-checked: liveness (`HandshakeEnds`, `FeedAdvances`,
`ClosedIsReleased`, `PushedIsRead`, `EveryRequestEnds`, `RequestEnds`,
`ChatIsAnswered`, `HubReconnects`), which is beyond the prover.  Every safety
property of a passing run is a theorem.

## Not modelled

The sequence numbers of QQ heartbeats and the static `bot_token` mode, which
decide nothing; the direct Copilot CLI provider (the pool's worker without a
pool) and the mock; Noop adapters, which log; configuration, read once, whose
values are the constants; start-up, the embedded bridge and logging, which are
wiring; cryptography, encodings, URLs and the wording of messages and templates.
What is left of the repository has no state that changes.

## Plan

Done, in this order: `Gateway` with `OperatorFeed`, `BridgePool` with
`SerialSessions`, `CommandProvider`, `QqToken`, `QqIngress`, `PayloadLimits`,
`OperatorHub` with `ChatAnswers`, `ClawRun` on `BridgePool`, each with its
proofs.

Left, should the runs have room for them:

1. `OperatorHub` with `QqIngress`: the half-open connection of a stranded hub
   against the automatic reply that its receiver suppresses.
2. `OperatorHub` with `ClawRun` in one module, two hubs for one log: the bridge
   serialises what both ask for the same chat.
3. Two connections of different hubs that share a ring: one slow hub's pings
   against the other's lag.
