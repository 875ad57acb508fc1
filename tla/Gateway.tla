------------------------------ MODULE Gateway ------------------------------
(***************************************************************************)
(* The WebSocket gateway of ClawLink (src/src/ws.rs, src/src/security.rs): *)
(* the nonce store, the handshake of an operator's connection, the         *)
(* broadcast channel that carries normalized events, and, for every        *)
(* connection, the reader (handle_socket itself) and the writer task it    *)
(* spawns.  Reader and writer are two tasks over the two halves of one     *)
(* socket, and the interesting behaviour lies in what one does while the   *)
(* other has stopped.                                                      *)
(*                                                                         *)
(* The broadcast channel (tokio) is the log of every event it accepted     *)
(* with one cursor per receiver: a receiver more than Capacity events      *)
(* behind gets Lagged instead of an event.                                 *)
(***************************************************************************)
EXTENDS Integers, Sequences, FiniteSets

CONSTANTS
  Conns,           \* the connections operators make, each made once
  Nonces,          \* what NonceStore::issue may return
  NoNonce,         \* the nonce of a connection that has none yet
  Chats,           \* inbound chat messages, each of which arrives once
  Pong,            \* ServerMessage::Pong
  Channels,        \* the channel ids an operator may name
  Configured,      \* those build_channels made an adapter for
  Capacity,        \* slots of the broadcast channel, 512 in the code
  RequireEd25519,  \* security.require_ed25519
  MaxPongs         \* bound: how many pings operators send in all

Events == Chats \cup {Pong}

ASSUME GatewayAssumption ==
  /\ Capacity \in Nat \ {0}
  /\ MaxPongs \in Nat
  /\ RequireEd25519 \in BOOLEAN
  /\ NoNonce \notin Nonces
  /\ Configured \subseteq Channels
  /\ Pong \notin Chats

VARIABLES
  pending,    \* NonceStore::pending: the nonces issued and not consumed
  nonce,      \* nonce[c]: the nonce issued to c
  phase,      \* phase[c]: how far handle_socket has come for c
  peer,       \* peer[c]: the operator still has its end of c open
  log,        \* the events the broadcast channel has accepted
  dropped,    \* the chats it refused because it had no receiver
  sub,        \* sub[c]: the length of the log when c subscribed
  next,       \* next[c]: the position of the event c's receiver took last
  writer,     \* writer[c]: the state of c's writer task
  delivered   \* delivered[c]: the events written to c while its peer was there

handshake == <<pending, nonce>>
ring == <<log, dropped>>
feeds == <<sub, next, delivered>>
vars == <<pending, nonce, phase, peer, log, dropped, sub, next, writer, delivered>>

-----------------------------------------------------------------------------
Phases ==
  {"new",      \* not connected yet
   "hello",    \* challenge sent, waiting for the connect frame
   "authed",   \* the connect frame was accepted
   "acked",    \* connect.ok sent, not subscribed to the events yet
   "serving",  \* in the read loop, waiting for a frame
   "sending",  \* in the read loop, awaiting ChannelAdapter::send
   "closed",   \* handle_socket returned Ok, having aborted the writer
   "failed"}   \* handle_socket returned Err

WriterStates ==
  {"none",     \* not spawned
   "recv",     \* awaiting the next event
   "send",     \* holding an event, awaiting the socket
   "aborted",  \* abort() was called, the task is not torn down yet
   "ended"}    \* gone, its receiver and its half of the socket dropped

\* The connections that hold a broadcast::Receiver.
Receivers == {c \in Conns : writer[c] \in {"recv", "send", "aborted"}}

\* What handle_socket has to say about a connect frame, in the order of
\* authenticate_connect: a refusal before the nonce is consumed leaves it in
\* the store, a refusal after that does not.
EarlyChecks(c, f) == f.trusted /\ f.nonce = nonce[c]
LateChecks(f) == RequireEd25519 => f.signed

\* NonceStore: a random nonce of 32 characters is taken to be one that nobody
\* was ever given, and to consume a nonce is to remove it, if it is there.
Issue(c) ==
  \E n \in Nonces \ {nonce[d] : d \in Conns} :
    /\ nonce' = [nonce EXCEPT ![c] = n]
    /\ pending' = pending \cup {n}

Consume(n) == pending' = pending \ {n}

ConnectFrames ==
  [trusted : BOOLEAN,             \* connect op, role and token are right
   nonce : Nonces \cup {NoNonce},
   signed : BOOLEAN]              \* known device, signature verifies

Init ==
  /\ pending = {}
  /\ nonce = [c \in Conns |-> NoNonce]
  /\ phase = [c \in Conns |-> "new"]
  /\ peer = [c \in Conns |-> TRUE]
  /\ log = <<>>
  /\ dropped = {}
  /\ sub = [c \in Conns |-> 0]
  /\ next = [c \in Conns |-> 0]
  /\ writer = [c \in Conns |-> "none"]
  /\ delivered = [c \in Conns |-> <<>>]

EnterPhase(c, from, to) ==
  /\ phase[c] \in from
  /\ phase' = [phase EXCEPT ![c] = to]

-----------------------------------------------------------------------------
(* The handshake *)

\* The upgrade is done: a nonce is issued and the challenge goes out.
Accept(c) ==
  /\ EnterPhase(c, {"new"}, "hello")
  /\ Issue(c)
  /\ UNCHANGED <<peer, ring, feeds, writer>>

\* Mutant: the nonce of the frame is looked up, never compared with c's own.
ConnectAnyNonce(c, f) ==
  /\ EnterPhase(c, {"hello"},
       IF f.trusted /\ f.nonce \in pending /\ LateChecks(f)
         THEN "authed" ELSE "failed")
  /\ IF f.trusted THEN Consume(f.nonce) ELSE UNCHANGED pending
  /\ UNCHANGED <<nonce, peer, ring, feeds, writer>>

\* The connect frame is checked; its nonce is consumed between the checks.
Connect(c, f) ==
  /\ EnterPhase(c, {"hello"},
       IF EarlyChecks(c, f) /\ f.nonce \in pending /\ LateChecks(f)
         THEN "authed" ELSE "failed")
  /\ IF EarlyChecks(c, f) THEN Consume(f.nonce) ELSE UNCHANGED pending
  /\ UNCHANGED <<nonce, peer, ring, feeds, writer>>

\* Mutant: without the 15 s timeout only a peer that leaves ends the wait.
HandshakeWaits(c) ==
  /\ ~peer[c]
  /\ EnterPhase(c, {"hello"}, "failed")
  /\ UNCHANGED <<handshake, peer, ring, feeds, writer>>

\* The challenge cannot be sent, 15 s pass without a frame, the peer leaves,
\* or its first frame is not the JSON text of a message within the limits.
HandshakeFailure(c) ==
  /\ EnterPhase(c, {"hello"}, "failed")
  /\ UNCHANGED <<handshake, peer, ring, feeds, writer>>

SendConnectOk(c) ==
  /\ EnterPhase(c, {"authed"}, "acked")
  /\ UNCHANGED <<handshake, peer, ring, feeds, writer>>

ConnectOkFailure(c) ==
  /\ ~peer[c]
  /\ EnterPhase(c, {"authed"}, "failed")
  /\ UNCHANGED <<handshake, peer, ring, feeds, writer>>

\* Mutant: the receiver starts one event early.
SubscribeEarly(c) ==
  /\ EnterPhase(c, {"acked"}, "serving")
  /\ sub' = [sub EXCEPT ![c] = Len(log)]
  /\ next' = [next EXCEPT ![c] = Len(log) - 1]
  /\ writer' = [writer EXCEPT ![c] = "recv"]
  /\ UNCHANGED <<handshake, peer, ring, delivered>>

\* A new receiver sees what is sent from now on; the writer task is spawned.
Subscribe(c) ==
  /\ EnterPhase(c, {"acked"}, "serving")
  /\ sub' = [sub EXCEPT ![c] = Len(log)]
  /\ next' = [next EXCEPT ![c] = Len(log)]
  /\ writer' = [writer EXCEPT ![c] = "recv"]
  /\ UNCHANGED <<handshake, peer, ring, delivered>>

-----------------------------------------------------------------------------
(* Publishing *)

\* broadcast::Sender::send fails when there is no receiver.
Inbound(m) ==
  /\ m \notin dropped
  /\ \A i \in DOMAIN log : log[i] # m
  /\ IF Receivers # {}
       THEN log' = Append(log, m) /\ UNCHANGED dropped
       ELSE dropped' = dropped \cup {m} /\ UNCHANGED log
  /\ UNCHANGED <<handshake, phase, peer, feeds, writer>>

\* The answer to one operator's ping goes to every operator; that nobody is
\* there to get it is ignored.
Ping(c) ==
  /\ phase[c] = "serving"
  /\ Cardinality({i \in DOMAIN log : log[i] = Pong}) < MaxPongs
  /\ Receivers # {}
  /\ log' = Append(log, Pong)
  /\ UNCHANGED <<handshake, phase, peer, dropped, feeds, writer>>

-----------------------------------------------------------------------------
(* The read loop *)

\* chat.send and sessions.send: handle_outbound finds the adapter and awaits
\* it, and its error ends handle_socket.
ChatSend(c, ch) ==
  /\ EnterPhase(c, {"serving"}, IF ch \in Configured THEN "sending" ELSE "failed")
  /\ UNCHANGED <<handshake, peer, ring, feeds, writer>>

ChannelSent(c) ==
  /\ EnterPhase(c, {"sending"}, "serving")
  /\ UNCHANGED <<handshake, peer, ring, feeds, writer>>

ChannelError(c) ==
  /\ EnterPhase(c, {"sending"}, "failed")
  /\ UNCHANGED <<handshake, peer, ring, feeds, writer>>

\* A text frame over the rate limit, over the size or depth limit, that is not
\* a message, or that is a second connect: the ? or the Err leaves the loop
\* past writer.abort().
BadFrame(c) ==
  /\ EnterPhase(c, {"serving"}, "failed")
  /\ UNCHANGED <<handshake, peer, ring, feeds, writer>>

\* The connection broke: receiver.next() yields an error.
ReadError(c) ==
  /\ ~peer[c]
  /\ EnterPhase(c, {"serving"}, "failed")
  /\ UNCHANGED <<handshake, peer, ring, feeds, writer>>

\* Mutant: the loop ends without writer.abort().
PeerGoneKeepsWriter(c) ==
  /\ ~peer[c]
  /\ EnterPhase(c, {"serving"}, "closed")
  /\ UNCHANGED <<handshake, peer, ring, feeds, writer>>

\* The peer said goodbye: a close frame, or the end of the stream.
PeerGone(c) ==
  /\ ~peer[c]
  /\ EnterPhase(c, {"serving"}, "closed")
  /\ writer' = [writer EXCEPT ![c] = IF @ = "ended" THEN @ ELSE "aborted"]
  /\ UNCHANGED <<handshake, peer, ring, feeds>>

-----------------------------------------------------------------------------
(* The writer task *)

Lagging(c) == Len(log) - next[c] > Capacity

WriterRecv(c) ==
  /\ writer[c] = "recv"
  /\ next[c] < Len(log)
  /\ ~Lagging(c)
  /\ next' = [next EXCEPT ![c] = @ + 1]
  /\ writer' = [writer EXCEPT ![c] = "send"]
  /\ UNCHANGED <<handshake, phase, peer, ring, sub, delivered>>

\* Mutant: the writer resumes at the oldest event the channel still holds.
WriterSkips(c) ==
  /\ writer[c] = "recv"
  /\ Lagging(c)
  /\ next' = [next EXCEPT ![c] = Len(log) - Capacity]
  /\ UNCHANGED <<handshake, phase, peer, ring, sub, writer, delivered>>

\* Mutant: a receiver exactly Capacity events behind is taken to lag.
WriterLaggedEarly(c) ==
  /\ writer[c] = "recv"
  /\ Len(log) - next[c] >= Capacity
  /\ writer' = [writer EXCEPT ![c] = "ended"]
  /\ UNCHANGED <<handshake, phase, peer, ring, feeds>>

\* recv() returns Lagged, which is not Ok: the while loop is over.
WriterLagged(c) ==
  /\ writer[c] = "recv"
  /\ Lagging(c)
  /\ writer' = [writer EXCEPT ![c] = "ended"]
  /\ UNCHANGED <<handshake, phase, peer, ring, feeds>>

\* Mutant: the writer keeps the event it has just sent and sends it again.
WriterRepeats(c) ==
  /\ writer[c] = "send"
  /\ peer[c]
  /\ delivered' = [delivered EXCEPT ![c] = Append(@, log[next[c]])]
  /\ writer' \in {writer, [writer EXCEPT ![c] = "recv"]}
  /\ Len(delivered[c]) < Cardinality(Chats) + MaxPongs
  /\ UNCHANGED <<handshake, phase, peer, ring, sub, next>>

WriterSend(c) ==
  /\ writer[c] = "send"
  /\ peer[c]
  /\ delivered' = [delivered EXCEPT ![c] = Append(@, log[next[c]])]
  /\ writer' = [writer EXCEPT ![c] = "recv"]
  /\ UNCHANGED <<handshake, phase, peer, ring, sub, next>>

\* With the peer gone a send is lost in the kernel's buffer or fails, and a
\* failure ends the task.
WriterSendLost(c) ==
  /\ writer[c] = "send"
  /\ ~peer[c]
  /\ \E w \in {"recv", "ended"} : writer' = [writer EXCEPT ![c] = w]
  /\ UNCHANGED <<handshake, phase, peer, ring, feeds>>

\* The runtime gets round to dropping the aborted task.
WriterStop(c) ==
  /\ writer[c] = "aborted"
  /\ writer' = [writer EXCEPT ![c] = "ended"]
  /\ UNCHANGED <<handshake, phase, peer, ring, feeds>>

-----------------------------------------------------------------------------
(* The operator's side *)

PeerLeaves(c) ==
  /\ phase[c] # "new"
  /\ peer[c]
  /\ peer' = [peer EXCEPT ![c] = FALSE]
  /\ UNCHANGED <<handshake, phase, ring, feeds, writer>>

-----------------------------------------------------------------------------
Handshake(c) ==
  \/ Accept(c)
  \/ \E f \in ConnectFrames : Connect(c, f)
  \/ HandshakeFailure(c)
  \/ SendConnectOk(c)
  \/ ConnectOkFailure(c)
  \/ Subscribe(c)

ReadLoop(c) ==
  \/ Ping(c)
  \/ \E ch \in Channels : ChatSend(c, ch)
  \/ ChannelSent(c)
  \/ ChannelError(c)
  \/ BadFrame(c)
  \/ ReadError(c)
  \/ PeerGone(c)

WriterTask(c) ==
  \/ WriterRecv(c)
  \/ WriterLagged(c)
  \/ WriterSend(c)
  \/ WriterSendLost(c)
  \/ WriterStop(c)

Next ==
  \/ \E m \in Chats : Inbound(m)
  \/ \E c \in Conns : Handshake(c) \/ ReadLoop(c) \/ WriterTask(c) \/ PeerLeaves(c)

Spec == Init /\ [][Next]_vars

\* The tasks of the runtime run: a timer fires, a runnable task is polled, and
\* an operator that is there drains its socket.  Nothing makes an operator
\* send a frame or leave, a chat arrive, or an HTTP call to a platform return.
FairSpec ==
  /\ Spec
  /\ \A c \in Conns :
       /\ WF_vars(HandshakeFailure(c))
       /\ WF_vars(SendConnectOk(c))
       /\ WF_vars(Subscribe(c))
       /\ WF_vars(PeerGone(c) \/ ReadError(c))
       /\ WF_vars(WriterTask(c))

-----------------------------------------------------------------------------
(* Safety *)

\* The type invariant: the states of the connections and of their writers,
\* the nonce store, and cursors that lie inside the log.
TypeOK ==
  /\ pending \subseteq Nonces
  /\ nonce \in [Conns -> Nonces \cup {NoNonce}]
  /\ phase \in [Conns -> Phases]
  /\ peer \in [Conns -> BOOLEAN]
  /\ log \in Seq(Events)
  /\ dropped \subseteq Chats
  /\ sub \in [Conns -> 0 .. Len(log)]
  /\ next \in [Conns -> 0 .. Len(log)]
  /\ writer \in [Conns -> WriterStates]
  /\ delivered \in [Conns -> Seq(Events)]

\* The nonce store (security.rs issue and consume, ws.rs authenticate_connect):
\* no two connections share a nonce; as long as a connection waits for its
\* connect frame its own nonce is there to be consumed, whatever the other
\* connections send; and no connection that got past authentication leaves
\* its nonce behind, so none can be presented twice.
NonceLifecycle ==
  /\ \A c, d \in Conns : nonce[c] = nonce[d] /\ nonce[c] # NoNonce => c = d
  /\ \A c \in Conns :
       /\ phase[c] = "hello" => nonce[c] \in pending
       /\ nonce[c] \in pending => phase[c] \in {"hello", "failed"}

\* What an operator has been sent (the writer task of handle_socket) is
\* exactly the stretch of the log that starts where it subscribed: no event
\* is repeated, left out or out of order, however far it fell behind.
FeedIsLogSlice ==
  \A c \in Conns :
    \A i \in 1 .. Len(delivered[c]) :
      sub[c] + i <= Len(log) /\ delivered[c][i] = log[sub[c] + i]

\* An operator that is still there can lose its writer (the while let of
\* handle_socket) in one way only: by being more than Capacity events behind.
FeedEndsOnlyByLag ==
  \A c \in Conns : writer[c] = "ended" /\ peer[c] => Lagging(c)

Stage ==
  [c \in Conns |->
     CASE writer[c] = "none" -> "out"
       [] writer[c] \in {"recv", "send", "aborted"} -> "in"
       [] writer[c] = "ended" -> "over"]

Feed == INSTANCE OperatorFeed WITH stage <- Stage, from <- sub, feed <- delivered

\* The gateway implements OperatorFeed: to subscribe is to join, to write an
\* event to the peer is to see it, and to lag, to fail to send or to be aborted
\* is to leave for good.
ImplementsOperatorFeed == Feed!Spec

\* How the reader, the writer, the cursor and the feed of a connection hang
\* together: with TypeOK, what makes the invariants above inductive.
WriterMatchesReader ==
  \A c \in Conns :
    /\ phase[c] \in {"new", "hello", "authed", "acked"} => writer[c] = "none"
    /\ phase[c] \in {"serving", "sending"} => writer[c] # "none"
    /\ writer[c] = "aborted" => ~peer[c]

CursorMatchesFeed ==
  \A c \in Conns :
    /\ writer[c] = "none" => delivered[c] = <<>>
    /\ writer[c] = "recv" /\ peer[c] => next[c] = sub[c] + Len(delivered[c])
    /\ writer[c] = "send" /\ peer[c] => next[c] = sub[c] + Len(delivered[c]) + 1

IInv ==
  /\ TypeOK
  /\ NonceLifecycle
  /\ WriterMatchesReader
  /\ CursorMatchesFeed
  /\ FeedIsLogSlice
  /\ FeedEndsOnlyByLag

-----------------------------------------------------------------------------
(* Liveness, under FairSpec *)

\* The 15 s timeout of handle_socket: no operator keeps a connection in the
\* handshake by sending nothing.
HandshakeEnds ==
  \A c \in Conns : phase[c] = "hello" ~> phase[c] # "hello"

\* An event logged after c subscribed reaches c, unless c leaves or lags.
FeedAdvances ==
  \A c \in Conns : \A i \in 1 .. Cardinality(Chats) + MaxPongs :
    (c \in Receivers /\ Len(log) >= sub[c] + i)
      ~> (Len(delivered[c]) >= i \/ ~peer[c] \/ writer[c] = "ended")

\* A connection that ended well (ws.rs, writer.abort()) stops counting as an
\* operator, so that a chat that finds nobody is known to have found nobody.
ClosedIsReleased ==
  \A c \in Conns : phase[c] = "closed" ~> c \notin Receivers

-----------------------------------------------------------------------------
(* What the repository says and the code does not do *)

\* tests/echo_ws.rs posts a webhook as soon as it has read connect.ok and
\* expects the event: a chat is not refused while an acknowledged operator
\* is there.
AckedOperatorIsThere ==
  [][\A m \in Chats : m \in dropped' \ dropped =>
       ~ \E c \in Conns : phase[c] = "acked" /\ peer[c]]_vars
=============================================================================
