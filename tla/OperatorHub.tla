---------------------------- MODULE OperatorHub ----------------------------
(***************************************************************************)
(* clawops (src/crates/clawops/src/hub.rs and the loop of its main.rs)     *)
(* composed with the gateway: what the operator of Gateway really sends,   *)
(* when it reads, and how a chat comes back as an answer on the platform.  *)
(*                                                                         *)
(* A hub makes one connection after the other.  While it has clawrun work  *)
(* out a reply it neither reads nor sends a ping.  Frames it has written   *)
(* lie in outbox[c] until the reader of the gateway takes them; what the   *)
(* gateway's writer has written and the hub has not read is the rest of    *)
(* delivered[c].  An answer is named by the position of its chat in the    *)
(* log, which is history: the hub knows the chat, not where it stands.     *)
(*                                                                         *)
(* The hub never says goodbye: its end of the socket goes, which the       *)
(* gateway reads as an error, so that PeerGone of Gateway does not happen. *)
(***************************************************************************)
EXTENDS Gateway

CONSTANTS
  Hubs,         \* the clawops processes
  HubOf,        \* HubOf[c]: the one that makes connection c
  ChannelOf,    \* ChannelOf[m]: the channel_id of chat m
  Textless,     \* the chats without a text
  SocketBuffer, \* events the socket holds before a write to it waits
  MaxEvents     \* bound: how many chats come and pings are sent in all

Answerable == Chats \ Textless

ASSUME HubAssumption ==
  /\ Conns \subseteq Nat  \* a hub makes its connections in their order
  /\ HubOf \in [Conns -> Hubs]
  /\ ChannelOf \in [Chats -> Channels]
  /\ Textless \subseteq Chats
  /\ SocketBuffer \in Nat \ {0}
  /\ MaxEvents \in Nat

VARIABLES
  stage,    \* stage[c]: how far run_once has come on connection c
  read,     \* read[c]: how many of the events delivered to c it has read
  outbox,   \* outbox[c]: the frames it has written, not read by the gateway
  answers,  \* history: answers[h], the chats h has answered, in order
  handed    \* history: handed[h], those whose answer went to an adapter

hubside == <<stage, read, outbox, answers, handed>>
hubvars == <<vars, hubside>>

Stages ==
  {"unused",    \* not dialled yet
   "dialled",   \* waiting for the challenge
   "joining",   \* connect sent, waiting for connect.ok
   "ready",     \* in the select! of the loop
   "thinking",  \* awaiting generate_reply for the chat it read last
   "done"}      \* run_once returned Err, its socket dropped

Running == {"dialled", "joining", "ready", "thinking"}

Frames == [op : {"connect", "ping"}] \cup [op : {"chat_send"}, re : Nat]

\* The position in the log of the event that the hub read last on c.
At(c) == sub[c] + read[c]

\* Both halves of the gateway's end are dropped.
SocketClosed(c) == phase[c] \in {"closed", "failed"} /\ writer[c] \in {"none", "ended"}

HubInit ==
  /\ Init
  /\ stage = [c \in Conns |-> "unused"]
  /\ read = [c \in Conns |-> 0]
  /\ outbox = [c \in Conns |-> <<>>]
  /\ answers = [h \in Hubs |-> <<>>]
  /\ handed = [h \in Hubs |-> <<>>]

EnterStage(c, from, to) ==
  /\ stage[c] \in from
  /\ stage' = [stage EXCEPT ![c] = to]

\* The bounds: pings on their way, and whether there may be another event.
UnderWay ==
  Cardinality({p \in Conns \X (1 .. MaxPongs + Cardinality(Chats) + 1) :
                 /\ p[2] \in DOMAIN outbox[p[1]]
                 /\ outbox[p[1]][p[2]].op = "ping"})

Room == Len(log) + Cardinality(dropped) + UnderWay < MaxEvents

Write(c, frame) == outbox' = [outbox EXCEPT ![c] = Append(@, frame)]

-----------------------------------------------------------------------------
(* run_once *)

\* The loop of main() comes round and the gateway takes the connection.
Dial(c) ==
  /\ \A d \in Conns : HubOf[d] = HubOf[c] /\ d < c => stage[d] = "done"
  /\ EnterStage(c, {"unused"}, "dialled")
  /\ Accept(c)
  /\ UNCHANGED <<read, outbox, answers, handed>>

ReadChallenge(c) ==
  /\ EnterStage(c, {"dialled"}, "joining")
  /\ Write(c, [op |-> "connect"])
  /\ UNCHANGED <<vars, read, answers, handed>>

\* Mutant: connect.ok is counted among the events.
ReadAckCounts(c) ==
  /\ phase[c] = "acked" \/ writer[c] # "none"
  /\ EnterStage(c, {"joining"}, "ready")
  /\ read' = [read EXCEPT ![c] = @ + 1]
  /\ UNCHANGED <<vars, outbox, answers, handed>>

\* connect.ok comes before every event.
ReadAck(c) ==
  /\ phase[c] = "acked" \/ writer[c] # "none"
  /\ EnterStage(c, {"joining"}, "ready")
  /\ UNCHANGED <<vars, read, outbox, answers, handed>>

\* The next frame: a chat with a text is taken up, anything else passed over.
ReadEvent(c) ==
  /\ read[c] < Len(delivered[c])
  /\ EnterStage(c, {"ready"},
       IF delivered[c][read[c] + 1] \in Answerable THEN "thinking" ELSE "ready")
  /\ read' = [read EXCEPT ![c] = @ + 1]
  /\ UNCHANGED <<vars, outbox, answers, handed>>

\* The interval ticks.
SendPing(c) ==
  /\ stage[c] = "ready"
  /\ Cardinality({i \in DOMAIN log : log[i] = Pong}) + UnderWay < MaxPongs
  /\ Room
  /\ Write(c, [op |-> "ping"])
  /\ UNCHANGED <<vars, stage, read, answers, handed>>

\* Mutant: a tick of the interval cancels the reply that is being worked out.
ReplyOrTick(c) ==
  /\ EnterStage(c, {"thinking"}, "ready")
  /\ \/ /\ Write(c, [op |-> "chat_send", re |-> At(c)])
        /\ answers' = [answers EXCEPT ![HubOf[c]] = Append(@, At(c))]
     \/ UNCHANGED <<outbox, answers>>
  /\ UNCHANGED <<vars, read, handed>>

\* generate_reply returns, with a text of the model or of the template, and
\* the reply is written; if the link is broken, into a buffer nobody empties.
Reply(c) ==
  /\ EnterStage(c, {"thinking"}, "ready")
  /\ Write(c, [op |-> "chat_send", re |-> At(c)])
  /\ answers' = [answers EXCEPT ![HubOf[c]] = Append(@, At(c))]
  /\ UNCHANGED <<vars, read, handed>>

\* Mutant: the hub sees a broken link, not that the gateway is through.
DisconnectedByLink(c) ==
  /\ ~peer[c]
  /\ EnterStage(c, Running, "done")
  /\ UNCHANGED <<vars, read, outbox, answers, handed>>

\* A read or a write fails, or the stream ends; run_once returns.
Disconnected(c) ==
  /\ ~peer[c] \/ SocketClosed(c)
  /\ EnterStage(c, Running, "done")
  /\ peer' = [peer EXCEPT ![c] = FALSE]
  /\ UNCHANGED <<handshake, phase, ring, feeds, writer>>
  /\ UNCHANGED <<read, outbox, answers, handed>>

-----------------------------------------------------------------------------
(* The gateway, where it meets the hub *)

TakeFrame(c, op) ==
  /\ outbox[c] # <<>>
  /\ Head(outbox[c]).op = op
  /\ outbox' = [outbox EXCEPT ![c] = Tail(@)]

\* The hub copies the nonce of the challenge; it never signs.
HubFrame(c) == [trusted |-> TRUE, nonce |-> nonce[c], signed |-> FALSE]

\* Mutant: the nonce of the frame is not consumed.
ReadConnectKeepsNonce(c) ==
  /\ TakeFrame(c, "connect")
  /\ EnterPhase(c, {"hello"}, "authed")
  /\ UNCHANGED <<handshake, peer, ring, feeds, writer>>
  /\ UNCHANGED <<stage, read, answers, handed>>

ReadConnect(c) ==
  /\ TakeFrame(c, "connect")
  /\ Connect(c, HubFrame(c))
  /\ UNCHANGED <<stage, read, answers, handed>>

\* A pong for everybody; with nobody subscribed, none.
ReadPing(c) ==
  /\ TakeFrame(c, "ping")
  /\ \/ Ping(c)
     \/ phase[c] = "serving" /\ Receivers = {} /\ UNCHANGED vars
  /\ UNCHANGED <<stage, read, answers, handed>>

\* The channel adapter is called with the reply to i, if there is one for ch.
Hand(h, i, ch) ==
  handed' = IF ch \in Configured THEN [handed EXCEPT ![h] = Append(@, i)] ELSE handed

\* Mutant: a reply is called done when the next frame is there.
ReadReplyAgain(c) ==
  LET i == Head(outbox[c]).re
      ch == ChannelOf[log[i]]
  IN  /\ outbox[c] # <<>>
      /\ Head(outbox[c]).op = "chat_send"
      /\ outbox' = [outbox EXCEPT ![c] = IF Len(@) > 1 THEN Tail(@) ELSE @]
      /\ Len(handed[HubOf[c]]) < MaxEvents
      /\ ChatSend(c, ch)
      /\ Hand(HubOf[c], i, ch)
      /\ UNCHANGED <<stage, read, answers>>

\* handle_outbound: the channel of the reply is the channel of its chat, and
\* no adapter for it ends the connection.
ReadReply(c) ==
  LET i == Head(outbox[c]).re
      ch == ChannelOf[log[i]]
  IN  /\ TakeFrame(c, "chat_send")
      /\ ChatSend(c, ch)
      /\ Hand(HubOf[c], i, ch)
      /\ UNCHANGED <<stage, read, answers>>

\* Over the rate limit, as after a reply that took many ticks, or too large.
FrameRefused(c) ==
  /\ outbox[c] # <<>>
  /\ outbox' = [outbox EXCEPT ![c] = Tail(@)]
  /\ BadFrame(c)
  /\ UNCHANGED <<stage, read, answers, handed>>

\* A write to the hub waits while its socket is full.
WriterSendHub(c) ==
  /\ Len(delivered[c]) - read[c] < SocketBuffer
  /\ WriterSend(c)

\* The link breaks, or the process of the hub does, seen by neither side yet.
LinkBreaks(c) == PeerLeaves(c)

-----------------------------------------------------------------------------
RunOnce(c) ==
  \/ Dial(c)
  \/ ReadChallenge(c)
  \/ ReadAck(c)
  \/ ReadEvent(c)
  \/ Reply(c)
  \/ Disconnected(c)

ReadFrame(c) ==
  \/ ReadConnect(c)
  \/ ReadPing(c)
  \/ ReadReply(c)
  \/ FrameRefused(c)

\* What handle_socket does without a frame of the hub.
Reader(c) ==
  \/ HandshakeFailure(c)
  \/ SendConnectOk(c)
  \/ ConnectOkFailure(c)
  \/ Subscribe(c)
  \/ ReadError(c)

AdapterReturns(c) == ChannelSent(c) \/ ChannelError(c)

Writer(c) ==
  \/ WriterRecv(c)
  \/ WriterLagged(c)
  \/ WriterSendHub(c)
  \/ WriterSendLost(c)

HubNext ==
  \/ \E m \in Chats : Room /\ Inbound(m) /\ UNCHANGED hubside
  \/ \E c \in Conns :
       \/ RunOnce(c)
       \/ SendPing(c)
       \/ ReadFrame(c)
       \/ /\ Reader(c) \/ AdapterReturns(c) \/ Writer(c) \/ LinkBreaks(c)
          /\ UNCHANGED hubside

HubSpec == HubInit /\ [][HubNext]_hubvars

\* The three tasks of a connection are polled: main() dials again, clawrun's
\* request times out so that generate_reply returns, the reader's 15 s pass
\* and it takes the frames there are.  No link breaks, no ping is due, no
\* chat comes and no platform answers by necessity.
HubFairSpec ==
  /\ HubSpec
  /\ \A c \in Conns :
       /\ WF_hubvars(RunOnce(c))
       /\ WF_hubvars(ReadFrame(c) \/ (Reader(c) /\ UNCHANGED hubside))
       /\ WF_hubvars(Writer(c) /\ UNCHANGED hubside)

-----------------------------------------------------------------------------
(* Safety *)

\* The type invariant: the hub's side of the connections.
HubTypeOK ==
  /\ stage \in [Conns -> Stages]
  /\ read \in [Conns -> Nat]
  /\ \A c \in Conns : read[c] <= Len(delivered[c])
  /\ outbox \in [Conns -> Seq(Frames)]
  /\ answers \in [Hubs -> Seq(Nat)]
  /\ handed \in [Hubs -> Seq(Nat)]

\* All the gateway does in this composition it may do: what holds of Gateway
\* holds here.
HubImplementsGateway == Spec

Promise == INSTANCE ChatAnswers WITH Events <- Chats \cup {Pong}

\* run_once and the reconnect loop: a hub answers in the order of the log and
\* nothing twice, also across connections, and no answer is handed to a
\* platform twice, whatever was in flight when a connection was lost.
ImplementsChatAnswers == Promise!Spec

\* What makes it inductive: a hub is through with a connection before it makes
\* the next,
OneAtATime ==
  \A c, d \in Conns :
    HubOf[d] = HubOf[c] /\ d < c /\ stage[c] # "unused" => stage[d] = "done"

\* it reads what was delivered, and thinks about the chat it read last,
ReadInOrder ==
  \A c \in Conns :
    /\ stage[c] \in {"unused", "dialled", "joining"} => read[c] = 0
    /\ stage[c] = "thinking" => read[c] > 0 /\ delivered[c][read[c]] \in Answerable

\* it has answered nothing that is further on in the log than it has read,
AnswersBehind ==
  /\ \A h \in Hubs : \A k \in 1 .. Len(answers[h]) : answers[h][k] \in 1 .. Len(log)
  /\ \A c \in Conns : stage[c] \in Running /\ writer[c] # "none" =>
       \A k \in 1 .. Len(answers[HubOf[c]]) :
         /\ answers[HubOf[c]][k] <= At(c)
         /\ stage[c] = "thinking" => answers[HubOf[c]][k] < At(c)

IsAnswer(h, i) == \E k \in 1 .. Len(answers[h]) : answers[h][k] = i

IsHanded(h, i) == \E k \in 1 .. Len(handed[h]) : handed[h][k] = i

IsReply(c, p, i) == outbox[c][p].op = "chat_send" /\ outbox[c][p].re = i

\* and a reply on its way was given, not handed over, and is nowhere else.
RepliesOpen ==
  /\ \A h \in Hubs, i \in Nat : IsHanded(h, i) => IsAnswer(h, i)
  /\ \A c \in Conns : \A p \in 1 .. Len(outbox[c]) : \A i \in Nat :
       IsReply(c, p, i) => IsAnswer(HubOf[c], i) /\ ~IsHanded(HubOf[c], i)
  /\ \A c, d \in Conns :
       \A p \in 1 .. Len(outbox[c]), q \in 1 .. Len(outbox[d]), i \in Nat :
         HubOf[c] = HubOf[d] /\ IsReply(c, p, i) /\ IsReply(d, q, i) => c = d /\ p = q

\* The reply to the chat at x in the log is with the adapter or still on its
\* way over c, or it ended the gateway's reader, or came when that had ended.
Settled(c, x) ==
  \/ IsHanded(HubOf[c], x)
  \/ \E p \in 1 .. Len(outbox[c]) : IsReply(c, p, x)
  \/ phase[c] = "failed" /\ IsAnswer(HubOf[c], x)

\* run_once: no chat that was read is passed over, whatever else the hub and
\* the reader of the gateway do in between.  There is a reply to each, but for
\* the last one read, while it is thought about or if the link went meanwhile:
\* that one is never answered.
NoChatPassedOver ==
  \A c \in Conns : \A i \in 1 .. read[c] :
    delivered[c][i] \in Answerable =>
      \/ Settled(c, sub[c] + i)
      \/ /\ i = read[c] /\ stage[c] \in {"thinking", "done"}
         /\ ~IsAnswer(HubOf[c], sub[c] + i)

\* What that takes: all a hub read on a connection lies before the feed of its
\* next one begins.
DoneIsPast ==
  /\ \A c \in Conns : stage[c] = "unused" => phase[c] = "new"
  /\ \A c, d \in Conns :
       HubOf[c] = HubOf[d] /\ c < d /\ writer[d] # "none" => read[c] = 0 \/ At(c) <= sub[d]

HubInv ==
  /\ IInv
  /\ HubTypeOK
  /\ OneAtATime
  /\ ReadInOrder
  /\ AnswersBehind
  /\ RepliesOpen
  /\ DoneIsPast
  /\ NoChatPassedOver

-----------------------------------------------------------------------------
(* Liveness, under HubFairSpec *)

\* A chat that can be answered has come, as number i of c's receiver, while
\* that was there.
ChatFor(c, i) ==
  /\ c \in Receivers
  /\ sub[c] + i <= Len(log)
  /\ log[sub[c] + i] \in Answerable
  /\ ChannelOf[log[sub[c] + i]] \in Configured

Answered(c, i) ==
  \E k \in DOMAIN handed[HubOf[c]] : handed[HubOf[c]][k] = sub[c] + i

\* From a chat to the platform, through ring, writer, hub, reader and adapter:
\* its answer is handed over, unless the link breaks, the receiver lags, the
\* gateway's reader ends, or it waits for a platform that never answers.
ChatIsAnswered ==
  \A c \in Conns :
    \/ <>[](phase[c] = "sending")
    \/ \A i \in 1 .. MaxEvents :
         ChatFor(c, i) ~>
           (Answered(c, i) \/ ~peer[c] \/ writer[c] = "ended" \/ phase[c] = "failed")

\* The loop of main(): a hub whose link or whose gateway's end is gone makes
\* its next connection, if there is one left to make.
HubReconnects ==
  \A c \in Conns :
    (stage[c] \in Running /\ (~peer[c] \/ SocketClosed(c)))
      ~> (\A d \in Conns : HubOf[d] = HubOf[c] /\ d > c =>
            \E e \in Conns : HubOf[e] = HubOf[c] /\ e > c /\ stage[e] # "unused")

-----------------------------------------------------------------------------
(* What the repository says and the code does not do *)

\* crates/clawops/README.md: the hub "receives normalized chat.message events"
\* and "sends chat.send replies back to the original session": as long as it
\* keeps its connection, and platforms answer.
ConnectedHubAnswers ==
  \A c \in Conns :
    \/ <>[](phase[c] = "sending")
    \/ \A i \in 1 .. MaxEvents : ChatFor(c, i) ~> (Answered(c, i) \/ ~peer[c] \/ stage[c] = "done")
=============================================================================
