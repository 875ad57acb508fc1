------------------------------ MODULE QqIngress ------------------------------
(***************************************************************************)
(* The gateway together with the task that keeps a WebSocket session with  *)
(* the QQ platform (spawn_qq_gateway_task and run_gateway_once in          *)
(* src/src/channels/qq.rs).  The task publishes what the platform pushes   *)
(* on the gateway's broadcast channel; when that finds no receiver it may  *)
(* answer the sender itself, and reads nothing else until that is done.    *)
(*                                                                         *)
(* A chat comes in once, by QQ or by a webhook.  What the platform has for *)
(* the bot while there is no session is not kept for the next: the task    *)
(* always identifies and never resumes.  Heartbeats are left out except    *)
(* that one may be what finds a dead session.                              *)
(***************************************************************************)
EXTENDS Gateway

CONSTANTS
  QqChats,      \* the chats that come in through the QQ session
  Anonymous,    \* those that name neither a group nor an author
  AutoReply,    \* channels.qq.auto_reply_when_no_operator
  MaxSessions,  \* bound: how often the task starts a session
  NoChat

ASSUME QqAssumption ==
  /\ QqChats \subseteq Chats
  /\ Anonymous \subseteq QqChats
  /\ AutoReply \in BOOLEAN
  /\ MaxSessions \in Nat
  /\ NoChat \notin Events

VARIABLES
  qq,         \* what the task is doing
  sessions,   \* how many sessions it has started
  link,       \* the platform's end of the session is up
  inbox,      \* what the platform pushed on it, and the task has not read
  sent,       \* history: the chats the platform had for the bot, in order
  answering,  \* the chat the task is answering itself, or NoChat
  replied     \* the chats it has answered

session == <<qq, sessions, link, inbox, answering, replied>>
qqvars == <<session, sent>>
allvars == <<vars, qqvars>>

QqStages ==
  {"down",      \* asleep until the next attempt
   "starting",  \* getting token and URL, connecting
   "hello",     \* connected, waiting for the hello frame
   "open",      \* identified, in the select loop
   "replying"}  \* in the loop, awaiting QqChannel::send

QqInit ==
  /\ Init
  /\ qq = "down"
  /\ sessions = 0
  /\ link = FALSE
  /\ inbox = <<>>
  /\ sent = <<>>
  /\ answering = NoChat
  /\ replied = {}

EnterQq(from, to) ==
  /\ qq = from
  /\ qq' = to

-----------------------------------------------------------------------------
(* The task *)

\* spawn_qq_gateway_task goes round its loop.
Start ==
  /\ EnterQq("down", "starting")
  /\ sessions < MaxSessions
  /\ sessions' = sessions + 1
  /\ UNCHANGED <<vars, link, inbox, sent, answering, replied>>

\* One of the two HTTP requests, or the connection, fails.
StartFailure ==
  /\ EnterQq("starting", "down")
  /\ UNCHANGED <<vars, sessions, link, inbox, sent, answering, replied>>

Connected ==
  /\ EnterQq("starting", "hello")
  /\ link' = TRUE
  /\ UNCHANGED <<vars, sessions, inbox, sent, answering, replied>>

\* The session closed, the first frame is no hello, or identify fails.
HelloFailure ==
  /\ EnterQq("hello", "down")
  /\ link' = FALSE
  /\ UNCHANGED <<vars, sessions, inbox, sent, answering, replied>>

Identify ==
  /\ EnterQq("hello", "open")
  /\ UNCHANGED <<vars, sessions, link, inbox, sent, answering, replied>>

\* build_no_operator_reply makes a reply only for a chat that says where to.
CanReply(m) == AutoReply /\ m \notin Anonymous

\* Mutant: the frames are handled as they are found, not as they came.
DispatchNewest ==
  LET m == inbox[Len(inbox)]
  IN  /\ qq = "open"
      /\ inbox # <<>>
      /\ inbox' = SubSeq(inbox, 1, Len(inbox) - 1)
      /\ IF Receivers # {}
           THEN /\ log' = Append(log, m)
                /\ UNCHANGED <<dropped, qq, answering>>
           ELSE /\ dropped' = dropped \cup {m}
                /\ IF CanReply(m)
                     THEN qq' = "replying" /\ answering' = m
                     ELSE UNCHANGED <<qq, answering>>
                /\ UNCHANGED log
      /\ UNCHANGED <<handshake, phase, peer, feeds, writer,
                     sessions, link, sent, replied>>

\* Mutant: the auto-reply does not look at what send returned.
DispatchRepliesAlways ==
  LET m == Head(inbox)
  IN  /\ qq = "open"
      /\ inbox # <<>>
      /\ inbox' = Tail(inbox)
      /\ IF Receivers # {}
           THEN log' = Append(log, m) /\ UNCHANGED dropped
           ELSE dropped' = dropped \cup {m} /\ UNCHANGED log
      /\ IF CanReply(m)
           THEN qq' = "replying" /\ answering' = m
           ELSE UNCHANGED <<qq, answering>>
      /\ UNCHANGED <<handshake, phase, peer, feeds, writer,
                     sessions, link, sent, replied>>

\* Mutant: the event is kept for an operator to come.
DispatchKeeps ==
  LET m == Head(inbox)
  IN  /\ qq = "open"
      /\ inbox # <<>>
      /\ inbox' = Tail(inbox)
      /\ log' = Append(log, m)
      /\ UNCHANGED <<dropped, qq, answering>>
      /\ UNCHANGED <<handshake, phase, peer, feeds, writer,
                     sessions, link, sent, replied>>

\* Mutant: the task waits for an operator.
DispatchWaits ==
  LET m == Head(inbox)
  IN  /\ qq = "open"
      /\ inbox # <<>>
      /\ Receivers # {}
      /\ inbox' = Tail(inbox)
      /\ log' = Append(log, m)
      /\ UNCHANGED <<dropped, qq, answering>>
      /\ UNCHANGED <<handshake, phase, peer, feeds, writer,
                     sessions, link, sent, replied>>

\* The next dispatch frame is published; if there is no receiver, and it can
\* be answered, the task goes and answers it.
Dispatch ==
  LET m == Head(inbox)
  IN  /\ qq = "open"
      /\ inbox # <<>>
      /\ inbox' = Tail(inbox)
      /\ IF Receivers # {}
           THEN /\ log' = Append(log, m)
                /\ UNCHANGED <<dropped, qq, answering>>
           ELSE /\ dropped' = dropped \cup {m}
                /\ IF CanReply(m)
                     THEN qq' = "replying" /\ answering' = m
                     ELSE UNCHANGED <<qq, answering>>
                /\ UNCHANGED log
      /\ UNCHANGED <<handshake, phase, peer, feeds, writer,
                     sessions, link, sent, replied>>

\* The platform took the auto-reply.
AutoReplied ==
  /\ EnterQq("replying", "open")
  /\ replied' = replied \cup {answering}
  /\ answering' = NoChat
  /\ UNCHANGED <<vars, sessions, link, inbox, sent>>

AutoReplyFailure ==
  /\ EnterQq("replying", "open")
  /\ answering' = NoChat
  /\ UNCHANGED <<vars, sessions, link, inbox, sent, replied>>

\* Mutant: the next session begins with what is left of this one.
SessionEndsKeepsInbox ==
  /\ EnterQq("open", "down")
  /\ ~link
  /\ UNCHANGED <<vars, sessions, link, inbox, sent, answering, replied>>

\* The loop reads the end of the session, or a heartbeat or pong fails first
\* and what was not read is gone with it.
SessionEnds ==
  /\ EnterQq("open", "down")
  /\ ~link
  /\ inbox' = <<>>
  /\ UNCHANGED <<vars, sessions, link, sent, answering, replied>>

-----------------------------------------------------------------------------
(* The platform *)

\* A user writes to the bot: the platform pushes the chat on the session, if
\* there is one that has identified itself.
PlatformChat(m) ==
  /\ \A i \in DOMAIN sent : sent[i] # m
  /\ sent' = Append(sent, m)
  /\ IF qq \in {"open", "replying"} /\ link
       THEN inbox' = Append(inbox, m)
       ELSE UNCHANGED inbox
  /\ UNCHANGED <<vars, qq, sessions, link, answering, replied>>

\* It closes the session, or sends a frame the task cannot decode as its last.
PlatformCloses ==
  /\ link
  /\ link' = FALSE
  /\ UNCHANGED <<vars, qq, sessions, inbox, sent, answering, replied>>

-----------------------------------------------------------------------------
QqTask ==
  \/ Start
  \/ StartFailure
  \/ Connected
  \/ HelloFailure
  \/ Identify
  \/ Dispatch
  \/ AutoReplied
  \/ AutoReplyFailure
  \/ SessionEnds

Platform ==
  \/ \E m \in QqChats : PlatformChat(m)
  \/ PlatformCloses

GatewaySteps ==
  /\ \/ \E m \in Chats \ QqChats : Inbound(m)
     \/ \E c \in Conns : Handshake(c) \/ ReadLoop(c) \/ WriterTask(c) \/ PeerLeaves(c)
  /\ UNCHANGED qqvars

QqNext == QqTask \/ Platform \/ GatewaySteps

QqSpec == QqInit /\ [][QqNext]_allvars

\* The loop reads what is there.  Nothing ends the wait for a hello frame or
\* for the answer to an HTTP request.
QqFairSpec == QqSpec /\ WF_allvars(Dispatch)

-----------------------------------------------------------------------------
\* The type invariant; a chat is being answered exactly while the task is
\* replying, and there is nothing to read before the session is open.
QqTypeOK ==
  /\ TypeOK
  /\ qq \in QqStages
  /\ sessions \in Nat
  /\ link \in BOOLEAN
  /\ inbox \in Seq(QqChats)
  /\ sent \in Seq(QqChats)
  /\ answering \in QqChats \cup {NoChat}
  /\ replied \subseteq QqChats
  /\ answering # NoChat <=> qq = "replying"
  /\ qq \notin {"open", "replying"} => inbox = <<>>

\* The ingress (run_gateway_once) only does to the gateway what a webhook may
\* do: whatever holds of the gateway holds of the two together.
ImplementsGateway == Spec

\* run_gateway_once reads one frame at a time: the QQ chats stand in the log
\* in the order the platform had them, across lost sessions, other channels'
\* chats and the waits for auto-replies.
QqInOrder ==
  \A i, j \in 1 .. Len(log) : \A p, q \in 1 .. Len(sent) :
    i < j /\ log[i] = sent[p] /\ log[j] = sent[q] => p < q

\* events.send(event).is_err(): the bot answers a user itself only if no
\* operator has been, or will ever be, sent what the user wrote.
AutoReplyInsteadOfOperator ==
  \A m \in replied \cup {answering} :
    /\ \A i \in 1 .. Len(log) : log[i] # m
    /\ \A c \in Conns : \A i \in 1 .. Len(delivered[c]) : delivered[c][i] # m

\* What makes these inductive: the platform has a chat once, and no QQ chat
\* is handled before the platform had it;
Handled == dropped \cup {log[i] : i \in 1 .. Len(log)}

SentOnce ==
  /\ \A p, q \in 1 .. Len(sent) : sent[p] = sent[q] => p = q
  /\ \A m \in QqChats \cap Handled : \E p \in 1 .. Len(sent) : sent[p] = m

\* what is in the inbox comes after all that was handled, in order;
InboxAhead ==
  /\ \A i \in 1 .. Len(inbox) : \E p \in 1 .. Len(sent) :
       /\ sent[p] = inbox[i]
       /\ \A q \in 1 .. Len(sent) : sent[q] \in Handled => q < p
  /\ \A i, j \in 1 .. Len(inbox) : \A p, q \in 1 .. Len(sent) :
       i < j /\ inbox[i] = sent[p] /\ inbox[j] = sent[q] => p < q

\* and a chat is refused or logged, never both, and answered if refused.
RefusedOrLogged ==
  /\ \A i \in 1 .. Len(log) : log[i] \notin dropped
  /\ \A m \in replied \cup {answering} : m # NoChat => m \in dropped

QqIInv ==
  /\ IInv
  /\ QqTypeOK
  /\ SentOnce
  /\ InboxAhead
  /\ RefusedOrLogged
  /\ QqInOrder

Unread(m) == \E i \in DOMAIN inbox : inbox[i] = m

\* A chat that was pushed is dealt with, operator or not, unless an auto-reply
\* hangs.
PushedIsRead ==
  \A m \in QqChats : Unread(m) ~> (~Unread(m) \/ qq = "replying")
=============================================================================
