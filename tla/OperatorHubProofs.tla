------------------------- MODULE OperatorHubProofs -------------------------
(***************************************************************************)
(* Proofs about OperatorHub, for any number of hubs, connections and chats *)
(* and any Capacity: the composition runs the gateway of Gateway, whose    *)
(* theorems it inherits, and it implements ChatAnswers.                    *)
(***************************************************************************)
EXTENDS OperatorHub, GatewayProofs

USE HubAssumption

-----------------------------------------------------------------------------
(* The gateway under the hubs is Gateway *)

\* A reply in the reader's hands is a chat.send or a frame that ends it.
LEMMA ReplyIsFrame ==
  ASSUME NEW c \in Conns, NEW ch, ChatSend(c, ch)
  PROVE  (\E x \in Channels : ChatSend(c, x)) \/ BadFrame(c)
<1>1. CASE ch \in Configured
  <2>1. ch \in Channels
    BY <1>1, GatewayAssumption
  <2>2. QED
    BY <2>1
<1>2. CASE ch \notin Configured
  BY <1>2 DEF ChatSend, BadFrame
<1>3. QED
  BY <1>1, <1>2

\* The socket that goes when run_once returns is an operator that leaves, or
\* nothing if the link was broken before.
LEMMA SocketGoes ==
  ASSUME TypeOK, NEW c \in Conns, Disconnected(c)
  PROVE  PeerLeaves(c) \/ UNCHANGED vars
<1>1. CASE peer[c]
  BY <1>1 DEF Disconnected, SocketClosed, PeerLeaves, EnterStage
<1>2. CASE ~peer[c]
  <2>1. peer' = peer
    BY <1>2 DEF Disconnected, TypeOK
  <2>2. QED
    BY <2>1 DEF Disconnected, vars, handshake, ring, feeds
<1>3. QED
  BY <1>1, <1>2

LEMMA GatewayStep == TypeOK /\ [HubNext]_hubvars => [Next]_vars
<1> SUFFICES ASSUME TypeOK, HubNext
             PROVE  [Next]_vars
  BY DEF hubvars
<1>1. ASSUME NEW m \in Chats, Inbound(m)
      PROVE  Next
  BY <1>1 DEF Next
<1>2. ASSUME NEW c \in Conns, RunOnce(c)
      PROVE  [Next]_vars
  <2>1. CASE Dial(c)
    BY <2>1 DEF Dial, Next, Handshake
  <2>2. CASE ReadChallenge(c) \/ ReadAck(c) \/ ReadEvent(c) \/ Reply(c)
    BY <2>2 DEF ReadChallenge, ReadAck, ReadEvent, Reply
  <2>3. CASE Disconnected(c)
    BY <2>3, SocketGoes DEF Next
  <2>4. QED
    BY <1>2, <2>1, <2>2, <2>3 DEF RunOnce
<1>3. ASSUME NEW c \in Conns, SendPing(c)
      PROVE  [Next]_vars
  BY <1>3 DEF SendPing
<1>4. ASSUME NEW c \in Conns, ReadFrame(c)
      PROVE  [Next]_vars
  <2>1. CASE ReadConnect(c)
    <3>1. HubFrame(c) \in ConnectFrames
      BY DEF HubFrame, ConnectFrames, TypeOK
    <3>2. Connect(c, HubFrame(c))
      BY <2>1 DEF ReadConnect
    <3>3. QED
      BY <3>1, <3>2 DEF Next, Handshake
  <2>2. CASE ReadPing(c)
    BY <2>2 DEF ReadPing, Next, ReadLoop
  <2>3. CASE ReadReply(c)
    BY <2>3, ReplyIsFrame DEF ReadReply, Next, ReadLoop
  <2>4. CASE FrameRefused(c)
    BY <2>4 DEF FrameRefused, Next, ReadLoop
  <2>5. QED
    BY <1>4, <2>1, <2>2, <2>3, <2>4 DEF ReadFrame
<1>5. ASSUME NEW c \in Conns, Reader(c) \/ AdapterReturns(c)
      PROVE  Next
  BY <1>5 DEF Reader, AdapterReturns, Next, Handshake, ReadLoop
<1>6. ASSUME NEW c \in Conns, Writer(c) \/ LinkBreaks(c)
      PROVE  Next
  BY <1>6 DEF Writer, WriterSendHub, LinkBreaks, Next, WriterTask
<1>7. QED
  BY <1>1, <1>2, <1>3, <1>4, <1>5, <1>6 DEF HubNext

LEMMA GatewayInvStep == IInv /\ [HubNext]_hubvars => IInv'
BY GatewayStep, InvStep DEF IInv

\* All that the gateway does in the composition it does in Gateway, so that
\* what is proved of Gateway holds here.
THEOREM HubRunsGateway == HubSpec => HubImplementsGateway
<1>1. HubInit => Init /\ IInv
  BY InitInv DEF HubInit
<1>2. IInv => TypeOK
  BY DEF IInv
<1>3. HubSpec => Spec
  BY <1>1, <1>2, GatewayStep, GatewayInvStep, PTL DEF HubSpec, Spec
<1>4. QED
  BY <1>3 DEF HubImplementsGateway

-----------------------------------------------------------------------------
(* What a step does on either side *)

\* What was delivered stays, and the place in the log where a feed begins is
\* settled when there is a writer.
LEMMA FeedGrows ==
  ASSUME IInv, [Next]_vars, NEW c \in Conns
  PROVE  /\ Len(delivered[c]) \in Nat /\ Len(delivered'[c]) \in Nat
         /\ Len(delivered[c]) <= Len(delivered'[c])
         /\ \A i \in 1 .. Len(delivered[c]) : delivered'[c][i] = delivered[c][i]
         /\ writer[c] # "none" => sub'[c] = sub[c] /\ writer'[c] # "none"
         /\ writer[c] = "none" => delivered[c] = <<>>
         /\ writer[c] = "none" /\ writer'[c] # "none" => sub'[c] = Len(log)
<1>1. TypeOK /\ WriterMatchesReader /\ CursorMatchesFeed
  BY DEF IInv
<1>2. delivered[c] \in Seq(Events) /\ Len(delivered[c]) \in Nat
  BY <1>1, LenProperties DEF TypeOK
<1>3. writer[c] = "none" => delivered[c] = <<>>
  BY <1>1 DEF CursorMatchesFeed
<1>4. CASE UNCHANGED <<sub, next, delivered, writer>>
  BY <1>2, <1>3, <1>4
<1>5. ASSUME NEW d \in Conns, Subscribe(d)
      PROVE  /\ delivered' = delivered
             /\ \A x \in Conns : IF x = d THEN sub'[x] = Len(log) /\ writer'[x] = "recv"
                                 ELSE sub'[x] = sub[x] /\ writer'[x] = writer[x]
             /\ writer[d] = "none"
  BY <1>1, <1>5 DEF Subscribe, EnterPhase, TypeOK, WriterMatchesReader
<1>6. ASSUME NEW d \in Conns, PeerGone(d)
      PROVE  /\ sub' = sub /\ delivered' = delivered
             /\ writer[d] # "none"
             /\ \A x \in Conns : writer'[x] = writer[x] \/ (x = d /\ writer'[x] # "none")
  BY <1>1, <1>6 DEF PeerGone, EnterPhase, TypeOK, WriterMatchesReader, feeds
<1>7. ASSUME NEW d \in Conns, WriterTask(d)
      PROVE  /\ sub' = sub
             /\ writer[d] # "none"
             /\ \A x \in Conns : writer'[x] = writer[x] \/ (x = d /\ writer'[x] # "none")
             /\ \A x \in Conns : delivered'[x] = delivered[x]
                  \/ (x = d /\ delivered'[x] = Append(delivered[x], log[next[x]])
                      /\ log[next[x]] \in Events)
  <2>1. CASE WriterSend(d)
    <3>1. peer[d] /\ writer[d] = "send" /\ next[d] \in 0 .. Len(log) /\ next[d] # 0
      BY <1>1, <1>2, <2>1, LenProperties DEF WriterSend, CursorMatchesFeed, TypeOK
    <3>2. log[next[d]] \in Events
      BY <1>1, <3>1, ElementOfSeq, LenProperties DEF TypeOK
    <3>3. QED
      BY <1>1, <2>1, <3>2 DEF WriterSend, TypeOK, handshake, ring
  <2>2. CASE ~WriterSend(d)
    BY <1>1, <1>7, <2>2 DEF WriterTask, WriterRecv, WriterLagged, WriterSendLost,
       WriterStop, TypeOK, feeds
  <2>3. QED
    BY <2>1, <2>2
<1>8. ASSUME NEW d \in Conns, WriterTask(d)
      PROVE  /\ Len(delivered'[c]) \in Nat
             /\ Len(delivered[c]) <= Len(delivered'[c])
             /\ \A i \in 1 .. Len(delivered[c]) : delivered'[c][i] = delivered[c][i]
  <2>1. CASE delivered'[c] = delivered[c]
    BY <1>2, <2>1
  <2>2. CASE delivered'[c] = Append(delivered[c], log[next[c]]) /\ log[next[c]] \in Events
    BY <1>2, <2>2, AppendEvent
  <2>3. QED
    BY <1>7, <1>8, <2>1, <2>2
<1>9. CASE \E d \in Conns : Subscribe(d)
  <2>1. PICK d \in Conns : Subscribe(d)
    BY <1>9
  <2>2. /\ delivered'[c] = delivered[c]
        /\ c = d => writer[c] = "none" /\ sub'[c] = Len(log)
        /\ c # d => sub'[c] = sub[c] /\ writer'[c] = writer[c]
    BY <1>5, <2>1
  <2>3. writer[c] # "none" => sub'[c] = sub[c] /\ writer'[c] # "none"
    BY <2>2
  <2>4. writer[c] = "none" /\ writer'[c] # "none" => sub'[c] = Len(log)
    BY <2>2
  <2>5. QED
    BY <1>2, <1>3, <2>2, <2>3, <2>4
<1>10. CASE \E d \in Conns : PeerGone(d)
  <2>1. PICK d \in Conns : PeerGone(d)
    BY <1>10
  <2>2. /\ sub'[c] = sub[c] /\ delivered'[c] = delivered[c]
        /\ writer[c] # "none" <=> writer'[c] # "none"
    BY <1>6, <2>1
  <2>3. QED
    BY <1>2, <1>3, <2>2
<1>11. CASE \E d \in Conns : WriterTask(d)
  <2>1. PICK d \in Conns : WriterTask(d)
    BY <1>11
  <2>2. /\ sub'[c] = sub[c]
        /\ writer[c] # "none" <=> writer'[c] # "none"
    BY <1>7, <2>1
  <2>3. /\ Len(delivered'[c]) \in Nat
        /\ Len(delivered[c]) <= Len(delivered'[c])
        /\ \A i \in 1 .. Len(delivered[c]) : delivered'[c][i] = delivered[c][i]
    BY <1>8, <2>1
  <2>4. QED
    BY <1>2, <1>3, <2>2, <2>3
<1>12. QED
  BY <1>1, <1>4, <1>9, <1>10, <1>11, CursorFrame

\* The reader takes a frame from the socket.
Took(c) ==
  /\ outbox[c] # <<>>
  /\ outbox' = [outbox EXCEPT ![c] = Tail(@)]
  /\ UNCHANGED <<stage, read, answers>>

\* That is a reply for which there is an adapter.
Hands(c) ==
  /\ Took(c)
  /\ Head(outbox[c]).op = "chat_send"
  /\ handed' = [handed EXCEPT ![HubOf[c]] = Append(@, Head(outbox[c]).re)]

\* That is a frame nothing comes of, or a reply that ends the reader.
Drops(c) ==
  /\ Took(c)
  /\ UNCHANGED handed
  /\ Head(outbox[c]).op = "chat_send" => phase' = [phase EXCEPT ![c] = "failed"]

\* A step changes nothing on the hubs' side, is one of run_once, or takes a
\* frame of theirs.
LEMMA HubCases ==
  ASSUME [HubNext]_hubvars
  PROVE  \/ UNCHANGED hubside
         \/ \E c \in Conns :
              \/ Dial(c) \/ ReadChallenge(c) \/ ReadAck(c) \/ ReadEvent(c)
              \/ SendPing(c) \/ Reply(c) \/ Disconnected(c)
         \/ \E c \in Conns : Drops(c) \/ Hands(c)
<1>1. ASSUME NEW c \in Conns, ReadFrame(c)
      PROVE  Drops(c) \/ Hands(c)
  BY <1>1 DEF ReadFrame, ReadConnect, ReadPing, ReadReply, FrameRefused, TakeFrame,
     Hand, ChatSend, BadFrame, EnterPhase, Took, Drops, Hands
<1>2. QED
  BY <1>1 DEF HubNext, RunOnce, hubvars, hubside

-----------------------------------------------------------------------------
(* The hubs' side is well typed, and a hub has one connection at a time *)

\* What it is to append to a sequence of a function of sequences.
LEMMA AppendAt ==
  ASSUME NEW D, NEW S, NEW f \in [D -> Seq(S)], NEW d \in D, NEW e \in S
  PROVE  [f EXCEPT ![d] = Append(@, e)] \in [D -> Seq(S)]
<1>1. f[d] \in Seq(S)
  OBVIOUS
<1>2. Append(f[d], e) \in Seq(S)
  BY <1>1, AppendProperties
<1>3. QED
  BY <1>2

LEMMA TailAt ==
  ASSUME NEW D, NEW S, NEW f \in [D -> Seq(S)], NEW d \in D, f[d] # <<>>
  PROVE  /\ [f EXCEPT ![d] = Tail(@)] \in [D -> Seq(S)]
         /\ Head(f[d]) \in S
         /\ Head(f[d]) = f[d][1]
         /\ Len(f[d]) \in Nat \ {0}
         /\ Len(Tail(f[d])) = Len(f[d]) - 1
         /\ \A i \in 1 .. Len(f[d]) - 1 : Tail(f[d])[i] = f[d][i + 1]
<1>1. f[d] \in Seq(S)
  OBVIOUS
<1>2. Tail(f[d]) \in Seq(S)
  BY <1>1, HeadTailProperties
<1>3. QED
  BY <1>1, <1>2, HeadTailProperties, LenProperties, EmptySeq

LEMMA HubTypeStep == IInv /\ HubTypeOK /\ [HubNext]_hubvars => HubTypeOK'
<1> SUFFICES ASSUME IInv, HubTypeOK, [HubNext]_hubvars
             PROVE  HubTypeOK'
  OBVIOUS
<1>1. [Next]_vars
  BY GatewayStep DEF IInv
<1>2. \A c \in Conns : /\ Len(delivered[c]) \in Nat /\ Len(delivered'[c]) \in Nat
                        /\ Len(delivered[c]) <= Len(delivered'[c])
  BY <1>1, FeedGrows
<1>3. \A c \in Conns : At(c) \in Nat /\ HubOf[c] \in Hubs
  BY HubAssumption, LenProperties DEF IInv, TypeOK, HubTypeOK, At
<1>r. ASSUME UNCHANGED read
      PROVE  /\ read' \in [Conns -> Nat]
             /\ \A c \in Conns : read'[c] <= Len(delivered'[c])
  <2>1. \A c \in Conns : read[c] \in Nat /\ read[c] <= Len(delivered[c])
    BY DEF HubTypeOK
  <2>2. \A c \in Conns : read[c] <= Len(delivered'[c])
    BY <1>2, <2>1
  <2>3. QED
    BY <1>r, <2>2 DEF HubTypeOK
<1>4. CASE UNCHANGED hubside
  BY <1>r, <1>4 DEF HubTypeOK, hubside
<1>5. ASSUME NEW c \in Conns, Dial(c) \/ ReadAck(c) \/ Disconnected(c)
      PROVE  HubTypeOK'
  BY <1>r, <1>5 DEF Dial, ReadAck, Disconnected, EnterStage, HubTypeOK, Stages
<1>6. ASSUME NEW c \in Conns, NEW f \in Frames, Write(c, f)
      PROVE  outbox' \in [Conns -> Seq(Frames)]
  BY <1>6, AppendAt DEF Write, HubTypeOK
<1>7. ASSUME NEW c \in Conns, ReadChallenge(c) \/ SendPing(c)
      PROVE  HubTypeOK'
  <2>1. [op |-> "connect"] \in Frames /\ [op |-> "ping"] \in Frames
    BY DEF Frames
  <2>2. outbox' \in [Conns -> Seq(Frames)]
    BY <1>6, <1>7, <2>1 DEF ReadChallenge, SendPing
  <2>3. QED
    BY <1>r, <1>7, <2>2 DEF ReadChallenge, SendPing, EnterStage, HubTypeOK, Stages
<1>8. ASSUME NEW c \in Conns, ReadEvent(c)
      PROVE  HubTypeOK'
  <2>1. \A d \in Conns : read'[d] = IF d = c THEN read[c] + 1 ELSE read[d]
    BY <1>8 DEF ReadEvent, HubTypeOK
  <2>2. \A d \in Conns : read'[d] <= Len(delivered'[d])
    BY <1>2, <1>8, <2>1 DEF ReadEvent, HubTypeOK
  <2>3. QED
    BY <1>8, <2>2 DEF ReadEvent, EnterStage, HubTypeOK, Stages
<1>9. ASSUME NEW c \in Conns, Reply(c)
      PROVE  HubTypeOK'
  <2>1. [op |-> "chat_send", re |-> At(c)] \in Frames
    BY <1>3 DEF Frames
  <2>2. outbox' \in [Conns -> Seq(Frames)]
    BY <1>6, <1>9, <2>1 DEF Reply
  <2>3. answers' \in [Hubs -> Seq(Nat)]
    BY <1>3, <1>9, AppendAt DEF Reply, HubTypeOK
  <2>4. QED
    BY <1>r, <1>9, <2>2, <2>3 DEF Reply, EnterStage, HubTypeOK, Stages
<1>10. ASSUME NEW c \in Conns, Took(c)
       PROVE  /\ UNCHANGED <<stage, read, answers>>
              /\ outbox' \in [Conns -> Seq(Frames)]
              /\ Head(outbox[c]) \in Frames
  BY <1>10, TailAt DEF Took, HubTypeOK
<1>11. ASSUME NEW c \in Conns, Took(c), UNCHANGED handed
       PROVE  HubTypeOK'
  BY <1>r, <1>10, <1>11 DEF HubTypeOK
<1>12. ASSUME NEW c \in Conns, Hands(c)
       PROVE  HubTypeOK'
  <2>1. Head(outbox[c]).re \in Nat
    BY <1>10, <1>12 DEF Hands, Frames
  <2>2. handed' \in [Hubs -> Seq(Nat)]
    BY <1>3, <1>12, <2>1, AppendAt DEF Hands, HubTypeOK
  <2>3. QED
    BY <1>r, <1>10, <1>12, <2>2 DEF Hands, HubTypeOK
<1>13. QED
  BY <1>4, <1>5, <1>7, <1>8, <1>9, <1>11, <1>12, HubCases DEF Drops

\* Dial waits for the connections before it, and a connection is made once.
LEMMA OneAtATimeStep == HubTypeOK /\ OneAtATime /\ [HubNext]_hubvars => OneAtATime'
<1> SUFFICES ASSUME HubTypeOK, OneAtATime, [HubNext]_hubvars
             PROVE  OneAtATime'
  OBVIOUS
<1>1. CASE UNCHANGED stage
  BY <1>1 DEF OneAtATime
<1>2. ASSUME NEW c \in Conns, Dial(c)
      PROVE  OneAtATime'
  BY <1>2 DEF Dial, EnterStage, OneAtATime, HubTypeOK
<1>3. ASSUME NEW c \in Conns, NEW to \in Stages \ {"unused"},
             stage[c] \in Running, stage' = [stage EXCEPT ![c] = to]
      PROVE  OneAtATime'
  BY <1>3 DEF OneAtATime, HubTypeOK, Running
<1>4. ASSUME NEW c \in Conns, ReadChallenge(c) \/ ReadAck(c) \/ Reply(c) \/ Disconnected(c)
      PROVE  OneAtATime'
  BY <1>3, <1>4 DEF ReadChallenge, ReadAck, Reply, Disconnected, EnterStage, Stages, Running
<1>5. ASSUME NEW c \in Conns, ReadEvent(c)
      PROVE  OneAtATime'
  BY <1>3, <1>5 DEF ReadEvent, EnterStage, Stages, Running
<1>6. QED
  BY <1>1, <1>2, <1>4, <1>5, HubCases DEF hubside, SendPing, Took, Drops, Hands

LEMMA OneRunning ==
  ASSUME HubTypeOK, OneAtATime, NEW c \in Conns, NEW d \in Conns,
         HubOf[c] = HubOf[d], stage[c] \in Running, stage[d] \in Running
  PROVE  c = d
<1>1. c \in Nat /\ d \in Nat
  BY HubAssumption
<1>2. QED
  BY <1>1 DEF OneAtATime, Running

-----------------------------------------------------------------------------
(* A hub reads in order *)

LEMMA ReadInOrderStep ==
  IInv /\ HubTypeOK /\ ReadInOrder /\ [HubNext]_hubvars => ReadInOrder'
<1> SUFFICES ASSUME IInv, HubTypeOK, ReadInOrder, [HubNext]_hubvars
             PROVE  ReadInOrder'
  OBVIOUS
<1>1. [Next]_vars
  BY GatewayStep DEF IInv
<1>2. \A c \in Conns : /\ read[c] \in Nat /\ read[c] <= Len(delivered[c])
                        /\ Len(delivered[c]) \in Nat
                        /\ \A i \in 1 .. Len(delivered[c]) : delivered'[c][i] = delivered[c][i]
  BY <1>1, FeedGrows DEF HubTypeOK
<1>3. ASSUME NEW d \in Conns, stage[d] = "thinking"
      PROVE  read[d] > 0 /\ delivered'[d][read[d]] \in Answerable
  <2>1. read[d] > 0 /\ delivered[d][read[d]] \in Answerable
    BY <1>3 DEF ReadInOrder
  <2>2. read[d] \in 1 .. Len(delivered[d])
    BY <1>2, <2>1
  <2>3. QED
    BY <1>2, <2>1, <2>2
<1>4. CASE UNCHANGED <<stage, read>>
  BY <1>3, <1>4 DEF ReadInOrder
<1>5. ASSUME NEW c \in Conns, NEW to \in {"dialled", "joining", "ready", "done"},
             stage' = [stage EXCEPT ![c] = to], UNCHANGED read,
             to \in {"dialled", "joining"} => stage[c] \in {"unused", "dialled", "joining"}
      PROVE  ReadInOrder'
  BY <1>3, <1>5 DEF ReadInOrder, HubTypeOK
<1>6. ASSUME NEW c \in Conns,
             Dial(c) \/ ReadChallenge(c) \/ ReadAck(c) \/ Reply(c) \/ Disconnected(c)
      PROVE  ReadInOrder'
  BY <1>5, <1>6 DEF Dial, ReadChallenge, ReadAck, Reply, Disconnected, EnterStage
<1>7. ASSUME NEW c \in Conns, ReadEvent(c)
      PROVE  ReadInOrder'
  <2>1. /\ stage[c] = "ready" /\ stage'[c] \in {"thinking", "ready"}
        /\ stage'[c] = "thinking" => delivered[c][read[c] + 1] \in Answerable
        /\ read'[c] = read[c] + 1
        /\ read[c] < Len(delivered[c])
        /\ \A d \in Conns \ {c} : stage'[d] = stage[d] /\ read'[d] = read[d]
    BY <1>7 DEF ReadEvent, EnterStage, HubTypeOK
  <2>2. delivered'[c][read[c] + 1] = delivered[c][read[c] + 1] /\ read[c] + 1 > 0
    BY <1>2, <2>1
  <2>3. QED
    BY <1>3, <2>1, <2>2 DEF ReadInOrder
<1>8. QED
  BY <1>4, <1>6, <1>7, HubCases DEF hubside, SendPing, Took, Drops, Hands

-----------------------------------------------------------------------------
(* A hub answers in order *)

\* The chat it thinks about is in the log, where its feed says.
LEMMA ThinkingOf ==
  ASSUME IInv, HubTypeOK, ReadInOrder, NEW c \in Conns, stage[c] = "thinking"
  PROVE  /\ At(c) \in 1 .. Len(log)
         /\ log[At(c)] \in Answerable
         /\ writer[c] # "none"
<1>1. /\ sub[c] \in Nat /\ read[c] \in 1 .. Len(delivered[c])
      /\ Len(log) \in Nat /\ Len(delivered[c]) \in Nat
      /\ delivered[c][read[c]] \in Answerable
  BY LenProperties DEF IInv, TypeOK, HubTypeOK, ReadInOrder
<1>2. sub[c] + read[c] <= Len(log) /\ delivered[c][read[c]] = log[sub[c] + read[c]]
  BY <1>1 DEF IInv, FeedIsLogSlice
<1>3. writer[c] # "none"
  BY <1>1, EmptySeq, LenProperties DEF IInv, CursorMatchesFeed
<1>4. QED
  BY <1>1, <1>2, <1>3 DEF At

\* Where a hub stands in the log, if a step leaves it what it has read.
LEMMA AtStep ==
  ASSUME IInv, HubTypeOK, ReadInOrder, [Next]_vars, NEW c \in Conns
  PROVE  /\ At(c) \in Nat
         /\ writer[c] # "none" => sub'[c] + read[c] = At(c) /\ writer'[c] # "none"
         /\ writer[c] = "none" => read[c] = 0 /\ stage[c] # "thinking"
         /\ writer[c] = "none" /\ writer'[c] # "none" => sub'[c] + read[c] = Len(log)
<1>1. /\ sub[c] \in Nat /\ Len(log) \in Nat /\ read[c] \in Nat
      /\ read[c] <= Len(delivered[c])
  BY LenProperties DEF IInv, TypeOK, HubTypeOK
<1>2. writer[c] = "none" => Len(delivered[c]) = 0
  BY FeedGrows, EmptySeq
<1>3. writer[c] = "none" => stage[c] # "thinking"
  BY ThinkingOf
<1>4. QED
  BY <1>1, <1>2, <1>3, FeedGrows DEF At

LEMMA AnswersBehindStep ==
  IInv /\ HubTypeOK /\ OneAtATime /\ ReadInOrder /\ AnswersBehind /\ [HubNext]_hubvars
    => AnswersBehind'
<1> SUFFICES ASSUME IInv, HubTypeOK, OneAtATime, ReadInOrder, AnswersBehind, [HubNext]_hubvars
             PROVE  AnswersBehind'
  OBVIOUS
<1>1. [Next]_vars
  BY GatewayStep DEF IInv
<1>2. Len(log) \in Nat /\ Len(log') \in Nat /\ Len(log) <= Len(log')
  BY <1>1, LogGrows DEF IInv
<1>3. \A h \in Hubs : \A k \in 1 .. Len(answers[h]) : answers[h][k] \in 1 .. Len(log')
  BY <1>2 DEF AnswersBehind
<1>4. \A c \in Conns : HubOf[c] \in Hubs
  BY HubAssumption
<1>5. ASSUME NEW d \in Conns, stage[d] \in {"unused"} \cup Running,
             writer'[d] # "none", writer[d] # "none" => stage[d] \in Running,
             NEW k \in 1 .. Len(answers[HubOf[d]])
      PROVE  /\ answers[HubOf[d]][k] \in Nat
             /\ sub'[d] + read[d] \in Nat
             /\ answers[HubOf[d]][k] <= sub'[d] + read[d]
             /\ stage[d] = "thinking" => answers[HubOf[d]][k] < sub'[d] + read[d]
  <2>1. answers[HubOf[d]][k] \in 1 .. Len(log)
    BY <1>4 DEF AnswersBehind
  <2>2. CASE writer[d] = "none"
    BY <1>1, <1>2, <1>5, <2>1, <2>2, AtStep
  <2>3. CASE writer[d] # "none"
    BY <1>1, <1>5, <2>1, <2>3, AtStep DEF AnswersBehind
  <2>4. QED
    BY <2>2, <2>3
<1>6. CASE UNCHANGED <<stage, read, answers>>
  BY <1>3, <1>5, <1>6 DEF AnswersBehind, At
<1>7. ASSUME NEW c \in Conns, NEW to \in {"joining", "ready", "done"}, stage[c] \in Running,
             stage' = [stage EXCEPT ![c] = to], UNCHANGED <<read, answers>>
      PROVE  AnswersBehind'
  BY <1>3, <1>5, <1>7 DEF AnswersBehind, At, HubTypeOK
<1>8. ASSUME NEW c \in Conns, Dial(c)
      PROVE  AnswersBehind'
  <2>1. UNCHANGED <<read, answers>> /\ stage' = [stage EXCEPT ![c] = "dialled"] /\ phase[c] = "new"
    BY <1>8 DEF Dial, EnterStage, Accept, EnterPhase
  <2>2. writer[c] = "none" /\ writer' = writer
    BY <1>8, <2>1 DEF Dial, Accept, IInv, WriterMatchesReader
  <2>3. QED
    BY <1>3, <1>5, <2>1, <2>2 DEF AnswersBehind, At, HubTypeOK, Running
<1>9. ASSUME NEW c \in Conns, ReadChallenge(c) \/ ReadAck(c) \/ Disconnected(c)
      PROVE  AnswersBehind'
  BY <1>7, <1>9 DEF ReadChallenge, ReadAck, Disconnected, EnterStage, Running
<1>10. ASSUME NEW c \in Conns, ReadEvent(c)
       PROVE  AnswersBehind'
  <2>1. /\ stage[c] = "ready" /\ stage'[c] \in {"thinking", "ready"}
        /\ read'[c] = read[c] + 1
        /\ UNCHANGED <<vars, answers>>
        /\ \A d \in Conns \ {c} : stage'[d] = stage[d] /\ read'[d] = read[d]
    BY <1>10 DEF ReadEvent, EnterStage, HubTypeOK
  <2>2. sub[c] \in Nat /\ read[c] \in Nat
    BY DEF HubTypeOK, IInv, TypeOK
  <2>3. \A d \in Conns : writer'[d] = writer[d] /\ sub'[d] = sub[d]
    BY <2>1 DEF vars
  <2>4. /\ read'[c] = read[c] + 1 /\ answers' = answers
        /\ stage[c] = "ready" /\ stage'[c] \in {"thinking", "ready"}
    BY <2>1
  <2>5. sub'[c] = sub[c] /\ writer'[c] = writer[c]
    BY <2>3
  <2>6. sub'[c] \in Nat /\ read'[c] \in Nat
    BY <2>2, <2>4, <2>5
  <2>7. ASSUME NEW k \in 1 .. Len(answers[HubOf[c]]), writer[c] # "none"
        PROVE  answers[HubOf[c]][k] < sub'[c] + read'[c]
    <3>1. stage[c] \in Running /\ writer'[c] # "none"
      BY <2>7, <2>4, <2>5 DEF Running
    <3>2. answers[HubOf[c]][k] \in Nat /\ answers[HubOf[c]][k] <= sub'[c] + read[c]
      BY <1>5, <2>7, <3>1
    <3>3. sub'[c] \in Nat /\ read[c] \in Nat /\ read'[c] = read[c] + 1
      BY <2>2, <2>4, <2>6
    <3>4. QED
      BY <3>2, <3>3
  <2>8. ASSUME NEW d \in Conns, stage'[d] \in Running, writer'[d] # "none",
               NEW k \in 1 .. Len(answers'[HubOf[d]])
        PROVE  /\ answers'[HubOf[d]][k] <= sub'[d] + read'[d]
               /\ stage'[d] = "thinking" => answers'[HubOf[d]][k] < sub'[d] + read'[d]
    <3>1. CASE d = c
      <4>1. answers[HubOf[c]][k] \in Nat /\ sub'[c] + read'[c] \in Nat
        <5>1. HubOf[c] \in Hubs /\ k \in 1 .. Len(answers[HubOf[c]])
          BY <1>4, <2>8, <2>4, <3>1
        <5>2. answers[HubOf[c]][k] \in 1 .. Len(log')
          BY <1>3, <5>1
        <5>3. QED
          BY <1>2, <2>6, <5>2
      <4>2. writer[c] # "none" /\ k \in 1 .. Len(answers[HubOf[c]])
        BY <2>8, <2>4, <2>5, <3>1
      <4>3. answers[HubOf[c]][k] < sub'[c] + read'[c]
        BY <2>7, <4>2
      <4>4. answers[HubOf[c]][k] <= sub'[c] + read'[c]
        BY <4>1, <4>3
      <4>5. QED
        BY <2>4, <3>1, <4>3, <4>4
    <3>2. CASE d # c
      BY <1>5, <2>1, <2>3, <2>8, <3>2
    <3>3. QED
      BY <3>1, <3>2
  <2>9. QED
    BY <1>3, <2>1, <2>8 DEF AnswersBehind, At
<1>11. ASSUME NEW c \in Conns, Reply(c)
       PROVE  AnswersBehind'
  <2>1. /\ stage[c] = "thinking" /\ UNCHANGED <<vars, read>>
        /\ answers' = [answers EXCEPT ![HubOf[c]] = Append(@, At(c))]
        /\ stage' = [stage EXCEPT ![c] = "ready"]
    BY <1>11 DEF Reply, EnterStage
  <2>2. At(c) \in 1 .. Len(log)
    BY <2>1, ThinkingOf
  <2>3. answers[HubOf[c]] \in Seq(Nat)
    BY <1>4 DEF HubTypeOK
  <2>4. /\ Len(answers[HubOf[c]]) \in Nat
        /\ answers'[HubOf[c]] = Append(answers[HubOf[c]], At(c))
        /\ Len(answers'[HubOf[c]]) = Len(answers[HubOf[c]]) + 1
        /\ \A k \in 1 .. Len(answers[HubOf[c]]) : answers'[HubOf[c]][k] = answers[HubOf[c]][k]
        /\ answers'[HubOf[c]][Len(answers[HubOf[c]]) + 1] = At(c)
        /\ \A h \in Hubs \ {HubOf[c]} : answers'[h] = answers[h]
    BY <1>2, <1>4, <2>1, <2>2, <2>3, AppendProperties, LenProperties DEF HubTypeOK
  <2>5. \A h \in Hubs : \A k \in 1 .. Len(answers'[h]) : answers'[h][k] \in 1 .. Len(log')
    <3>1. ASSUME NEW k \in 1 .. Len(answers'[HubOf[c]])
          PROVE  answers'[HubOf[c]][k] \in 1 .. Len(log')
      <4>1. k \in 1 .. Len(answers[HubOf[c]]) \/ k = Len(answers[HubOf[c]]) + 1
        BY <2>4
      <4>2. At(c) \in 1 .. Len(log')
        BY <1>2, <2>2
      <4>3. QED
        BY <1>3, <1>4, <2>4, <4>1, <4>2
    <3>2. QED
      BY <1>3, <2>4, <3>1
  <2>6. ASSUME NEW d \in Conns, stage'[d] \in Running, writer'[d] # "none",
               NEW k \in 1 .. Len(answers'[HubOf[d]])
        PROVE  /\ answers'[HubOf[d]][k] <= sub'[d] + read'[d]
               /\ stage'[d] = "thinking" => answers'[HubOf[d]][k] < sub'[d] + read'[d]
    <3>1. stage[d] \in Running /\ stage[c] \in Running
      BY <2>1, <2>6 DEF HubTypeOK, Running
    <3>2. CASE d = c
      <4>1. stage'[c] = "ready" /\ sub'[c] + read'[c] = At(c)
        BY <2>1 DEF HubTypeOK, vars, At
      <4>2. At(c) \in Nat
        BY <1>2, <2>2
      <4>3. CASE k \in 1 .. Len(answers[HubOf[c]])
        BY <1>5, <2>1, <2>4, <2>6, <3>1, <3>2, <4>1, <4>2, <4>3
      <4>4. CASE k = Len(answers[HubOf[c]]) + 1
        BY <2>4, <3>2, <4>1, <4>2, <4>4
      <4>5. QED
        BY <2>4, <2>6, <3>2, <4>3, <4>4
    <3>3. CASE d # c
      <4>1. HubOf[d] # HubOf[c]
        BY <3>1, <3>3, OneRunning
      <4>2. answers'[HubOf[d]] = answers[HubOf[d]] /\ stage'[d] = stage[d] /\ read'[d] = read[d]
        BY <1>4, <2>1, <2>4, <3>3, <4>1 DEF HubTypeOK
      <4>3. QED
        BY <1>5, <2>6, <3>1, <4>2
    <3>4. QED
      BY <3>2, <3>3
  <2>7. QED
    BY <2>5, <2>6 DEF AnswersBehind, At
<1>12. QED
  BY <1>6, <1>8, <1>9, <1>10, <1>11, HubCases DEF hubside, SendPing, Took, Drops, Hands

-----------------------------------------------------------------------------
(* A reply is handed over once *)

LEMMA AppendMember ==
  ASSUME NEW S, NEW s \in Seq(S), NEW e \in S
  PROVE  /\ Len(s) \in Nat
         /\ Len(Append(s, e)) = Len(s) + 1
         /\ \A k \in 1 .. Len(s) : Append(s, e)[k] = s[k]
         /\ Append(s, e)[Len(s) + 1] = e
         /\ \A i : (\E k \in 1 .. Len(Append(s, e)) : Append(s, e)[k] = i)
                     <=> ((\E k \in 1 .. Len(s) : s[k] = i) \/ i = e)
<1>1. /\ Len(s) \in Nat
      /\ Len(Append(s, e)) = Len(s) + 1
      /\ \A k \in 1 .. Len(s) : Append(s, e)[k] = s[k]
      /\ Append(s, e)[Len(s) + 1] = e
  BY AppendProperties, LenProperties
<1>2. QED
  BY <1>1

\* A frame that is no reply may be written at any time.
LEMMA OtherFrameStep ==
  ASSUME HubTypeOK, RepliesOpen, NEW c \in Conns, NEW f \in Frames,
         f.op # "chat_send", Write(c, f), UNCHANGED <<answers, handed>>
  PROVE  RepliesOpen'
<1>1. outbox[c] \in Seq(Frames)
  BY DEF HubTypeOK
<1>2. outbox'[c] = Append(outbox[c], f) /\ \A d \in Conns \ {c} : outbox'[d] = outbox[d]
  BY DEF Write, HubTypeOK
<1>3. ASSUME NEW d \in Conns, NEW p \in 1 .. Len(outbox'[d]), NEW i \in Nat, IsReply(d, p, i)'
      PROVE  p \in 1 .. Len(outbox[d]) /\ IsReply(d, p, i)
  <2>1. CASE d = c
    <3>1. p \in 1 .. Len(outbox[c]) \/ outbox'[c][p] = f
      BY <1>1, <1>2, <1>3, <2>1, AppendMember
    <3>2. p \in 1 .. Len(outbox[c]) /\ outbox'[c][p] = outbox[c][p]
      BY <1>1, <1>2, <1>3, <2>1, <3>1, AppendMember DEF IsReply
    <3>3. QED
      BY <1>3, <2>1, <3>2 DEF IsReply
  <2>2. CASE d # c
    BY <1>2, <1>3, <2>2 DEF IsReply
  <2>3. QED
    BY <2>1, <2>2
<1>4. \A h, i : (IsAnswer(h, i)' <=> IsAnswer(h, i)) /\ (IsHanded(h, i)' <=> IsHanded(h, i))
  BY DEF IsAnswer, IsHanded
<1>5. QED
  BY <1>3, <1>4 DEF RepliesOpen

\* The reply to the chat a hub thinks about is a new answer.
LEMMA ReplyStep ==
  ASSUME IInv, HubTypeOK, ReadInOrder, AnswersBehind, RepliesOpen,
         NEW c \in Conns, Reply(c)
  PROVE  RepliesOpen'
<1> DEFINE h == HubOf[c]
           i == At(c)
           f == [op |-> "chat_send", re |-> i]
<1>1. /\ stage[c] = "thinking"
      /\ UNCHANGED handed
      /\ answers' = [answers EXCEPT ![h] = Append(@, i)]
      /\ outbox' = [outbox EXCEPT ![c] = Append(@, f)]
  BY DEF Reply, EnterStage, Write
<1>2. i \in Nat /\ writer[c] # "none" /\ h \in Hubs /\ Len(log) \in Nat
  BY <1>1, ThinkingOf, HubAssumption, LenProperties DEF IInv, TypeOK
<1>3. answers[h] \in Seq(Nat) /\ outbox[c] \in Seq(Frames) /\ f \in Frames
  BY <1>2 DEF HubTypeOK, Frames
<1>4. ~IsAnswer(h, i)
  <2>1. ASSUME NEW k \in 1 .. Len(answers[h])
        PROVE  answers[h][k] # i
    <3>1. answers[h][k] \in Nat /\ answers[h][k] < i
      BY <1>1, <1>2 DEF AnswersBehind, Running
    <3>2. QED
      BY <1>2, <3>1
  <2>2. QED
    BY <2>1 DEF IsAnswer
<1>5. \A g \in Hubs, x \in Nat : IsAnswer(g, x)' <=> IsAnswer(g, x) \/ (g = h /\ x = i)
  <2>1. answers'[h] = Append(answers[h], i) /\ \A g \in Hubs \ {h} : answers'[g] = answers[g]
    BY <1>1, <1>2 DEF HubTypeOK
  <2>2. \A x : (\E k \in 1 .. Len(answers'[h]) : answers'[h][k] = x)
                  <=> ((\E k \in 1 .. Len(answers[h]) : answers[h][k] = x) \/ x = i)
    BY <1>2, <1>3, <2>1, AppendMember
  <2>3. QED
    BY <2>1, <2>2 DEF IsAnswer
<1>6. \A g, x : IsHanded(g, x)' <=> IsHanded(g, x)
  BY <1>1 DEF IsHanded
<1>7. /\ Len(outbox[c]) \in Nat
      /\ outbox'[c] = Append(outbox[c], f) /\ \A d \in Conns \ {c} : outbox'[d] = outbox[d]
      /\ Len(outbox'[c]) = Len(outbox[c]) + 1
      /\ \A p \in 1 .. Len(outbox[c]) : outbox'[c][p] = outbox[c][p]
      /\ outbox'[c][Len(outbox[c]) + 1] = f
  <2>1. outbox'[c] = Append(outbox[c], f) /\ \A d \in Conns \ {c} : outbox'[d] = outbox[d]
    BY <1>1 DEF HubTypeOK
  <2>2. QED
    BY <1>3, <2>1, AppendMember
<1>8. ASSUME NEW d \in Conns, NEW p \in 1 .. Len(outbox'[d]), NEW x \in Nat, IsReply(d, p, x)'
      PROVE  \/ p \in 1 .. Len(outbox[d]) /\ IsReply(d, p, x)
             \/ d = c /\ x = i /\ p = Len(outbox[c]) + 1
  <2>1. CASE d # c
    BY <1>7, <1>8, <2>1 DEF IsReply
  <2>2. CASE d = c /\ p \in 1 .. Len(outbox[c])
    BY <1>7, <1>8, <2>2 DEF IsReply
  <2>3. CASE d = c /\ p = Len(outbox[c]) + 1
    BY <1>7, <1>8, <2>3 DEF IsReply
  <2>4. QED
    BY <1>7, <1>8, <2>1, <2>2, <2>3
<1>9. \A d \in Conns : HubOf[d] = h =>
        \A p \in 1 .. Len(outbox[d]) : ~IsReply(d, p, i)
  BY <1>2, <1>4 DEF RepliesOpen
<1>10. ~IsHanded(h, i)
  BY <1>2, <1>4 DEF RepliesOpen
<1>11. \A g \in Hubs, x \in Nat : IsHanded(g, x)' => IsAnswer(g, x)'
  BY <1>5, <1>6 DEF RepliesOpen
<1>12. \A d \in Conns : HubOf[d] \in Hubs
  BY HubAssumption
<1>13. ASSUME NEW d \in Conns, NEW p \in 1 .. Len(outbox'[d]), NEW x \in Nat, IsReply(d, p, x)'
       PROVE  IsAnswer(HubOf[d], x)' /\ ~IsHanded(HubOf[d], x)'
  BY <1>5, <1>6, <1>8, <1>10, <1>12, <1>13 DEF RepliesOpen
<1>14. ASSUME NEW d \in Conns, NEW e \in Conns, NEW p \in 1 .. Len(outbox'[d]),
              NEW q \in 1 .. Len(outbox'[e]), NEW x \in Nat,
              HubOf[d] = HubOf[e], IsReply(d, p, x)', IsReply(e, q, x)'
       PROVE  d = e /\ p = q
  <2>1. \/ p \in 1 .. Len(outbox[d]) /\ IsReply(d, p, x)
        \/ d = c /\ x = i /\ p = Len(outbox[c]) + 1
    BY <1>8, <1>14
  <2>2. \/ q \in 1 .. Len(outbox[e]) /\ IsReply(e, q, x)
        \/ e = c /\ x = i /\ q = Len(outbox[c]) + 1
    BY <1>8, <1>14
  <2>3. QED
    BY <1>9, <1>14, <2>1, <2>2 DEF RepliesOpen
<1>15. QED
  BY <1>11, <1>13, <1>14 DEF RepliesOpen

\* Taking a frame moves the others of that connection up.
Place(c, d, p) == IF d = c THEN p + 1 ELSE p

LEMMA TookFrames ==
  ASSUME HubTypeOK, NEW c \in Conns, Took(c)
  PROVE  /\ Head(outbox[c]) = outbox[c][1] /\ Head(outbox[c]) \in Frames
         /\ 1 \in 1 .. Len(outbox[c])
         /\ \A d \in Conns : \A p \in 1 .. Len(outbox'[d]) :
              /\ Place(c, d, p) \in 1 .. Len(outbox[d])
              /\ outbox'[d][p] = outbox[d][Place(c, d, p)]
<1>1. /\ Head(outbox[c]) \in Frames
      /\ Head(outbox[c]) = outbox[c][1]
      /\ Len(outbox[c]) \in Nat \ {0}
      /\ Len(Tail(outbox[c])) = Len(outbox[c]) - 1
      /\ \A i \in 1 .. Len(outbox[c]) - 1 : Tail(outbox[c])[i] = outbox[c][i + 1]
  BY TailAt DEF HubTypeOK, Took
<1>2. outbox'[c] = Tail(outbox[c]) /\ \A d \in Conns \ {c} : outbox'[d] = outbox[d]
  BY DEF HubTypeOK, Took
<1>3. ASSUME NEW p \in 1 .. Len(outbox'[c])
      PROVE  p + 1 \in 1 .. Len(outbox[c]) /\ outbox'[c][p] = outbox[c][p + 1]
  BY <1>1, <1>2
<1>4. ASSUME NEW d \in Conns, NEW p \in 1 .. Len(outbox'[d])
      PROVE  /\ Place(c, d, p) \in 1 .. Len(outbox[d])
             /\ outbox'[d][p] = outbox[d][Place(c, d, p)]
  <2>1. CASE d = c
    BY <1>3, <1>4, <2>1 DEF Place
  <2>2. CASE d # c
    BY <1>2, <1>4, <2>2 DEF Place
  <2>3. QED
    BY <2>1, <2>2
<1>5. 1 \in 1 .. Len(outbox[c])
  BY <1>1
<1>6. QED
  BY <1>1, <1>4, <1>5

LEMMA TookNext ==
  ASSUME HubTypeOK, NEW c \in Conns, Took(c), NEW p \in 1 .. Len(outbox[c]), p # 1
  PROVE  p - 1 \in 1 .. Len(outbox'[c]) /\ outbox'[c][p - 1] = outbox[c][p]
<1>1. /\ Len(outbox[c]) \in Nat \ {0}
      /\ Len(Tail(outbox[c])) = Len(outbox[c]) - 1
      /\ \A i \in 1 .. Len(outbox[c]) - 1 : Tail(outbox[c])[i] = outbox[c][i + 1]
  BY TailAt DEF HubTypeOK, Took
<1>2. outbox'[c] = Tail(outbox[c])
  BY DEF HubTypeOK, Took
<1>3. p - 1 \in 1 .. Len(outbox[c]) - 1 /\ (p - 1) + 1 = p
  BY <1>1
<1>4. QED
  BY <1>1, <1>2, <1>3

LEMMA TookStep ==
  ASSUME HubTypeOK, RepliesOpen, NEW c \in Conns, Took(c), UNCHANGED handed \/ Hands(c)
  PROVE  RepliesOpen'
<1>1. ASSUME NEW d \in Conns, NEW p \in 1 .. Len(outbox'[d]), NEW x \in Nat, IsReply(d, p, x)'
      PROVE  Place(c, d, p) \in 1 .. Len(outbox[d]) /\ IsReply(d, Place(c, d, p), x)
  BY <1>1, TookFrames DEF IsReply
<1>2. \A h, x : IsAnswer(h, x)' <=> IsAnswer(h, x)
  BY DEF Took, IsAnswer
<1>3. \A d \in Conns : HubOf[d] \in Hubs
  BY HubAssumption
<1>4. \A d \in Conns : \A p \in 1 .. Len(outbox'[d]) : d = c => Place(c, d, p) # 1
  BY DEF Place
<1>5. ASSUME NEW d \in Conns, NEW e \in Conns, NEW p \in 1 .. Len(outbox'[d]),
             NEW q \in 1 .. Len(outbox'[e]), NEW x \in Nat,
             HubOf[d] = HubOf[e], IsReply(d, p, x)', IsReply(e, q, x)'
      PROVE  d = e /\ p = q
  <2>1. d = e /\ Place(c, d, p) = Place(c, e, q)
    BY <1>1, <1>5 DEF RepliesOpen
  <2>2. QED
    BY <2>1 DEF Place
<1>6. CASE UNCHANGED handed
  <2>1. \A h, x : IsHanded(h, x)' <=> IsHanded(h, x)
    BY <1>6 DEF IsHanded
  <2>2. QED
    BY <1>1, <1>2, <1>5, <2>1 DEF RepliesOpen
<1>7. CASE Hands(c)
  <2> DEFINE i == Head(outbox[c]).re
             h == HubOf[c]
  <2>1. IsReply(c, 1, i) /\ 1 \in 1 .. Len(outbox[c]) /\ i \in Nat
    BY <1>7, TookFrames DEF Hands, IsReply, Frames
  <2>2. IsAnswer(h, i)
    BY <2>1 DEF RepliesOpen
  <2>3. handed[h] \in Seq(Nat) /\ handed'[h] = Append(handed[h], i)
        /\ \A g \in Hubs \ {h} : handed'[g] = handed[g]
    BY <1>3, <1>7 DEF Hands, HubTypeOK
  <2>4. \A g \in Hubs, x \in Nat : IsHanded(g, x)' <=> IsHanded(g, x) \/ (g = h /\ x = i)
    <3> HIDE DEF i
    <3>1. \A x : (\E k \in 1 .. Len(handed'[h]) : handed'[h][k] = x)
                    <=> ((\E k \in 1 .. Len(handed[h]) : handed[h][k] = x) \/ x = i)
      BY <2>1, <2>3, AppendMember
    <3>2. QED
      BY <2>3, <3>1 DEF IsHanded
  <2>5. ASSUME NEW d \in Conns, NEW p \in 1 .. Len(outbox'[d]), NEW x \in Nat, IsReply(d, p, x)'
        PROVE  IsAnswer(HubOf[d], x)' /\ ~IsHanded(HubOf[d], x)'
    <3>1. HubOf[d] = h => x # i
      BY <1>1, <1>4, <2>1, <2>5 DEF RepliesOpen
    <3>2. QED
      BY <1>1, <1>2, <1>3, <2>4, <2>5, <3>1 DEF RepliesOpen
  <2>6. \A g \in Hubs, x \in Nat : IsHanded(g, x)' => IsAnswer(g, x)'
    BY <1>2, <2>2, <2>4 DEF RepliesOpen
  <2>7. QED
    BY <1>5, <2>5, <2>6 DEF RepliesOpen
<1>8. QED
  BY <1>6, <1>7

LEMMA RepliesOpenStep ==
  IInv /\ HubTypeOK /\ ReadInOrder /\ AnswersBehind /\ RepliesOpen /\ [HubNext]_hubvars
    => RepliesOpen'
<1> SUFFICES ASSUME IInv, HubTypeOK, ReadInOrder, AnswersBehind, RepliesOpen, [HubNext]_hubvars
             PROVE  RepliesOpen'
  OBVIOUS
<1>1. CASE UNCHANGED <<outbox, answers, handed>>
  <2>1. \A h, x : (IsAnswer(h, x)' <=> IsAnswer(h, x)) /\ (IsHanded(h, x)' <=> IsHanded(h, x))
    BY <1>1 DEF IsAnswer, IsHanded
  <2>2. \A c, p, x : IsReply(c, p, x)' <=> IsReply(c, p, x)
    BY <1>1 DEF IsReply
  <2>3. QED
    BY <1>1, <2>1, <2>2 DEF RepliesOpen
<1>2. ASSUME NEW c \in Conns, ReadChallenge(c) \/ SendPing(c)
      PROVE  RepliesOpen'
  <2>1. [op |-> "connect"] \in Frames /\ [op |-> "ping"] \in Frames
    BY DEF Frames
  <2>2. UNCHANGED <<answers, handed>>
        /\ (Write(c, [op |-> "connect"]) \/ Write(c, [op |-> "ping"]))
    BY <1>2 DEF ReadChallenge, SendPing
  <2>3. QED
    BY <2>1, <2>2, OtherFrameStep
<1>3. ASSUME NEW c \in Conns, Drops(c) \/ Hands(c)
      PROVE  RepliesOpen'
  BY <1>3, TookStep DEF Drops, Hands
<1>4. QED
  BY <1>1, <1>2, <1>3, ReplyStep, HubCases DEF hubside, Dial, ReadAck, ReadEvent, Disconnected

-----------------------------------------------------------------------------
(* No chat is passed over *)

\* A reader that has failed stays so.
LEMMA FailedStays ==
  ASSUME TypeOK, [Next]_vars, NEW c \in Conns, phase[c] = "failed"
  PROVE  phase'[c] = "failed"
BY DEF Next, Handshake, ReadLoop, WriterTask, Inbound, Accept, Connect, HandshakeFailure,
   SendConnectOk, ConnectOkFailure, Subscribe, Ping, ChatSend, ChannelSent, ChannelError,
   BadFrame, ReadError, PeerGone, WriterRecv, WriterLagged, WriterSend, WriterSendLost,
   WriterStop, PeerLeaves, EnterPhase, vars, TypeOK

LEMMA AtInNat ==
  ASSUME IInv, HubTypeOK, NEW c \in Conns
  PROVE  At(c) \in Nat
<1>1. Len(log) \in Nat
  BY LenProperties DEF IInv, TypeOK
<1>2. sub[c] \in 0 .. Len(log) /\ read[c] \in Nat
  BY DEF IInv, TypeOK, HubTypeOK
<1>3. QED
  BY <1>1, <1>2 DEF At

\* What was answered stays answered, and handed over what was handed over.
LEMMA HistoryGrows ==
  ASSUME IInv, HubTypeOK, [HubNext]_hubvars, NEW h \in Hubs, NEW x
  PROVE  /\ IsAnswer(h, x) => IsAnswer(h, x)'
         /\ IsHanded(h, x) => IsHanded(h, x)'
<1>1. answers[h] \in Seq(Nat) /\ handed[h] \in Seq(Nat)
  BY DEF HubTypeOK
<1>2. ASSUME NEW s \in Seq(Nat), NEW e \in Nat, NEW k \in 1 .. Len(s)
      PROVE  k \in 1 .. Len(Append(s, e)) /\ Append(s, e)[k] = s[k]
  BY <1>2, AppendMember
<1>3. \A d \in Conns : At(d) \in Nat /\ HubOf[d] \in Hubs
  BY HubAssumption, AtInNat
<1>4. answers'[h] = answers[h] \/ \E e \in Nat : answers'[h] = Append(answers[h], e)
  <2>1. ASSUME NEW d \in Conns, Reply(d)
        PROVE  answers'[h] = answers[h] \/ answers'[h] = Append(answers[h], At(d))
    BY <1>3, <2>1 DEF Reply, HubTypeOK
  <2>2. QED
    BY <1>3, <2>1, HubCases DEF hubside, Dial, ReadChallenge, ReadAck, ReadEvent, SendPing,
       Disconnected, Drops, Hands, Took
<1>5. handed'[h] = handed[h] \/ \E e \in Nat : handed'[h] = Append(handed[h], e)
  <2>1. ASSUME NEW d \in Conns, Hands(d)
        PROVE  \/ handed'[h] = handed[h]
               \/ \E e \in Nat : handed'[h] = Append(handed[h], e)
    <3>1. Head(outbox[d]).re \in Nat
      BY <2>1, TookFrames DEF Hands, Frames
    <3>2. \/ handed'[h] = handed[h]
          \/ handed'[h] = Append(handed[h], Head(outbox[d]).re)
      BY <1>3, <2>1 DEF Hands, HubTypeOK
    <3>3. QED
      BY <3>1, <3>2
  <2>2. QED
    BY <2>1, HubCases DEF hubside, Dial, ReadChallenge, ReadAck, ReadEvent, SendPing, Reply,
       Disconnected, Drops
<1>6. ASSUME IsAnswer(h, x)
      PROVE  IsAnswer(h, x)'
  <2>1. PICK k \in 1 .. Len(answers[h]) : answers[h][k] = x
    BY <1>6 DEF IsAnswer
  <2>2. CASE answers'[h] = answers[h]
    BY <1>6, <2>2 DEF IsAnswer
  <2>3. ASSUME NEW e \in Nat, answers'[h] = Append(answers[h], e)
        PROVE  k \in 1 .. Len(answers'[h]) /\ answers'[h][k] = x
    BY <1>1, <1>2, <2>1, <2>3
  <2>4. QED
    BY <1>4, <2>2, <2>3 DEF IsAnswer
<1>7. ASSUME IsHanded(h, x)
      PROVE  IsHanded(h, x)'
  <2>1. PICK k \in 1 .. Len(handed[h]) : handed[h][k] = x
    BY <1>7 DEF IsHanded
  <2>2. CASE handed'[h] = handed[h]
    BY <1>7, <2>2 DEF IsHanded
  <2>3. ASSUME NEW e \in Nat, handed'[h] = Append(handed[h], e)
        PROVE  k \in 1 .. Len(handed'[h]) /\ handed'[h][k] = x
    BY <1>1, <1>2, <2>1, <2>3
  <2>4. QED
    BY <1>5, <2>2, <2>3 DEF IsHanded
<1>8. QED
  BY <1>6, <1>7

\* A reply goes from the socket to the adapter, or with the reader.
LEMMA SettledStays ==
  ASSUME IInv, HubTypeOK, RepliesOpen, [HubNext]_hubvars,
         NEW c \in Conns, NEW x \in Nat, Settled(c, x)
  PROVE  Settled(c, x)'
<1>1. HubOf[c] \in Hubs
  BY HubAssumption
<1>2. CASE IsHanded(HubOf[c], x)
  BY <1>1, <1>2, HistoryGrows DEF Settled
<1>3. CASE phase[c] = "failed" /\ IsAnswer(HubOf[c], x)
  BY <1>1, <1>3, HistoryGrows, GatewayStep, FailedStays DEF Settled, IInv
<1>4. ASSUME NEW p \in 1 .. Len(outbox[c]), IsReply(c, p, x)
      PROVE  Settled(c, x)'
  <2>1. CASE outbox'[c] = outbox[c]
    BY <1>4, <2>1 DEF Settled, IsReply
  <2>2. ASSUME NEW f \in Frames, outbox'[c] = Append(outbox[c], f)
        PROVE  Settled(c, x)'
    <3>1. outbox[c] \in Seq(Frames)
      BY DEF HubTypeOK
    <3>2. p \in 1 .. Len(outbox'[c]) /\ outbox'[c][p] = outbox[c][p]
      BY <2>2, <3>1, AppendMember
    <3>3. QED
      BY <1>4, <3>2 DEF Settled, IsReply
  <2>3. ASSUME Took(c), p # 1
        PROVE  Settled(c, x)'
    <3>1. p - 1 \in 1 .. Len(outbox'[c]) /\ outbox'[c][p - 1] = outbox[c][p]
      BY <2>3, TookNext
    <3>2. QED
      BY <1>4, <3>1 DEF Settled, IsReply
  <2>4. ASSUME Drops(c), p = 1
        PROVE  Settled(c, x)'
    <3>1. Head(outbox[c]).op = "chat_send"
      BY <1>4, <2>4, TookFrames DEF Drops, IsReply
    <3>2. phase'[c] = "failed"
      BY <2>4, <3>1 DEF Drops, IInv, TypeOK
    <3>3. IsAnswer(HubOf[c], x)
      BY <1>4 DEF RepliesOpen
    <3>4. QED
      BY <1>1, <3>2, <3>3, HistoryGrows DEF Settled
  <2>5. ASSUME Hands(c), p = 1
        PROVE  Settled(c, x)'
    <3>1. Head(outbox[c]).re = x
      BY <1>4, <2>5, TookFrames DEF Hands, IsReply
    <3>2. handed[HubOf[c]] \in Seq(Nat) /\ handed'[HubOf[c]] = Append(handed[HubOf[c]], x)
      BY <1>1, <2>5, <3>1 DEF Hands, HubTypeOK
    <3>3. IsHanded(HubOf[c], x)'
      BY <3>2, AppendMember DEF IsHanded
    <3>4. QED
      BY <3>3 DEF Settled
  <2>6. \/ outbox'[c] = outbox[c]
        \/ \E f \in Frames : outbox'[c] = Append(outbox[c], f)
        \/ Drops(c) \/ Hands(c)
    <3>1. ASSUME NEW d \in Conns,
                 ReadChallenge(d) \/ SendPing(d) \/ Reply(d)
          PROVE  outbox'[c] = outbox[c] \/ \E f \in Frames : outbox'[c] = Append(outbox[c], f)
      <4>1. \E f \in Frames : Write(d, f)
        <5>1. At(d) \in Nat
          BY AtInNat
        <5>2. /\ [op |-> "connect"] \in Frames /\ [op |-> "ping"] \in Frames
              /\ [op |-> "chat_send", re |-> At(d)] \in Frames
          BY <5>1 DEF Frames
        <5>3. QED
          BY <3>1, <5>2 DEF ReadChallenge, SendPing, Reply
      <4>2. QED
        BY <4>1 DEF Write, HubTypeOK
    <3>2. ASSUME NEW d \in Conns, Drops(d) \/ Hands(d), d # c
          PROVE  outbox'[c] = outbox[c]
      BY <3>2 DEF Drops, Hands, Took, HubTypeOK
    <3>3. QED
      BY <3>1, <3>2, HubCases DEF hubside, Dial, ReadAck, ReadEvent, Disconnected
  <2>7. QED
    BY <2>1, <2>2, <2>3, <2>4, <2>5, <2>6 DEF Drops, Hands
<1>5. QED
  BY <1>2, <1>3, <1>4 DEF Settled

\* The gateway takes a connection when the hub dials.
LEMMA StartsByDial ==
  ASSUME TypeOK, [HubNext]_hubvars, NEW c \in Conns, phase[c] = "new"
  PROVE  phase'[c] = "new" \/ Dial(c)
<1> DEFINE Later == UNCHANGED phase \/ \E d \in Conns, to \in Phases :
                      phase[d] # "new" /\ phase' = [phase EXCEPT ![d] = to]
<1>1. ASSUME NEW d \in Conns, RunOnce(d), ~Dial(d)
      PROVE  Later
  BY <1>1 DEF RunOnce, ReadChallenge, ReadAck, ReadEvent, Reply, Disconnected, vars
<1>2. ASSUME NEW d \in Conns, ReadFrame(d)
      PROVE  Later
  <2>1. CASE ReadConnect(d)
    BY <2>1 DEF ReadConnect, Connect, EnterPhase, Phases
  <2>2. CASE ReadPing(d)
    BY <2>2 DEF ReadPing, Ping, vars
  <2>3. CASE ReadReply(d)
    BY <2>3 DEF ReadReply, ChatSend, EnterPhase, Phases
  <2>4. CASE FrameRefused(d)
    BY <2>4 DEF FrameRefused, BadFrame, EnterPhase, Phases
  <2>5. QED
    BY <1>2, <2>1, <2>2, <2>3, <2>4 DEF ReadFrame
<1>3. ASSUME NEW d \in Conns, Reader(d) \/ AdapterReturns(d)
      PROVE  Later
  BY <1>3 DEF Reader, AdapterReturns, HandshakeFailure, SendConnectOk, ConnectOkFailure,
     Subscribe, ReadError, ChannelSent, ChannelError, EnterPhase, Phases
<1>4. ASSUME NEW d \in Conns, Writer(d) \/ LinkBreaks(d)
      PROVE  Later
  BY <1>4 DEF Writer, WriterSendHub, LinkBreaks, WriterRecv, WriterLagged, WriterSend,
     WriterSendLost, PeerLeaves
<1>5. ASSUME NEW d \in Conns, Dial(d), d # c
      PROVE  phase'[c] = "new"
  BY <1>5 DEF Dial, Accept, EnterPhase, TypeOK
<1>6. Later \/ \E d \in Conns : Dial(d)
  <2>1. ASSUME UNCHANGED hubvars \/ (\E m \in Chats : Inbound(m))
                 \/ \E d \in Conns : SendPing(d)
        PROVE  Later
    BY <2>1 DEF hubvars, Inbound, SendPing, vars
  <2> HIDE DEF Later
  <2>2. QED
    BY <1>1, <1>2, <1>3, <1>4, <2>1 DEF HubNext
<1>7. Later => phase'[c] = "new"
  BY DEF TypeOK
<1>8. QED
  BY <1>5, <1>6, <1>7

\* What a hub has read is in the log, where its feed says.
LEMMA ReadInLog ==
  ASSUME IInv, HubTypeOK, NEW c \in Conns, NEW i \in 1 .. read[c]
  PROVE  /\ read[c] \in Nat /\ i \in 1 .. Len(delivered[c])
         /\ sub[c] \in Nat /\ sub[c] + i \in 1 .. Len(log)
         /\ writer[c] # "none"
<1>1. /\ sub[c] \in Nat /\ read[c] \in Nat /\ Len(log) \in Nat /\ Len(delivered[c]) \in Nat
      /\ read[c] <= Len(delivered[c])
  BY LenProperties DEF IInv, TypeOK, HubTypeOK
<1>2. i \in 1 .. Len(delivered[c])
  BY <1>1
<1>3. sub[c] + i <= Len(log)
  BY <1>1, <1>2 DEF IInv, FeedIsLogSlice
<1>4. writer[c] # "none"
  <2>1. Len(delivered[c]) # 0
    BY <1>1, <1>2
  <2>2. delivered[c] # <<>>
    BY <2>1, EmptySeq
  <2>3. QED
    BY <2>2 DEF IInv, CursorMatchesFeed
<1>5. sub[c] + i \in 1 .. Len(log)
  BY <1>1, <1>2, <1>3
<1>6. QED
  BY <1>1, <1>2, <1>4, <1>5

\* Dial and the gateway's Accept are one step; a hub makes a connection when it
\* is through with the one before, so that a feed begins behind what was read.
LEMMA DoneIsPastStep ==
  IInv /\ HubTypeOK /\ OneAtATime /\ ReadInOrder /\ DoneIsPast /\ [HubNext]_hubvars
    => DoneIsPast'
<1> SUFFICES ASSUME IInv, HubTypeOK, OneAtATime, ReadInOrder, DoneIsPast, [HubNext]_hubvars
             PROVE  DoneIsPast'
  OBVIOUS
<1>1. [Next]_vars
  BY GatewayStep DEF IInv
<1>2. ASSUME NEW c \in Conns, stage'[c] = "unused"
      PROVE  phase'[c] = "new"
  <2>1. stage[c] = "unused" /\ ~Dial(c)
    <3>1. ASSUME NEW d \in Conns, NEW to \in Stages \ {"unused"},
                 stage' = [stage EXCEPT ![d] = to]
          PROVE  stage[c] = "unused"
      BY <1>2, <3>1 DEF HubTypeOK
    <3>2. ASSUME NEW d \in Conns, Dial(d) \/ ReadChallenge(d) \/ ReadAck(d) \/ ReadEvent(d)
                   \/ Reply(d) \/ Disconnected(d)
          PROVE  stage[c] = "unused"
      BY <3>1, <3>2 DEF Dial, ReadChallenge, ReadAck, ReadEvent, Reply, Disconnected,
         EnterStage, Stages
    <3>3. stage[c] = "unused"
      BY <1>2, <3>2, HubCases DEF hubside, SendPing, Drops, Hands, Took
    <3>4. ~Dial(c)
      BY <1>2 DEF Dial, EnterStage, HubTypeOK
    <3>5. QED
      BY <3>3, <3>4
  <2>2. phase[c] = "new"
    BY <2>1 DEF DoneIsPast
  <2>3. QED
    BY <2>1, <2>2, StartsByDial DEF IInv
<1>3. ASSUME NEW c \in Conns, NEW d \in Conns, HubOf[c] = HubOf[d], c < d,
             writer'[d] # "none", read'[c] # 0
      PROVE  At(c)' <= sub'[d]
  <2>1. stage[d] # "unused" /\ stage[c] = "done"
    <3>1. ASSUME stage[d] = "unused"
          PROVE  FALSE
      <4>1. phase[d] = "new"
        BY <3>1 DEF DoneIsPast
      <4>2. phase'[d] \in {"new", "hello"}
        BY <4>1, StartsByDial DEF IInv, TypeOK, Dial, Accept, EnterPhase
      <4>3. WriterMatchesReader'
        BY GatewayInvStep DEF IInv
      <4>4. QED
        BY <1>3, <4>2, <4>3 DEF WriterMatchesReader
    <3>2. QED
      BY <1>3, <3>1 DEF OneAtATime
  <2>2. read'[c] = read[c]
    <3>1. ASSUME NEW e \in Conns, ReadEvent(e)
          PROVE  read'[c] = read[c]
      BY <2>1, <3>1 DEF ReadEvent, EnterStage, HubTypeOK
    <3>2. QED
      BY <3>1, HubCases DEF hubside, Dial, ReadChallenge, ReadAck, SendPing, Reply,
         Disconnected, Drops, Hands, Took
  <2>3. At(c)' = At(c) /\ At(c) \in Nat
    BY <1>1, <1>3, <2>2, AtStep DEF At
  <2>4. At(c) <= Len(log) /\ read[c] # 0
    <3>1. read[c] \in 1 .. read[c]
      BY <1>3, <2>2 DEF HubTypeOK
    <3>2. QED
      BY <1>3, <2>2, <3>1, ReadInLog DEF At
  <2>5. CASE writer[d] = "none"
    BY <1>1, <1>3, <2>3, <2>4, <2>5, FeedGrows
  <2>6. CASE writer[d] # "none"
    BY <1>1, <1>3, <2>2, <2>3, <2>6, FeedGrows DEF DoneIsPast
  <2>7. QED
    BY <2>5, <2>6
<1>4. QED
  BY <1>2, <1>3 DEF DoneIsPast

\* The one chat that has no reply: a hub which thinks has not answered it, and
\* one that is through with the connection will not.
LEMMA NoChatPassedOverStep ==
  HubInv /\ AnswersBehind' /\ [HubNext]_hubvars => NoChatPassedOver'
<1> SUFFICES ASSUME HubInv, AnswersBehind', [HubNext]_hubvars
             PROVE  NoChatPassedOver'
  OBVIOUS
<1>1. [Next]_vars
  BY GatewayStep DEF HubInv, IInv
<1>2. IInv /\ TypeOK /\ HubTypeOK /\ OneAtATime /\ ReadInOrder /\ RepliesOpen /\ DoneIsPast
  BY DEF HubInv, IInv
<1>3. ASSUME NEW c \in Conns, NEW d \in Conns, Reply(d), c # d, HubOf[c] = HubOf[d],
             stage[c] \in {"thinking", "done"}, NEW i \in 1 .. read[c]
      PROVE  At(d) # sub[c] + read[c]
  <2>1. stage[d] = "thinking" /\ stage[d] \in Running
    BY <1>3 DEF Reply, EnterStage, Running
  <2>2. stage[c] = "done"
    BY <1>2, <1>3, <2>1, OneRunning DEF Running
  <2>3. c < d
    BY <1>2, <1>3, <2>1, <2>2, HubAssumption DEF OneAtATime
  <2>4. writer[d] # "none" /\ read[d] > 0
    BY <1>2, <2>1, ThinkingOf DEF ReadInOrder
  <2>5. read[c] # 0 /\ read[c] \in Nat /\ read[d] \in Nat
    BY <1>2, <1>3 DEF HubTypeOK
  <2>6. At(c) <= sub[d]
    BY <1>2, <1>3, <2>3, <2>4, <2>5 DEF DoneIsPast
  <2>7. sub[c] \in Nat /\ sub[d] \in Nat
    <3>1. read[d] \in 1 .. read[d]
      BY <2>4, <2>5
    <3>2. QED
      BY <1>2, <1>3, <3>1, ReadInLog
  <2>8. QED
    BY <2>4, <2>5, <2>6, <2>7 DEF At
<1>4. ASSUME NEW c \in Conns, NEW i \in 1 .. read[c], delivered'[c][i] \in Answerable,
             NEW x \in Nat, x = sub'[c] + i, ~Settled(c, x)'
      PROVE  /\ i = read'[c] /\ stage'[c] \in {"thinking", "done"}
             /\ ~IsAnswer(HubOf[c], x)'
  <2>1. /\ i \in 1 .. Len(delivered[c]) /\ writer[c] # "none" /\ read[c] \in Nat
        /\ HubOf[c] \in Hubs
    BY <1>2, ReadInLog, HubAssumption
  <2>2. x = sub[c] + i /\ delivered[c][i] \in Answerable
    BY <1>1, <1>2, <1>4, <2>1, FeedGrows
  <2>3. ~Settled(c, x)
    BY <1>2, <1>4, SettledStays
  <2>4. i = read[c] /\ stage[c] \in {"thinking", "done"} /\ ~IsAnswer(HubOf[c], x)
    <3>1. Settled(c, sub[c] + i) \/ (/\ i = read[c] /\ stage[c] \in {"thinking", "done"}
                                    /\ ~IsAnswer(HubOf[c], sub[c] + i))
      BY <2>2 DEF HubInv, NoChatPassedOver
    <3>2. QED
      BY <2>2, <2>3, <3>1
  <2>5. x = At(c)
    BY <2>2, <2>4 DEF At
  <2>6. ~Reply(c)
    <3> SUFFICES ASSUME Reply(c)
                 PROVE  FALSE
      OBVIOUS
    <3>1. [op |-> "chat_send", re |-> x] \in Frames /\ outbox[c] \in Seq(Frames)
      BY <1>2 DEF Frames, HubTypeOK
    <3>2. outbox'[c] = Append(outbox[c], [op |-> "chat_send", re |-> x])
      BY <1>2, <2>5 DEF Reply, Write, HubTypeOK
    <3>3. /\ Len(outbox[c]) + 1 \in 1 .. Len(outbox'[c])
          /\ outbox'[c][Len(outbox[c]) + 1] = [op |-> "chat_send", re |-> x]
      BY <3>1, <3>2, AppendMember
    <3>4. QED
      BY <1>4, <3>3 DEF Settled, IsReply
  <2>7. read'[c] = read[c]
    <3>1. ASSUME NEW e \in Conns, ReadEvent(e)
          PROVE  read'[c] = read[c]
      BY <1>2, <2>4, <3>1 DEF ReadEvent, EnterStage, HubTypeOK
    <3>2. QED
      BY <3>1, HubCases DEF hubside, Dial, ReadChallenge, ReadAck, SendPing, Reply,
         Disconnected, Drops, Hands, Took
  <2>8. stage'[c] \in {"thinking", "done"}
    <3>1. ASSUME NEW e \in Conns, Dial(e) \/ ReadChallenge(e) \/ ReadAck(e) \/ Reply(e)
                   \/ Disconnected(e)
          PROVE  stage'[c] \in {"thinking", "done"}
      BY <1>2, <2>4, <2>6, <3>1 DEF Dial, ReadChallenge, ReadAck, Reply, Disconnected,
         EnterStage, HubTypeOK
    <3>2. ASSUME NEW e \in Conns, ReadEvent(e)
          PROVE  stage'[c] \in {"thinking", "done"}
      BY <1>2, <2>4, <3>2 DEF ReadEvent, EnterStage, HubTypeOK
    <3>3. QED
      BY <2>4, <3>1, <3>2, HubCases DEF hubside, SendPing, Drops, Hands, Took
  <2>9. ~IsAnswer(HubOf[c], x)'
    <3>1. CASE UNCHANGED answers
      BY <2>4, <3>1 DEF IsAnswer
    <3>2. ASSUME NEW d \in Conns, Reply(d)
          PROVE  ~IsAnswer(HubOf[c], x)'
      <4>1. answers' = [answers EXCEPT ![HubOf[d]] = Append(@, At(d))] /\ d # c
        BY <2>6, <3>2 DEF Reply
      <4>2. CASE HubOf[d] # HubOf[c]
        BY <1>2, <2>1, <2>4, <4>1, <4>2 DEF IsAnswer, HubTypeOK
      <4>3. CASE HubOf[d] = HubOf[c]
        <5>1. At(d) # x /\ At(d) \in Nat
          BY <1>2, <1>3, <2>2, <2>4, <3>2, <4>1, <4>3, AtInNat
        <5>2. /\ answers[HubOf[c]] \in Seq(Nat)
              /\ answers'[HubOf[c]] = Append(answers[HubOf[c]], At(d))
          BY <1>2, <2>1, <4>1, <4>3 DEF HubTypeOK
        <5>3. (\E k \in 1 .. Len(answers'[HubOf[c]]) : answers'[HubOf[c]][k] = x)
                 => \E k \in 1 .. Len(answers[HubOf[c]]) : answers[HubOf[c]][k] = x
          BY <5>1, <5>2, AppendMember
        <5>4. QED
          BY <2>4, <5>3 DEF IsAnswer
      <4>4. QED
        BY <4>2, <4>3
    <3>3. QED
      BY <3>1, <3>2, HubCases DEF hubside, Dial, ReadChallenge, ReadAck, ReadEvent, SendPing,
         Disconnected, Drops, Hands, Took
  <2>10. QED
    BY <2>4, <2>7, <2>8, <2>9
<1>5. ASSUME NEW c \in Conns, NEW i \in 1 .. read'[c], i \notin 1 .. read[c],
             delivered'[c][i] \in Answerable, NEW x \in Nat, x = sub'[c] + i
      PROVE  /\ i = read'[c] /\ stage'[c] \in {"thinking", "done"}
             /\ ~IsAnswer(HubOf[c], x)'
  <2>1. read[c] \in Nat /\ read'[c] # read[c]
    BY <1>2, <1>5 DEF HubTypeOK
  <2>2. ReadEvent(c)
    <3>1. ASSUME NEW e \in Conns, ReadEvent(e), e # c
          PROVE  read'[c] = read[c]
      BY <1>2, <3>1 DEF ReadEvent, HubTypeOK
    <3>2. QED
      BY <2>1, <3>1, HubCases DEF hubside, Dial, ReadChallenge, ReadAck, SendPing, Reply,
         Disconnected, Drops, Hands, Took
  <2>3. /\ read'[c] = read[c] + 1 /\ read[c] < Len(delivered[c])
        /\ UNCHANGED vars
        /\ stage'[c] = IF delivered[c][read[c] + 1] \in Answerable THEN "thinking" ELSE "ready"
    BY <1>2, <2>2 DEF ReadEvent, EnterStage, HubTypeOK
  <2>4. i = read'[c]
    BY <1>5, <2>1, <2>3
  <2>5. stage'[c] = "thinking"
    BY <1>5, <2>3, <2>4 DEF vars
  <2>6. writer'[c] # "none"
    <3>1. writer[c] # "none"
      BY <1>2, <2>1, <2>3, EmptySeq, LenProperties DEF IInv, CursorMatchesFeed
    <3>2. QED
      BY <2>3, <3>1 DEF vars
  <2>7. \A k \in 1 .. Len(answers'[HubOf[c]]) : answers'[HubOf[c]][k] < x
    BY <1>5, <2>4, <2>5, <2>6 DEF AnswersBehind, At, Running
  <2>8. \A k \in 1 .. Len(answers'[HubOf[c]]) : answers'[HubOf[c]][k] # x
    BY <1>5, <2>7
  <2>9. QED
    BY <2>4, <2>5, <2>8 DEF IsAnswer
<1>6. ASSUME NEW c \in Conns, NEW i \in 1 .. read'[c]
      PROVE  sub'[c] + i \in Nat
  <2>1. IInv' /\ HubTypeOK'
    BY <1>2, GatewayInvStep, HubTypeStep
  <2>2. Len(log') \in Nat /\ sub'[c] \in 0 .. Len(log') /\ read'[c] \in Nat
    BY <2>1, LenProperties DEF IInv, TypeOK, HubTypeOK
  <2>3. QED
    BY <2>2
<1>7. QED
  <2> SUFFICES ASSUME NEW c \in Conns, NEW i \in 1 .. read'[c],
                      delivered'[c][i] \in Answerable
               PROVE  \/ Settled(c, sub[c] + i)'
                      \/ /\ i = read'[c] /\ stage'[c] \in {"thinking", "done"}
                         /\ ~IsAnswer(HubOf[c], sub[c] + i)'
    BY DEF NoChatPassedOver
  <2>1. PICK x \in Nat : x = sub'[c] + i
    BY <1>6
  <2>2. \/ Settled(c, x)'
        \/ /\ i = read'[c] /\ stage'[c] \in {"thinking", "done"}
           /\ ~IsAnswer(HubOf[c], x)'
    BY <1>4, <1>5, <2>1
  <2>3. Settled(c, sub[c] + i)' <=> Settled(c, x)'
    BY <2>1 DEF Settled, IsAnswer, IsHanded, IsReply
  <2>4. IsAnswer(HubOf[c], sub[c] + i)' <=> IsAnswer(HubOf[c], x)'
    BY <2>1 DEF IsAnswer
  <2>5. QED
    BY <2>2, <2>3, <2>4

-----------------------------------------------------------------------------
(* Invariance *)

LEMMA HubInitInv == HubInit => HubInv
<1> SUFFICES ASSUME HubInit
             PROVE  HubInv
  OBVIOUS
<1>1. IInv
  BY InitInv DEF HubInit
<1>2. HubTypeOK
  BY EmptySeq DEF HubInit, Init, HubTypeOK, Stages
<1>3. OneAtATime /\ ReadInOrder
  BY DEF HubInit, OneAtATime, ReadInOrder
<1>4. (\A c \in Conns : Len(outbox[c]) = 0)
      /\ \A h \in Hubs : Len(answers[h]) = 0 /\ Len(handed[h]) = 0
  BY EmptySeq DEF HubInit
<1>5. AnswersBehind
  BY <1>4, HubAssumption DEF AnswersBehind
<1>6. RepliesOpen
  <2>1. \A h \in Hubs : 1 .. Len(handed[h]) = {}
    BY <1>4
  <2>2. \A c \in Conns : 1 .. Len(outbox[c]) = {}
    BY <1>4
  <2>3. QED
    BY <2>1, <2>2 DEF RepliesOpen, IsHanded
<1>7. DoneIsPast /\ NoChatPassedOver
  <2>1. \A c \in Conns : phase[c] = "new" /\ writer[c] = "none" /\ read[c] = 0
    BY DEF HubInit, Init
  <2>2. \A c \in Conns : 1 .. read[c] = {}
    BY <2>1
  <2>3. QED
    BY <2>1, <2>2 DEF DoneIsPast, NoChatPassedOver
<1>8. QED
  BY <1>1, <1>2, <1>3, <1>5, <1>6, <1>7 DEF HubInv

LEMMA HubInvStep == HubInv /\ [HubNext]_hubvars => HubInv'
BY GatewayInvStep, HubTypeStep, OneAtATimeStep, ReadInOrderStep, AnswersBehindStep,
   RepliesOpenStep, DoneIsPastStep, NoChatPassedOverStep DEF HubInv

\* The inductive invariant of the composition: where a hub stands in the log,
\* what it answered, and where its replies are.
THEOREM HubInvariance == HubSpec => []HubInv
BY HubInitInv, HubInvStep, PTL DEF HubSpec

\* The hubs' side keeps its types; no hub has read more than was delivered.
THEOREM HubTypeCorrect == HubSpec => []HubTypeOK
<1>1. HubInv => HubTypeOK
  BY DEF HubInv
<1>2. QED
  BY <1>1, HubInvariance, PTL

\* No chat a hub has read on any connection is passed over: its reply can be
\* named, on its way, handed over or gone with the gateway's reader, except that
\* the last one of a connection may be unanswered, and then stays so.
THEOREM NoChatIsPassedOver == HubSpec => []NoChatPassedOver
<1>1. HubInv => NoChatPassedOver
  BY DEF HubInv
<1>2. QED
  BY <1>1, HubInvariance, PTL

\* The other way round: whatever a hub answers, or has handed to a platform, is
\* a chat with a text that was delivered to it and that it read.
AnswersWereRead ==
  \A h \in Hubs : \A x \in Nat : IsAnswer(h, x) \/ IsHanded(h, x) =>
    \E c \in Conns : \E i \in 1 .. read[c] :
      HubOf[c] = h /\ x = sub[c] + i /\ delivered[c][i] \in Answerable

\* A chat that was read stays read, at its place.
LEMMA ReadStays ==
  ASSUME IInv, HubTypeOK, [HubNext]_hubvars, NEW c \in Conns, NEW i \in 1 .. read[c]
  PROVE  i \in 1 .. read'[c] /\ sub'[c] = sub[c] /\ delivered'[c][i] = delivered[c][i]
<1>1. [Next]_vars
  BY GatewayStep DEF IInv
<1>2. read[c] \in Nat /\ i \in 1 .. Len(delivered[c]) /\ writer[c] # "none"
  BY ReadInLog
<1>3. read'[c] \in {read[c], read[c] + 1}
  <2>1. ASSUME NEW e \in Conns, ReadEvent(e)
        PROVE  read'[c] \in {read[c], read[c] + 1}
    BY <2>1 DEF ReadEvent, HubTypeOK
  <2>2. QED
    BY <2>1, HubCases DEF hubside, Dial, ReadChallenge, ReadAck, SendPing, Reply,
       Disconnected, Drops, Hands, Took
<1>4. i \in 1 .. read'[c]
  BY <1>2, <1>3
<1>5. QED
  BY <1>1, <1>2, <1>4, FeedGrows

LEMMA AnswersWereReadStep ==
  HubInv /\ HubInv' /\ AnswersWereRead /\ [HubNext]_hubvars => AnswersWereRead'
<1> SUFFICES ASSUME HubInv, HubInv', AnswersWereRead, [HubNext]_hubvars,
                    NEW h \in Hubs, NEW x \in Nat, IsAnswer(h, x)' \/ IsHanded(h, x)'
             PROVE  \E c \in Conns : \E i \in 1 .. read'[c] :
                      HubOf[c] = h /\ x = sub'[c] + i /\ delivered'[c][i] \in Answerable
  BY DEF AnswersWereRead, IsAnswer, IsHanded
<1>1. IInv /\ HubTypeOK /\ ReadInOrder
  BY DEF HubInv
<1>2. IsAnswer(h, x)'
  BY DEF HubInv, RepliesOpen
<1>3. CASE IsAnswer(h, x)
  <2>1. PICK c \in Conns : \E i \in 1 .. read[c] :
          HubOf[c] = h /\ x = sub[c] + i /\ delivered[c][i] \in Answerable
    BY <1>3 DEF AnswersWereRead
  <2>2. PICK i \in 1 .. read[c] :
          HubOf[c] = h /\ x = sub[c] + i /\ delivered[c][i] \in Answerable
    BY <2>1
  <2>3. QED
    BY <1>1, <2>2, ReadStays
<1>4. ASSUME NEW c \in Conns, Reply(c), ~IsAnswer(h, x)
      PROVE  /\ HubOf[c] = h /\ x = sub[c] + read[c] /\ read[c] \in 1 .. read[c]
             /\ delivered[c][read[c]] \in Answerable
  <2>1. stage[c] = "thinking" /\ HubOf[c] \in Hubs /\ At(c) \in Nat
        /\ answers' = [answers EXCEPT ![HubOf[c]] = Append(@, At(c))]
    BY <1>1, <1>4, AtInNat, HubAssumption DEF Reply, EnterStage
  <2>2. answers[HubOf[c]] \in Seq(Nat)
        /\ answers'[HubOf[c]] = Append(answers[HubOf[c]], At(c))
    BY <1>1, <2>1 DEF HubTypeOK
  <2>3. HubOf[c] = h
    BY <1>1, <1>2, <1>4, <2>1 DEF HubTypeOK, IsAnswer
  <2>4. \A y : (\E k \in 1 .. Len(answers'[h]) : answers'[h][k] = y)
                  => (\E k \in 1 .. Len(answers[h]) : answers[h][k] = y) \/ y = At(c)
    BY <2>1, <2>2, <2>3, AppendMember
  <2>5. x = At(c)
    BY <1>2, <1>4, <2>4 DEF IsAnswer
  <2>6. read[c] > 0 /\ read[c] \in Nat /\ delivered[c][read[c]] \in Answerable
    BY <1>1, <2>1 DEF ReadInOrder, HubTypeOK
  <2>7. QED
    BY <2>3, <2>5, <2>6 DEF At
<1>5. CASE ~IsAnswer(h, x)
  <2>1. \E c \in Conns : Reply(c)
    <3>1. UNCHANGED answers => FALSE
      BY <1>2, <1>5 DEF IsAnswer
    <3>2. QED
      BY <3>1, HubCases DEF hubside, Dial, ReadChallenge, ReadAck, ReadEvent, SendPing,
         Disconnected, Drops, Hands, Took
  <2>2. PICK c \in Conns : Reply(c)
    BY <2>1
  <2>3. /\ HubOf[c] = h /\ x = sub[c] + read[c] /\ read[c] \in 1 .. read[c]
        /\ delivered[c][read[c]] \in Answerable
    BY <1>4, <1>5, <2>2
  <2>4. /\ read[c] \in 1 .. read'[c] /\ sub'[c] = sub[c]
        /\ delivered'[c][read[c]] = delivered[c][read[c]]
    BY <1>1, <2>2, <2>3, ReadStays
  <2>5. QED
    BY <2>3, <2>4
<1>6. QED
  BY <1>3, <1>5

\* Together with NoChatIsPassedOver: the answers of a hub are the chats with a
\* text that it read, but for the last of a connection that went meanwhile.
THEOREM OnlyReadChatsAreAnswered == HubSpec => []AnswersWereRead
<1>1. HubInit => AnswersWereRead
  <2>1. HubInit => \A h \in Hubs : 1 .. Len(answers[h]) = {} /\ 1 .. Len(handed[h]) = {}
    BY EmptySeq DEF HubInit
  <2>2. QED
    BY <2>1 DEF AnswersWereRead, IsAnswer, IsHanded
<1>2. QED
  BY <1>1, HubInvariance, AnswersWereReadStep, PTL DEF HubSpec

-----------------------------------------------------------------------------
(* The composition implements ChatAnswers *)

\* What a step does to the log, the answers and what was handed over.
LEMMA HistoryStep ==
  ASSUME TypeOK, [HubNext]_hubvars
  PROVE  \/ UNCHANGED <<log, answers, handed>>
         \/ /\ UNCHANGED <<answers, handed>>
            /\ \E e \in Chats \cup {Pong} : log' = Append(log, e)
         \/ UNCHANGED <<log, handed>> /\ \E c \in Conns : Reply(c)
         \/ UNCHANGED <<log, answers>> /\ \E c \in Conns : Hands(c)
<1>1. ASSUME NEW m \in Chats, Inbound(m), UNCHANGED hubside
      PROVE  /\ UNCHANGED <<answers, handed>>
             /\ log' = log \/ log' = Append(log, m)
  BY <1>1 DEF Inbound, hubside, ring
<1>2. ASSUME NEW c \in Conns, RunOnce(c)
      PROVE  UNCHANGED <<log, handed>> /\ (UNCHANGED answers \/ Reply(c))
  BY <1>2 DEF RunOnce, Dial, ReadChallenge, ReadAck, ReadEvent, Reply, Disconnected, Accept,
     ring, vars
<1>3. ASSUME NEW c \in Conns, SendPing(c)
      PROVE  UNCHANGED <<log, answers, handed>>
  BY <1>3 DEF SendPing, vars
<1>4. ASSUME NEW c \in Conns, ReadFrame(c)
      PROVE  /\ UNCHANGED answers
             /\ \/ UNCHANGED <<log, handed>>
                \/ log' = Append(log, Pong) /\ UNCHANGED handed
                \/ UNCHANGED log /\ Hands(c)
  <2>1. CASE ReadConnect(c) \/ FrameRefused(c)
    BY <2>1 DEF ReadConnect, FrameRefused, Connect, BadFrame, ring
  <2>2. CASE ReadPing(c)
    BY <2>2 DEF ReadPing, Ping, vars
  <2>3. CASE ReadReply(c)
    BY <2>3 DEF ReadReply, ChatSend, ring, Hand, Hands, Took, TakeFrame
  <2>4. QED
    BY <1>4, <2>1, <2>2, <2>3 DEF ReadFrame
<1>5. ASSUME NEW c \in Conns, Reader(c) \/ AdapterReturns(c) \/ Writer(c) \/ LinkBreaks(c),
             UNCHANGED hubside
      PROVE  UNCHANGED <<log, answers, handed>>
  BY <1>5 DEF Reader, AdapterReturns, Writer, WriterSendHub, LinkBreaks, HandshakeFailure,
     SendConnectOk, ConnectOkFailure, Subscribe, ReadError, ChannelSent, ChannelError,
     WriterRecv, WriterLagged, WriterSend, WriterSendLost, PeerLeaves, ring, hubside
<1>6. CASE UNCHANGED hubvars
  BY <1>6 DEF hubvars, hubside, vars
<1>7. QED
  BY <1>1, <1>2, <1>3, <1>4, <1>5, <1>6 DEF HubNext

LEMMA InitPromise == HubInit => Promise!Init
BY DEF HubInit, Init, Promise!Init

LEMMA StepPromise == HubInv /\ [HubNext]_hubvars => [Promise!Next]_(Promise!vars)
<1> SUFFICES ASSUME HubInv, [HubNext]_hubvars
             PROVE  [Promise!Next]_(Promise!vars)
  OBVIOUS
<1>1. TypeOK /\ IInv /\ HubTypeOK /\ ReadInOrder /\ AnswersBehind /\ RepliesOpen
  BY DEF HubInv, IInv
<1>2. CASE UNCHANGED <<log, answers, handed>>
  BY <1>2 DEF Promise!vars
<1>3. ASSUME NEW e \in Chats \cup {Pong}, log' = Append(log, e), UNCHANGED <<answers, handed>>
      PROVE  Promise!Next
  BY <1>3 DEF Promise!Next, Promise!Publish
<1>4. ASSUME NEW c \in Conns, Reply(c), UNCHANGED <<log, handed>>
      PROVE  Promise!Next
  <2> DEFINE h == HubOf[c]
             i == At(c)
  <2>1. /\ stage[c] = "thinking"
        /\ answers' = [answers EXCEPT ![h] = Append(@, i)]
    BY <1>4 DEF Reply, EnterStage
  <2>2. /\ h \in Hubs /\ writer[c] # "none" /\ i \in 1 .. Len(log)
        /\ log[i] \in Answerable
        /\ answers[h] \in Seq(Nat) /\ log \in Seq(Events)
    BY <1>1, <2>1, ThinkingOf, HubAssumption DEF HubTypeOK, TypeOK
  <2>3. DOMAIN log = 1 .. Len(log) /\ DOMAIN answers[h] = 1 .. Len(answers[h])
    BY <2>2, LenProperties
  <2>4. \A k \in 1 .. Len(answers[h]) : answers[h][k] < i
    BY <1>1, <2>1, <2>2 DEF AnswersBehind, Running
  <2>5. i \in DOMAIN log /\ \A k \in DOMAIN answers[h] : answers[h][k] < i
    BY <2>2, <2>3, <2>4
  <2>6. Promise!Answer(h, i)
    BY <1>4, <2>1, <2>2, <2>5 DEF Promise!Answer
  <2>7. QED
    BY <2>2, <2>5, <2>6 DEF Promise!Next
<1>5. ASSUME NEW c \in Conns, Hands(c), UNCHANGED <<log, answers>>
      PROVE  Promise!Next
  <2> DEFINE h == HubOf[c]
             i == Head(outbox[c]).re
  <2>1. Took(c) /\ handed' = [handed EXCEPT ![h] = Append(@, i)] /\ h \in Hubs
    BY <1>5, HubAssumption DEF Hands
  <2>2. IsReply(c, 1, i) /\ 1 \in 1 .. Len(outbox[c]) /\ i \in Nat
    BY <1>1, <1>5, <2>1, TookFrames DEF Hands, IsReply, Frames
  <2>3. IsAnswer(h, i) /\ ~IsHanded(h, i)
    BY <1>1, <2>2 DEF RepliesOpen
  <2>4. /\ answers[h] \in Seq(Nat) /\ handed[h] \in Seq(Nat) /\ log \in Seq(Events)
        /\ Len(log) \in Nat
    BY <1>1, <2>1, LenProperties DEF HubTypeOK, TypeOK
  <2>5. /\ DOMAIN answers[h] = 1 .. Len(answers[h])
        /\ DOMAIN handed[h] = 1 .. Len(handed[h])
        /\ DOMAIN log = 1 .. Len(log)
    BY <2>4, LenProperties
  <2>6. i \in DOMAIN log
    BY <1>1, <2>1, <2>3, <2>5 DEF AnswersBehind, IsAnswer
  <2>7. Promise!Hand(h, i)
    BY <1>5, <2>1, <2>3, <2>5 DEF Promise!Hand, IsAnswer, IsHanded
  <2>8. QED
    BY <2>1, <2>6, <2>7 DEF Promise!Next
<1>6. QED
  BY <1>1, <1>2, <1>3, <1>4, <1>5, HistoryStep

\* A hub answers the chats of the log in the log's order and none twice, over
\* all the connections it makes, and no answer reaches a platform twice.
THEOREM HubImplementsAnswers == HubSpec => ImplementsChatAnswers
<1>1. HubSpec => Promise!Spec
  BY InitPromise, StepPromise, HubInvariance, PTL DEF HubSpec, Promise!Spec
<1>2. QED
  BY <1>1 DEF ImplementsChatAnswers

\* What the gateway promises its operators it keeps with hubs as operators.
THEOREM HubKeepsGatewayPromises ==
  HubSpec => /\ ImplementsOperatorFeed
             /\ []NonceLifecycle
             /\ []FeedIsLogSlice
             /\ []FeedEndsOnlyByLag
BY HubRunsGateway, GatewayImplementsFeed, NonceIsOneShot, FeedHasNoGap, OnlyLagEndsFeed
   DEF HubImplementsGateway
=============================================================================
