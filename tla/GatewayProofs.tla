--------------------------- MODULE GatewayProofs ---------------------------
(***************************************************************************)
(* Proofs about Gateway, for any number of connections, nonces and chats   *)
(* and any Capacity: the invariants the runs check, from the inductive     *)
(* invariant IInv, and that the gateway implements OperatorFeed.           *)
(***************************************************************************)
EXTENDS Gateway, SequenceTheorems, TLAPS

USE GatewayAssumption

-----------------------------------------------------------------------------
(* The log only grows *)

\* What an accepted event does to the log.
LEMMA AppendEvent ==
  ASSUME NEW s \in Seq(Events), NEW e \in Events
  PROVE  /\ Append(s, e) \in Seq(Events)
         /\ Len(s) \in Nat
         /\ Len(Append(s, e)) = Len(s) + 1
         /\ \A i \in 1 .. Len(s) : Append(s, e)[i] = s[i]
BY AppendProperties, LenProperties

\* No action shortens the log or changes an event that is in it.
LEMMA LogGrows ==
  ASSUME TypeOK, [Next]_vars
  PROVE  /\ Len(log) \in Nat
         /\ log' \in Seq(Events)
         /\ Len(log') \in Nat
         /\ Len(log') >= Len(log)
         /\ \A i \in 1 .. Len(log) : log'[i] = log[i]
<1>1. log \in Seq(Events) /\ Len(log) \in Nat
  BY LenProperties DEF TypeOK
<1>2. CASE UNCHANGED log
  BY <1>1, <1>2
<1>3. CASE \E e \in Events : log' = Append(log, e)
  <2>1. PICK e \in Events : log' = Append(log, e)
    BY <1>3
  <2>2. QED
    BY <1>1, <2>1, AppendEvent
<1>4. UNCHANGED log \/ \E e \in Events : log' = Append(log, e)
  BY DEF Next, Inbound, Handshake, Accept, Connect, HandshakeFailure,
     SendConnectOk, ConnectOkFailure, Subscribe, ReadLoop, Ping, ChatSend,
     ChannelSent, ChannelError, BadFrame, ReadError, PeerGone, WriterTask,
     WriterRecv, WriterLagged, WriterSend, WriterSendLost, WriterStop,
     PeerLeaves, vars, ring, Events
<1>5. QED
  BY <1>2, <1>3, <1>4

-----------------------------------------------------------------------------
(* Type correctness *)

\* Initially every connection is new, the log and the nonce store are empty.
LEMMA InitType == Init => TypeOK
BY DEF Init, TypeOK, Phases, WriterStates, Events

\* One step keeps the types.  The event a writer sends lies inside the log
\* because of CursorMatchesFeed.
LEMMA TypeStep == TypeOK /\ CursorMatchesFeed /\ [Next]_vars => TypeOK'
<1> SUFFICES ASSUME TypeOK, CursorMatchesFeed, [Next]_vars
             PROVE  TypeOK'
  OBVIOUS
<1> USE DEF EnterPhase, handshake, ring, feeds
<1>1. ASSUME NEW m \in Chats, Inbound(m)
      PROVE  TypeOK'
  BY <1>1, LogGrows DEF Inbound, TypeOK
<1>2. ASSUME NEW c \in Conns, Ping(c)
      PROVE  TypeOK'
  BY <1>2, LogGrows DEF Ping, TypeOK
<1>3. ASSUME NEW c \in Conns, WriterSend(c)
      PROVE  TypeOK'
  <2>1. next[c] \in 1 .. Len(log)
    BY <1>3, LenProperties DEF WriterSend, TypeOK, CursorMatchesFeed
  <2>2. Append(delivered[c], log[next[c]]) \in Seq(Events)
    BY <2>1, ElementOfSeq, AppendProperties DEF TypeOK
  <2>3. QED
    BY <1>3, <2>2 DEF WriterSend, TypeOK, WriterStates
<1>4. ASSUME NEW c \in Conns, Handshake(c)
      PROVE  TypeOK'
  <2>1. CASE Accept(c)
    BY <2>1 DEF Accept, Issue, TypeOK, Phases
  <2>2. ASSUME NEW f \in ConnectFrames, Connect(c, f)
        PROVE  TypeOK'
    BY <2>2 DEF Connect, Consume, TypeOK, Phases
  <2>3. CASE HandshakeFailure(c) \/ SendConnectOk(c) \/ ConnectOkFailure(c)
    BY <2>3 DEF HandshakeFailure, SendConnectOk, ConnectOkFailure, TypeOK, Phases
  <2>4. CASE Subscribe(c)
    BY <2>4, LenProperties DEF Subscribe, TypeOK, Phases, WriterStates
  <2>5. QED
    BY <1>4, <2>1, <2>2, <2>3, <2>4 DEF Handshake
<1>5. ASSUME NEW c \in Conns, ReadLoop(c)
      PROVE  TypeOK'
  <2>1. ASSUME NEW ch \in Channels, ChatSend(c, ch)
        PROVE  TypeOK'
    BY <2>1 DEF ChatSend, TypeOK, Phases
  <2>2. CASE ChannelSent(c) \/ ChannelError(c) \/ BadFrame(c) \/ ReadError(c)
    BY <2>2 DEF ChannelSent, ChannelError, BadFrame, ReadError, TypeOK, Phases
  <2>3. CASE PeerGone(c)
    BY <2>3 DEF PeerGone, TypeOK, Phases, WriterStates
  <2>4. QED
    BY <1>2, <1>5, <2>1, <2>2, <2>3 DEF ReadLoop
<1>6. ASSUME NEW c \in Conns, WriterTask(c)
      PROVE  TypeOK'
  <2>1. CASE WriterRecv(c)
    BY <2>1, LenProperties DEF WriterRecv, TypeOK, WriterStates
  <2>2. CASE WriterLagged(c) \/ WriterSendLost(c) \/ WriterStop(c)
    BY <2>2 DEF WriterLagged, WriterSendLost, WriterStop, TypeOK, WriterStates
  <2>3. QED
    BY <1>3, <1>6, <2>1, <2>2 DEF WriterTask
<1>7. ASSUME NEW c \in Conns, PeerLeaves(c)
      PROVE  TypeOK'
  BY <1>7 DEF PeerLeaves, TypeOK
<1>8. CASE UNCHANGED vars
  BY <1>8 DEF vars, TypeOK
<1>9. QED
  BY <1>1, <1>4, <1>5, <1>6, <1>7, <1>8 DEF Next

-----------------------------------------------------------------------------
(* The nonce store *)

\* One step keeps NonceLifecycle.  Only Accept and Connect touch the store, and
\* Connect removes the nonce of its own connection, which no other one has.
LEMMA NonceStep == TypeOK /\ NonceLifecycle /\ [Next]_vars => NonceLifecycle'
<1> SUFFICES ASSUME TypeOK, NonceLifecycle, [Next]_vars
             PROVE  NonceLifecycle'
  OBVIOUS
<1> USE DEF EnterPhase, handshake, ring, feeds
<1>1. ASSUME NEW c \in Conns, Accept(c)
      PROVE  NonceLifecycle'
  <2>1. PICK n \in Nonces \ {nonce[d] : d \in Conns} :
          /\ nonce' = [nonce EXCEPT ![c] = n]
          /\ pending' = pending \cup {n}
    BY <1>1 DEF Accept, Issue
  <2>2. \A d \in Conns : nonce[d] # n
    OBVIOUS
  <2>3. \A d \in Conns : nonce'[d] = IF d = c THEN n ELSE nonce[d]
    BY <2>1 DEF TypeOK
  <2>4. \A d \in Conns : phase'[d] = IF d = c THEN "hello" ELSE phase[d]
    BY <1>1 DEF Accept, TypeOK
  <2>5. QED
    BY <2>1, <2>2, <2>3, <2>4 DEF NonceLifecycle
<1>2. ASSUME NEW c \in Conns, NEW f \in ConnectFrames, Connect(c, f)
      PROVE  NonceLifecycle'
  <2>1. phase[c] = "hello" /\ UNCHANGED nonce
    BY <1>2 DEF Connect
  <2>2. \A d \in Conns \ {c} : phase'[d] = phase[d]
    BY <1>2 DEF Connect, TypeOK
  <2>3. CASE EarlyChecks(c, f)
    <3>1. pending' = pending \ {nonce[c]}
      BY <1>2, <2>3 DEF Connect, Consume, EarlyChecks
    <3>2. phase'[c] # "hello"
      BY <1>2 DEF Connect, TypeOK
    <3>3. nonce[c] # NoNonce
      BY <2>1 DEF NonceLifecycle, TypeOK
    <3>4. QED
      BY <2>1, <2>2, <3>1, <3>2, <3>3 DEF NonceLifecycle
  <2>4. CASE ~EarlyChecks(c, f)
    <3>1. pending' = pending /\ phase'[c] = "failed"
      BY <1>2, <2>4 DEF Connect, TypeOK
    <3>2. QED
      BY <2>1, <2>2, <3>1 DEF NonceLifecycle
  <2>5. QED
    BY <2>3, <2>4
<1>3. CASE /\ UNCHANGED <<nonce, pending>>
           /\ \A d \in Conns :
                /\ phase'[d] = "hello" => phase[d] = "hello"
                /\ phase[d] \in {"hello", "failed"} => phase'[d] \in {"hello", "failed"}
  BY <1>3 DEF NonceLifecycle
<1>4. ASSUME NEW c \in Conns,
             \/ HandshakeFailure(c)
             \/ SendConnectOk(c)
             \/ ConnectOkFailure(c)
             \/ Subscribe(c)
             \/ ReadLoop(c)
             \/ WriterTask(c)
             \/ PeerLeaves(c)
      PROVE  NonceLifecycle'
  BY <1>3, <1>4 DEF HandshakeFailure, SendConnectOk, ConnectOkFailure, Subscribe,
     ReadLoop, Ping, ChatSend, ChannelSent, ChannelError, BadFrame, ReadError,
     PeerGone, WriterTask, WriterRecv, WriterLagged, WriterSend, WriterSendLost,
     WriterStop, PeerLeaves, TypeOK
<1>5. ASSUME NEW m \in Chats, Inbound(m)
      PROVE  NonceLifecycle'
  BY <1>3, <1>5 DEF Inbound
<1>6. CASE UNCHANGED vars
  BY <1>3, <1>6 DEF vars
<1>7. QED
  BY <1>1, <1>2, <1>4, <1>5, <1>6 DEF Next, Handshake

-----------------------------------------------------------------------------
(* Reader and writer *)

\* One step keeps WriterMatchesReader: a writer exists from Subscribe on, and
\* it is aborted only when the peer has gone.
LEMMA ReaderStep ==
  TypeOK /\ WriterMatchesReader /\ [Next]_vars => WriterMatchesReader'
<1> SUFFICES ASSUME TypeOK, WriterMatchesReader, [Next]_vars
             PROVE  WriterMatchesReader'
  OBVIOUS
<1> USE DEF EnterPhase, handshake, ring, feeds, TypeOK, WriterMatchesReader
<1>1. ASSUME NEW c \in Conns, Handshake(c)
      PROVE  WriterMatchesReader'
  BY <1>1 DEF Handshake, Accept, Connect, HandshakeFailure, SendConnectOk,
     ConnectOkFailure, Subscribe
<1>2. ASSUME NEW c \in Conns, ReadLoop(c)
      PROVE  WriterMatchesReader'
  BY <1>2 DEF ReadLoop, Ping, ChatSend, ChannelSent, ChannelError, BadFrame,
     ReadError, PeerGone
<1>3. ASSUME NEW c \in Conns, WriterTask(c)
      PROVE  WriterMatchesReader'
  BY <1>3 DEF WriterTask, WriterRecv, WriterLagged, WriterSend, WriterSendLost,
     WriterStop
<1>4. ASSUME NEW c \in Conns, PeerLeaves(c)
      PROVE  WriterMatchesReader'
  BY <1>4 DEF PeerLeaves
<1>5. ASSUME NEW m \in Chats, Inbound(m)
      PROVE  WriterMatchesReader'
  BY <1>5 DEF Inbound
<1>6. CASE UNCHANGED vars
  BY <1>6 DEF vars
<1>7. QED
  BY <1>1, <1>2, <1>3, <1>4, <1>5, <1>6 DEF Next

-----------------------------------------------------------------------------
(* Cursors and feeds *)

\* The steps that leave every connection's cursor, feed and writer alone, but
\* may change its phase, lose its peer, or log an event.
LEMMA CursorFrame ==
  TypeOK /\ [Next]_vars =>
    \/ UNCHANGED <<sub, next, delivered, writer>> /\ \A c \in Conns : peer'[c] => peer[c]
    \/ \E c \in Conns : Subscribe(c) \/ PeerGone(c) \/ WriterTask(c)
<1> SUFFICES ASSUME TypeOK, [Next]_vars
             PROVE  \/ /\ UNCHANGED <<sub, next, delivered, writer>>
                       /\ \A c \in Conns : peer'[c] => peer[c]
                    \/ \E c \in Conns : Subscribe(c) \/ PeerGone(c) \/ WriterTask(c)
  OBVIOUS
<1>1. CASE UNCHANGED <<sub, next, delivered, writer, peer>>
  BY <1>1
<1>2. ASSUME NEW c \in Conns, PeerLeaves(c)
      PROVE  /\ UNCHANGED <<sub, next, delivered, writer>>
             /\ \A d \in Conns : peer'[d] => peer[d]
  BY <1>2 DEF PeerLeaves, TypeOK, feeds
<1>3. \/ UNCHANGED <<sub, next, delivered, writer, peer>>
      \/ \E c \in Conns : PeerLeaves(c) \/ Subscribe(c) \/ PeerGone(c) \/ WriterTask(c)
  BY DEF Next, Inbound, Handshake, Accept, Connect, HandshakeFailure,
     SendConnectOk, ConnectOkFailure, ReadLoop, Ping, ChatSend, ChannelSent,
     ChannelError, BadFrame, ReadError, vars, feeds
<1>4. QED
  BY <1>1, <1>2, <1>3

\* One step keeps CursorMatchesFeed: while the peer is there the cursor and the
\* feed advance together, an event in the writer's hands counting for one.
LEMMA CursorStep ==
  TypeOK /\ WriterMatchesReader /\ CursorMatchesFeed /\ [Next]_vars
    => CursorMatchesFeed'
<1> SUFFICES ASSUME TypeOK, WriterMatchesReader, CursorMatchesFeed, [Next]_vars
             PROVE  CursorMatchesFeed'
  OBVIOUS
<1> USE DEF EnterPhase, handshake, ring, feeds
<1>1. CASE /\ UNCHANGED <<sub, next, delivered, writer>>
           /\ \A c \in Conns : peer'[c] => peer[c]
  BY <1>1 DEF CursorMatchesFeed
<1>2. ASSUME NEW c \in Conns, Subscribe(c)
      PROVE  CursorMatchesFeed'
  <2>1. delivered[c] = <<>>
    BY <1>2 DEF Subscribe, WriterMatchesReader, CursorMatchesFeed
  <2>2. Len(log) \in Nat /\ Len(<<>>) = 0
    BY LenProperties DEF TypeOK
  <2>3. QED
    BY <1>2, <2>1, <2>2 DEF Subscribe, CursorMatchesFeed, TypeOK
<1>3. ASSUME NEW c \in Conns, PeerGone(c)
      PROVE  CursorMatchesFeed'
  BY <1>3 DEF PeerGone, CursorMatchesFeed, TypeOK
<1>4. ASSUME NEW c \in Conns, WriterTask(c)
      PROVE  CursorMatchesFeed'
  <2>1. CASE WriterRecv(c)
    <3>1. Len(delivered[c]) \in Nat /\ sub[c] \in Int /\ next[c] \in Int
      BY LenProperties DEF TypeOK
    <3>2. QED
      BY <2>1, <3>1 DEF WriterRecv, CursorMatchesFeed, TypeOK
  <2>2. CASE WriterSend(c)
    <3>1. next[c] \in 1 .. Len(log)
      BY <2>2, LenProperties DEF WriterSend, TypeOK, CursorMatchesFeed
    <3>2. Len(delivered'[c]) = Len(delivered[c]) + 1
      BY <2>2, <3>1, ElementOfSeq, AppendProperties DEF WriterSend, TypeOK
    <3>3. sub[c] \in Int /\ Len(delivered[c]) \in Int
      BY LenProperties DEF TypeOK
    <3>4. /\ writer'[c] = "recv"
          /\ UNCHANGED <<sub, next, peer>>
          /\ \A d \in Conns \ {c} :
               writer'[d] = writer[d] /\ delivered'[d] = delivered[d]
      BY <2>2 DEF WriterSend, TypeOK
    <3>5. peer[c] => next[c] = sub[c] + Len(delivered[c]) + 1
      BY <2>2 DEF WriterSend, CursorMatchesFeed
    <3>6. QED
      BY <3>2, <3>3, <3>4, <3>5 DEF CursorMatchesFeed
  <2>3. CASE WriterLagged(c) \/ WriterSendLost(c) \/ WriterStop(c)
    BY <2>3 DEF WriterLagged, WriterSendLost, WriterStop, CursorMatchesFeed, TypeOK
  <2>4. QED
    BY <1>4, <2>1, <2>2, <2>3 DEF WriterTask
<1>5. QED
  BY <1>1, <1>2, <1>3, <1>4, CursorFrame

\* One step keeps FeedIsLogSlice: the event appended to a feed is the one after
\* the events it holds, and the log only grows.
LEMMA SliceStep ==
  TypeOK /\ WriterMatchesReader /\ CursorMatchesFeed /\ FeedIsLogSlice /\ [Next]_vars
    => FeedIsLogSlice'
<1> SUFFICES ASSUME TypeOK, WriterMatchesReader, CursorMatchesFeed, FeedIsLogSlice,
                    [Next]_vars
             PROVE  FeedIsLogSlice'
  OBVIOUS
<1> USE DEF EnterPhase, handshake, ring, feeds
<1>1. ASSUME NEW d \in Conns, sub'[d] = sub[d], delivered'[d] = delivered[d],
             NEW i \in 1 .. Len(delivered'[d])
      PROVE  sub'[d] + i <= Len(log') /\ delivered'[d][i] = log'[sub'[d] + i]
  <2>1. sub[d] + i \in 1 .. Len(log) /\ delivered[d][i] = log[sub[d] + i]
    <3>1. Len(delivered[d]) \in Nat /\ sub[d] \in Nat /\ Len(log) \in Nat
      BY LenProperties DEF TypeOK
    <3>2. QED
      BY <1>1, <3>1 DEF FeedIsLogSlice
  <2>2. QED
    BY <1>1, <2>1, LogGrows
<1>2. CASE UNCHANGED <<sub, delivered>>
  BY <1>1, <1>2 DEF FeedIsLogSlice
<1>3. ASSUME NEW c \in Conns, Subscribe(c)
      PROVE  FeedIsLogSlice'
  <2>1. delivered'[c] = <<>> /\ Len(<<>>) = 0
    BY <1>3 DEF Subscribe, WriterMatchesReader, CursorMatchesFeed
  <2>2. \A d \in Conns \ {c} : sub'[d] = sub[d] /\ delivered'[d] = delivered[d]
    BY <1>3 DEF Subscribe, TypeOK
  <2>3. QED
    BY <1>1, <2>1, <2>2 DEF FeedIsLogSlice
<1>4. ASSUME NEW c \in Conns, WriterSend(c)
      PROVE  FeedIsLogSlice'
  <2>1. next[c] = sub[c] + Len(delivered[c]) + 1 /\ next[c] \in 1 .. Len(log)
    BY <1>4, LenProperties DEF WriterSend, TypeOK, CursorMatchesFeed
  <2>2. delivered'[c] = Append(delivered[c], log[next[c]])
    BY <1>4 DEF WriterSend, TypeOK
  <2>3. log[next[c]] \in Events
    BY <2>1, ElementOfSeq DEF TypeOK
  <2>4. /\ Len(delivered[c]) \in Nat
        /\ Len(delivered'[c]) = Len(delivered[c]) + 1
        /\ \A i \in 1 .. Len(delivered[c]) : delivered'[c][i] = delivered[c][i]
        /\ delivered'[c][Len(delivered[c]) + 1] = log[next[c]]
    BY <2>2, <2>3, AppendProperties, LenProperties DEF TypeOK
  <2>5. ASSUME NEW i \in 1 .. Len(delivered'[c])
        PROVE  sub[c] + i <= Len(log) /\ delivered'[c][i] = log[sub[c] + i]
    <3>1. CASE i \in 1 .. Len(delivered[c])
      BY <2>4, <3>1 DEF FeedIsLogSlice
    <3>2. CASE i = Len(delivered[c]) + 1
      <4>1. sub[c] + i = next[c]
        BY <2>1, <2>4, <3>2 DEF TypeOK
      <4>2. QED
        BY <2>1, <2>4, <3>2, <4>1
    <3>3. QED
      BY <2>4, <2>5, <3>1, <3>2
  <2>6. sub' = sub /\ log' = log
    BY <1>4 DEF WriterSend
  <2>7. \A d \in Conns \ {c} : delivered'[d] = delivered[d]
    BY <1>4 DEF WriterSend, TypeOK
  <2>8. QED
    BY <1>1, <2>5, <2>6, <2>7 DEF FeedIsLogSlice
<1>5. ASSUME NEW c \in Conns, PeerGone(c) \/ (WriterTask(c) /\ ~WriterSend(c))
      PROVE  UNCHANGED <<sub, delivered>>
  BY <1>5 DEF PeerGone, WriterTask, WriterRecv, WriterLagged, WriterSendLost, WriterStop
<1>6. QED
  BY <1>2, <1>3, <1>4, <1>5, CursorFrame

\* One step keeps FeedEndsOnlyByLag: a lag does not shrink, and the other ends
\* of a writer need the peer gone.
LEMMA LagStep ==
  TypeOK /\ WriterMatchesReader /\ FeedEndsOnlyByLag /\ [Next]_vars
    => FeedEndsOnlyByLag'
<1> SUFFICES ASSUME TypeOK, WriterMatchesReader, FeedEndsOnlyByLag, [Next]_vars
             PROVE  FeedEndsOnlyByLag'
  OBVIOUS
<1> USE DEF EnterPhase, handshake, ring, feeds
<1>1. /\ Len(log) \in Nat /\ Len(log') \in Nat /\ Len(log') >= Len(log)
      /\ \A d \in Conns : next[d] \in Nat
  BY LogGrows DEF TypeOK
<1>2. ASSUME NEW d \in Conns, Lagging(d), next'[d] = next[d]
      PROVE  Lagging(d)'
  BY <1>1, <1>2 DEF Lagging
<1>3. CASE /\ UNCHANGED <<sub, next, delivered, writer>>
           /\ \A c \in Conns : peer'[c] => peer[c]
  BY <1>2, <1>3 DEF FeedEndsOnlyByLag
<1>4. ASSUME NEW c \in Conns,
             UNCHANGED peer,
             \A d \in Conns \ {c} : next'[d] = next[d] /\ writer'[d] = writer[d],
             writer'[c] = "ended" /\ peer[c] => Lagging(c) /\ next'[c] = next[c]
      PROVE  FeedEndsOnlyByLag'
  BY <1>2, <1>4 DEF FeedEndsOnlyByLag
<1>5. ASSUME NEW c \in Conns, Subscribe(c)
      PROVE  FeedEndsOnlyByLag'
  BY <1>4, <1>5 DEF Subscribe, TypeOK
<1>6. ASSUME NEW c \in Conns, PeerGone(c)
      PROVE  FeedEndsOnlyByLag'
  BY <1>4, <1>6 DEF PeerGone, TypeOK
<1>7. ASSUME NEW c \in Conns, WriterTask(c)
      PROVE  FeedEndsOnlyByLag'
  BY <1>4, <1>7 DEF WriterTask, WriterRecv, WriterLagged, WriterSend,
     WriterSendLost, WriterStop, WriterMatchesReader, TypeOK
<1>8. QED
  BY <1>3, <1>5, <1>6, <1>7, CursorFrame

-----------------------------------------------------------------------------
(* The invariants *)

LEMMA InitInv == Init => IInv
<1> SUFFICES ASSUME Init
             PROVE  IInv
  OBVIOUS
<1>1. TypeOK
  BY InitType
<1>2. NonceLifecycle
  BY DEF Init, NonceLifecycle
<1>3. WriterMatchesReader /\ CursorMatchesFeed
  BY DEF Init, WriterMatchesReader, CursorMatchesFeed
<1>4. FeedIsLogSlice
  <2>1. \A c \in Conns : Len(delivered[c]) = 0
    BY DEF Init
  <2>2. QED
    BY <2>1 DEF FeedIsLogSlice
<1>5. FeedEndsOnlyByLag
  BY DEF Init, FeedEndsOnlyByLag
<1>6. QED
  BY <1>1, <1>2, <1>3, <1>4, <1>5 DEF IInv

LEMMA InvStep == IInv /\ [Next]_vars => IInv'
BY TypeStep, NonceStep, ReaderStep, CursorStep, SliceStep, LagStep DEF IInv

\* The inductive invariant of the gateway (ws.rs): the type of the state, the
\* life of a nonce, and how reader, writer, cursor and feed hang together.
THEOREM Invariance == Spec => []IInv
BY InitInv, InvStep, PTL DEF Spec

\* The state of the gateway keeps its types, every cursor staying in the log.
THEOREM TypeCorrect == Spec => []TypeOK
<1>1. IInv => TypeOK
  BY DEF IInv
<1>2. QED
  BY <1>1, Invariance, PTL

\* The nonce store (security.rs, authenticate_connect in ws.rs): nobody can use
\* up the nonce of a connection that waits for its connect frame, and a nonce
\* that authenticated a connection is gone.
THEOREM NonceIsOneShot == Spec => []NonceLifecycle
<1>1. IInv => NonceLifecycle
  BY DEF IInv
<1>2. QED
  BY <1>1, Invariance, PTL

\* The writer task of handle_socket sends an operator a stretch of the log,
\* without a gap, a repetition or a change of order.
THEOREM FeedHasNoGap == Spec => []FeedIsLogSlice
<1>1. IInv => FeedIsLogSlice
  BY DEF IInv
<1>2. QED
  BY <1>1, Invariance, PTL

\* Lag is the only way an operator that is there loses its writer.
THEOREM OnlyLagEndsFeed == Spec => []FeedEndsOnlyByLag
<1>1. IInv => FeedEndsOnlyByLag
  BY DEF IInv
<1>2. QED
  BY <1>1, Invariance, PTL

-----------------------------------------------------------------------------
(* Refinement *)

LEMMA InitFeed == Init => Feed!Init
BY DEF Init, Feed!Init, Stage

\* The stage of a connection is a matter of its writer alone.
LEMMA StageOf ==
  ASSUME TypeOK
  PROVE  /\ Stage \in [Conns -> {"out", "in", "over"}]
         /\ \A c \in Conns :
              /\ Stage[c] = "out" <=> writer[c] = "none"
              /\ Stage[c] = "in" <=> c \in Receivers
              /\ Stage[c] = "over" <=> writer[c] = "ended"
BY DEF TypeOK, Stage, WriterStates, Receivers

\* A change of one writer is a change of one stage.
LEMMA StageChange ==
  ASSUME TypeOK, TypeOK', NEW c \in Conns, NEW s \in {"out", "in", "over"},
         \A d \in Conns \ {c} : writer'[d] = writer[d], Stage'[c] = s
  PROVE  Stage' = [Stage EXCEPT ![c] = s]
<1>1. \A d \in Conns \ {c} : Stage'[d] = Stage[d]
  BY DEF Stage, TypeOK, WriterStates
<1>2. Stage \in [Conns -> {"out", "in", "over"}] /\ Stage' \in [Conns -> {"out", "in", "over"}]
  BY StageOf DEF Stage, TypeOK, WriterStates
<1>3. QED
  BY <1>1, <1>2

\* Every step of the gateway is a step of the feed, or one the feed does not see.
LEMMA StepFeed == IInv /\ IInv' /\ [Next]_vars => [Feed!Next]_(Feed!vars)
<1> SUFFICES ASSUME IInv, IInv', [Next]_vars
             PROVE  [Feed!Next]_(Feed!vars)
  OBVIOUS
<1> USE DEF EnterPhase, handshake, ring, feeds
<1>a. TypeOK /\ TypeOK' /\ WriterMatchesReader /\ CursorMatchesFeed
  BY DEF IInv
<1>b. /\ Stage \in [Conns -> {"out", "in", "over"}]
      /\ Stage' \in [Conns -> {"out", "in", "over"}]
  BY <1>a, StageOf DEF Stage, TypeOK, WriterStates
<1>1. CASE UNCHANGED <<log, sub, delivered, Stage>>
  BY <1>1 DEF Feed!vars
<1>c. ASSUME UNCHANGED writer
      PROVE  UNCHANGED Stage
  <2>1. \A c \in Conns : Stage'[c] = Stage[c]
    BY <1>a, <1>c DEF Stage, TypeOK, WriterStates
  <2>2. QED
    BY <1>b, <2>1
<1>2. CASE UNCHANGED <<log, sub, delivered, writer>>
  BY <1>1, <1>2, <1>c
<1>3. ASSUME NEW e \in Events, Receivers # {}, log' = Append(log, e),
             UNCHANGED <<sub, delivered, writer>>
      PROVE  Feed!Next
  <2>1. \E c \in Conns : Stage[c] = "in"
    BY <1>a, <1>3, StageOf DEF Receivers
  <2>2. Feed!Publish(e)
    BY <1>3, <1>c, <2>1 DEF Feed!Publish
  <2>3. QED
    BY <2>2 DEF Feed!Next
<1>4. ASSUME NEW m \in Chats, Inbound(m)
      PROVE  [Feed!Next]_(Feed!vars)
  BY <1>2, <1>3, <1>4 DEF Inbound, Events
<1>5. ASSUME NEW c \in Conns, Ping(c)
      PROVE  Feed!Next
  BY <1>3, <1>5 DEF Ping, Events
<1>6. ASSUME NEW c \in Conns, Subscribe(c)
      PROVE  Feed!Next
  <2>1. writer[c] = "none"
    BY <1>6, <1>a DEF Subscribe, WriterMatchesReader
  <2>2. Stage[c] = "out"
    BY <2>1 DEF Stage
  <2>3. /\ writer'[c] = "recv"
        /\ \A d \in Conns \ {c} : writer'[d] = writer[d]
    BY <1>6, <1>a DEF Subscribe, TypeOK
  <2>4. Stage'[c] = "in"
    BY <2>3 DEF Stage
  <2>5. Feed!Join(c)
    BY <1>6, <1>a, <2>2, <2>3, <2>4, StageChange DEF Subscribe, Feed!Join
  <2>6. QED
    BY <2>5 DEF Feed!Next
<1>7. ASSUME NEW c \in Conns, PeerGone(c)
      PROVE  UNCHANGED <<log, sub, delivered, Stage>>
  <2>1. writer[c] \in {"recv", "send", "aborted", "ended"}
    BY <1>7, <1>a DEF PeerGone, WriterMatchesReader, TypeOK, WriterStates
  <2>2. /\ writer'[c] = IF writer[c] = "ended" THEN "ended" ELSE "aborted"
        /\ \A d \in Conns \ {c} : writer'[d] = writer[d]
    BY <1>7, <1>a DEF PeerGone, TypeOK
  <2>3. Stage'[c] = Stage[c]
    BY <2>1, <2>2 DEF Stage
  <2>4. Stage' = Stage
    BY <1>a, <1>b, <2>2, <2>3, StageChange
  <2>5. QED
    BY <1>7, <2>4 DEF PeerGone
<1>8. ASSUME NEW c \in Conns, c \in Receivers, writer'[c] = "ended",
             \A d \in Conns \ {c} : writer'[d] = writer[d],
             UNCHANGED <<log, sub, delivered>>
      PROVE  Feed!Next
  <2>1. Stage[c] = "in"
    BY <1>8, <1>a, StageOf
  <2>2. Stage'[c] = "over"
    BY <1>8 DEF Stage
  <2>3. Feed!Leave(c)
    BY <1>8, <1>a, <2>1, <2>2, StageChange DEF Feed!Leave
  <2>4. QED
    BY <2>3 DEF Feed!Next
<1>9. ASSUME NEW c \in Conns, c \in Receivers, writer'[c] \in {"recv", "send"},
             \A d \in Conns \ {c} : writer'[d] = writer[d]
      PROVE  UNCHANGED Stage
  <2>1. Stage[c] = "in"
    BY <1>9, <1>a, StageOf
  <2>2. Stage'[c] = "in"
    BY <1>9 DEF Stage
  <2>3. QED
    BY <1>9, <1>a, <1>b, <2>1, <2>2, StageChange
<1>10. ASSUME NEW c \in Conns, WriterTask(c)
       PROVE  [Feed!Next]_(Feed!vars)
  <2>1. CASE WriterRecv(c)
    BY <1>1, <1>9, <1>a, <2>1 DEF WriterRecv, Receivers, TypeOK
  <2>2. CASE WriterLagged(c) \/ WriterStop(c)
    BY <1>8, <1>a, <2>2 DEF WriterLagged, WriterStop, Receivers, TypeOK
  <2>3. CASE WriterSendLost(c)
    <3>1. CASE writer'[c] = "recv"
      BY <1>1, <1>9, <1>a, <2>3, <3>1 DEF WriterSendLost, Receivers, TypeOK
    <3>2. CASE writer'[c] = "ended"
      BY <1>8, <1>a, <2>3, <3>2 DEF WriterSendLost, Receivers, TypeOK
    <3>3. QED
      BY <1>a, <2>3, <3>1, <3>2 DEF WriterSendLost, TypeOK
  <2>4. CASE WriterSend(c)
    <3>1. next[c] = sub[c] + Len(delivered[c]) + 1 /\ next[c] <= Len(log)
      BY <1>a, <2>4, LenProperties DEF WriterSend, TypeOK, CursorMatchesFeed
    <3>2. UNCHANGED Stage
      BY <1>9, <1>a, <2>4 DEF WriterSend, Receivers, TypeOK
    <3>3. Stage[c] = "in"
      BY <1>a, <2>4, StageOf DEF WriterSend, Receivers
    <3>4. Feed!See(c)
      BY <2>4, <3>1, <3>2, <3>3 DEF WriterSend, Feed!See
    <3>5. QED
      BY <3>4 DEF Feed!Next
  <2>5. QED
    BY <1>10, <2>1, <2>2, <2>3, <2>4 DEF WriterTask
<1>11. \/ UNCHANGED <<log, sub, delivered, writer>>
       \/ \E m \in Chats : Inbound(m)
       \/ \E c \in Conns : Ping(c) \/ Subscribe(c) \/ PeerGone(c) \/ WriterTask(c)
  BY DEF Next, Handshake, Accept, Connect, HandshakeFailure, SendConnectOk,
     ConnectOkFailure, ReadLoop, ChatSend, ChannelSent, ChannelError, BadFrame,
     ReadError, PeerLeaves, vars
<1>12. QED
  BY <1>1, <1>2, <1>4, <1>5, <1>6, <1>7, <1>10, <1>11

\* The gateway (the broadcast channel and the writer tasks of ws.rs) keeps the
\* promise of OperatorFeed.
THEOREM GatewayImplementsFeed == Spec => ImplementsOperatorFeed
<1>1. Spec => Feed!Spec
  BY InitFeed, StepFeed, Invariance, PTL DEF Spec, Feed!Spec
<1>2. QED
  BY <1>1 DEF ImplementsOperatorFeed
=============================================================================
