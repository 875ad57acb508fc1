-------------------------- MODULE QqIngressProofs --------------------------
(***************************************************************************)
(* Proofs about QqIngress, for any number of operators, chats and sessions.*)
(* Every step of the composition is a step of the gateway or leaves the    *)
(* gateway alone, so that what GatewayProofs proves carries over; that     *)
(* Dispatch is an Inbound step needs to know that what is in the inbox was *)
(* never published before, which is part of the invariant about the order  *)
(* of the QQ chats.                                                        *)
(***************************************************************************)
EXTENDS QqIngress, GatewayProofs

-----------------------------------------------------------------------------
(* One step maps to a step of the gateway *)

LEMMA NotHandledYet ==
  ASSUME InboxAhead, NEW i \in 1 .. Len(inbox), inbox \in Seq(QqChats),
         sent \in Seq(QqChats)
  PROVE  inbox[i] \notin Handled
BY DEF InboxAhead

LEMMA DispatchIsInbound ==
  ASSUME QqIInv, Dispatch
  PROVE  /\ Head(inbox) \in QqChats
         /\ Head(inbox) \notin Handled
         /\ Inbound(Head(inbox))
<1>1. /\ inbox \in Seq(QqChats) /\ sent \in Seq(QqChats)
      /\ inbox # <<>> /\ log \in Seq(Events)
  BY DEF QqIInv, QqTypeOK, TypeOK, Dispatch
<1>2. 1 \in 1 .. Len(inbox) /\ Head(inbox) = inbox[1] /\ Head(inbox) \in QqChats
  BY <1>1
<1>3. Head(inbox) \notin Handled
  BY <1>1, <1>2, NotHandledYet DEF QqIInv
<1>4. Inbound(Head(inbox))
  <2>1. /\ Head(inbox) \notin dropped
        /\ \A i \in DOMAIN log : log[i] # Head(inbox)
    BY <1>1, <1>3 DEF Handled
  <2>2. CASE Receivers # {}
    BY <2>1, <2>2 DEF Dispatch, Inbound
  <2>3. CASE Receivers = {}
    BY <2>1, <2>3 DEF Dispatch, Inbound
  <2> QED BY <2>2, <2>3
<1> QED BY <1>2, <1>3, <1>4

LEMMA StepOfGateway == QqIInv /\ [QqNext]_allvars => [Next]_vars
<1> SUFFICES ASSUME QqIInv, [QqNext]_allvars PROVE [Next]_vars
  OBVIOUS
<1>1. CASE Dispatch
  BY <1>1, DispatchIsInbound, QqAssumption DEF Next
<1>2. CASE QqTask /\ ~Dispatch
  BY <1>2 DEF QqTask, Start, StartFailure, Connected, HelloFailure, Identify,
       AutoReplied, AutoReplyFailure, SessionEnds
<1>3. CASE Platform
  BY <1>3 DEF Platform, PlatformChat, PlatformCloses
<1>4. CASE GatewaySteps
  BY <1>4 DEF GatewaySteps, Next
<1>5. CASE UNCHANGED allvars
  BY <1>5 DEF allvars
<1> QED BY <1>1, <1>2, <1>3, <1>4, <1>5 DEF QqNext

-----------------------------------------------------------------------------
(* The order of the QQ chats *)

\* What is not Dispatch does to the log and to what was refused.
LEMMA OtherPublishers ==
  ASSUME QqIInv, GatewaySteps
  PROVE  /\ UNCHANGED qqvars
         /\ \/ UNCHANGED <<log, dropped>>
            \/ \E e \in Events \ QqChats :
                 /\ log' = Append(log, e)
                 /\ UNCHANGED dropped
                 /\ e \notin dropped
            \/ \E m \in Chats \ QqChats :
                 /\ dropped' = dropped \cup {m}
                 /\ UNCHANGED log
                 /\ \A i \in 1 .. Len(log) : log[i] # m
<1> USE DEF GatewaySteps, handshake, ring, feeds, EnterPhase
<1>0. UNCHANGED qqvars
  OBVIOUS
<1>1. ASSUME NEW m \in Chats \ QqChats, Inbound(m)
      PROVE  \/ \E e \in Events \ QqChats :
                  log' = Append(log, e) /\ UNCHANGED dropped /\ e \notin dropped
             \/ \E n \in Chats \ QqChats :
                  /\ dropped' = dropped \cup {n}
                  /\ UNCHANGED log
                  /\ \A i \in 1 .. Len(log) : log[i] # n
  <2>1. log \in Seq(Events)
    BY DEF QqIInv, QqTypeOK, TypeOK
  <2>2. CASE Receivers # {}
    BY <1>1, <2>2 DEF Inbound, Events
  <2>3. CASE Receivers = {}
    BY <1>1, <2>1, <2>3 DEF Inbound
  <2> QED BY <2>2, <2>3
<1>2. ASSUME NEW c \in Conns, Handshake(c)
      PROVE  UNCHANGED <<log, dropped>>
  BY <1>2 DEF Handshake, Accept, Connect, HandshakeFailure, SendConnectOk,
       ConnectOkFailure, Subscribe
<1>3. ASSUME NEW c \in Conns, Ping(c)
      PROVE  \E e \in Events \ QqChats :
               log' = Append(log, e) /\ UNCHANGED dropped /\ e \notin dropped
  <2>1. Pong \in Events \ QqChats /\ Pong \notin dropped
    BY GatewayAssumption, QqAssumption DEF Events, QqIInv, QqTypeOK, TypeOK
  <2> QED BY <1>3, <2>1 DEF Ping
<1>4. ASSUME NEW c \in Conns, ReadLoop(c), ~Ping(c)
      PROVE  UNCHANGED <<log, dropped>>
  BY <1>4 DEF ReadLoop, ChatSend, ChannelSent, ChannelError, BadFrame, ReadError,
       PeerGone
<1>5. ASSUME NEW c \in Conns, WriterTask(c) \/ PeerLeaves(c)
      PROVE  UNCHANGED <<log, dropped>>
  BY <1>5 DEF WriterTask, WriterRecv, WriterLagged, WriterSend, WriterSendLost,
       WriterStop, PeerLeaves
<1> QED BY <1>0, <1>1, <1>2, <1>3, <1>4, <1>5

Order == SentOnce /\ InboxAhead /\ RefusedOrLogged /\ QqInOrder

LEMMA OtherPublishersOrder ==
  ASSUME QqIInv, GatewaySteps
  PROVE  Order'
<1>0. /\ log \in Seq(Events) /\ dropped \subseteq Chats
      /\ sent \in Seq(QqChats) /\ inbox \in Seq(QqChats)
      /\ Order
  BY DEF QqIInv, QqTypeOK, TypeOK, Order
<1>1. UNCHANGED <<qq, sessions, link, inbox, sent, answering, replied>>
  BY OtherPublishers DEF qqvars, session
<1>10. \A p \in 1 .. Len(sent) : sent[p] \in QqChats
  BY <1>0
<1>2. CASE UNCHANGED <<log, dropped>>
  <2>1. Handled' = Handled
    BY <1>2 DEF Handled
  <2>2. SentOnce'
    BY <1>0, <1>1, <2>1 DEF Order, SentOnce
  <2>3. InboxAhead'
    BY <1>0, <1>1, <2>1 DEF Order, InboxAhead
  <2>4. RefusedOrLogged'
    BY <1>0, <1>1, <1>2 DEF Order, RefusedOrLogged
  <2>5. QqInOrder'
    BY <1>0, <1>1, <1>2 DEF Order, QqInOrder
  <2> QED BY <2>2, <2>3, <2>4, <2>5 DEF Order
<1>3. ASSUME NEW e \in Events \ QqChats, log' = Append(log, e), UNCHANGED dropped,
             e \notin dropped
      PROVE  Order'
  <2>1. /\ Len(log') = Len(log) + 1
        /\ log'[Len(log) + 1] = e
        /\ \A i \in 1 .. Len(log) : log'[i] = log[i]
        /\ Len(log) \in Nat
    BY <1>0, <1>3
  <2>2. \A m \in QqChats : m \in Handled' <=> m \in Handled
    BY <1>0, <1>3, <2>1 DEF Handled
  <2>3. SentOnce'
    BY <1>0, <1>1, <2>2 DEF Order, SentOnce
  <2>4. InboxAhead'
    <3>1. \A q \in 1 .. Len(sent) : sent[q] \in Handled' <=> sent[q] \in Handled
      BY <1>10, <2>2
    <3> QED BY <1>0, <1>1, <3>1 DEF Order, InboxAhead
  <2>5. RefusedOrLogged'
    BY <1>0, <1>1, <1>3, <2>1 DEF Order, RefusedOrLogged
  <2>6. QqInOrder'
    <3>1. \A i \in 1 .. Len(log') : \A p \in 1 .. Len(sent) :
            log'[i] = sent[p] => i \in 1 .. Len(log) /\ log[i] = sent[p]
      BY <1>3, <1>10, <2>1
    <3>2. \A i, j \in 1 .. Len(log') : \A p, q \in 1 .. Len(sent) :
            i < j /\ log'[i] = sent[p] /\ log'[j] = sent[q] => p < q
      BY <1>0, <3>1 DEF Order, QqInOrder
    <3> QED BY <1>1, <3>2 DEF QqInOrder
  <2> QED BY <2>3, <2>4, <2>5, <2>6 DEF Order
<1>4. ASSUME NEW m \in Chats \ QqChats, dropped' = dropped \cup {m}, UNCHANGED log,
             \A i \in 1 .. Len(log) : log[i] # m
      PROVE  Order'
  <2>2. \A n \in QqChats : n \in Handled' <=> n \in Handled
    BY <1>0, <1>4 DEF Handled
  <2>3. SentOnce'
    BY <1>0, <1>1, <2>2 DEF Order, SentOnce
  <2>4. InboxAhead'
    <3>1. \A q \in 1 .. Len(sent) : sent[q] \in Handled' <=> sent[q] \in Handled
      BY <1>10, <2>2
    <3> QED BY <1>0, <1>1, <3>1 DEF Order, InboxAhead
  <2>5. RefusedOrLogged'
    BY <1>0, <1>1, <1>4 DEF Order, RefusedOrLogged
  <2>6. QqInOrder'
    BY <1>0, <1>1, <1>4 DEF Order, QqInOrder
  <2> QED BY <2>3, <2>4, <2>5, <2>6 DEF Order
<1> QED BY <1>2, <1>3, <1>4, OtherPublishers

LEMMA DispatchOrder ==
  ASSUME QqIInv, Dispatch
  PROVE  Order'
<1> DEFINE m == Head(inbox)
<1>0. /\ log \in Seq(Events) /\ dropped \subseteq Chats
      /\ sent \in Seq(QqChats) /\ inbox \in Seq(QqChats)
      /\ Order
  BY DEF QqIInv, QqTypeOK, TypeOK, Order
<1>1. m \in QqChats /\ m \notin Handled /\ m = inbox[1] /\ 1 \in 1 .. Len(inbox)
  BY <1>0, DispatchIsInbound DEF Dispatch
<1>2. /\ inbox' \in Seq(QqChats)
      /\ Len(inbox') = Len(inbox) - 1
      /\ \A i \in 1 .. Len(inbox') : inbox'[i] = inbox[i + 1] /\ i + 1 \in 1 .. Len(inbox)
      /\ Len(inbox) \in Nat
  BY <1>0 DEF Dispatch
<1>3. \/ log' = Append(log, m) /\ UNCHANGED <<dropped, answering>>
      \/ dropped' = dropped \cup {m} /\ UNCHANGED log /\ answering' \in {answering, m}
  BY DEF Dispatch
<1>4. UNCHANGED <<sent, replied>>
  BY DEF Dispatch
<1> HIDE DEF m
<1>5. Handled' \subseteq Handled \cup {m}
  BY <1>0, <1>3 DEF Handled
<1>6. PICK p0 \in 1 .. Len(sent) :
        /\ sent[p0] = m
        /\ \A q \in 1 .. Len(sent) : sent[q] \in Handled => q < p0
  BY <1>0, <1>1 DEF Order, InboxAhead
<1>7. SentOnce'
  BY <1>0, <1>4, <1>5, <1>6 DEF Order, SentOnce
<1>8. InboxAhead'
  <2>1. ASSUME NEW i \in 1 .. Len(inbox')
        PROVE  \E p \in 1 .. Len(sent) :
                 /\ sent[p] = inbox'[i]
                 /\ \A q \in 1 .. Len(sent) : sent[q] \in Handled' => q < p
    <3>1. i + 1 \in 1 .. Len(inbox) /\ inbox'[i] = inbox[i + 1] /\ 1 < i + 1
      BY <1>2
    <3>2. PICK p \in 1 .. Len(sent) :
            /\ sent[p] = inbox[i + 1]
            /\ \A q \in 1 .. Len(sent) : sent[q] \in Handled => q < p
      BY <1>0, <3>1 DEF Order, InboxAhead
    <3>3. ASSUME NEW q \in 1 .. Len(sent), sent[q] \in Handled' PROVE q < p
      <4>1. sent[q] \in QqChats
        BY <1>0
      <4>2. CASE sent[q] \in Handled
        BY <3>2, <4>2
      <4>3. CASE sent[q] = m
        BY <1>0, <1>1, <3>1, <3>2, <4>3 DEF Order, InboxAhead
      <4> QED BY <1>4, <1>5, <3>3, <4>1, <4>2, <4>3
    <3> QED BY <3>1, <3>2, <3>3
  <2>2. ASSUME NEW i \in 1 .. Len(inbox'), NEW j \in 1 .. Len(inbox'),
               NEW p \in 1 .. Len(sent), NEW q \in 1 .. Len(sent),
               i < j, inbox'[i] = sent[p], inbox'[j] = sent[q]
        PROVE  p < q
    <3>1. i + 1 \in 1 .. Len(inbox) /\ j + 1 \in 1 .. Len(inbox) /\ i + 1 < j + 1
      BY <1>2, <2>2
    <3>2. inbox[i + 1] = sent[p] /\ inbox[j + 1] = sent[q]
      BY <1>2, <2>2
    <3>3. \A k, l \in 1 .. Len(inbox) :
            k < l /\ inbox[k] = sent[p] /\ inbox[l] = sent[q] => p < q
      BY <1>0 DEF Order, InboxAhead
    <3> QED BY <3>1, <3>2, <3>3
  <2> QED BY <1>4, <2>1, <2>2 DEF InboxAhead
<1>9. RefusedOrLogged'
  <2>1. \A i \in 1 .. Len(log) : log[i] # m
    BY <1>1 DEF Handled
  <2>2. m \notin dropped
    BY <1>1 DEF Handled
  <2>3. CASE log' = Append(log, m) /\ UNCHANGED <<dropped, answering>>
    <3>1. \A i \in 1 .. Len(log') : log'[i] = m \/ \E j \in 1 .. Len(log) : log'[i] = log[j]
      BY <1>0, <2>3
    <3> QED BY <1>0, <1>4, <2>2, <2>3, <3>1 DEF Order, RefusedOrLogged
  <2>4. CASE dropped' = dropped \cup {m} /\ UNCHANGED log /\ answering' \in {answering, m}
    BY <1>0, <1>4, <2>1, <2>4 DEF Order, RefusedOrLogged
  <2> QED BY <1>3, <2>3, <2>4
<1>10. QqInOrder'
  <2>1. CASE UNCHANGED log
    BY <1>0, <1>4, <2>1 DEF Order, QqInOrder
  <2>2. CASE log' = Append(log, m)
    <3>1. /\ Len(log') = Len(log) + 1
          /\ log'[Len(log) + 1] = m
          /\ \A i \in 1 .. Len(log) : log'[i] = log[i]
          /\ Len(log) \in Nat
      BY <1>0, <2>2
    <3>2. ASSUME NEW i \in 1 .. Len(log), NEW p \in 1 .. Len(sent),
                 NEW q \in 1 .. Len(sent), log[i] = sent[p], m = sent[q]
          PROVE  p < q
      <4>1. sent[p] \in Handled
        BY <3>2 DEF Handled
      <4>2. q = p0
        BY <1>0, <1>6, <3>2 DEF Order, SentOnce
      <4> QED BY <1>6, <4>1, <4>2
    <3>3. ASSUME NEW i \in 1 .. Len(log'), NEW j \in 1 .. Len(log'),
                 NEW p \in 1 .. Len(sent), NEW q \in 1 .. Len(sent),
                 i < j, log'[i] = sent[p], log'[j] = sent[q]
          PROVE  p < q
      <4>1. i \in 1 .. Len(log) /\ log[i] = sent[p]
        BY <3>1, <3>3
      <4>2. CASE j = Len(log) + 1
        BY <3>1, <3>2, <3>3, <4>1, <4>2
      <4>3. CASE j \in 1 .. Len(log)
        <5>1. log[j] = sent[q]
          BY <3>1, <3>3, <4>3
        <5> QED BY <1>0, <3>3, <4>1, <4>3, <5>1 DEF Order, QqInOrder
      <4> QED BY <3>1, <4>2, <4>3
    <3> QED BY <1>4, <3>3 DEF QqInOrder
  <2> QED BY <1>3, <2>1, <2>2
<1> QED BY <1>7, <1>8, <1>9, <1>10 DEF Order

LEMMA PlatformOrder ==
  ASSUME QqIInv, NEW m \in QqChats, PlatformChat(m)
  PROVE  Order'
<1>0. /\ log \in Seq(Events) /\ dropped \subseteq Chats
      /\ sent \in Seq(QqChats) /\ inbox \in Seq(QqChats)
      /\ Order
  BY DEF QqIInv, QqTypeOK, TypeOK, Order
<1>1. UNCHANGED <<log, dropped, replied, answering>>
  BY DEF PlatformChat, vars
<1>2. /\ sent' \in Seq(QqChats)
      /\ Len(sent') = Len(sent) + 1
      /\ sent'[Len(sent) + 1] = m
      /\ \A p \in 1 .. Len(sent) : sent'[p] = sent[p]
      /\ \A p \in 1 .. Len(sent) : sent[p] # m
      /\ Len(sent) \in Nat
  BY <1>0 DEF PlatformChat
<1>3. Handled' = Handled
  BY <1>1 DEF Handled
<1>4. m \notin Handled
  BY <1>0, <1>2 DEF Order, SentOnce
<1>5. SentOnce'
  <2>1. \A p, q \in 1 .. Len(sent') : sent'[p] = sent'[q] => p = q
    <3>1. \A p, q \in 1 .. Len(sent) : sent[p] = sent[q] => p = q
      BY <1>0 DEF Order, SentOnce
    <3> QED BY <1>2, <3>1
  <2>2. ASSUME NEW n \in QqChats \cap Handled'
        PROVE  \E p \in 1 .. Len(sent') : sent'[p] = n
    <3>1. PICK p \in 1 .. Len(sent) : sent[p] = n
      BY <1>0, <1>3, <2>2 DEF Order, SentOnce
    <3> QED BY <1>2, <3>1
  <2> QED BY <2>1, <2>2 DEF SentOnce
<1>6. \A i \in 1 .. Len(inbox) : \E p \in 1 .. Len(sent) : sent[p] = inbox[i]
  BY <1>0 DEF Order, InboxAhead
<1>7. \A i \in 1 .. Len(inbox) : \E p \in 1 .. Len(sent') :
        /\ sent'[p] = inbox[i]
        /\ \A q \in 1 .. Len(sent') : sent'[q] \in Handled' => q < p
  <2> SUFFICES ASSUME NEW i \in 1 .. Len(inbox)
               PROVE  \E p \in 1 .. Len(sent') :
                        /\ sent'[p] = inbox[i]
                        /\ \A q \in 1 .. Len(sent') : sent'[q] \in Handled' => q < p
    OBVIOUS
  <2>1. PICK p \in 1 .. Len(sent) :
          /\ sent[p] = inbox[i]
          /\ \A q \in 1 .. Len(sent) : sent[q] \in Handled => q < p
    BY <1>0 DEF Order, InboxAhead
  <2> QED BY <1>2, <1>3, <1>4, <2>1
<1>8. \A i, j \in 1 .. Len(inbox) : \A p, q \in 1 .. Len(sent') :
        i < j /\ inbox[i] = sent'[p] /\ inbox[j] = sent'[q] => p < q
  <2>1. \A i \in 1 .. Len(inbox) : inbox[i] # m
    BY <1>2, <1>6
  <2>2. \A i \in 1 .. Len(inbox) : \A p \in 1 .. Len(sent') :
          inbox[i] = sent'[p] => p \in 1 .. Len(sent) /\ inbox[i] = sent[p]
    BY <1>2, <2>1
  <2> QED BY <1>0, <2>2 DEF Order, InboxAhead
<1>9. InboxAhead'
  <2>1. CASE UNCHANGED inbox
    BY <1>7, <1>8, <2>1 DEF InboxAhead
  <2>2. CASE inbox' = Append(inbox, m)
    <3>1. /\ Len(inbox') = Len(inbox) + 1
          /\ inbox'[Len(inbox) + 1] = m
          /\ \A i \in 1 .. Len(inbox) : inbox'[i] = inbox[i]
          /\ Len(inbox) \in Nat
      BY <1>0, <2>2
    <3>2. /\ sent'[Len(sent) + 1] = m
          /\ \A q \in 1 .. Len(sent') : sent'[q] \in Handled' => q < Len(sent) + 1
      BY <1>2, <1>3, <1>4
    <3>3. ASSUME NEW i \in 1 .. Len(inbox), NEW p \in 1 .. Len(sent'),
                 NEW q \in 1 .. Len(sent'), inbox[i] = sent'[p], m = sent'[q]
          PROVE  p < q
      <4>1. q = Len(sent) + 1
        BY <1>2, <3>3
      <4>2. sent'[p] # m
        BY <1>2, <1>6, <3>3
      <4> QED BY <1>2, <4>1, <4>2
    <3>4. ASSUME NEW i \in 1 .. Len(inbox')
          PROVE  \E p \in 1 .. Len(sent') :
                   /\ sent'[p] = inbox'[i]
                   /\ \A q \in 1 .. Len(sent') : sent'[q] \in Handled' => q < p
      <4>1. CASE i = Len(inbox) + 1
        <5>1. Len(sent) + 1 \in 1 .. Len(sent')
          BY <1>2
        <5> QED BY <3>1, <3>2, <4>1, <5>1
      <4>2. CASE i \in 1 .. Len(inbox)
        <5>1. inbox'[i] = inbox[i]
          BY <3>1, <4>2
        <5> QED BY <1>7, <4>2, <5>1
      <4> QED BY <3>1, <4>1, <4>2
    <3>5. ASSUME NEW i \in 1 .. Len(inbox'), NEW j \in 1 .. Len(inbox'),
                 NEW p \in 1 .. Len(sent'), NEW q \in 1 .. Len(sent'),
                 i < j, inbox'[i] = sent'[p], inbox'[j] = sent'[q]
          PROVE  p < q
      <4>1. i \in 1 .. Len(inbox) /\ inbox[i] = sent'[p]
        BY <3>1, <3>5
      <4>2. CASE j = Len(inbox) + 1
        <5>1. sent'[q] = m
          BY <3>1, <3>5, <4>2
        <5> QED BY <3>3, <4>1, <5>1
      <4>3. CASE j \in 1 .. Len(inbox)
        <5>1. inbox[j] = sent'[q]
          BY <3>1, <3>5, <4>3
        <5> QED BY <1>8, <3>5, <4>1, <4>3, <5>1
      <4> QED BY <3>1, <4>2, <4>3
    <3> QED BY <3>4, <3>5 DEF InboxAhead
  <2> QED BY <2>1, <2>2 DEF PlatformChat
<1>10. RefusedOrLogged'
  BY <1>0, <1>1 DEF Order, RefusedOrLogged
<1>11. QqInOrder'
  <2>1. \A i \in 1 .. Len(log) : log[i] # m
    BY <1>4 DEF Handled
  <2>2. \A i \in 1 .. Len(log) : \A p \in 1 .. Len(sent') :
          log[i] = sent'[p] => p \in 1 .. Len(sent) /\ log[i] = sent[p]
    BY <1>2, <2>1
  <2>3. \A i, j \in 1 .. Len(log) : \A p, q \in 1 .. Len(sent') :
          i < j /\ log[i] = sent'[p] /\ log[j] = sent'[q] => p < q
    BY <1>0, <2>2 DEF Order, QqInOrder
  <2> QED BY <1>1, <2>3 DEF QqInOrder
<1> QED BY <1>5, <1>9, <1>10, <1>11 DEF Order

\* The steps that touch neither the log nor the inbox, and SessionEnds, which
\* empties it.
LEMMA SessionOrder ==
  ASSUME QqIInv, UNCHANGED <<log, dropped, sent>>, inbox' \in {inbox, <<>>},
         replied' \cup {answering'} \subseteq replied \cup {answering, NoChat}
  PROVE  Order'
<1>0. Order
  BY DEF QqIInv, Order
<1>1. Handled' = Handled
  BY DEF Handled
<1>2. SentOnce'
  BY <1>0, <1>1 DEF Order, SentOnce
<1>3. InboxAhead'
  <2>1. CASE inbox' = inbox
    BY <1>0, <1>1, <2>1 DEF Order, InboxAhead
  <2>2. CASE inbox' = <<>>
    BY <2>2 DEF InboxAhead
  <2> QED BY <2>1, <2>2
<1>4. RefusedOrLogged' /\ QqInOrder'
  BY <1>0 DEF Order, RefusedOrLogged, QqInOrder
<1> QED BY <1>2, <1>3, <1>4 DEF Order

LEMMA OrderStep == QqIInv /\ [QqNext]_allvars => Order'
<1> SUFFICES ASSUME QqIInv, [QqNext]_allvars PROVE Order'
  OBVIOUS
<1>1. CASE Dispatch
  BY <1>1, DispatchOrder
<1>2. ASSUME NEW m \in QqChats, PlatformChat(m) PROVE Order'
  BY <1>2, PlatformOrder
<1>3. CASE GatewaySteps
  BY <1>3, OtherPublishersOrder
<1>4. CASE (QqTask /\ ~Dispatch) \/ PlatformCloses \/ UNCHANGED allvars
  <2>1. /\ UNCHANGED <<log, dropped, sent>> /\ inbox' \in {inbox, <<>>}
        /\ replied' \cup {answering'} \subseteq replied \cup {answering, NoChat}
    BY <1>4 DEF QqTask, Start, StartFailure, Connected, HelloFailure, Identify,
       AutoReplied, AutoReplyFailure, SessionEnds, PlatformCloses, EnterQq,
       allvars, qqvars, session, vars, ring
  <2> QED BY <2>1, SessionOrder
<1> QED BY <1>1, <1>2, <1>3, <1>4 DEF QqNext, Platform

-----------------------------------------------------------------------------
(* Types *)

LEMMA QqTypeStep == QqIInv /\ [QqNext]_allvars => QqTypeOK'
<1> SUFFICES ASSUME QqIInv, [QqNext]_allvars PROVE QqTypeOK'
  OBVIOUS
<1>0. QqTypeOK /\ NoChat \notin QqChats
  BY QqAssumption DEF QqIInv, Events
<1>1. TypeOK'
  <2>1. TypeOK /\ CursorMatchesFeed
    BY DEF QqIInv, IInv
  <2> QED BY <2>1, StepOfGateway, TypeStep
<1> USE DEF EnterQq, QqStages
<1>2. CASE Start \/ StartFailure \/ Connected \/ HelloFailure \/ Identify
  <2>1. CASE Start
    BY <1>0, <1>1, <2>1 DEF QqTypeOK, Start
  <2>2. CASE StartFailure \/ Identify
    BY <1>0, <1>1, <2>2 DEF QqTypeOK, StartFailure, Identify
  <2>3. CASE Connected \/ HelloFailure
    BY <1>0, <1>1, <2>3 DEF QqTypeOK, Connected, HelloFailure
  <2> QED BY <1>2, <2>1, <2>2, <2>3
<1>3. CASE Dispatch
  <2>1. Head(inbox) \in QqChats /\ inbox' \in Seq(QqChats)
    BY <1>0, <1>3 DEF QqTypeOK, Dispatch
  <2> QED BY <1>0, <1>1, <1>3, <2>1 DEF QqTypeOK, Dispatch
<1>4. CASE AutoReplied \/ AutoReplyFailure
  BY <1>0, <1>1, <1>4 DEF QqTypeOK, AutoReplied, AutoReplyFailure
<1>5. CASE SessionEnds
  BY <1>0, <1>1, <1>5 DEF QqTypeOK, SessionEnds
<1>6. ASSUME NEW m \in QqChats, PlatformChat(m) PROVE QqTypeOK'
  <2>1. sent' \in Seq(QqChats)
    BY <1>0, <1>6 DEF QqTypeOK, PlatformChat
  <2>2. /\ inbox' \in Seq(QqChats)
        /\ qq \notin {"open", "replying"} => inbox' = <<>>
    <3>1. inbox \in Seq(QqChats) /\ (qq \notin {"open", "replying"} => inbox = <<>>)
      BY <1>0 DEF QqTypeOK
    <3>2. CASE qq \in {"open", "replying"} /\ inbox' = Append(inbox, m)
      BY <3>1, <3>2
    <3>3. CASE UNCHANGED inbox
      BY <3>1, <3>3
    <3>4. QED
      BY <1>6, <3>2, <3>3 DEF PlatformChat
  <2>3. UNCHANGED <<qq, sessions, link, answering, replied>>
    BY <1>6 DEF PlatformChat
  <2>4. /\ qq' \in QqStages /\ sessions' \in Nat /\ link' \in BOOLEAN
        /\ answering' \in QqChats \cup {NoChat} /\ replied' \subseteq QqChats
        /\ answering' # NoChat <=> qq' = "replying"
    BY <1>0, <2>3, Zenon DEF QqTypeOK
  <2>5. qq' \notin {"open", "replying"} => inbox' = <<>>
    BY <2>2, <2>3
  <2> QED BY <1>1, <2>1, <2>2, <2>4, <2>5, Zenon DEF QqTypeOK
<1>7. CASE PlatformCloses
  BY <1>0, <1>1, <1>7 DEF QqTypeOK, PlatformCloses
<1>8. CASE GatewaySteps \/ UNCHANGED allvars
  BY <1>0, <1>1, <1>8 DEF QqTypeOK, GatewaySteps, allvars, qqvars, session
<1> QED BY <1>2, <1>3, <1>4, <1>5, <1>6, <1>7, <1>8 DEF QqNext, QqTask, Platform

-----------------------------------------------------------------------------
(* The inductive invariant *)

LEMMA InitQqInv == QqInit => QqIInv
<1> SUFFICES ASSUME QqInit PROVE QqIInv
  OBVIOUS
<1>1. IInv
  BY InitInv DEF QqInit
<1>2. QqTypeOK
  <2>1. TypeOK
    BY <1>1 DEF IInv
  <2>2. /\ qq \in QqStages /\ sessions \in Nat /\ link \in BOOLEAN
        /\ answering \in QqChats \cup {NoChat} /\ replied \subseteq QqChats
        /\ answering # NoChat <=> qq = "replying"
        /\ qq \notin {"open", "replying"} => inbox = <<>>
    BY DEF QqInit, QqStages
  <2>3. inbox \in Seq(QqChats) /\ sent \in Seq(QqChats)
    BY DEF QqInit
  <2> QED BY <2>1, <2>2, <2>3, Zenon DEF QqTypeOK
<1>3. log = <<>> /\ dropped = {} /\ sent = <<>> /\ inbox = <<>>
  BY DEF QqInit, Init
<1>4. Handled = {}
  BY <1>3 DEF Handled
<1>5. SentOnce /\ InboxAhead /\ RefusedOrLogged /\ QqInOrder
  BY <1>3, <1>4 DEF QqInit, SentOnce, InboxAhead, RefusedOrLogged, QqInOrder
<1> QED BY <1>1, <1>2, <1>5 DEF QqIInv

LEMMA QqInvStep == QqIInv /\ [QqNext]_allvars => QqIInv'
<1> SUFFICES ASSUME QqIInv, [QqNext]_allvars PROVE QqIInv'
  OBVIOUS
<1>1. IInv'
  BY StepOfGateway, InvStep DEF QqIInv
<1>2. QqTypeOK'
  BY QqTypeStep
<1>3. Order'
  BY OrderStep
<1> QED BY <1>1, <1>2, <1>3 DEF QqIInv, Order

\* The inductive invariant of gateway and QQ task together: that of the
\* gateway, and where each QQ chat stands between the platform and the log.
THEOREM QqInvariance == QqSpec => []QqIInv
BY InitQqInv, QqInvStep, PTL DEF QqSpec

\* The state of gateway and QQ task keeps its types.
THEOREM QqTypeCorrect == QqSpec => []QqTypeOK
<1>1. QqIInv => QqTypeOK
  BY DEF QqIInv
<1> QED BY <1>1, QqInvariance, PTL

\* run_gateway_once publishes as any other caller of events.send: whatever
\* Gateway promises holds with the QQ task in place of a webhook.
THEOREM IngressImplementsGateway == QqSpec => ImplementsGateway
<1>1. QqInit => Init
  BY DEF QqInit
<1>2. QqSpec => Spec
  BY <1>1, StepOfGateway, QqInvariance, PTL DEF QqSpec, Spec
<1> QED BY <1>2 DEF ImplementsGateway

\* The QQ chats reach the broadcast channel in the order the platform had them.
THEOREM QqChatsInOrder == QqSpec => []QqInOrder
<1>1. QqIInv => QqInOrder
  BY DEF QqIInv
<1> QED BY <1>1, QqInvariance, PTL

\* The bot answers by itself (the is_err() branch of run_gateway_once) only
\* what no operator has been sent.
THEOREM AutoReplyIsExclusive == QqSpec => []AutoReplyInsteadOfOperator
<1>1. QqIInv => AutoReplyInsteadOfOperator
  <2> SUFFICES ASSUME QqIInv, NEW m \in replied \cup {answering}
               PROVE  /\ \A i \in 1 .. Len(log) : log[i] # m
                      /\ \A c \in Conns : \A i \in 1 .. Len(delivered[c]) :
                           delivered[c][i] # m
    BY DEF AutoReplyInsteadOfOperator
  <2>1. \A i \in 1 .. Len(log) : log[i] # m
    <3>1. log \in Seq(Events)
      BY DEF QqIInv, QqTypeOK, TypeOK
    <3> QED BY <3>1, QqAssumption DEF QqIInv, RefusedOrLogged
  <2>2. ASSUME NEW c \in Conns, NEW i \in 1 .. Len(delivered[c])
        PROVE  delivered[c][i] # m
    <3>1. sub[c] + i \in 1 .. Len(log) /\ delivered[c][i] = log[sub[c] + i]
      BY DEF QqIInv, IInv, TypeOK, FeedIsLogSlice
    <3> QED BY <2>1, <3>1
  <2> QED BY <2>1, <2>2
<1> QED BY <1>1, QqInvariance, PTL

\* What the gateway promises its operators it keeps with the QQ task publishing.
THEOREM IngressKeepsGatewayPromises ==
  QqSpec => /\ ImplementsOperatorFeed
            /\ []NonceLifecycle
            /\ []FeedIsLogSlice
            /\ []FeedEndsOnlyByLag
BY IngressImplementsGateway, GatewayImplementsFeed, NonceIsOneShot, FeedHasNoGap, OnlyLagEndsFeed
   DEF ImplementsGateway

\* An operator is sent the QQ chats in the order the platform had them.
OperatorSeesQqOrder ==
  \A c \in Conns : \A i, j \in 1 .. Len(delivered[c]) : \A p, q \in 1 .. Len(sent) :
    i < j /\ delivered[c][i] = sent[p] /\ delivered[c][j] = sent[q] => p < q

\* From the platform through run_gateway_once, the channel and the writer task
\* to the socket: no operator gets QQ chats out of order, or one twice.
THEOREM QqOrderReachesOperators == QqSpec => []OperatorSeesQqOrder
<1>1. QqIInv => OperatorSeesQqOrder
  <2> SUFFICES ASSUME QqIInv, NEW c \in Conns,
                      NEW i \in 1 .. Len(delivered[c]), NEW j \in 1 .. Len(delivered[c]),
                      NEW p \in 1 .. Len(sent), NEW q \in 1 .. Len(sent),
                      i < j, delivered[c][i] = sent[p], delivered[c][j] = sent[q]
               PROVE  p < q
    BY DEF OperatorSeesQqOrder
  <2>1. /\ sub[c] \in 0 .. Len(log) /\ Len(log) \in Nat /\ Len(delivered[c]) \in Nat
    BY LenProperties DEF QqIInv, IInv, TypeOK
  <2>2. /\ sub[c] + i <= Len(log) /\ delivered[c][i] = log[sub[c] + i]
        /\ sub[c] + j <= Len(log) /\ delivered[c][j] = log[sub[c] + j]
    BY DEF QqIInv, IInv, FeedIsLogSlice
  <2>3. sub[c] + i \in 1 .. Len(log) /\ sub[c] + j \in 1 .. Len(log) /\ sub[c] + i < sub[c] + j
    BY <2>1, <2>2
  <2> QED BY <2>2, <2>3 DEF QqIInv, QqInOrder
<1> QED BY <1>1, QqInvariance, PTL
=============================================================================
