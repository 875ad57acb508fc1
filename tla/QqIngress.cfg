SPECIFICATION QqFairSpec

CONSTANTS
  Conns = {c1}
  Nonces = {n1}
  NoNonce = NoNonce
  Chats = {m1, q1, q2}
  Pong = Pong
  Channels = {qq, other}
  Configured = {qq}
  Capacity = 1
  RequireEd25519 = FALSE
  MaxPongs = 0
  QqChats = {q1, q2}
  Anonymous = {q2}
  AutoReply = TRUE
  MaxSessions = 2
  NoChat = NoChat

INVARIANTS
  QqTypeOK
  QqInOrder
  AutoReplyInsteadOfOperator
PROPERTIES
  ImplementsGateway
  PushedIsRead
CHECK_DEADLOCK FALSE
