SPECIFICATION Spec

CONSTANTS
  Conns = {c1, c2}
  Nonces = {n1, n2}
  NoNonce = NoNonce
  Chats = {m1, m2}
  Pong = Pong
  Channels = {qq, other}
  Configured = {qq}
  Capacity = 1
  RequireEd25519 = TRUE
  MaxPongs = 1

PROPERTIES
  AckedOperatorIsThere
CHECK_DEADLOCK FALSE
