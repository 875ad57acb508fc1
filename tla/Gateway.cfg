SPECIFICATION FairSpec

CONSTANTS
  Conns = {c1, c2}
  Nonces = {n1, n2}
  NoNonce = NoNonce
  Chats = {m1}
  Pong = Pong
  Channels = {qq, other}
  Configured = {qq}
  Capacity = 1
  RequireEd25519 = TRUE
  MaxPongs = 1

INVARIANTS
  TypeOK
  NonceLifecycle
  FeedIsLogSlice
  FeedEndsOnlyByLag
PROPERTIES
  ImplementsOperatorFeed
  HandshakeEnds
  FeedAdvances
  ClosedIsReleased
CHECK_DEADLOCK FALSE
