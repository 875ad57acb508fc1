SPECIFICATION HubFairSpec

CONSTANTS
  m1 = m1
  m2 = m2
  qq = qq
  other = other
  Conns = {1}
  Nonces = {n1}
  NoNonce = NoNonce
  Chats = {m1, m2}
  Pong = Pong
  Channels = {qq, other}
  Configured = {qq}
  Capacity = 1
  RequireEd25519 = FALSE
  MaxPongs = 1
  Hubs = {h}
  HubOf <- MCHubOf
  ChannelOf <- MCChannelOf
  Textless = {}
  SocketBuffer = 1
  MaxEvents = 2

PROPERTIES
  ConnectedHubAnswers
CHECK_DEADLOCK FALSE
