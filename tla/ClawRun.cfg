SPECIFICATION RunFairSpec

CONSTANTS
  s1 = s1
  s2 = s2
  a = a
  b = b
  Requests = {1, 2, 3}
  Sessions = {s1, s2}
  SessionOf <- MCSessionOf
  PoolSize = 2
  QueueSize = 1
  None = None
  Hubs = {a, b}
  HubOf <- MCHubOf
  Chat <- MCChat
  Words <- MCWords
  Agents <- MCAgents

INVARIANTS
  RunTypeOK
  ConversationInOrder
  CopilotTakesTurns
  OffChannelNeedsKeywords
PROPERTIES
  EveryRequestEnds
CHECK_DEADLOCK FALSE
