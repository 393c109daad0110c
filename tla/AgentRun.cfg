CONSTANTS
  a = a
  digest = digest
  ping = ping
  Groups = {a}
  Tasks = {digest, ping}
  NoTask = NoTask
  MaxConcurrent = 1
  MaxRetries = 1
  ChatOf <- MCChatOf
  Shared = {digest}
  MaxSessions = 2
  MaxCalls = 4
  MaxStops = 1
SPECIFICATION FairSpec
INVARIANTS
  OneAgent
  CloseComesLate
  ConversationGoesOn
  NotToldTwice
PROPERTIES
  RunsEnd
CHECK_DEADLOCK FALSE
