CONSTANTS
  a = a
  b = b
  beat = beat
  shot = shot
  daily = daily
  Groups = {a}
  Tasks = {beat, shot}
  NoTask = NoTask
  MaxConcurrent = 1
  ChatOf <- MCChatOf
  Kind <- MCKind
  MaxPeriod = 3
  Period <- MCPeriod
  CronOffset = 1
  BadFolder = {}
  MaxClock = 3
  MaxGens = 1
  MaxChats = 1
  MaxStops = 0
SPECIFICATION Spec
INVARIANTS
  InactiveNeverStarts
CHECK_DEADLOCK FALSE
