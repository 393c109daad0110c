CONSTANTS
  a = a
  b = b
  beat = beat
  shot = shot
  daily = daily
  Groups = {a}
  Tasks = {beat, shot}
  NoTask = NoTask
  MaxConcurrent = 1
  ChatOf <- MCChatOf
  Kind <- MCKind
  MaxPeriod = 3
  Period <- MCPeriod
  CronOffset = 1
  BadFolder = {}
  MaxClock = 4
  MaxGens = 2
  MaxChats = 0
  MaxStops = 1
SPECIFICATION Spec
INVARIANTS
  OccurrenceOnce
  AtMostOneLateStart
  KeepsPhase
PROPERTIES
  DueTimeMoves
CHECK_DEADLOCK FALSE
