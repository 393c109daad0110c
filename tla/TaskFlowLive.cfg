CONSTANTS
  a = a
  b = b
  beat = beat
  shot = shot
  daily = daily
  Groups = {a, b}
  Tasks = {daily, shot}
  NoTask = NoTask
  MaxConcurrent = 1
  ChatOf <- MCChatOf
  Kind <- MCKind
  MaxPeriod = 3
  Period <- MCPeriod
  CronOffset = 1
  BadFolder = {shot}
  MaxClock = 4
  MaxGens = 1
  MaxChats = 1
  MaxStops = 1
SPECIFICATION FairSpec
INVARIANTS
  KeepsPhase
PROPERTIES
  DueIsServed
  Schedules
CHECK_DEADLOCK FALSE
