CONSTANTS
  main = main
  team = team
  n1 = n1
  Groups = {main, team}
  NoTask = NoTask
  MaxConcurrent = 1
  MaxRetries = 1
  Msgs = {m1, n1}
  GroupOf <- MCGroupOf
  Triggering = {m1, n1}
  TriggerGroups = {team}
  Settings = {{main, team}, {team}}
  MaxTime = 2
  Limit = 1
  MaxStops = 1
  MaxRepeats = 2
SPECIFICATION FairSpec
PROPERTIES
  EventuallyAnswered
CHECK_DEADLOCK FALSE
