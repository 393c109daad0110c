\* Three groups compete for two slots; every run may fail, with one retry.
CONSTANTS
  Groups = {g1, g2, g3}
  Tasks = {t1}
  NoTask = NoTask
  MaxConcurrent = 2
  MaxRetries = 1
  Budget = 4
SPECIFICATION FairSpec
INVARIANTS
  SerialExecution
  ConcurrencyLimit
  SlotAccounting
  NoLostWakeup
  WorkConserving
  TaskOnce
PROPERTIES
  NoStartAfterShutdown
  IdleRunIsAsked
  WorkRunsOut
  Dispatches
  PendingIsServed
  ComesToRest
CHECK_DEADLOCK FALSE
