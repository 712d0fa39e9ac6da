SPECIFICATION FairSpec
CHECK_DEADLOCK FALSE
CONSTANTS
  x1 = x1
  x2 = x2
  t1 = t1
  t2 = t2
  None = None
  Tasks = {x1, x2}
  Timers = {t1, t2}
  Delays = {0, 1, 2}
  MaxIds = 6
PROPERTIES
  ImplementsExecutor
  NoWakeUpIsLost
