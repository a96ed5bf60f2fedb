SPECIFICATION FairSpec
CONSTANTS
  t1 = t1
  t2 = t2
  t3 = t3
  e1 = e1
  NULL = NULL
  Tasks = {t1, t2}
  Objects = {e1}
  OwnershipClass = "Internal"
  Timeouts = {"deadline"}
  MultiTasks = {t1}
  MultiSets <- TwiceListed
  MultiTimeouts = {"deadline"}
PROPERTIES
  WaitsEnd
  TimedMultiReturns
