SPECIFICATION FairSpec
CONSTANTS
  t1 = t1
  t2 = t2
  m1 = m1
  NULL = NULL
  Tasks = {t1, t2}
  Objects = {m1}
  OwnershipClass = "AbandonableUserWaitable"
  MaxRecursion = 2
  Timeouts = {"zero", "deadline", "horizon"}
INVARIANT
  TypeOK
PROPERTIES
  ImplementsAbandonableMutex
  DeadOwnerLetsGo
  WaitsEnd
