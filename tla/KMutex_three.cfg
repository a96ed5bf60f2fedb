SPECIFICATION Spec
CONSTANTS
  t1 = t1
  t2 = t2
  t3 = t3
  m1 = m1
  NULL = NULL
  Tasks = {t1, t2, t3}
  Objects = {m1}
  OwnershipClass = "AbandonableUserWaitable"
  MaxRecursion = 1
  Timeouts = {"deadline"}
SYMMETRY Symmetry
INVARIANTS
  QueuesConsistent
  NoForgottenWaiter
  OwnershipAgrees
  RefcountExact
  KernelAssertions
  DeadTaskForgotten
