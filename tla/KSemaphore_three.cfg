SPECIFICATION Spec
CONSTANTS
  t1 = t1
  t2 = t2
  t3 = t3
  s1 = s1
  NULL = NULL
  Tasks = {t1, t2, t3}
  Objects = {s1}
  OwnershipClass = "Internal"
  Timeouts = {"deadline"}
  MaxCount = 2
  WordMax = 3
  PostSizes = {2}
SYMMETRY Symmetry
INVARIANTS
  NoStrandedPermit
PROPERTY
  ImplementsSemaphore
