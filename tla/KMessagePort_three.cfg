SPECIFICATION Spec
CONSTANTS
  t1 = t1
  t2 = t2
  t3 = t3
  p1 = p1
  NULL = NULL
  Tasks = {t1, t2, t3}
  Objects = {p1}
  OwnershipClass = "Internal"
  Timeouts = {"none"}
  Workers = {t1, t2}
  Mortals = {t3}
  Capacity = 4
  FrameSizes = {1, 2}
  kU64Max = 2
SYMMETRY Symmetry
INVARIANTS
  RingNeverCorrupt
  NoOrphanLease
  NoMissedReadable
PROPERTY
  ImplementsQueue
