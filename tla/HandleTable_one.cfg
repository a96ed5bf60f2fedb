SPECIFICATION Spec
CONSTANTS
  Threads = {th1, th2}
  Tables = {ta}
  Objects = {o1, o2}
  NULL = NULL
  ObjType <- MCObjType
  RequestableRights <- MCOneRight
  Reservers = {th1, th2}
  kHandleTableCapacity = 3
  kHandleGenerationMax = 2
  kU32Max = 2
  kNonceMax = 2
SYMMETRY Symmetry
INVARIANTS TypeOK RefcountExact NoUseAfterFree DestroyOnce KernelAssertions StaleTokenNeverResolves ClosedMeansDrained
PROPERTIES ReservationExact
CHECK_DEADLOCK FALSE
