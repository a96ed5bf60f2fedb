SPECIFICATION FairSpec
CONSTANTS
  Threads = {th1, th2}
  Tables = {ta}
  Objects = {o1}
  NULL = NULL
  ObjType <- MCObjType
  RequestableRights <- MCNarrowing
  Reservers = {th1}
  kHandleTableCapacity = 3
  kHandleGenerationMax = 2
  kU32Max = 2
  kNonceMax = 1
INVARIANT NoRightsAmplification
PROPERTIES CloseCompletes DrainCompletes LastReleaseFrees
CHECK_DEADLOCK FALSE
