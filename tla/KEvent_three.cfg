SPECIFICATION Spec
CONSTANTS
  t1 = t1
  t2 = t2
  t3 = t3
  e1 = e1
  NULL = NULL
  Tasks = {t1, t2, t3}
  Objects = {e1}
  OwnershipClass = "Internal"
  Timeouts = {"none"}
  MultiTasks = {}
  MultiSets <- OneEvent
  MultiTimeouts = {}
SYMMETRY Symmetry
INVARIANTS
  NoLostWakeup
  MutexDiscipline
  ReferencesExact
PROPERTY
  ImplementsEvent
