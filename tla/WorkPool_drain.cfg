SPECIFICATION Spec
CONSTANTS
  c1 = c1
  c2 = c2
  Callers = {c1, c2}
  worker_count = 2
  queue_capacity = 2
  MaxSubmits = 1
  kU64Modulus = 16
INVARIANT
  DrainWaitsForQueued
CHECK_DEADLOCK FALSE
