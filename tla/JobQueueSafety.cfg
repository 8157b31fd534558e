SPECIFICATION Spec
CONSTANTS
  Job = {1, 2}
  sys = sys
  ai = ai
  Kind = {sys, ai}
  AiKind = {ai}
  Runner = {r1}
  Key = {k1, k2}
  None = None
  Concurrency <- MCConcurrency
  GlobalLimit = 2
  MaxDepth = 2
  MaxAttempts = 1
  AiMaxAttempts = 1
  Lease = 2
  Deadline = 1
  Backoff = 1
  MaxLag = 1
  MaxRenewals = 1
  MaxFaults = 1
SYMMETRY Symmetry
INVARIANTS
  TypeOK
  UniqueActiveKey
  CapacityRespected
CHECK_DEADLOCK FALSE
