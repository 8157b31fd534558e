SPECIFICATION FairSpec
CONSTANTS
  Job = {1}
  sys = sys
  ai = ai
  Kind = {sys, ai}
  AiKind = {ai}
  Runner = {r1}
  Key = {k1}
  None = None
  Concurrency <- MCConcurrency
  GlobalLimit = 1
  MaxDepth = 2
  MaxAttempts = 2
  AiMaxAttempts = 1
  Lease = 2
  Deadline = 1
  Backoff = 1
  MaxLag = 1
  MaxRenewals = 1
  MaxFaults = 1
PROPERTIES
  ExpiredJobMovesOn
CHECK_DEADLOCK FALSE
