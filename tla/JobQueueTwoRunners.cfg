SPECIFICATION FairSpec
CONSTANTS
  Job = {1}
  sys = sys
  ai = ai
  Kind = {sys, ai}
  AiKind = {ai}
  Runner = {r1, r2}
  Key = {k1}
  None = None
  Concurrency <- MCConcurrency
  GlobalLimit = 1
  MaxDepth = 2
  MaxAttempts = 2
  AiMaxAttempts = 2
  Lease = 2
  Deadline = 2
  Backoff = 1
  MaxLag = 1
  MaxRenewals = 2
  MaxFaults = 1
INVARIANTS
  EffectExactlyWithSuccess
  AttemptLogMatchesRow
  HeldControllersAreLive
PROPERTIES
  CancelledNeverPublishes
  ExpiredAttemptIsPowerless
  ImplementsPromise
  EveryJobSettles
CHECK_DEADLOCK FALSE
