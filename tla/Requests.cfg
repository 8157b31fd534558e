SPECIFICATION Spec
CONSTANTS
  Slot = {s1, s2, s3}
  Key = {k1}
  Body = {b1, b2}
  None = None
  Pool = 2
  n1 = n1
  n2 = n2
  queue = queue
  login = login
  Lock = {n1, n2, queue, login}
  Plan <- MCPlan
  Keyed <- MCKeyed
INVARIANTS
  EffectOncePerKey
  AnswersAreTrue
PROPERTY
  EveryRequestEnds
CHECK_DEADLOCK FALSE
