SPECIFICATION Spec
CONSTANTS
  Job = {j1, j2}
  User = {ann, bob}
  Admin = {bob}
  None = None
  MaxRevision = 4
SYMMETRY Symmetry
INVARIANTS
  ReviewRecordsAgree
  TasksOnce
  PendingIsCurrentUnlessUndone
PROPERTIES
  AppliedToItsSnapshot
CHECK_DEADLOCK FALSE
