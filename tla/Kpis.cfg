SPECIFICATION Spec
CONSTANTS
  None = None
  Client = {c1, c2}
  Key = {k1, k2}
  MaxRows = 3
  MaxRevision = 3
SYMMETRY Symmetry
INVARIANTS
  IndexNeverAnswers
  LiveKpiShowsAll
  RestoreIsPossible
PROPERTIES
  DeletedRowsRest
CHECK_DEADLOCK FALSE
