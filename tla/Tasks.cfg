SPECIFICATION Spec
CONSTANTS
  Task = {t1, t2, t3}
  Op = {o1, o2}
  None = None
  OpenStatus = {"inbox", "next_action"}
  MaxWrites = 5
SYMMETRY Symmetry
INVARIANTS
  DepthOne
  LiveBelowLive
  PositionsUnique
  FenceMeansUntouched
PROPERTIES
  UndoIsExact
  RestoreIsExact
CHECK_DEADLOCK FALSE
