SPECIFICATION Spec
CONSTANTS
  User = {u1, u2}
  Client = {c1, c2}
  None = None
  Address = Address
  MaxFailures = 1
  Slots = 2
  MaxSessions = 2
  MaxRevision = 2
SYMMETRY Symmetry
INVARIANTS
  AdminRemains
  GuessesBounded
  RevocationHolds
CHECK_DEADLOCK FALSE
