SPECIFICATION Spec
CONSTANTS
  Note = {n1}
  Person = {p1}
  Tag = {t1}
  Client = {c1}
  None = None
  Edited = {n1}
  MaxTags = 1
  MaxRevision = 2
SYMMETRY Symmetry
INVARIANT HiddenParticipantsStay
CHECK_DEADLOCK FALSE
