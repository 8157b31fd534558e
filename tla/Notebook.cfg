SPECIFICATION Spec
CONSTANTS
  Note = {n1, n2}
  Person = {p1}
  Tag = {t1, t2}
  Client = {c1, c2}
  None = None
  Edited = {n1}
  MaxTags = 1
  MaxRevision = 2
SYMMETRY Symmetry
INVARIANTS
  ParticipantsAsAsked
  DeletedTagsStayAway
CHECK_DEADLOCK FALSE
