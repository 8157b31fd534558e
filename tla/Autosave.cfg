SPECIFICATION Spec
CONSTANTS
  Text = {"a", "b"}
  OtherText = {"a", "other"}
  Blank = "blank"
  None = None
  MaxEdits = 3
  MaxErrors = 2
  MaxOthers = 1
INVARIANTS
  SettledMeansSaved
  QuietFieldIsTrue
PROPERTIES
  NeverOverwritesUnseen
  OwnSavesKeepDraft
CHECK_DEADLOCK FALSE
