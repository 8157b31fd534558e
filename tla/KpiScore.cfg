SPECIFICATION ScoreSpec
CONSTANTS
  Null = Null
  Amounts <- SampleAmounts
  TargetAmounts = {0, 100}
  Days <- SampleDays
  MonthOf <- SampleMonthOf
  ReadingDays = {1, 3, 9}
  TargetYears = {1, 2}
  TargetPeriods = {1, 4, 12}
  MaxReadings = 2
  MaxTargets = 2
INVARIANTS
  EffectiveTargetIsNext
  RecordAgreesWithList
  BetterNeverReadsWorse
PROPERTIES
  TimeOnlyAges
CHECK_DEADLOCK FALSE
