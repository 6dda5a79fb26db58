CONSTANTS
  Procs = {"main", "other"}
  Keys = {"d1", "d2", "t1", "t2", "t3"}
  Answers = {"right", "refused"}
  AnswersTo <- MCAnswersTo
  Does <- MCDoes
  Absent = Absent
  None = None
  Torn = Torn
  Permits = 1
  Dev <- MCDev
  Test <- MCTest
  Slice <- MCSlice
  Abstention = {"d2"}
  TypeOf <- MCTypeOf
  V1 <- MCV1
  Batches <- MCBatches
  Visible0 <- MCVisible
  MinGain = 1
  MaxRegression = 1
  MaxFalsePct = 10
  Concurrency <- MCConcurrency
  DevRows <- MCDevRows
  Kept <- MCKept
  MaxRuns = 3
  EarlyRuns = 2
  MaxSplits = 1
  MaxCrashes = 1
SPECIFICATION EvalSpec
CHECK_DEADLOCK FALSE
INVARIANTS
  TestReadAfterGate
  MergedIsThePopulation
PROPERTIES
  TestArmIsQualified
  AnswersSettle
