\* Intervals in the order of the configurations: alpha, decrease, recovery.
CONSTANTS
  LineRate = 21
  MinRate = 2
  FirstRate = 21
  RateAI = 1
  RateHAI = 3
  Threshold = 3
  ClampTarget = FALSE
  AlphaInterval = 2
  DecreaseInterval = 3
  TimeReset = 5
  One = 4
  Gain = 2
  HasEndTime = TRUE
SPECIFICATION FairSpec
INVARIANTS
  TypeOK
  TargetNotBelowRate
  OneTimerEach
  AlphaBeforeDecrease
PROPERTIES
  TimersEndWithFlow
  Recovers
CHECK_DEADLOCK FALSE
