CONSTANTS
  f1 = f1
  f2 = f2
  f3 = f3
  Flows = {f1, f2, f3}
  Columns <- MCColumns
  Hash <- MCHash
  nRows = 2
  nWindows = 2
  WindowSize = 1
  Second = 8
  InitialRate = 25
  Capacity = 12
  h = 3
  One = 4
  Sizes = {1, 2}
  MaxWindows = 4
  MaxBytes = 4
SPECIFICATION Spec
INVARIANTS
  CardExact
  QueryExact
  ActiveAreKnown
  ThresholdIsFair
CHECK_DEADLOCK FALSE
