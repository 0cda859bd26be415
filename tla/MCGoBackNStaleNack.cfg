\* NACKs are repeated when segments are under way for long; fixed window.
CONSTANTS
  Size = 9
  Mtu = 2
  Chunk = 4
  AckInterval = 1
  BackToZero = FALSE
  Windows = {6}
  SeqWord = 64
  CountWord = 1024
  HasEndTime = FALSE
  SlowNetwork = TRUE
  Reroutes = FALSE
  Losable <- OnlyData
  MaxLosses = 1
  InFlight = 4
SPECIFICATION Spec
INVARIANT
  WindowKept
CHECK_DEADLOCK FALSE
