\* Any two packets lost, packets overtake each other, NACKs are repeated, a flow may
\* end at its end time.
CONSTANTS
  Size = 5
  Mtu = 2
  Chunk = 4
  AckInterval = 1
  BackToZero = FALSE
  Windows = {0, 1, 6}
  SeqWord = 64
  CountWord = 1024
  HasEndTime = TRUE
  SlowNetwork = TRUE
  Reroutes = TRUE
  Losable <- AnyPacket
  MaxLosses = 2
  InFlight = 3
SPECIFICATION Spec
INVARIANTS
  SegmentsAligned
PROPERTIES
  TransfersUntilEnd
CHECK_DEADLOCK FALSE
