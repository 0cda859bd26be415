\* The constants of the flow that loses any three packets.
CONSTANTS
  Size = 11
  Mtu = 2
  Chunk = 4
  AckInterval = 1
  BackToZero = FALSE
  Windows = {1, 6, 8}
  SeqWord = 64
  CountWord = 1024
  HasEndTime = FALSE
  SlowNetwork = FALSE
  Reroutes = FALSE
  Losable <- AnyPacket
  MaxLosses = 3
  InFlight = 4
SPECIFICATION AnySpec
INVARIANTS
  WindowKept
  QuietAfterCompletion
PROPERTIES
  EachTransfers
  Recovers
CHECK_DEADLOCK FALSE
