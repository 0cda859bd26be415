\* Utilisations and factors are fractions of One: half the target, the target, twice it.
CONSTANTS
  Size = 6
  Mtu = 1
  Chunk = 4
  AckInterval = 1
  BackToZero = FALSE
  Windows = {3}
  SeqWord = 64
  CountWord = 1024
  HasEndTime = FALSE
  SlowNetwork = FALSE
  Reroutes = FALSE
  Losable <- AnyPacket
  MaxLosses = 2
  InFlight = 3
  Controllers <- AnyController
  LineRate = 8
  MinRate = 1
  RateAI = 1
  RateHAI = 2
  MiThresh = 1
  FastReact = TRUE
  SampleFeedback = TRUE
  Hops = {1, 2}
  One = 4
  Utilisations = {2, 8}
  Factors = {0, 2}
  Gain = 1
SPECIFICATION ControlledSpec
INVARIANTS
  ControlTypeOK
  OneStepPerRound
PROPERTIES
  OneUpdatePerRoundTrip
  OneReductionPerRoundTrip
CHECK_DEADLOCK FALSE
