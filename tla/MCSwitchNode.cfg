\* Two ports, two lossless queues, two packets; the link of p2 may go down.
CONSTANTS
  p1 = p1
  p2 = p2
  k1 = k1
  k2 = k2
  Ports = {p1, p2}
  Queues = {1, 3}
  Pkts = {k1, k2}
  PacketSizes = {1}
  BufferSize = 5
  Reserve = 0
  ResumeOffset = 1
  Headroom <- MCHeadroom
  PfcShare <- MCPfcShare
  Word = 64
  QCnt = 4
  SwitchPeers = {p2}
  MayTakeDown = {p2}
  MayReroute = TRUE
  MaxHigh = 1
SPECIFICATION NodeSpec
SYMMETRY MCSymmetry
INVARIANTS
  NoIdleWithWork
  BufferedIsQueued
  UpstreamWillKnow
  FramesAlternate
PROPERTIES
  RoundRobin
CHECK_DEADLOCK FALSE
