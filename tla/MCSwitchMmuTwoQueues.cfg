\* One port, two lossless queues, packets of 1..3 units; pool of 3 units.
CONSTANTS
  p1 = p1
  p2 = p2
  k1 = k1
  k2 = k2
  k3 = k3
  k4 = k4
  k5 = k5
  Ports = {p1}
  Queues = {1, 3}
  Pkts = {k1, k2, k3, k4, k5}
  PacketSizes = {1, 2, 3}
  BufferSize = 8
  Reserve = 2
  ResumeOffset = 1
  Headroom <- MCOneHeadroom
  PfcShare <- MCOneShare
  Word = 1024
SPECIFICATION Spec
SYMMETRY MCSymmetry
INVARIANT
  WithinBuffer
