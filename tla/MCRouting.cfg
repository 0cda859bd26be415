\* Two flows in opposite directions over four paths, two links taken down.
CONSTANTS
  A = A
  B = B
  s1 = s1
  s2 = s2
  s3 = s3
  s4 = s4
  Hosts = {A, B}
  Switches = {s1, s2, s3, s4}
  Order <- MCOrder
  Links <- MCLinks
  FlowNum = 2
  Src <- MCSrc
  Dst <- MCDst
  StartTime <- MCStartTime
  Packets <- MCPackets
  Hash <- MCHash
  MaxDowns = 2
SPECIFICATION FairSpec
INVARIANTS
  RoutesAreShortest
  QpAtItsNic
PROPERTIES
  ImplementsNetwork
  Arrives
CHECK_DEADLOCK FALSE
