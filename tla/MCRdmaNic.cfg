\* Three flows of one or two segments in two priorities, one PAUSE, NACK or segment to
\* answer, two rates.
CONSTANTS
  q1 = q1
  q2 = q2
  q3 = q3
  Qps = {q1, q2, q3}
  Pg <- MCPg
  AckPg = 3
  Size <- MCSize
  Win <- MCWin
  Gaps = {1, 2}
  LineGap = 1
  MaxUpsets = 1
SPECIFICATION FairSpec
INVARIANTS
  TypeOK
  SomethingWillWake
PROPERTIES
  SendsWhatItMay
  Drains
