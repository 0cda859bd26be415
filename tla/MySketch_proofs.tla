-------------------------- MODULE MySketch_proofs --------------------------
(* The columns in use, the bytes a query returns, the flows remembered and *)
(* the threshold found among their rates, for every number of flows, rows, *)
(* columns and subwindows and every hash.                                  *)
EXTENDS MySketch, Arithmetic_proofs

-----------------------------------------------------------------------------
(* The columns of the first row in use, and those last used in the         *)
(* subwindow at a place of the ring.                                       *)
Used == {c \in Columns : InSight(m_B[c])}
UsedIn(j) == {c \in Used : m_B[c] % nWindows = j}

Counting ==
  /\ m_cntWindows \in 0 .. MaxWindows
  /\ m_curWindow = m_cntWindows % nWindows
  /\ m_B \in [Columns -> Int]
  /\ \A c \in Columns : m_B[c] <= m_cntWindows /\ (m_B[c] = -nWindows \/ m_B[c] >= 0)
  /\ m_cntB \in [Ring -> Int]
  /\ \A j \in Ring : m_cntB[j] = Cardinality(UsedIn(j))
  /\ m_card = Cardinality(Used)

(* m_B is the last subwindow in which a flow of the column sent.           *)
LastUse ==
  /\ sent \in [Flows -> [0 .. MaxWindows -> Nat]]
  /\ \A f \in Flows, w \in 0 .. MaxWindows : sent[f][w] > 0 => w <= m_B[Hash[f][0]]
  /\ \A c \in Columns : m_B[c] >= 0 => \E f \in Flows : Hash[f][0] = c /\ sent[f][m_B[c]] > 0

SInv == Counting /\ LastUse

LEMMA Constants ==
  /\ IsFiniteSet(Columns) /\ nWindows \in Nat \ {0} /\ MaxWindows \in Nat
  /\ \A f \in Flows : Hash[f][0] \in Columns
  /\ Ring = 0 .. nWindows - 1
  BY SketchAssumption DEF Rows, Ring

LEMMA UsedFinite == IsFiniteSet(Used) /\ \A j \in Ring : IsFiniteSet(UsedIn(j))
<1>1. Used \in SUBSET Columns
  BY DEF Used
<1>2. IsFiniteSet(Used)
  BY <1>1, Constants, FS_Subset
<1>3. \A j \in Ring : UsedIn(j) \in SUBSET Used
  BY DEF UsedIn
<1>. QED BY <1>2, <1>3, FS_Subset

LEMMA ResetKeeps ==
  ASSUME NEW f \in [Ring -> Int], NEW j \in Ring PROVE [f EXCEPT ![j] = 0] \in [Ring -> Int]
<1>. DEFINE g == [f EXCEPT ![j] = 0]
<1>1. g = [i \in Ring |-> IF i = j THEN 0 ELSE f[i]]
  BY Zenon
<1>2. \A i \in Ring : (IF i = j THEN 0 ELSE f[i]) \in Int
  OBVIOUS
<1>. HIDE DEF g
<1>. QED BY <1>1, <1>2 DEF g

LEMMA CurInRing == Counting => m_curWindow \in Ring
  BY Constants DEF Counting

LEMMA InitSInv == Init => SInv
<1>. SUFFICES ASSUME Init PROVE SInv
  OBVIOUS
<1>1. Used = {}
  BY Constants DEF Init, Used, InSight
<1>2. \A j \in Ring : UsedIn(j) = {}
  BY <1>1 DEF UsedIn
<1>3. 0 % nWindows = 0
  BY Constants
<1>4. Counting
  <2>1. m_curWindow = m_cntWindows % nWindows
    BY <1>3 DEF Init
  <2>2. /\ m_B \in [Columns -> Int]
        /\ \A c \in Columns : m_B[c] = -nWindows /\ m_B[c] <= m_cntWindows
    BY Constants DEF Init
  <2>3. m_card = Cardinality(Used) /\ \A j \in Ring : m_cntB[j] = Cardinality(UsedIn(j))
    BY <1>1, <1>2, FS_EmptySet DEF Init
  <2>. QED BY <2>1, <2>2, <2>3, Constants DEF Init, Counting
<1>5. LastUse
  BY Constants DEF Init, LastUse
<1>. QED BY <1>4, <1>5 DEF SInv

-----------------------------------------------------------------------------
(* A packet: its column moves to the current subwindow.                    *)
LEMMA UseColumnCounts ==
  ASSUME Counting, NEW c \in Columns, UseColumn(c), UNCHANGED windows
  PROVE  Counting'
<1>. DEFINE held == IF m_cntWindows - m_B[c] < nWindows THEN {m_B[c] % nWindows} ELSE {}
            without == [j \in Ring |-> m_cntB[j] - (IF j \in held THEN 1 ELSE 0)]
<1>1. /\ m_B' = [m_B EXCEPT ![c] = m_cntWindows]
      /\ m_cntB' = [without EXCEPT ![m_curWindow] = @ + 1]
      /\ m_card' = m_card - Cardinality(held) + 1
  BY DEF UseColumn
<1>2. /\ m_cntWindows' = m_cntWindows /\ m_curWindow' = m_curWindow /\ m_cntWindows \in Nat
      /\ m_curWindow \in Ring
  BY CurInRing DEF windows, Counting
<1>3. m_B' \in [Columns -> Int] /\ m_B'[c] = m_cntWindows
        /\ \A d \in Columns \ {c} : m_B'[d] = m_B[d]
  BY <1>1, <1>2 DEF Counting
<1>4. c \in Used <=> m_cntWindows - m_B[c] < nWindows
  BY <1>2, Constants DEF Used, InSight, Counting
<1>5. Used' = Used \cup {c}
  BY <1>2, <1>3, Constants DEF Used, InSight
<1>6. Cardinality(held) = IF c \in Used THEN 1 ELSE 0
  BY <1>4, FS_EmptySet, FS_Singleton
<1>7. Cardinality(Used) \in Nat /\ \A j \in Ring : Cardinality(UsedIn(j)) \in Nat
  BY UsedFinite, FS_CardinalityType
<1>8. m_card' = Cardinality(Used')
  <2>1. Cardinality(Used \cup {c}) = Cardinality(Used) + (IF c \in Used THEN 0 ELSE 1)
    <3>1. IsFiniteSet(Used)
      BY UsedFinite
    <3>2. Cardinality(Used \cup {c}) = IF c \in Used THEN Cardinality(Used) ELSE Cardinality(Used) + 1
      BY <3>1, FS_AddElement
    <3>3. Cardinality(Used) \in Nat
      BY <1>7
    <3>. HIDE DEF held
    <3>. QED BY <3>2, <3>3
  <2>2. m_card = Cardinality(Used)
    BY DEF Counting
  <2>. QED BY <1>1, <1>5, <1>6, <1>7, <2>1, <2>2
<1>9. \A j \in Ring : j \in held <=> c \in UsedIn(j)
  BY <1>4 DEF UsedIn
<1>. HIDE DEF held
<1>10. without \in [Ring -> Int]
         /\ \A j \in Ring : without[j] = m_cntB[j] - (IF j \in held THEN 1 ELSE 0)
  BY DEF Counting
<1>. HIDE DEF without
<1>11. m_cntB' \in [Ring -> Int]
         /\ \A j \in Ring : m_cntB'[j] = without[j] + (IF j = m_curWindow THEN 1 ELSE 0)
  BY <1>1, <1>2, <1>10
<1>12. ASSUME NEW j \in Ring PROVE m_cntB'[j] = Cardinality(UsedIn(j)')
  <2>1. UsedIn(j)' = (UsedIn(j) \ {c}) \cup (IF j = m_curWindow THEN {c} ELSE {})
    <3>1. \A d \in Columns \ {c} : d \in UsedIn(j)' <=> d \in UsedIn(j)
      BY <1>2, <1>3, <1>5 DEF UsedIn
    <3>2. c \in UsedIn(j)' <=> j = m_curWindow
      BY <1>2, <1>3, <1>5 DEF UsedIn, Counting
    <3>3. UsedIn(j)' \subseteq Columns /\ UsedIn(j) \subseteq Columns
      BY DEF UsedIn, Used
    <3>. QED BY <3>1, <3>2, <3>3
  <2>. DEFINE rest == UsedIn(j) \ {c}
  <2>2. IsFiniteSet(rest) /\ Cardinality(rest) = Cardinality(UsedIn(j)) - (IF j \in held THEN 1 ELSE 0)
    BY <1>7, <1>9, UsedFinite, FS_RemoveElement
  <2>3. c \notin rest
    OBVIOUS
  <2>. HIDE DEF rest
  <2>4. Cardinality(rest \cup {c}) = Cardinality(rest) + 1
    BY <2>2, <2>3, FS_AddElement
  <2>5. UsedIn(j)' = IF j = m_curWindow THEN rest \cup {c} ELSE rest
    BY <2>1 DEF rest
  <2>6. without[j] = Cardinality(rest)
    BY <1>10, <2>2 DEF Counting
  <2>7. Cardinality(rest) \in Nat
    BY <2>2, FS_CardinalityType
  <2>. QED BY <1>11, <2>4, <2>5, <2>6, <2>7
<1>. QED BY <1>2, <1>3, <1>8, <1>11, <1>12 DEF Counting

LEMMA UpdateKeeps ==
  ASSUME SInv, NEW flow \in Flows, NEW w \in Sizes, Update(flow, w) PROVE SInv'
<1>. DEFINE c == Hash[flow][0]
<1>1. c \in Columns /\ UseColumn(c) /\ UNCHANGED windows
        /\ sent' = [sent EXCEPT ![flow][m_cntWindows] = @ + w] /\ w \in Nat \ {0}
  BY Constants, SketchAssumption DEF Update
<1>2. Counting'
  BY <1>1, UseColumnCounts DEF SInv
<1>3. m_cntWindows' = m_cntWindows /\ m_cntWindows \in 0 .. MaxWindows
  BY <1>1 DEF windows, SInv, Counting
<1>4. m_B'[c] = m_cntWindows /\ \A d \in Columns \ {c} : m_B'[d] = m_B[d]
  BY <1>1 DEF UseColumn, SInv, Counting
<1>5. /\ sent' \in [Flows -> [0 .. MaxWindows -> Nat]]
      /\ sent'[flow][m_cntWindows] > 0
      /\ \A f \in Flows, v \in 0 .. MaxWindows :
           /\ sent[f][v] > 0 => sent'[f][v] > 0
           /\ sent'[f][v] > 0 => sent[f][v] > 0 \/ (f = flow /\ v = m_cntWindows)
  <2>1. sent \in [Flows -> [0 .. MaxWindows -> Nat]]
    BY DEF SInv, LastUse
  <2>2. sent[flow][m_cntWindows] + w \in Nat \ {0}
    <3>1. sent[flow][m_cntWindows] \in Nat
      BY <1>3, <2>1
    <3>2. w \in Nat \ {0}
      BY <1>1
    <3>. QED BY <3>1, <3>2
  <2>3. \A f \in Flows, v \in 0 .. MaxWindows :
          sent'[f][v] = IF f = flow /\ v = m_cntWindows THEN sent[f][v] + w ELSE sent[f][v]
    BY <1>1, <1>3, <2>1
  <2>4. sent' \in [Flows -> [0 .. MaxWindows -> Nat]]
    BY <1>1, <1>3, <2>1, <2>2
  <2>. QED BY <1>3, <2>1, <2>2, <2>3, <2>4
<1>6. \A d \in Columns : m_B[d] \in Int /\ m_B[d] <= m_cntWindows
  BY DEF SInv, Counting
<1>7. ASSUME NEW f \in Flows, NEW v \in 0 .. MaxWindows, sent'[f][v] > 0
      PROVE  v <= m_B'[Hash[f][0]]
  <2>1. Hash[f][0] \in Columns
    BY Constants
  <2>2. CASE Hash[f][0] = c
    <3>1. sent[f][v] > 0 \/ v = m_cntWindows
      BY <1>5, <1>7
    <3>2. sent[f][v] > 0 => v <= m_B[c]
      BY <2>2 DEF SInv, LastUse
    <3>3. m_B[c] \in Int /\ m_B[c] <= m_cntWindows /\ m_cntWindows \in Int
      BY <1>1, <1>3, <1>6
    <3>. QED BY <1>4, <2>2, <3>1, <3>2, <3>3
  <2>3. CASE Hash[f][0] # c
    BY <1>4, <1>5, <1>7, <2>1, <2>3 DEF SInv, LastUse
  <2>. QED BY <2>2, <2>3
<1>8. ASSUME NEW d \in Columns, m_B'[d] >= 0
      PROVE  \E f \in Flows : Hash[f][0] = d /\ sent'[f][m_B'[d]] > 0
  <2>1. CASE d = c
    BY <1>4, <1>5, <2>1
  <2>2. CASE d # c
    <3>1. m_B'[d] = m_B[d] /\ m_B[d] \in 0 .. MaxWindows
      <4>1. m_B'[d] = m_B[d]
        BY <1>4, <2>2
      <4>. QED BY <1>3, <1>6, <1>8, <4>1, Constants
    <3>2. PICK f \in Flows : Hash[f][0] = d /\ sent[f][m_B[d]] > 0
      BY <1>8, <3>1 DEF SInv, LastUse
    <3>. QED BY <1>5, <3>1, <3>2
  <2>. QED BY <2>1, <2>2
<1>9. LastUse'
  BY <1>5, <1>7, <1>8 DEF LastUse
<1>. QED BY <1>2, <1>9 DEF SInv

(* The ring turns: the columns last used nWindows subwindows ago are those *)
(* counted at the place about to be reused.                                *)
LEMMA NextWindowKeeps ==
  ASSUME SInv, NextWindow PROVE SInv'
<1>1. /\ m_cntWindows \in Nat /\ m_cntWindows < MaxWindows
      /\ m_cntWindows' = m_cntWindows + 1
      /\ m_B' = m_B /\ sent' = sent
      /\ m_card' = m_card - m_cntB[m_curWindow']
      /\ m_cntB' = [m_cntB EXCEPT ![m_curWindow'] = 0]
      /\ m_curWindow' = (m_curWindow + 1) % nWindows
  BY DEF SInv, Counting, NextWindow, DropOldest
<1>. DEFINE cur == m_curWindow'
<1>2. cur = (m_cntWindows + 1) % nWindows
  BY <1>1, Constants, NextResidue DEF SInv, Counting
<1>3. cur \in Ring
  BY <1>1, <1>2, Constants
<1>4. \A d \in Columns : m_B[d] \in Int /\ m_B[d] <= m_cntWindows
  BY DEF SInv, Counting
<1>5. Used' = Used \ UsedIn(cur)
  <2>1. SUFFICES ASSUME NEW d \in Columns, d \in Used
                 PROVE  d \notin Used' <=> m_B[d] % nWindows = cur
    BY <1>1, <1>4, Constants DEF Used, UsedIn, InSight
  <2>2. d \notin Used' <=> m_B[d] = m_cntWindows + 1 - nWindows
    BY <1>1, <1>4, <2>1, Constants DEF Used, InSight
  <2>3. -nWindows < (m_cntWindows + 1 - nWindows) - m_B[d]
          /\ (m_cntWindows + 1 - nWindows) - m_B[d] < nWindows
    BY <1>1, <1>4, <2>1, Constants DEF Used, InSight
  <2>4. (m_cntWindows + 1 - nWindows) % nWindows = cur
    BY <1>1, <1>2, Constants, WholeTurn
  <2>5. m_B[d] % nWindows = cur => m_B[d] = m_cntWindows + 1 - nWindows
    <3>1. m_cntWindows + 1 - nWindows \in Int /\ m_B[d] \in Int
      BY <1>1, <1>4, Constants
    <3>. QED BY <2>3, <2>4, <3>1, Constants, SameResidue
  <2>. QED BY <2>2, <2>4, <2>5
<1>6. UsedIn(cur) \subseteq Used
  BY DEF UsedIn
<1>7. Cardinality(Used') = Cardinality(Used) - Cardinality(UsedIn(cur))
  <2>1. Used \cap UsedIn(cur) = UsedIn(cur)
    BY <1>6
  <2>2. Cardinality(Used \ UsedIn(cur)) = Cardinality(Used) - Cardinality(Used \cap UsedIn(cur))
    BY UsedFinite, FS_Difference
  <2>. QED BY <1>5, <2>1, <2>2
<1>8. m_card' = Cardinality(Used')
  BY <1>1, <1>3, <1>7 DEF SInv, Counting
<1>9. ASSUME NEW j \in Ring PROVE m_cntB'[j] = Cardinality(UsedIn(j)')
  <2>1. UsedIn(j)' = IF j = cur THEN {} ELSE UsedIn(j)
    BY <1>1, <1>5 DEF UsedIn
  <2>. QED BY <1>1, <1>3, <2>1, FS_EmptySet DEF SInv, Counting
<1>10. Counting'
  <2>1. m_cntWindows' \in 0 .. MaxWindows /\ m_curWindow' = m_cntWindows' % nWindows
    BY <1>1, <1>2, Constants
  <2>2. \A c \in Columns : m_B'[c] <= m_cntWindows' /\ (m_B'[c] = -nWindows \/ m_B'[c] >= 0)
    BY <1>1, <1>4 DEF SInv, Counting
  <2>3. m_B' \in [Columns -> Int] /\ m_cntB' \in [Ring -> Int]
    <3>1. m_B \in [Columns -> Int] /\ m_cntB \in [Ring -> Int]
      BY DEF SInv, Counting
    <3>. HIDE DEF cur
    <3>2. [m_cntB EXCEPT ![m_curWindow'] = 0] \in [Ring -> Int]
      BY <1>3, <3>1, ResetKeeps DEF cur
    <3>. QED BY <1>1, <3>1, <3>2
  <2>. QED BY <1>8, <1>9, <2>1, <2>2, <2>3 DEF Counting
<1>11. LastUse'
  BY <1>1 DEF SInv, LastUse
<1>. QED BY <1>10, <1>11 DEF SInv

LEMMA NextSInv == SInv /\ [Next]_vars => SInv'
<1>. SUFFICES ASSUME SInv, [Next]_vars PROVE SInv'
  OBVIOUS
<1>1. CASE UNCHANGED <<m_curWindow, m_cntWindows, columns, sent>>
  BY <1>1 DEF SInv, Counting, LastUse, Used, UsedIn, InSight, columns
<1>2. CASE Tick
  BY <1>1, <1>2 DEF Tick
<1>3. CASE UNCHANGED vars
  BY <1>1, <1>3 DEF vars, windows
<1>. QED BY <1>2, <1>3, UpdateKeeps, NextWindowKeeps DEF Next

(* A column is in use exactly when a flow hashed to it is active.          *)
LEMMA UsedByActive == SInv => Used = {Hash[f][0] : f \in {g \in Flows : Active(g)}}
<1>. SUFFICES ASSUME SInv PROVE Used = {Hash[f][0] : f \in {g \in Flows : Active(g)}}
  OBVIOUS
<1>1. /\ m_cntWindows \in 0 .. MaxWindows
      /\ \A d \in Columns : m_B[d] \in Int /\ m_B[d] <= m_cntWindows /\ (m_B[d] = -nWindows \/ m_B[d] >= 0)
  BY DEF SInv, Counting
<1>2. ASSUME NEW c \in Used PROVE \E f \in Flows : Active(f) /\ Hash[f][0] = c
  <2>1. c \in Columns /\ InSight(m_B[c])
    BY DEF Used
  <2>2. m_B[c] \in Seen /\ m_B[c] >= 0
    BY <1>1, <2>1, Constants DEF Seen, InSight
  <2>3. PICK f \in Flows : Hash[f][0] = c /\ sent[f][m_B[c]] > 0
    BY <2>1, <2>2 DEF SInv, LastUse
  <2>. QED BY <2>2, <2>3 DEF Active
<1>3. ASSUME NEW f \in Flows, Active(f) PROVE Hash[f][0] \in Used
  <2>1. Hash[f][0] \in Columns
    BY Constants
  <2>2. PICK w \in Seen : sent[f][w] > 0
    BY <1>3 DEF Active
  <2>3. w \in 0 .. MaxWindows /\ InSight(w)
    BY DEF Seen
  <2>4. w <= m_B[Hash[f][0]]
    BY <2>2, <2>3 DEF SInv, LastUse
  <2>. QED BY <1>1, <2>1, <2>3, <2>4, Constants DEF Used, InSight
<1>. QED BY <1>2, <1>3

(* m_card is the number of columns that a packet of the last nWindows      *)
(* subwindows fell into, however often the ring comes round.               *)
THEOREM ColumnsCounted == Spec => []CardExact
<1>1. SInv => CardExact
  BY UsedByActive DEF SInv, Counting, CardExact
<1>. QED BY <1>1, InitSInv, NextSInv, PTL DEF Spec

-----------------------------------------------------------------------------
(* The counters: what one of them says of the bytes b[w] that fell into    *)
(* its column in subwindow w.  It is of subwindow e, in sight or not; the  *)
(* column has had none since then at this place of the ring.               *)
Slots == [n : Nat, e : Nat, t : Nat]

Fits(slot, j, b, cnt, now) ==
  /\ slot \in Slots /\ slot.e <= cnt
  /\ slot.n > 0 => slot.e * WindowSize <= slot.t /\ slot.t <= now
  /\ slot.e % nWindows = j \/ (slot.e = 0 /\ slot.n = 0)
  /\ slot.e % nWindows = j /\ slot.e > cnt - nWindows => slot.n = b[slot.e]
  /\ \A w \in 0 .. MaxWindows : w % nWindows = j /\ w > slot.e => b[w] = 0

(* The bytes of the flows of a column, by subwindow.                       *)
Hitters(i, c) == {f \in Flows : Hits(f, i, c)}
BytesIn(i, c) == [w \in 0 .. MaxWindows |-> BytesOf(Hitters(i, c), w)]

ByteTable == [i \in Rows |-> [c \in Columns |-> BytesIn(i, c)]]

AllFit(counters, b, cnt, now) ==
  /\ counters \in [Ring -> [Rows -> [Columns -> Slots]]]
  /\ \A j \in Ring, i \in Rows, c \in Columns : Fits(counters[j][i][c], j, b[i][c], cnt, now)

CountersFit == AllFit(m_counters, ByteTable, m_cntWindows, Now)

Clock == elapsed \in 0 .. WindowSize

LEMMA SketchConstants ==
  /\ nWindows \in Nat \ {0} /\ WindowSize \in Nat \ {0} /\ MaxWindows \in Nat
  /\ Second \in Nat /\ nWindows * WindowSize <= Second /\ InitialRate \in Nat \ {0}
  /\ IsFiniteSet(Flows) /\ nRows \in Nat \ {0} /\ 0 \in Rows
  /\ \A f \in Flows, i \in Rows : Hash[f][i] \in Columns
  /\ Sizes \subseteq Nat \ {0}
  BY SketchAssumption DEF Rows

LEMMA NowIsNat == ASSUME SInv, Clock PROVE Now \in Nat /\ m_cntWindows * WindowSize <= Now
<1>1. m_cntWindows \in Nat /\ WindowSize \in Nat /\ elapsed \in Nat
  BY SketchConstants DEF SInv, Counting, Clock
<1>2. m_cntWindows * WindowSize \in Nat
  BY <1>1
<1>. QED BY <1>1, <1>2 DEF Now

(* What is in sight at a place of the ring is of one subwindow.            *)
LEMMA OneInSight ==
  ASSUME NEW cnt \in Nat, NEW v \in Int, NEW w \in Int, v <= cnt, w <= cnt,
         v > cnt - nWindows, w > cnt - nWindows, v % nWindows = w % nWindows
  PROVE  v = w
<1>1. -nWindows < w - v /\ w - v < nWindows /\ nWindows \in Nat \ {0}
  BY SketchConstants
<1>. QED BY <1>1, SameResidue

(* Touching a counter clears it if it has been out of sight.               *)
LEMMA TouchNothing ==
  ASSUME NEW slot, NEW j, NEW b, NEW now, m_cntWindows \in Nat, Fits(slot, j, b, m_cntWindows, now)
  PROVE  Fits(Touch(slot, 0), j, b, m_cntWindows, now)
<1>. DEFINE n == IF m_cntWindows - slot.e >= nWindows THEN 0 ELSE slot.n
            s == Touch(slot, 0)
<1>1. slot \in Slots /\ n \in Nat /\ s = [slot EXCEPT !.n = n]
  BY DEF Fits, Touch, Slots
<1>2. s \in Slots /\ s.n = n /\ s.e = slot.e /\ s.t = slot.t
  <2>. HIDE DEF n
  <2>. QED BY <1>1 DEF Slots
<1>3. slot.e \in Nat /\ slot.n \in Nat
  BY <1>1 DEF Slots
<1>4. n > 0 => slot.n > 0
  BY <1>3
<1>5. slot.n = 0 => n = 0
  OBVIOUS
<1>6. slot.e > m_cntWindows - nWindows => n = slot.n
  BY <1>3, SketchConstants
<1>. HIDE DEF n, s
<1>7. Fits(s, j, b, m_cntWindows, now)
  BY <1>2, <1>4, <1>5, <1>6 DEF Fits
<1>. QED BY <1>7 DEF s

(* A packet is counted with what the current subwindow has already.        *)
LEMMA TouchCounts ==
  ASSUME SInv, Clock, NEW slot, NEW w \in Nat \ {0}, NEW b \in [0 .. MaxWindows -> Nat],
         Fits(slot, m_curWindow, b, m_cntWindows, Now)
  PROVE  Fits(Touch(slot, w), m_curWindow, [b EXCEPT ![m_cntWindows] = @ + w], m_cntWindows, Now)
<1>. DEFINE n == IF m_cntWindows - slot.e >= nWindows THEN 0 ELSE slot.n
            t == IF n = 0 THEN Now ELSE slot.t
            s == Touch(slot, w)
            a == [b EXCEPT ![m_cntWindows] = @ + w]
<1>1. /\ m_cntWindows \in 0 .. MaxWindows /\ m_cntWindows \in Nat
      /\ m_curWindow = m_cntWindows % nWindows
  BY SketchConstants DEF SInv, Counting
<1>2. slot \in Slots /\ slot.e \in Nat /\ slot.n \in Nat /\ slot.t \in Nat /\ slot.e <= m_cntWindows
  BY DEF Fits, Slots
<1>3. n = b[m_cntWindows] /\ (n > 0 => slot.e = m_cntWindows /\ slot.n > 0)
  <2>1. CASE m_cntWindows - slot.e >= nWindows
    <3>1. m_cntWindows > slot.e
      BY <1>1, <1>2, <2>1, SketchConstants
    <3>. QED BY <1>1, <2>1, <3>1 DEF Fits
  <2>2. CASE m_cntWindows - slot.e < nWindows /\ slot.e % nWindows = m_curWindow
    <3>1. slot.e > m_cntWindows - nWindows /\ m_cntWindows > m_cntWindows - nWindows
      BY <1>1, <1>2, <2>2, SketchConstants
    <3>2. slot.e = m_cntWindows
      <4>1. slot.e \in Int /\ m_cntWindows \in Int /\ m_cntWindows <= m_cntWindows
        BY <1>1, <1>2
      <4>. QED BY <1>1, <1>2, <2>2, <3>1, <4>1, OneInSight
    <3>3. slot.n = b[m_cntWindows]
      BY <2>2, <3>1, <3>2 DEF Fits
    <3>4. n = slot.n
      BY <1>1, <1>2, <2>2, SketchConstants
    <3>. QED BY <3>2, <3>3, <3>4
  <2>3. CASE m_cntWindows - slot.e < nWindows /\ slot.e % nWindows # m_curWindow
    <3>1. slot.e = 0 /\ slot.n = 0
      BY <2>3 DEF Fits
    <3>2. m_cntWindows > slot.e
      BY <1>1, <1>2, <2>3, <3>1
    <3>. QED BY <1>1, <3>1, <3>2 DEF Fits
  <2>4. m_cntWindows - slot.e \in Int /\ nWindows \in Int
    BY <1>1, <1>2, SketchConstants
  <2>. QED BY <2>1, <2>2, <2>3, <2>4
<1>4. n \in Nat /\ t \in Nat
  BY <1>2, NowIsNat
<1>5. m_cntWindows * WindowSize <= t /\ t <= Now
  <2>1. CASE n = 0
    BY <2>1, NowIsNat
  <2>2. CASE n # 0
    <3>1. slot.e = m_cntWindows /\ slot.n > 0 /\ t = slot.t
      BY <1>3, <1>4, <2>2
    <3>. QED BY <3>1 DEF Fits
  <2>. QED BY <2>1, <2>2
<1>6. s = [n |-> n + w, e |-> m_cntWindows, t |-> t]
  BY DEF Touch
<1>7. \A v \in 0 .. MaxWindows : a[v] = IF v = m_cntWindows THEN b[v] + w ELSE b[v]
  BY <1>1
<1>. HIDE DEF n, t, s, a
<1>8. s \in Slots /\ s.n = n + w /\ s.e = m_cntWindows /\ s.t = t
  BY <1>1, <1>4, <1>6 DEF Slots
<1>9. s.n = a[s.e]
  BY <1>1, <1>3, <1>7, <1>8
<1>10. ASSUME NEW v \in 0 .. MaxWindows, v % nWindows = m_curWindow, v > s.e PROVE a[v] = 0
  <2>1. v > slot.e /\ v # m_cntWindows
    BY <1>1, <1>2, <1>8, <1>10
  <2>2. b[v] = 0
    BY <1>10, <2>1 DEF Fits
  <2>. QED BY <1>7, <2>1, <2>2
<1>11. Fits(s, m_curWindow, a, m_cntWindows, Now)
  BY <1>1, <1>5, <1>8, <1>9, <1>10 DEF Fits
<1>. QED BY <1>11 DEF s, a

(* At another place of the ring the packet changes nothing.                *)
LEMMA OtherPlaces ==
  ASSUME NEW slot, NEW j, NEW b \in [0 .. MaxWindows -> Nat], NEW cnt \in 0 .. MaxWindows, NEW now,
         NEW w \in Nat, j # cnt % nWindows, Fits(slot, j, b, cnt, now)
  PROVE  Fits(slot, j, [b EXCEPT ![cnt] = @ + w], cnt, now)
<1>. DEFINE a == [b EXCEPT ![cnt] = @ + w]
<1>1. \A v \in 0 .. MaxWindows : v % nWindows = j => a[v] = b[v]
  OBVIOUS
<1>2. slot.e \in 0 .. MaxWindows
  <2>1. slot.e \in Nat /\ slot.e <= cnt
    BY DEF Fits, Slots
  <2>. QED BY <2>1, SketchConstants
<1>. HIDE DEF a
<1>3. Fits(slot, j, a, cnt, now)
  BY <1>1, <1>2 DEF Fits
<1>. QED BY <1>3 DEF a

(* The bytes of a column are a natural number ...                          *)
LEMMA BytesAreNat ==
  ASSUME LastUse, NEW S \in SUBSET Flows, NEW v \in 0 .. MaxWindows
  PROVE  /\ IsFiniteSet(S) /\ [f \in S |-> sent[f][v]] \in [S -> Nat]
         /\ BytesOf(S, v) \in Nat
<1>1. IsFiniteSet(S)
  BY SketchConstants, FS_Subset
<1>2. [f \in S |-> sent[f][v]] \in [S -> Nat]
  BY DEF LastUse
<1>. QED BY <1>1, <1>2, SumIsNat DEF BytesOf

LEMMA BytesInNat ==
  ASSUME LastUse, NEW i, NEW c PROVE BytesIn(i, c) \in [0 .. MaxWindows -> Nat]
<1>1. Hitters(i, c) \in SUBSET Flows
  BY DEF Hitters
<1>. QED BY <1>1, BytesAreNat DEF BytesIn

(* ... and grows by the packets that fall into it.                         *)
LEMMA BytesGrow ==
  ASSUME SInv, SInv', NEW flow \in Flows, NEW w \in Sizes, Update(flow, w), NEW i, NEW c
  PROVE  BytesIn(i, c)' = IF Hits(flow, i, c) THEN [BytesIn(i, c) EXCEPT ![m_cntWindows] = @ + w]
                                              ELSE BytesIn(i, c)
<1>. DEFINE S == Hitters(i, c)
            cnt == m_cntWindows
<1>1. S \in SUBSET Flows /\ (flow \in S <=> Hits(flow, i, c)) /\ S' = S
  BY DEF Hitters, Hits
<1>2. w \in Nat /\ cnt \in 0 .. MaxWindows /\ sent \in [Flows -> [0 .. MaxWindows -> Nat]]
  BY SketchConstants DEF SInv, Counting, LastUse
<1>3. \A f \in Flows, v \in 0 .. MaxWindows :
        sent'[f][v] = IF f = flow /\ v = cnt THEN sent[f][v] + w ELSE sent[f][v]
  BY <1>2 DEF Update
<1>. HIDE DEF S
<1>4. ASSUME NEW v \in 0 .. MaxWindows
      PROVE  SumOf([f \in S |-> sent'[f][v]]) =
               BytesOf(S, v) + (IF flow \in S /\ v = cnt THEN w ELSE 0)
  <2>. DEFINE old == [f \in S |-> sent[f][v]]
              new == [f \in S |-> sent'[f][v]]
  <2>1. IsFiniteSet(S) /\ old \in [S -> Nat] /\ SumOf(old) = BytesOf(S, v) /\ BytesOf(S, v) \in Nat
    BY <1>1, BytesAreNat DEF SInv, BytesOf
  <2>2. CASE flow \in S /\ v = cnt
    <3>1. new[flow] = old[flow] + w /\ \A f \in S \ {flow} : new[f] = old[f]
      BY <1>1, <1>2, <1>3, <2>2
    <3>2. old[flow] \in Nat
      BY <2>1, <2>2
    <3>3. new \in [S -> Nat]
      BY <1>1, <1>2, <1>3, <2>1
    <3>. HIDE DEF old, new
    <3>4. SumOf(new) = SumOf(old) - old[flow] + new[flow]
      BY <2>1, <2>2, <3>1, <3>3, SumChange
    <3>5. SumOf(old) \in Nat
      BY <2>1
    <3>6. SumOf(new) = SumOf(old) + w
      BY <1>2, <3>1, <3>2, <3>4, <3>5
    <3>. QED BY <2>1, <2>2, <3>6 DEF new
  <2>3. CASE ~(flow \in S /\ v = cnt)
    <3>1. \A f \in S : sent'[f][v] = sent[f][v]
      BY <1>1, <1>3, <2>3
    <3>2. new = old
      BY <3>1
    <3>. HIDE DEF old, new
    <3>3. SumOf(new) = BytesOf(S, v) + 0
      BY <2>1, <3>2
    <3>. QED BY <2>3, <3>3 DEF new
  <2>. QED BY <2>2, <2>3
<1>5. BytesIn(i, c)' = [v \in 0 .. MaxWindows |-> SumOf([f \in S |-> sent'[f][v]])]
  BY <1>1 DEF BytesIn, BytesOf, S
<1>6. BytesIn(i, c) = [v \in 0 .. MaxWindows |-> BytesOf(S, v)]
  BY DEF BytesIn, S
<1>7. \A v \in 0 .. MaxWindows : BytesOf(S, v) \in Nat
  BY <1>1, BytesAreNat DEF SInv
<1>8. CASE flow \in S
  <2>1. \A v \in 0 .. MaxWindows :
          SumOf([f \in S |-> sent'[f][v]]) = IF v = cnt THEN BytesOf(S, v) + w ELSE BytesOf(S, v)
    BY <1>4, <1>7, <1>8
  <2>. QED BY <1>1, <1>2, <1>5, <1>6, <1>8, <2>1
<1>9. CASE flow \notin S
  <2>1. \A v \in 0 .. MaxWindows : SumOf([f \in S |-> sent'[f][v]]) = BytesOf(S, v)
    BY <1>4, <1>7, <1>9
  <2>. QED BY <1>1, <1>5, <1>6, <1>9, <2>1
<1>. QED BY <1>8, <1>9

-----------------------------------------------------------------------------
(* A query touches the counters it reads.                                  *)
LEMMA TouchedFit ==
  ASSUME NEW counters, NEW b, NEW now, NEW flows, m_cntWindows \in Nat,
         AllFit(counters, b, m_cntWindows, now)
  PROVE  AllFit(Touched(counters, flows), b, m_cntWindows, now)
<1>. DEFINE Slot(j, i, c) == IF \E f \in flows : Hits(f, i, c) THEN Touch(counters[j][i][c], 0)
                                                             ELSE counters[j][i][c]
<1>1. ASSUME NEW j \in Ring, NEW i \in Rows, NEW c \in Columns
      PROVE  Fits(Slot(j, i, c), j, b[i][c], m_cntWindows, now) /\ Slot(j, i, c) \in Slots
  <2>1. Fits(counters[j][i][c], j, b[i][c], m_cntWindows, now)
    BY DEF AllFit
  <2>2. Fits(Touch(counters[j][i][c], 0), j, b[i][c], m_cntWindows, now)
    BY <2>1, TouchNothing
  <2>3. Fits(Slot(j, i, c), j, b[i][c], m_cntWindows, now)
    BY <2>1, <2>2
  <2>. HIDE DEF Slot
  <2>. QED BY <2>3 DEF Fits
<1>2. Touched(counters, flows) = [j \in Ring |-> [i \in Rows |-> [c \in Columns |-> Slot(j, i, c)]]]
  BY DEF Touched
<1>. HIDE DEF Slot
<1>. QED BY <1>1, <1>2 DEF AllFit

(* What it has touched is in sight or empty.                               *)
Fresh(counters, flow) ==
  \A j \in Ring, i \in Rows :
    counters[j][i][Hash[flow][i]].n > 0 => counters[j][i][Hash[flow][i]].e > m_cntWindows - nWindows

LEMMA TouchedFresh ==
  ASSUME NEW counters \in [Ring -> [Rows -> [Columns -> Slots]]], NEW flows, NEW flow \in flows,
         flow \in Flows, m_cntWindows \in Nat
  PROVE  Fresh(Touched(counters, flows), flow)
<1>. SUFFICES ASSUME NEW j \in Ring, NEW i \in Rows
              PROVE  LET s == Touched(counters, flows)[j][i][Hash[flow][i]]
                     IN  s.n > 0 => s.e > m_cntWindows - nWindows
  BY DEF Fresh
<1>. DEFINE slot == counters[j][i][Hash[flow][i]]
<1>1. Hash[flow][i] \in Columns /\ Hits(flow, i, Hash[flow][i])
  BY SketchConstants DEF Hits
<1>2. Touched(counters, flows)[j][i][Hash[flow][i]] = Touch(slot, 0)
  BY <1>1 DEF Touched
<1>3. slot \in Slots
  BY <1>1
<1>. HIDE DEF slot
<1>4. slot.e \in Nat /\ slot.n \in Nat
  BY <1>3 DEF Slots
<1>5. CASE m_cntWindows - slot.e >= nWindows
  <2>1. Touch(slot, 0).n = 0
    BY <1>3, <1>5 DEF Touch, Slots
  <2>. QED BY <1>2, <2>1
<1>6. CASE m_cntWindows - slot.e < nWindows
  <2>1. Touch(slot, 0).e = slot.e
    BY <1>3, <1>6 DEF Touch, Slots
  <2>. QED BY <1>2, <1>4, <1>6, <2>1, SketchConstants
<1>. QED BY <1>4, <1>5, <1>6, SketchConstants

-----------------------------------------------------------------------------
(* The counters fit at all times.                                          *)
LEMMA InitFits == Init => CountersFit /\ Clock
<1>. SUFFICES ASSUME Init PROVE CountersFit /\ Clock
  OBVIOUS
<1>. DEFINE zero == [n |-> 0, e |-> 0, t |-> 0]
<1>1. m_counters = [j \in Ring |-> [i \in Rows |-> [c \in Columns |-> zero]]]
  BY DEF Init
<1>2. zero \in Slots /\ zero.n = 0 /\ zero.e = 0 /\ zero.t = 0
  BY DEF Slots
<1>3. m_cntWindows = 0 /\ 0 * WindowSize = 0 /\ Now = 0
  BY SketchConstants DEF Init, Now
<1>. HIDE DEF zero
<1>4. \A i, c, v : v \in 0 .. MaxWindows => BytesIn(i, c)[v] = 0
  <2>. SUFFICES ASSUME NEW i, NEW c, NEW v \in 0 .. MaxWindows PROVE BytesOf(Hitters(i, c), v) = 0
    BY DEF BytesIn
  <2>. DEFINE f == [g \in Hitters(i, c) |-> sent[g][v]]
  <2>1. \A g \in Hitters(i, c) : sent[g][v] = 0
    BY DEF Hitters, Init
  <2>2. f \in [Hitters(i, c) -> Nat] /\ \A g \in Hitters(i, c) : f[g] = 0
    BY <2>1
  <2>. HIDE DEF f
  <2>3. SumOf(f) = 0
    BY <2>2, SumZero
  <2>. QED BY <2>3 DEF f, BytesOf
<1>5. ASSUME NEW j \in Ring, NEW i \in Rows, NEW c \in Columns
      PROVE  Fits(zero, j, BytesIn(i, c), 0, 0)
  <2>1. 0 \in 0 .. MaxWindows
    BY SketchConstants
  <2>. QED BY <1>2, <1>3, <1>4, <2>1 DEF Fits
<1>6. CountersFit
  BY <1>1, <1>2, <1>3, <1>5 DEF CountersFit, AllFit, ByteTable
<1>7. Clock
  BY SketchConstants DEF Init, Clock
<1>. QED BY <1>6, <1>7

LEMMA CountedFit ==
  ASSUME SInv, SInv', Clock, CountersFit, NEW flow \in Flows, NEW w \in Sizes, Update(flow, w),
         NEW b, b = ByteTable'
  PROVE  AllFit([j \in Ring |-> [i \in Rows |-> [c \in Columns |->
                   IF Hits(flow, i, c) THEN Touch(m_counters[j][i][c], IF j = m_curWindow THEN w ELSE 0)
                                       ELSE m_counters[j][i][c]]]],
                b, m_cntWindows, Now)
<1>. DEFINE Slot(j, i, c) ==
              IF Hits(flow, i, c) THEN Touch(m_counters[j][i][c], IF j = m_curWindow THEN w ELSE 0)
                                  ELSE m_counters[j][i][c]
            counted == [j \in Ring |-> [i \in Rows |-> [c \in Columns |-> Slot(j, i, c)]]]
<1>1. w \in Nat \ {0} /\ m_cntWindows \in Nat /\ m_cntWindows \in 0 .. MaxWindows
        /\ m_curWindow = m_cntWindows % nWindows
  BY SketchConstants DEF SInv, Counting
<1>2. ASSUME NEW j \in Ring, NEW i \in Rows, NEW c \in Columns
      PROVE  Fits(Slot(j, i, c), j, b[i][c], m_cntWindows, Now) /\ Slot(j, i, c) \in Slots
  <2>. DEFINE a == BytesIn(i, c)
              slot == m_counters[j][i][c]
  <2>1. a \in [0 .. MaxWindows -> Nat]
    BY BytesInNat DEF SInv
  <2>2. Fits(slot, j, a, m_cntWindows, Now)
    BY DEF CountersFit, AllFit, ByteTable
  <2>3. b[i][c] = IF Hits(flow, i, c) THEN [a EXCEPT ![m_cntWindows] = @ + w] ELSE a
    <3>1. b[i][c] = BytesIn(i, c)'
      BY DEF ByteTable
    <3>. QED BY <3>1, BytesGrow
  <2>4. /\ ~Hits(flow, i, c) => Slot(j, i, c) = slot
        /\ Hits(flow, i, c) /\ j = m_curWindow => Slot(j, i, c) = Touch(slot, w)
        /\ Hits(flow, i, c) /\ j # m_curWindow => Slot(j, i, c) = Touch(slot, 0)
    OBVIOUS
  <2>. HIDE DEF a, slot, Slot
  <2>5. Fits(Slot(j, i, c), j, b[i][c], m_cntWindows, Now) => Slot(j, i, c) \in Slots
    BY DEF Fits
  <2>6. CASE ~Hits(flow, i, c)
    BY <2>2, <2>3, <2>6, <2>4, <2>5
  <2>7. CASE Hits(flow, i, c) /\ j = m_curWindow
    <3>1. Fits(Touch(slot, w), j, [a EXCEPT ![m_cntWindows] = @ + w], m_cntWindows, Now)
      BY <1>1, <2>1, <2>2, <2>7, TouchCounts
    <3>. QED BY <2>3, <2>7, <2>4, <2>5, <3>1
  <2>8. CASE Hits(flow, i, c) /\ j # m_curWindow
    <3>1. Fits(Touch(slot, 0), j, a, m_cntWindows, Now)
      BY <1>1, <2>2, TouchNothing
    <3>2. Fits(Touch(slot, 0), j, [a EXCEPT ![m_cntWindows] = @ + w], m_cntWindows, Now)
      BY <1>1, <2>1, <2>8, <3>1, OtherPlaces
    <3>. QED BY <2>3, <2>8, <2>4, <2>5, <3>2
  <2>. QED BY <2>6, <2>7, <2>8
<1>3. AllFit(counted, b, m_cntWindows, Now)
  <2>. HIDE DEF Slot
  <2>. QED BY <1>2 DEF AllFit
<1>. QED BY <1>3

LEMMA LaterFits ==
  ASSUME NEW slot, NEW j, NEW b, NEW cnt \in Nat, NEW now \in Nat, Fits(slot, j, b, cnt, now),
         NEW next \in {cnt, cnt + 1}, NEW later \in Nat, now <= later
  PROVE  Fits(slot, j, b, next, later)
<1>1. slot \in Slots /\ slot.e \in Nat /\ slot.n \in Nat /\ slot.t \in Nat
  BY DEF Fits, Slots
<1>2. slot.e <= next /\ (slot.e > next - nWindows => slot.e > cnt - nWindows)
  BY <1>1, SketchConstants DEF Fits
<1>3. slot.t <= now => slot.t <= later
  BY <1>1
<1>. QED BY <1>1, <1>2, <1>3 DEF Fits

LEMMA StepFits ==
  ASSUME SInv, SInv', Clock, CountersFit, [Next]_vars PROVE CountersFit' /\ Clock'
<1>. DEFINE b == ByteTable
<1>1. m_cntWindows \in Nat /\ Now \in Nat /\ elapsed \in Nat
  BY NowIsNat, SketchConstants DEF SInv, Counting, Clock
<1>2. ASSUME NEW flow \in Flows, NEW w \in Sizes, Update(flow, w) PROVE CountersFit' /\ Clock'
  <2>1. PICK bytes : bytes = ByteTable'
    OBVIOUS
  <2>2. PICK counted, keys :
          /\ AllFit(counted, bytes, m_cntWindows, Now)
          /\ m_counters' = Touched(counted, keys)
    BY <1>2, <2>1, CountedFit DEF Update
  <2>3. AllFit(m_counters', bytes, m_cntWindows, Now)
    BY <1>1, <2>2, TouchedFit
  <2>4. UNCHANGED windows
    BY <1>2 DEF Update
  <2>. QED BY <2>1, <2>3, <2>4 DEF CountersFit, windows, Now, Clock
<1>3. ASSUME m_counters' = m_counters, sent' = sent, m_cntWindows' \in {m_cntWindows, m_cntWindows + 1},
             Now' \in Nat, Now <= Now'
      PROVE  CountersFit'
  <2>1. PICK bytes : bytes = ByteTable
    OBVIOUS
  <2>2. bytes = ByteTable'
    BY <1>3, <2>1 DEF ByteTable, BytesIn, BytesOf, Hitters, Hits
  <2>3. PICK next, later : next = m_cntWindows' /\ later = Now'
    OBVIOUS
  <2>4. AllFit(m_counters, bytes, m_cntWindows, Now)
    BY <2>1 DEF CountersFit
  <2>5. next \in {m_cntWindows, m_cntWindows + 1} /\ later \in Nat /\ Now <= later
    BY <1>3, <2>3
  <2>6. AllFit(m_counters, bytes, next, later)
    BY <1>1, <2>4, <2>5, LaterFits DEF AllFit
  <2>. QED BY <1>3, <2>2, <2>3, <2>6 DEF CountersFit
<1>4. CASE Tick
  <2>1. elapsed' = elapsed + 1 /\ elapsed < WindowSize /\ m_cntWindows' = m_cntWindows
    BY <1>4 DEF Tick
  <2>2. m_cntWindows * WindowSize \in Nat
    BY <1>1, SketchConstants
  <2>3. Now' \in Nat /\ Now <= Now'
    BY <1>1, <2>1, <2>2 DEF Now
  <2>4. Clock'
    BY <1>1, <2>1, SketchConstants DEF Clock
  <2>. QED BY <1>3, <1>4, <2>1, <2>3, <2>4 DEF Tick
<1>5. CASE NextWindow
  <2>1. elapsed = WindowSize /\ elapsed' = 0 /\ m_cntWindows' = m_cntWindows + 1
    BY <1>5 DEF NextWindow
  <2>2. (m_cntWindows + 1) * WindowSize = m_cntWindows * WindowSize + WindowSize
    BY <1>1, SketchConstants
  <2>3. m_cntWindows * WindowSize \in Nat
    BY <1>1, SketchConstants
  <2>4. Now' = Now
    BY <1>1, <2>1, <2>2, <2>3, SketchConstants DEF Now
  <2>5. Clock'
    BY <2>1, SketchConstants DEF Clock
  <2>. QED BY <1>1, <1>3, <1>5, <2>1, <2>4, <2>5 DEF NextWindow
<1>6. CASE UNCHANGED vars
  <2>1. UNCHANGED <<m_counters, sent, m_cntWindows, elapsed>>
    BY <1>6 DEF vars, windows
  <2>2. Now' = Now
    BY <2>1 DEF Now
  <2>. QED BY <1>1, <1>3, <2>1, <2>2 DEF Clock
<1>. QED BY <1>2, <1>4, <1>5, <1>6 DEF Next

-----------------------------------------------------------------------------
(* What a query reads in a row of its flow.                                *)
LEMMA ReadsRow ==
  ASSUME SInv, NEW counters, NEW b, NEW now, AllFit(counters, b, m_cntWindows, now),
         NEW flow \in Flows, Fresh(counters, flow), NEW j \in Ring, NEW i \in Rows,
         NEW slot, slot = counters[j][i][Hash[flow][i]]
  PROVE  /\ slot \in Slots
         /\ \A w \in Seen : w <= m_cntWindows /\ w % nWindows = j =>
              slot.n = b[i][Hash[flow][i]][w]
         /\ slot.n > 0 =>
              /\ slot.e \in Seen /\ slot.e <= m_cntWindows /\ slot.e % nWindows = j
              /\ slot.e * WindowSize <= slot.t /\ slot.t <= now
<1>. DEFINE bytes == b[i][Hash[flow][i]]
<1>1. Fits(slot, j, bytes, m_cntWindows, now)
  BY SketchConstants DEF AllFit
<1>2. slot \in Slots /\ slot.e \in Nat /\ slot.n \in Nat /\ slot.e <= m_cntWindows
  BY <1>1 DEF Fits, Slots
<1>3. m_cntWindows \in 0 .. MaxWindows /\ m_cntWindows \in Nat
  BY SketchConstants DEF SInv, Counting
<1>4. slot.n > 0 => slot.e > m_cntWindows - nWindows
  BY DEF Fresh
<1>. HIDE DEF bytes
<1>5. slot.n > 0 =>
        /\ slot.e \in Seen /\ slot.e <= m_cntWindows /\ slot.e % nWindows = j
        /\ slot.e * WindowSize <= slot.t /\ slot.t <= now
  <2>. SUFFICES ASSUME slot.n > 0
                PROVE  /\ slot.e \in Seen /\ slot.e % nWindows = j
                       /\ slot.e * WindowSize <= slot.t /\ slot.t <= now
    BY <1>2
  <2>1. slot.e \in 0 .. MaxWindows
    BY <1>2, <1>3, SketchConstants
  <2>2. slot.e \in Seen
    BY <1>4, <2>1 DEF Seen, InSight
  <2>3. slot.e % nWindows = j
    <3>1. slot.e % nWindows = j \/ slot.n = 0
      BY <1>1 DEF Fits
    <3>. QED BY <1>2, <3>1
  <2>4. slot.e * WindowSize <= slot.t /\ slot.t <= now
    BY <1>1 DEF Fits
  <2>. QED BY <2>2, <2>3, <2>4
<1>6. ASSUME NEW w \in Seen, w <= m_cntWindows, w % nWindows = j PROVE slot.n = bytes[w]
  <2>1. w \in 0 .. MaxWindows /\ w \in Int /\ w > m_cntWindows - nWindows
    BY DEF Seen, InSight
  <2>2. CASE slot.n > 0
    <3>1. slot.e > m_cntWindows - nWindows /\ slot.e % nWindows = j /\ slot.e \in Int
      BY <1>2, <1>4, <1>5, <2>2
    <3>2. slot.e = w
      BY <1>2, <1>3, <1>6, <2>1, <3>1, OneInSight
    <3>. QED BY <1>1, <3>1, <3>2 DEF Fits
  <2>3. CASE slot.n = 0 /\ w > slot.e
    BY <1>1, <1>6, <2>1, <2>3 DEF Fits
  <2>4. CASE slot.n = 0 /\ w <= slot.e
    <3>1. slot.e > m_cntWindows - nWindows
      BY <1>2, <1>3, <2>1, <2>4, SketchConstants
    <3>2. slot.e % nWindows = j
      <4>1. CASE slot.e = 0
        BY <1>6, <2>1, <2>4, <4>1
      <4>2. CASE slot.e # 0
        BY <1>1, <4>2 DEF Fits
      <4>. QED BY <4>1, <4>2
    <3>3. slot.e = w
      BY <1>2, <1>3, <1>6, <2>1, <3>1, <3>2, OneInSight
    <3>. QED BY <1>1, <3>1, <3>2, <3>3 DEF Fits
  <2>. QED BY <1>2, <2>1, <2>2, <2>3, <2>4
<1>. QED BY <1>2, <1>5, <1>6 DEF bytes

(* Nothing has been sent in the subwindows to come.                        *)
LEMMA NothingYet ==
  ASSUME SInv, NEW counters, NEW b, NEW now, AllFit(counters, b, m_cntWindows, now),
         NEW i \in Rows, NEW c \in Columns, NEW w \in 0 .. MaxWindows, w > m_cntWindows
  PROVE  b[i][c][w] = 0
<1>. DEFINE j == w % nWindows
            slot == counters[j][i][c]
<1>1. w \in Int /\ nWindows \in Nat \ {0} /\ m_cntWindows \in Nat
  BY SketchConstants DEF SInv, Counting
<1>2. j \in Ring
  BY <1>1, DivMod DEF Ring
<1>3. Fits(slot, j, b[i][c], m_cntWindows, now)
  BY <1>2 DEF AllFit
<1>. HIDE DEF slot
<1>4. slot.e \in Nat /\ slot.e <= m_cntWindows
  BY <1>3 DEF Fits, Slots
<1>5. w > slot.e
  BY <1>1, <1>4
<1>. QED BY <1>3, <1>5 DEF Fits

LEMMA LowestIsLowest ==
  ASSUME NEW S \in SUBSET Nat, S # {}
  PROVE  LowestOf(S) \in S /\ \A y \in S : LowestOf(S) <= y
<1>1. \E x \in S : \A y \in S : x <= y
  BY LeastExists
<1>. QED BY <1>1 DEF LowestOf

-----------------------------------------------------------------------------
(* What a query makes of the rows.                                         *)
LEMMA ReadsLowest ==
  ASSUME SInv, NEW counters, NEW b, NEW now, AllFit(counters, b, m_cntWindows, now),
         NEW flow \in Flows, Fresh(counters, flow), NEW j \in Ring
  PROVE  /\ re(counters, flow, j) \in Nat
         /\ \A w \in Seen : w <= m_cntWindows /\ w % nWindows = j =>
              re(counters, flow, j) = LowestOf({b[i][Hash[flow][i]][w] : i \in Rows})
         /\ re(counters, flow, j) > 0 => \A i \in Rows : counters[j][i][Hash[flow][i]].n > 0
<1>. DEFINE slot(i) == counters[j][i][Hash[flow][i]]
            S == {slot(i).n : i \in Rows}
<1>1. \A i \in Rows : slot(i) \in Slots /\ slot(i).n \in Nat
  <2>1. \A i \in Rows : slot(i) \in Slots
    BY ReadsRow
  <2>. HIDE DEF slot
  <2>. QED BY <2>1 DEF Slots
<1>2. \A w \in Seen : w <= m_cntWindows /\ w % nWindows = j =>
        \A i \in Rows : slot(i).n = b[i][Hash[flow][i]][w]
  BY ReadsRow
<1>3. re(counters, flow, j) = LowestOf(S)
  BY DEF re
<1>. HIDE DEF slot
<1>4. S \in SUBSET Nat /\ S # {}
  BY <1>1, SketchConstants
<1>5. LowestOf(S) \in S /\ \A y \in S : LowestOf(S) <= y
  <2>. HIDE DEF S
  <2>. QED BY <1>4, LowestIsLowest
<1>6. ASSUME NEW w \in Seen, w <= m_cntWindows /\ w % nWindows = j
      PROVE  S = {b[i][Hash[flow][i]][w] : i \in Rows}
  BY <1>2, <1>6
<1>7. LowestOf(S) > 0 => \A i \in Rows : slot(i).n > 0
  <2>1. \A i \in Rows : slot(i).n \in S
    OBVIOUS
  <2>2. LowestOf(S) \in Nat
    BY <1>4, <1>5
  <2>. HIDE DEF S
  <2>. QED BY <1>1, <1>5, <2>1, <2>2
<1>8. LowestOf(S) \in Nat
  BY <1>4, <1>5
<1>. HIDE DEF S
<1>. QED BY <1>3, <1>6, <1>7, <1>8 DEF slot

LEMMA RingFinite == IsFiniteSet(Ring) /\ \A w \in Int : w % nWindows \in Ring
<1>1. IsFiniteSet(0 .. nWindows - 1)
  BY SketchConstants, FS_Interval
<1>2. \A w \in Int : w % nWindows \in 0 .. nWindows - 1
  BY SketchConstants, DivMod
<1>. QED BY <1>1, <1>2 DEF Ring

(* A query sees every subwindow in sight, once, and nothing else: however  *)
(* the ring comes round, clearing the counters late is never noticed.      *)
LEMMA ExactNow == ASSUME SInv, Clock, CountersFit PROVE QueryExact
<1>. SUFFICES ASSUME NEW flow \in Flows
              PROVE  sz(Touched(m_counters, {flow}), flow) =
                       SumOf([w \in Seen |->
                         LowestOf({BytesOf({f \in Flows : Hits(f, i, Hash[flow][i])}, w) : i \in Rows})])
  BY DEF QueryExact
<1>. DEFINE counters == Touched(m_counters, {flow})
            Low(w) == LowestOf({ByteTable[i][Hash[flow][i]][w] : i \in Rows})
            f == [w \in Seen |-> Low(w)]
            g == [j \in Ring |-> re(counters, flow, j)]
            r == [w \in Seen |-> w % nWindows]
<1>1. m_cntWindows \in Nat /\ Seen \subseteq 0 .. MaxWindows /\ Seen \subseteq Int
  BY SketchConstants DEF SInv, Counting, Seen
<1>2. AllFit(counters, ByteTable, m_cntWindows, Now) /\ Fresh(counters, flow)
  BY <1>1, TouchedFit, TouchedFresh DEF CountersFit, AllFit
<1>3. \A i \in Rows, w \in Seen :
        ByteTable[i][Hash[flow][i]][w] = BytesOf({e \in Flows : Hits(e, i, Hash[flow][i])}, w)
  BY <1>1, SketchConstants DEF ByteTable, BytesIn, Hitters
<1>4. \A i \in Rows, w \in Seen : ByteTable[i][Hash[flow][i]][w] \in Nat
  <2>1. \A i \in Rows, w \in Seen :
          BytesOf({e \in Flows : Hits(e, i, Hash[flow][i])}, w) \in Nat
    BY <1>1, BytesAreNat DEF SInv
  <2>. QED BY <1>3, <2>1
<1>. HIDE DEF counters
<1>5. /\ \A j \in Ring : re(counters, flow, j) \in Nat
      /\ \A j \in Ring, w \in Seen :
           w <= m_cntWindows /\ w % nWindows = j => re(counters, flow, j) = Low(w)
      /\ \A j \in Ring :
           re(counters, flow, j) > 0 => \A i \in Rows : counters[j][i][Hash[flow][i]].n > 0
  BY <1>2, ReadsLowest
<1>6. ASSUME NEW w \in Seen PROVE Low(w) \in Nat /\ (Low(w) > 0 => w <= m_cntWindows)
  <2>. DEFINE S == {ByteTable[i][Hash[flow][i]][w] : i \in Rows}
  <2>1. S \in SUBSET Nat /\ S # {}
    BY <1>4, SketchConstants
  <2>2. LowestOf(S) \in S
    <3>. HIDE DEF S
    <3>. QED BY <2>1, LowestIsLowest
  <2>3. ASSUME w > m_cntWindows PROVE LowestOf(S) = 0
    <3>1. \A i \in Rows : ByteTable[i][Hash[flow][i]][w] = 0
      BY <1>1, <1>2, <2>3, SketchConstants, NothingYet
    <3>. QED BY <2>2, <3>1
  <2>4. w > m_cntWindows \/ w <= m_cntWindows
    BY <1>1
  <2>5. Low(w) = LowestOf(S)
    OBVIOUS
  <2>6. LowestOf(S) \in Nat
    BY <2>1, <2>2
  <2>. HIDE DEF S
  <2>. QED BY <2>3, <2>4, <2>5, <2>6
<1>7. \A w \in Seen : w % nWindows \in Ring
  BY <1>1, RingFinite
<1>. HIDE DEF Low
<1>8. f \in [Seen -> Nat] /\ g \in [Ring -> Nat] /\ r \in [Seen -> Ring]
  BY <1>5, <1>6, <1>7
<1>9. ASSUME NEW v \in Seen, NEW w \in Seen, f[v] > 0 /\ f[w] > 0 /\ r[v] = r[w] PROVE v = w
  <2>1. v <= m_cntWindows /\ w <= m_cntWindows /\ v % nWindows = w % nWindows
    BY <1>6, <1>9
  <2>2. v \in Int /\ w \in Int /\ v > m_cntWindows - nWindows /\ w > m_cntWindows - nWindows
    BY <1>1 DEF Seen, InSight
  <2>. QED BY <1>1, <2>1, <2>2, OneInSight
<1>10. ASSUME NEW w \in Seen, f[w] > 0 PROVE g[r[w]] = f[w]
  BY <1>5, <1>6, <1>7, <1>10
<1>11. ASSUME NEW j \in Ring, g[j] > 0 PROVE \E w \in Seen : r[w] = j /\ f[w] = g[j]
  <2>1. counters[j][0][Hash[flow][0]].n > 0
    BY <1>5, <1>11, SketchConstants
  <2>2. PICK w \in Seen : w <= m_cntWindows /\ w % nWindows = j
    BY <1>2, <2>1, SketchConstants, ReadsRow
  <2>. QED BY <1>5, <2>2
<1>12. SumOf(f) = SumOf(g)
  <2>. HIDE DEF f, g, r
  <2>. QED BY <1>8, <1>9, <1>10, <1>11, RingFinite, SumRenamed
<1>13. f = [w \in Seen |->
              LowestOf({BytesOf({e \in Flows : Hits(e, i, Hash[flow][i])}, w) : i \in Rows})]
  <2>1. ASSUME NEW w \in Seen
        PROVE  Low(w) =
                 LowestOf({BytesOf({e \in Flows : Hits(e, i, Hash[flow][i])}, w) : i \in Rows})
    <3>1. {ByteTable[i][Hash[flow][i]][w] : i \in Rows} =
            {BytesOf({e \in Flows : Hits(e, i, Hash[flow][i])}, w) : i \in Rows}
      BY <1>3
    <3>2. Low(w) = LowestOf({ByteTable[i][Hash[flow][i]][w] : i \in Rows})
      BY DEF Low
    <3>. QED BY <3>1, <3>2
  <2>. QED BY <2>1
<1>. QED BY <1>12, <1>13 DEF sz, counters

-----------------------------------------------------------------------------
(* A flow with bytes in sight has a rate: rounding down does not lose it,  *)
(* because a packet counts a byte and a window is no longer than a second. *)
LEMMA RoundsAboveZero ==
  ASSUME NEW n \in Nat \ {0}, NEW d \in Nat \ {0}, d <= Second PROVE (n * Second) \div d \in Nat \ {0}
<1>. DEFINE a == n * Second
            q == a \div d
            m == a % d
<1>1. a \in Nat /\ a >= d
  <2>1. Second \in Nat
    BY SketchConstants
  <2>2. n * Second = Second + (n - 1) * Second /\ (n - 1) * Second \in Nat
    BY <2>1
  <2>. QED BY <2>1, <2>2
<1>. HIDE DEF a
<1>2. a = d * q + m /\ q \in Int /\ m \in 0 .. d - 1
  <2>1. a \in Int
    BY <1>1
  <2>. QED BY <2>1, DivMod
<1>. HIDE DEF q, m
<1>3. q <= 0 => d * q <= 0
  BY <1>2
<1>4. d * q \in Int
  BY <1>2
<1>5. q \in Nat \ {0}
  BY <1>1, <1>2, <1>3, <1>4
<1>. QED BY <1>5 DEF q, a

(* What is in sight is not older than a second.                            *)
LEMMA NotOlder ==
  ASSUME SInv, Clock, NEW e \in Nat, NEW t \in Nat, e <= m_cntWindows, e > m_cntWindows - nWindows,
         e * WindowSize <= t, t <= Now
  PROVE  Now - t \in 0 .. Second
<1>1. m_cntWindows \in Nat /\ elapsed \in 0 .. WindowSize /\ WindowSize \in Nat \ {0}
        /\ nWindows \in Nat \ {0}
  BY SketchConstants DEF SInv, Counting, Clock
<1>. DEFINE k == m_cntWindows - e
            l == nWindows - 1 - k
<1>2. k \in Nat /\ l \in Nat
  BY <1>1
<1>3. m_cntWindows * WindowSize = e * WindowSize + k * WindowSize
  BY <1>1
<1>4. nWindows * WindowSize = k * WindowSize + l * WindowSize + WindowSize
  BY <1>1
<1>. HIDE DEF k, l
<1>5. e * WindowSize \in Nat /\ k * WindowSize \in Nat /\ l * WindowSize \in Nat
  BY <1>1, <1>2
<1>6. Now = e * WindowSize + k * WindowSize + elapsed
  BY <1>1, <1>3, <1>5 DEF Now
<1>7. Now - t <= nWindows * WindowSize /\ Now - t \in Nat
  BY <1>1, <1>4, <1>5, <1>6
<1>8. nWindows * WindowSize \in Nat
  BY <1>1
<1>. QED BY <1>7, <1>8, SketchConstants

LEMMA QueryIsNat ==
  ASSUME SInv, Clock, NEW counters, NEW b, AllFit(counters, b, m_cntWindows, Now),
         NEW flow \in Flows, Fresh(counters, flow)
  PROVE  /\ Query(counters, flow) \in Nat
         /\ (\E j \in Ring : re(counters, flow, j) > 0) => Query(counters, flow) > 0
<1>. DEFINE used == {k \in Ring : re(counters, flow, k) > 0}
            T == {tm(counters, flow, k) : k \in used}
            delta == Now - LowestOf(T)
            g == [k \in Ring |-> re(counters, flow, k)]
<1>1. Query(counters, flow) = IF used = {} THEN 0
                              ELSE IF delta = 0 THEN InitialRate
                              ELSE (sz(counters, flow) * Second) \div delta
  BY DEF Query
<1>2. /\ \A k \in Ring : re(counters, flow, k) \in Nat
      /\ \A k \in Ring : re(counters, flow, k) > 0 =>
                           \A i \in Rows : counters[k][i][Hash[flow][i]].n > 0
  BY ReadsLowest
<1>3. CASE used = {}
  BY <1>1, <1>3
<1>4. ASSUME NEW j \in used PROVE Query(counters, flow) \in Nat /\ Query(counters, flow) > 0
  <2>1. ASSUME NEW k \in used
        PROVE  tm(counters, flow, k) \in Nat /\ Now - tm(counters, flow, k) \in 0 .. Second
    <3>. DEFINE S == {counters[k][i][Hash[flow][i]].t : i \in Rows}
    <3>1. ASSUME NEW i \in Rows
          PROVE  LET t == counters[k][i][Hash[flow][i]].t IN t \in Nat /\ Now - t \in 0 .. Second
      <4>. DEFINE slot == counters[k][i][Hash[flow][i]]
      <4>1. slot.n > 0 /\ k \in Ring
        BY <1>2
      <4>2. /\ slot \in Slots /\ slot.e <= m_cntWindows
            /\ slot.e * WindowSize <= slot.t /\ slot.t <= Now
        BY <4>1, ReadsRow
      <4>3. slot.e > m_cntWindows - nWindows
        BY <4>1 DEF Fresh
      <4>. HIDE DEF slot
      <4>4. slot.e \in Nat /\ slot.t \in Nat
        BY <4>2 DEF Slots
      <4>5. Now - slot.t \in 0 .. Second
        BY <4>2, <4>3, <4>4, NotOlder
      <4>. QED BY <4>4, <4>5 DEF slot
    <3>2. S \in SUBSET Nat /\ S # {} /\ \A t \in S : Now - t \in 0 .. Second
      BY <3>1, SketchConstants
    <3>3. tm(counters, flow, k) = LowestOf(S)
      BY DEF tm
    <3>. HIDE DEF S
    <3>. QED BY <3>2, <3>3, LowestIsLowest
  <2>2. j \in Ring /\ re(counters, flow, j) > 0 /\ used # {}
    OBVIOUS
  <2>. HIDE DEF used
  <2>3. T \in SUBSET Nat /\ T # {} /\ \A t \in T : Now - t \in 0 .. Second
    BY <2>1, <2>2
  <2>4. delta \in 0 .. Second
    <3>1. LowestOf(T) \in T
      <4>. HIDE DEF T
      <4>. QED BY <2>3, LowestIsLowest
    <3>. HIDE DEF T
    <3>. QED BY <2>3, <3>1
  <2>5. sz(counters, flow) \in Nat \ {0}
    <3>1. g \in [Ring -> Nat] /\ g[j] > 0
      BY <1>2, <2>2
    <3>. HIDE DEF g
    <3>2. SumOf(g) \in Nat /\ g[j] <= SumOf(g)
      BY <2>2, <3>1, RingFinite, SumIsNat, SumAtLeast
    <3>3. g[j] \in Nat
      BY <2>2, <3>1
    <3>. QED BY <3>1, <3>2, <3>3 DEF sz, g
  <2>. HIDE DEF delta
  <2>6. CASE delta = 0
    BY <1>1, <2>2, <2>6, SketchConstants
  <2>7. CASE delta # 0
    <3>1. delta \in Nat \ {0} /\ delta <= Second
      BY <2>4, <2>7, SketchConstants
    <3>2. (sz(counters, flow) * Second) \div delta \in Nat \ {0}
      BY <2>5, <3>1, RoundsAboveZero
    <3>. QED BY <1>1, <2>2, <2>7, <3>2
  <2>. QED BY <2>6, <2>7
<1>. QED BY <1>3, <1>4

LEMMA QueryPositive ==
  ASSUME SInv, Clock, NEW counters, NEW b, AllFit(counters, b, m_cntWindows, Now),
         NEW flow \in Flows, Fresh(counters, flow), NEW w \in Seen, w <= m_cntWindows,
         \A i \in Rows : b[i][Hash[flow][i]][w] \in Nat \ {0}
  PROVE  Query(counters, flow) > 0
<1>. DEFINE j == w % nWindows
            S == {b[i][Hash[flow][i]][w] : i \in Rows}
<1>1. j \in Ring
  BY RingFinite DEF Seen
<1>2. S \in SUBSET Nat /\ S # {} /\ \A y \in S : y > 0
  BY SketchConstants
<1>3. re(counters, flow, j) = LowestOf(S)
  BY <1>1, ReadsLowest
<1>. HIDE DEF S, j
<1>4. re(counters, flow, j) > 0
  BY <1>2, <1>3, LowestIsLowest
<1>. QED BY <1>1, <1>4, QueryIsNat

-----------------------------------------------------------------------------
SketchInvariant == SInv /\ CountersFit /\ Clock

LEMMA StepKeeps == SketchInvariant /\ [Next]_vars => SketchInvariant'
  BY NextSInv, StepFits DEF SketchInvariant

LEMMA SketchInvariance == Spec => []SketchInvariant
<1>1. Init => SketchInvariant
  BY InitSInv, InitFits DEF SketchInvariant
<1>. QED BY <1>1, StepKeeps, PTL DEF Spec

(* For every hash, every number of rows, columns and subwindows and every  *)
(* load, a query returns the bytes of the window, none older and each      *)
(* once, although a counter is only cleared when it is next touched.       *)
THEOREM QueriesExact == Spec => []QueryExact
<1>1. SketchInvariant => QueryExact
  BY ExactNow DEF SketchInvariant
<1>. QED BY <1>1, SketchInvariance, PTL

-----------------------------------------------------------------------------
(* A flow that sent in the window has bytes in every row it is counted in, *)
(* so its rate is above zero and GetThBinary keeps it.                     *)
LEMMA UpdateKnows ==
  ASSUME SketchInvariant, SketchInvariant', ActiveAreKnown,
         NEW flow \in Flows, NEW w \in Sizes, Update(flow, w)
  PROVE  ActiveAreKnown'
<1>. DEFINE keys == m_flowKeys \cup {flow}
<1>1. PICK b : b = ByteTable'
  OBVIOUS
<1>2. PICK counted, touched :
        /\ AllFit(counted, b, m_cntWindows, Now)
        /\ touched = Touched(counted, keys)
        /\ m_flowKeys' = Remembered(touched, keys)
  BY <1>1, CountedFit DEF Update, SketchInvariant
<1>3. /\ m_cntWindows \in Nat /\ MaxWindows \in Nat /\ Seen \subseteq 0 .. MaxWindows
      /\ m_cntWindows \in 0 .. MaxWindows /\ w \in Nat \ {0}
  BY SketchConstants DEF SketchInvariant, SInv, Counting, Seen
<1>4. sent \in [Flows -> [0 .. MaxWindows -> Nat]]
  BY DEF SketchInvariant, SInv, LastUse
<1>5. UNCHANGED windows /\ sent' = [sent EXCEPT ![flow][m_cntWindows] = @ + w]
  BY DEF Update
<1>6. SUFFICES ASSUME NEW g \in Flows, Active(g)' PROVE g \in Remembered(touched, keys)
  BY <1>2 DEF ActiveAreKnown
<1>7. PICK v \in Seen : sent'[g][v] > 0
  BY <1>5, <1>6 DEF Active, Seen, InSight, windows
<1>8. g \in keys
  <2>1. CASE g = flow
    BY <2>1
  <2>2. CASE g # flow
    <3>1. sent'[g][v] = sent[g][v]
      BY <1>4, <1>5, <2>2
    <3>. QED BY <1>7, <3>1 DEF Active, ActiveAreKnown
  <2>. QED BY <2>1, <2>2
<1>9. v <= m_cntWindows
  <2>1. \A e \in Columns : m_B'[e] <= m_cntWindows'
    BY DEF SketchInvariant, SInv, Counting
  <2>2. Hash[g][0] \in Columns
    BY SketchConstants
  <2>3. v <= m_B'[Hash[g][0]] /\ m_B'[Hash[g][0]] \in Int
    BY <1>3, <1>7, <2>2 DEF SketchInvariant, SInv, Counting, LastUse
  <2>4. m_cntWindows' = m_cntWindows
    BY <1>5 DEF windows
  <2>. QED BY <1>3, <2>1, <2>2, <2>3, <2>4
<1>10. \A i \in Rows : b[i][Hash[g][i]][v] \in Nat \ {0}
  <2>. SUFFICES ASSUME NEW i \in Rows PROVE b[i][Hash[g][i]][v] \in Nat \ {0}
    OBVIOUS
  <2>1. PICK after : after = sent'
    OBVIOUS
  <2>. DEFINE S == {f \in Flows : Hits(f, i, Hash[g][i])}
              bytes == [f \in S |-> after[f][v]]
  <2>2. b[i][Hash[g][i]][v] = SumOf(bytes)
    BY <1>1, <1>3, <2>1, SketchConstants DEF ByteTable, BytesIn, BytesOf, Hitters, Hits
  <2>3. after \in [Flows -> [0 .. MaxWindows -> Nat]]
    BY <2>1 DEF SketchInvariant, SInv, LastUse
  <2>4. IsFiniteSet(S) /\ g \in S
    <3>1. S \in SUBSET Flows /\ g \in S
      BY DEF Hits
    <3>. QED BY <3>1, SketchConstants, FS_Subset
  <2>5. bytes \in [S -> Nat] /\ bytes[g] > 0 /\ bytes[g] \in Nat
    BY <1>3, <1>7, <2>1, <2>3, <2>4
  <2>. HIDE DEF bytes, S
  <2>6. SumOf(bytes) \in Nat /\ bytes[g] <= SumOf(bytes)
    BY <2>4, <2>5, SumIsNat, SumAtLeast
  <2>. QED BY <2>2, <2>5, <2>6
<1>11. AllFit(touched, b, m_cntWindows, Now) /\ Fresh(touched, g)
  <2>1. counted \in [Ring -> [Rows -> [Columns -> Slots]]]
    BY <1>2 DEF AllFit
  <2>. QED BY <1>2, <1>3, <1>8, <2>1, TouchedFit, TouchedFresh
<1>12. Query(touched, g) > 0
  BY <1>7, <1>9, <1>10, <1>11, QueryPositive DEF SketchInvariant
<1>. QED BY <1>8, <1>12 DEF Remembered

LEMMA StepKnows ==
  ASSUME SketchInvariant, SketchInvariant', ActiveAreKnown, [Next]_vars PROVE ActiveAreKnown'
<1>1. CASE \E flow \in Flows, w \in Sizes : Update(flow, w)
  BY <1>1, UpdateKnows
<1>2. ASSUME m_flowKeys' = m_flowKeys, sent' = sent, m_cntWindows' \in {m_cntWindows, m_cntWindows + 1}
      PROVE  ActiveAreKnown'
  <2>1. m_cntWindows \in Nat /\ nWindows \in Nat
    BY SketchConstants DEF SketchInvariant, SInv, Counting
  <2>2. Seen' \subseteq Seen
    BY <1>2, <2>1, SketchConstants DEF Seen, InSight
  <2>3. \A g : Active(g)' => Active(g)
    BY <1>2, <2>2 DEF Active
  <2>. QED BY <1>2, <2>3 DEF ActiveAreKnown
<1>3. CASE Tick
  BY <1>2, <1>3 DEF Tick
<1>4. CASE NextWindow
  BY <1>2, <1>4 DEF NextWindow
<1>5. CASE UNCHANGED vars
  BY <1>2, <1>5 DEF vars, windows
<1>. QED BY <1>1, <1>3, <1>4, <1>5 DEF Next

(* A flow with a packet in the window is never forgotten: rounding its     *)
(* rate down, sharing its columns and the ring coming round do not hide it *)
(* from GetThBinary.                                                       *)
THEOREM ActiveKnown == Spec => []ActiveAreKnown
<1>1. Init => ActiveAreKnown
  BY DEF Init, ActiveAreKnown, Active, Seen
<1>2. SketchInvariant /\ ActiveAreKnown /\ SketchInvariant' /\ [Next]_vars => ActiveAreKnown'
  BY StepKnows
<1>. QED BY <1>1, <1>2, SketchInvariance, PTL DEF Spec

-----------------------------------------------------------------------------
(* The pure part of GetThBinary.  Products keep the order of the factors.  *)
LEMMA TimesKeeps ==
  ASSUME NEW a \in Nat, NEW b \in Nat, a <= b, NEW c \in Nat
  PROVE  a * c <= b * c /\ a * c \in Nat /\ b * c \in Nat
<1>1. PICK e \in Nat : b = a + e
  <2>1. b - a \in Nat /\ b = a + (b - a)
    OBVIOUS
  <2>. QED BY <2>1
<1>2. b * c = a * c + e * c /\ e * c \in Nat /\ a * c \in Nat
  BY <1>1
<1>. QED BY <1>2

LEMMA HighestIs == ASSUME NEW n \in Nat, NEW r \in [0 .. n -> Nat] PROVE Highest(r) = n
<1>1. DOMAIN r = 0 .. n
  OBVIOUS
<1>2. \A k : k \in 0 .. n /\ k + 1 \notin 0 .. n <=> k = n
  OBVIOUS
<1>. QED BY <1>1, <1>2 DEF Highest

LEMMA CountedFrom ==
  ASSUME NEW n \in Nat, NEW m \in 1 .. n + 1
  PROVE  /\ IsFiniteSet(m .. n) /\ Cardinality(m .. n) = n + 1 - m
         /\ IsFiniteSet(1 .. n) /\ Cardinality(1 .. n) = n
<1>1. m \in Int /\ n \in Int /\ (m > n => n + 1 - m = 0) /\ n - m + 1 = n + 1 - m
  OBVIOUS
<1>2. 1 \in Int /\ (1 > n => n = 0) /\ n - 1 + 1 = n
  OBVIOUS
<1>3. Cardinality(m .. n) = IF m > n THEN 0 ELSE n - m + 1
  BY <1>1, FS_Interval
<1>4. Cardinality(1 .. n) = IF 1 > n THEN 0 ELSE n - 1 + 1
  BY <1>1, <1>2, FS_Interval
<1>5. IsFiniteSet(m .. n) /\ IsFiniteSet(1 .. n)
  BY <1>1, <1>2, FS_Interval
<1>. QED BY <1>1, <1>2, <1>3, <1>4, <1>5

(* std::sort.                                                              *)
Ahead(rates, j, i) == rates[j] < rates[i] \/ (rates[j] = rates[i] /\ j <= i)
Upto(rates, i) == {j \in 1 .. Len(rates) : Ahead(rates, j, i)}

LEMMA PlacesInOrder ==
  ASSUME NEW rates \in Seq(Nat), NEW i \in 1 .. Len(rates), NEW j \in 1 .. Len(rates), i # j
  PROVE  /\ PlaceOf(rates, i) \in 1 .. Len(rates)
         /\ Ahead(rates, i, j) => PlaceOf(rates, i) < PlaceOf(rates, j)
         /\ Ahead(rates, i, j) \/ Ahead(rates, j, i)
<1>1. PICK n \in Nat : n = Len(rates)
  OBVIOUS
<1>2. rates \in [1 .. n -> Nat] /\ i \in 1 .. n /\ j \in 1 .. n
  BY <1>1
<1>3. IsFiniteSet(1 .. n) /\ Cardinality(1 .. n) = n
  <2>1. 1 \in 1 .. n + 1
    OBVIOUS
  <2>. QED BY <2>1, CountedFrom
<1>4. ASSUME NEW k \in 1 .. n
      PROVE  /\ PlaceOf(rates, k) = Cardinality(Upto(rates, k)) /\ k \in Upto(rates, k)
             /\ IsFiniteSet(Upto(rates, k)) /\ PlaceOf(rates, k) \in 1 .. n
  <2>1. Upto(rates, k) \in SUBSET (1 .. n) /\ k \in Upto(rates, k)
    BY <1>1, <1>2 DEF Upto, Ahead
  <2>2. /\ IsFiniteSet(Upto(rates, k)) /\ Cardinality(Upto(rates, k)) <= n
        /\ Cardinality(Upto(rates, k)) \in Nat /\ Cardinality(Upto(rates, k)) # 0
    BY <1>3, <2>1, FS_Subset, FS_CardinalityType, FS_EmptySet
  <2>3. PlaceOf(rates, k) = Cardinality(Upto(rates, k))
    BY DEF PlaceOf, Upto, Ahead
  <2>. QED BY <2>1, <2>2, <2>3
<1>5. rates[i] \in Nat /\ rates[j] \in Nat
  BY <1>2
<1>6. ASSUME Ahead(rates, i, j) PROVE PlaceOf(rates, i) < PlaceOf(rates, j)
  <2>1. Upto(rates, i) \subseteq Upto(rates, j)
    <3>. SUFFICES ASSUME NEW k \in 1 .. n, Ahead(rates, k, i) PROVE Ahead(rates, k, j)
      BY <1>1 DEF Upto
    <3>1. rates[k] \in Nat
      BY <1>2
    <3>. QED BY <1>2, <1>5, <1>6, <3>1 DEF Ahead
  <2>2. j \in Upto(rates, j) /\ j \notin Upto(rates, i)
    <3>1. ~Ahead(rates, j, i)
      BY <1>2, <1>5, <1>6 DEF Ahead
    <3>. QED BY <1>2, <1>4, <3>1 DEF Upto
  <2>3. PICK S, T : S = Upto(rates, i) /\ T = Upto(rates, j)
    OBVIOUS
  <2>4. IsFiniteSet(S) /\ IsFiniteSet(T) /\ S \in SUBSET T /\ S # T
    BY <1>2, <1>4, <2>1, <2>2, <2>3
  <2>5. Cardinality(S) <= Cardinality(T) /\ Cardinality(S) # Cardinality(T)
    BY <2>4, FS_Subset
  <2>. QED BY <1>2, <1>4, <2>3, <2>5
<1>7. Ahead(rates, i, j) \/ Ahead(rates, j, i)
  BY <1>2, <1>5 DEF Ahead
<1>. QED BY <1>1, <1>2, <1>4, <1>6, <1>7

Rising(r, n) == r \in [0 .. n -> Nat] /\ r[0] = 0 /\ \A i, j \in 1 .. n : i <= j => r[i] <= r[j]

LEMMA SortedRises == ASSUME NEW rates \in Seq(Nat) PROVE Rising(Sorted(rates), Len(rates))
<1>1. PICK n \in Nat : n = Len(rates)
  OBVIOUS
<1>2. rates \in [1 .. n -> Nat]
  BY <1>1
<1>. DEFINE place == [i \in 1 .. n |-> PlaceOf(rates, i)]
            at(k) == CHOOSE i \in 1 .. n : PlaceOf(rates, i) = k
<1>3. ASSUME NEW i \in 1 .. n PROVE PlaceOf(rates, i) \in 1 .. n
  <2>1. CASE \E j \in 1 .. n : i # j
    BY <1>1, <2>1, PlacesInOrder
  <2>2. CASE ~\E j \in 1 .. n : i # j
    <3>1. n = 1 /\ i = 1
      <4>1. 1 \in 1 .. n /\ n \in 1 .. n
        OBVIOUS
      <4>. QED BY <2>2, <4>1
    <3>2. Upto(rates, i) = {1}
      BY <1>1, <1>2, <3>1 DEF Upto, Ahead
    <3>3. PlaceOf(rates, i) = Cardinality({1})
      BY <3>2 DEF PlaceOf, Upto, Ahead
    <3>. QED BY <3>1, <3>3, FS_Singleton
  <2>. QED BY <2>1, <2>2
<1>4. place \in [1 .. n -> 1 .. n] /\ \A i \in 1 .. n : place[i] = PlaceOf(rates, i)
  BY <1>3
<1>. HIDE DEF place
<1>5. ASSUME NEW i \in 1 .. n, NEW j \in 1 .. n, i # j PROVE place[i] # place[j]
  <2>1. PlaceOf(rates, i) < PlaceOf(rates, j) \/ PlaceOf(rates, j) < PlaceOf(rates, i)
    BY <1>1, <1>5, PlacesInOrder
  <2>2. place[i] = PlaceOf(rates, i) /\ place[j] = PlaceOf(rates, j) /\ place[i] \in 1 .. n
    BY <1>4
  <2>. QED BY <2>1, <2>2
<1>6. place \in Surjection(1 .. n, 1 .. n)
  <2>1. place \in Injection(1 .. n, 1 .. n)
    BY <1>4, <1>5 DEF Injection, IsInjective
  <2>2. IsFiniteSet(1 .. n)
    BY FS_Interval
  <2>. QED BY <2>1, <2>2, FS_Injection
<1>7. ASSUME NEW k \in 1 .. n PROVE at(k) \in 1 .. n /\ PlaceOf(rates, at(k)) = k
  <2>1. \E i \in 1 .. n : place[i] = k
    BY <1>6 DEF Surjection
  <2>. QED BY <1>4, <2>1
<1>8. /\ Sorted(rates) = [k \in 0 .. n |-> IF k = 0 THEN 0 ELSE rates[at(k)]]
      /\ \A k \in 1 .. n : Sorted(rates)[k] = rates[at(k)]
      /\ Sorted(rates)[0] = 0
  <2>1. Sorted(rates) = [k \in 0 .. n |-> IF k = 0 THEN 0 ELSE rates[at(k)]]
    BY <1>1 DEF Sorted
  <2>. QED BY <2>1
<1>. HIDE DEF at
<1>9. Sorted(rates) \in [0 .. n -> Nat]
  <2>1. ASSUME NEW k \in 0 .. n PROVE (IF k = 0 THEN 0 ELSE rates[at(k)]) \in Nat
    <3>1. CASE k # 0
      <4>1. k \in 1 .. n
        BY <3>1
      <4>. QED BY <1>2, <1>7, <3>1, <4>1
    <3>. QED BY <3>1
  <2>. QED BY <1>8, <2>1
<1>10. ASSUME NEW k \in 1 .. n, NEW l \in 1 .. n, k <= l PROVE Sorted(rates)[k] <= Sorted(rates)[l]
  <2>1. PICK i \in 1 .. n, j \in 1 .. n :
          i = at(k) /\ j = at(l) /\ PlaceOf(rates, i) = k /\ PlaceOf(rates, j) = l
    BY <1>7
  <2>2. Sorted(rates)[k] = rates[i] /\ Sorted(rates)[l] = rates[j] /\ rates[i] \in Nat /\ rates[j] \in Nat
    BY <1>2, <1>8, <2>1
  <2>3. CASE rates[j] < rates[i]
    <3>1. i # j /\ Ahead(rates, j, i)
      BY <2>2, <2>3 DEF Ahead
    <3>2. PlaceOf(rates, j) < PlaceOf(rates, i)
      BY <1>1, <3>1, PlacesInOrder
    <3>. QED BY <1>10, <2>1, <3>2
  <2>4. CASE ~(rates[j] < rates[i])
    BY <2>2, <2>4
  <2>. QED BY <2>3, <2>4
<1>. QED BY <1>1, <1>8, <1>9, <1>10 DEF Rising

(* dist: what the flows up to a place send together.                       *)
FirstSum(r, i) == SumOf([j \in 1 .. i |-> r[j]])

LEMMA FirstSums ==
  ASSUME NEW n \in Nat, NEW r \in [0 .. n -> Nat], NEW i \in 1 .. n
  PROVE  /\ FirstSum(r, i) \in Nat /\ FirstSum(r, i - 1) \in Nat /\ r[i] \in Nat
         /\ FirstSum(r, i) = FirstSum(r, i - 1) + r[i]
<1>. DEFINE f == [j \in 1 .. i |-> r[j]]
            g == [j \in 1 .. i - 1 |-> r[j]]
<1>1. /\ f \in [1 .. i -> Nat] /\ i \in 1 .. i /\ f[i] = r[i] /\ r[i] \in Nat
      /\ g \in [1 .. i - 1 -> Nat]
  OBVIOUS
<1>2. IsFiniteSet(1 .. i) /\ IsFiniteSet(1 .. i - 1)
  <2>1. 1 \in Int /\ i \in Int /\ i - 1 \in Int
    OBVIOUS
  <2>. QED BY <2>1, FS_Interval
<1>3. UnitsBut(f, i) = Units(g)
  <2>1. \A d : d \in 1 .. i /\ d # i <=> d \in 1 .. i - 1
    OBVIOUS
  <2>2. ASSUME NEW u PROVE u \in UnitsBut(f, i) <=> u \in Units(g)
    <3>1. u \in UnitsBut(f, i) <=> \E d \in 1 .. i : d # i /\ u \in {d} \X (1 .. r[d])
      BY DEF UnitsBut, Units
    <3>2. u \in Units(g) <=> \E d \in 1 .. i - 1 : u \in {d} \X (1 .. r[d])
      BY DEF Units
    <3>. QED BY <2>1, <3>1, <3>2
  <2>. QED BY <2>2
<1>. HIDE DEF f, g
<1>4. SumOf(f) = f[i] + Cardinality(UnitsBut(f, i))
  BY <1>1, <1>2, SumSplit
<1>5. SumOf(g) = Cardinality(UnitsBut(f, i)) /\ SumOf(g) \in Nat
  BY <1>1, <1>2, <1>3, SumIsNat DEF SumOf
<1>. QED BY <1>1, <1>4, <1>5 DEF FirstSum, f, g

LEMMA FirstSumOfNone == ASSUME NEW r PROVE FirstSum(r, 0) = 0
<1>. DEFINE f == [j \in 1 .. 0 |-> r[j]]
<1>1. f \in [{} -> Nat]
  OBVIOUS
<1>. HIDE DEF f
<1>2. SumOf(f) = 0
  BY <1>1, SumZero
<1>. QED BY <1>2 DEF FirstSum, f

LEMMA FirstSumIsNat ==
  ASSUME NEW n \in Nat, NEW r \in [0 .. n -> Nat], NEW i \in 0 .. n PROVE FirstSum(r, i) \in Nat
<1>1. CASE i = 0
  BY <1>1, FirstSumOfNone
<1>2. CASE i \in 1 .. n
  BY <1>2, FirstSums
<1>. QED BY <1>1, <1>2

Sums(f, r, n) == f = [i \in 0 .. n |-> IF i = 0 THEN 0 ELSE f[i - 1] + r[i]]

LEMMA DistSums ==
  ASSUME NEW n \in Nat, NEW r \in [0 .. n -> Nat], NEW i \in 0 .. n
  PROVE  dist(r)[i] = FirstSum(r, i) /\ dist(r)[i] \in Nat
<1>1. \E f : Sums(f, r, n)
  <2>. DEFINE f == [j \in 0 .. n |-> FirstSum(r, j)]
  <2>1. ASSUME NEW j \in 0 .. n PROVE f[j] = IF j = 0 THEN 0 ELSE f[j - 1] + r[j]
    <3>1. CASE j = 0
      <4>1. f[j] = FirstSum(r, 0)
        BY <3>1
      <4>. QED BY <3>1, <4>1, FirstSumOfNone
    <3>2. CASE j # 0
      <4>1. j \in 1 .. n /\ j - 1 \in 0 .. n
        BY <3>2
      <4>2. f[j] = FirstSum(r, j) /\ f[j - 1] = FirstSum(r, j - 1)
        BY <4>1
      <4>3. FirstSum(r, j) = FirstSum(r, j - 1) + r[j]
        BY <4>1, FirstSums
      <4>. QED BY <3>2, <4>2, <4>3
    <3>. QED BY <3>1, <3>2
  <2>2. f = [j \in 0 .. n |-> f[j]]
    OBVIOUS
  <2>. HIDE DEF f
  <2>3. f = [j \in 0 .. n |-> IF j = 0 THEN 0 ELSE f[j - 1] + r[j]]
    BY <2>1, <2>2
  <2>. QED BY <2>3 DEF Sums
<1>2. PICK f : f = CHOOSE g : Sums(g, r, n)
  OBVIOUS
<1>3. Sums(f, r, n)
  BY <1>1, <1>2
<1>4. dist(r) = f
  <2>1. DOMAIN r = 0 .. n
    OBVIOUS
  <2>. QED BY <1>2, <2>1 DEF dist, Sums
<1>. DEFINE bad == {j \in 0 .. n : f[j] # FirstSum(r, j)}
<1>5. CASE bad # {}
  <2>1. bad \in SUBSET Nat
    OBVIOUS
  <2>. HIDE DEF bad
  <2>2. PICK j \in bad : \A k \in bad : j <= k
    BY <1>5, <2>1, LeastExists
  <2>3. j \in 0 .. n /\ f[j] # FirstSum(r, j)
    BY DEF bad
  <2>4. f[j] = IF j = 0 THEN 0 ELSE f[j - 1] + r[j]
    BY <1>3, <2>3 DEF Sums
  <2>5. j # 0
    BY <2>3, <2>4, FirstSumOfNone
  <2>6. j \in 1 .. n /\ j - 1 \in 0 .. n /\ ~(j <= j - 1)
    BY <2>3, <2>5
  <2>7. f[j - 1] = FirstSum(r, j - 1)
    <3>1. j - 1 \notin bad
      BY <2>2, <2>6
    <3>. QED BY <2>6, <3>1 DEF bad
  <2>8. FirstSum(r, j) = FirstSum(r, j - 1) + r[j]
    BY <2>6, FirstSums
  <2>. QED BY <2>3, <2>4, <2>5, <2>7, <2>8
<1>6. CASE bad = {}
  BY <1>4, <1>6, FirstSumIsNat
<1>. QED BY <1>5, <1>6

(* The binary search: the first place of a range that is in H.             *)
UpClosed(H, n) == \A i, j \in 1 .. n : i \in H /\ i <= j => j \in H

IsFirst(H, l, r, x) ==
  IF l > r THEN x = l
  ELSE x \in l .. r + 1 /\ (x <= r => x \in H) /\ \A i \in l .. r : i < x => i \notin H

Ranges(n) == (1 .. n + 1) \X (0 .. n)
Middle(range) == (range[1] + range[2]) \div 2

Searches(f, H, n) ==
  f = [range \in Ranges(n) |->
         IF range[1] > range[2] THEN range[1]
         ELSE IF Middle(range) \in H THEN f[<<range[1], Middle(range) - 1>>]
         ELSE f[<<Middle(range) + 1, range[2]>>]]

LEMMA MiddleWithin ==
  ASSUME NEW l \in Nat, NEW r \in Nat, l <= r PROVE (l + r) \div 2 \in l .. r
  OBVIOUS

LEMMA FirstExists ==
  ASSUME NEW H, NEW l \in Nat, NEW r \in Nat
  PROVE  \E x \in Nat : IsFirst(H, l, r, x)
<1>1. CASE l > r
  BY <1>1 DEF IsFirst
<1>2. CASE ~(l > r)
  <2>. DEFINE S == {i \in l .. r : i \in H} \cup {r + 1}
  <2>1. S \in SUBSET Nat /\ S # {}
    OBVIOUS
  <2>2. PICK x \in S : \A y \in S : x <= y
    BY <2>1, LeastExists
  <2>3. x \in l .. r + 1 /\ (x <= r => x \in H)
    BY <1>2, <2>2
  <2>4. \A i \in l .. r : i < x => i \notin H
    BY <2>2, <2>3
  <2>. QED BY <1>2, <2>3, <2>4 DEF IsFirst
<1>. QED BY <1>1, <1>2

LEMMA FirstIsOne ==
  ASSUME NEW H, NEW l \in Nat, NEW r \in Nat, NEW x, NEW y, IsFirst(H, l, r, x), IsFirst(H, l, r, y)
  PROVE  x = y
<1>1. CASE l > r
  BY <1>1 DEF IsFirst
<1>2. CASE ~(l > r)
  <2>1. x \in l .. r + 1 /\ y \in l .. r + 1
    BY <1>2 DEF IsFirst
  <2>2. ~(x < y)
    <3>. SUFFICES ASSUME x < y PROVE FALSE
      OBVIOUS
    <3>1. x <= r /\ x \in l .. r
      BY <2>1
    <3>. QED BY <1>2, <3>1 DEF IsFirst
  <2>3. ~(y < x)
    <3>. SUFFICES ASSUME y < x PROVE FALSE
      OBVIOUS
    <3>1. y <= r /\ y \in l .. r
      BY <2>1
    <3>. QED BY <1>2, <3>1 DEF IsFirst
  <2>. QED BY <2>1, <2>2, <2>3
<1>. QED BY <1>1, <1>2

(* One probe halves the range and loses nothing.                           *)
LEMMA ProbeKeeps ==
  ASSUME NEW n \in Nat, NEW H, UpClosed(H, n), NEW l \in 1 .. n + 1, NEW r \in 0 .. n, l <= r,
         NEW mid \in l .. r, NEW x
  PROVE  /\ mid \in H /\ IsFirst(H, l, mid - 1, x) => IsFirst(H, l, r, x)
         /\ mid \notin H /\ IsFirst(H, mid + 1, r, x) => IsFirst(H, l, r, x)
<1>0. mid \in 1 .. n /\ l \in Int /\ r \in Int
  OBVIOUS
<1>1. ASSUME mid \in H, IsFirst(H, l, mid - 1, x) PROVE IsFirst(H, l, r, x)
  <2>1. CASE l > mid - 1
    <3>1. x = l /\ l = mid
      BY <1>1, <2>1, <1>0 DEF IsFirst
    <3>. QED BY <1>0, <1>1, <3>1 DEF IsFirst
  <2>2. CASE ~(l > mid - 1)
    <3>1. x \in l .. (mid - 1) + 1 /\ (x <= mid - 1 => x \in H) /\ \A i \in l .. mid - 1 : i < x => i \notin H
      BY <1>1, <2>2 DEF IsFirst
    <3>2. x \in l .. mid /\ x \in l .. r + 1
      BY <1>0, <3>1
    <3>3. x \in H
      <4>1. x <= mid - 1 \/ x = mid
        BY <1>0, <3>2
      <4>. QED BY <1>1, <3>1, <4>1
    <3>4. ASSUME NEW i \in l .. r, i < x PROVE i \notin H
      <4>1. i \in l .. mid - 1
        BY <1>0, <3>2, <3>4
      <4>. QED BY <3>1, <3>4, <4>1
    <3>. QED BY <1>0, <3>2, <3>3, <3>4 DEF IsFirst
  <2>. QED BY <2>1, <2>2
<1>2. ASSUME mid \notin H, IsFirst(H, mid + 1, r, x) PROVE IsFirst(H, l, r, x)
  <2>1. ASSUME NEW i \in l .. mid PROVE i \notin H
    <3>1. i \in 1 .. n /\ i <= mid
      BY <1>0
    <3>. QED BY <1>0, <1>2, <3>1 DEF UpClosed
  <2>2. CASE mid + 1 > r
    <3>1. x = r + 1 /\ mid = r
      BY <1>0, <1>2, <2>2 DEF IsFirst
    <3>. QED BY <1>0, <2>1, <3>1 DEF IsFirst
  <2>3. CASE ~(mid + 1 > r)
    <3>1. x \in mid + 1 .. r + 1 /\ (x <= r => x \in H) /\ \A i \in mid + 1 .. r : i < x => i \notin H
      BY <1>2, <2>3 DEF IsFirst
    <3>2. x \in l .. r + 1
      BY <1>0, <3>1
    <3>3. ASSUME NEW i \in l .. r, i < x PROVE i \notin H
      <4>1. i \in l .. mid \/ i \in mid + 1 .. r
        BY <1>0
      <4>. QED BY <2>1, <3>1, <3>3, <4>1
    <3>. QED BY <1>0, <3>1, <3>2, <3>3 DEF IsFirst
  <2>. QED BY <2>2, <2>3
<1>. QED BY <1>1, <1>2

(* What each place of the search's function is, and that there is one.     *)
SearchAt(f, H, l, r) ==
  f[<<l, r>>] = IF l > r THEN l
                ELSE IF (l + r) \div 2 \in H THEN f[<<l, (l + r) \div 2 - 1>>]
                ELSE f[<<(l + r) \div 2 + 1, r>>]

LEMMA SearchesAt ==
  ASSUME NEW n \in Nat, NEW H, NEW f, Searches(f, H, n), NEW l \in 1 .. n + 1, NEW r \in 0 .. n
  PROVE  SearchAt(f, H, l, r)
<1>1. <<l, r>> \in Ranges(n) /\ <<l, r>>[1] = l /\ <<l, r>>[2] = r /\ Middle(<<l, r>>) = (l + r) \div 2
  BY DEF Ranges, Middle
<1>2. f[<<l, r>>] = IF <<l, r>>[1] > <<l, r>>[2] THEN <<l, r>>[1]
                    ELSE IF Middle(<<l, r>>) \in H THEN f[<<<<l, r>>[1], Middle(<<l, r>>) - 1>>]
                    ELSE f[<<Middle(<<l, r>>) + 1, <<l, r>>[2]>>]
  BY <1>1 DEF Searches
<1>. QED BY <1>1, <1>2 DEF SearchAt

LEMMA SearchExists ==
  ASSUME NEW n \in Nat, NEW H, UpClosed(H, n) PROVE \E f : Searches(f, H, n)
<1>. DEFINE First(l, r) == CHOOSE x \in Nat : IsFirst(H, l, r, x)
            f == [range \in Ranges(n) |-> First(range[1], range[2])]
<1>1. ASSUME NEW l \in Nat, NEW r \in Nat PROVE First(l, r) \in Nat /\ IsFirst(H, l, r, First(l, r))
  BY FirstExists
<1>. HIDE DEF First
<1>2. ASSUME NEW l \in 1 .. n + 1, NEW r \in 0 .. n
      PROVE  First(l, r) = IF l > r THEN l
                           ELSE IF (l + r) \div 2 \in H THEN First(l, (l + r) \div 2 - 1)
                           ELSE First((l + r) \div 2 + 1, r)
  <2>1. CASE l > r
    BY <1>1, <2>1 DEF IsFirst
  <2>2. CASE ~(l > r)
    <3>1. PICK mid \in l .. r : mid = (l + r) \div 2
      BY <2>2, MiddleWithin
    <3>2. l \in Nat /\ r \in Nat /\ mid - 1 \in Nat /\ mid + 1 \in Nat /\ l <= r
      BY <2>2
    <3>3. IsFirst(H, l, r, First(l, r))
      BY <1>1, <3>2
    <3>4. CASE mid \in H
      <4>1. IsFirst(H, l, mid - 1, First(l, mid - 1))
        BY <1>1, <3>2
      <4>2. IsFirst(H, l, r, First(l, mid - 1))
        BY <3>2, <3>4, <4>1, ProbeKeeps
      <4>. QED BY <2>2, <3>1, <3>2, <3>3, <3>4, <4>2, FirstIsOne
    <3>5. CASE mid \notin H
      <4>1. IsFirst(H, mid + 1, r, First(mid + 1, r))
        BY <1>1, <3>2
      <4>2. IsFirst(H, l, r, First(mid + 1, r))
        BY <3>2, <3>5, <4>1, ProbeKeeps
      <4>. QED BY <2>2, <3>1, <3>2, <3>3, <3>5, <4>2, FirstIsOne
    <3>. QED BY <3>4, <3>5
  <2>. QED BY <2>1, <2>2
<1>3. ASSUME NEW range \in Ranges(n)
      PROVE  f[range] = IF range[1] > range[2] THEN range[1]
                        ELSE IF Middle(range) \in H THEN f[<<range[1], Middle(range) - 1>>]
                        ELSE f[<<Middle(range) + 1, range[2]>>]
  <2>1. PICK l \in 1 .. n + 1, r \in 0 .. n : range[1] = l /\ range[2] = r
    BY DEF Ranges
  <2>2. PICK mid : mid = (l + r) \div 2
    OBVIOUS
  <2>3. f[range] = First(l, r) /\ Middle(range) = mid
    BY <2>1, <2>2 DEF Middle
  <2>4. CASE l > r
    BY <1>2, <2>1, <2>3, <2>4
  <2>5. CASE ~(l > r)
    <3>1. mid \in l .. r
      BY <2>2, <2>5, MiddleWithin
    <3>2. <<l, mid - 1>> \in Ranges(n) /\ <<mid + 1, r>> \in Ranges(n)
      BY <3>1 DEF Ranges
    <3>3. f[<<l, mid - 1>>] = First(l, mid - 1) /\ f[<<mid + 1, r>>] = First(mid + 1, r)
      BY <3>2
    <3>. HIDE DEF f
    <3>. QED BY <1>2, <2>1, <2>2, <2>3, <2>5, <3>3
  <2>. QED BY <2>4, <2>5
<1>4. f = [range \in Ranges(n) |-> f[range]]
  OBVIOUS
<1>. HIDE DEF f
<1>5. f = [range \in Ranges(n) |->
             IF range[1] > range[2] THEN range[1]
             ELSE IF Middle(range) \in H THEN f[<<range[1], Middle(range) - 1>>]
             ELSE f[<<Middle(range) + 1, range[2]>>]]
  BY <1>3, <1>4
<1>. QED BY <1>5 DEF Searches

(* By the range of least length where it would be wrong.                   *)
LEMMA SearchFinds ==
  ASSUME NEW n \in Nat, NEW H, UpClosed(H, n), NEW f, Searches(f, H, n),
         NEW l \in 1 .. n + 1, NEW r \in 0 .. n
  PROVE  IsFirst(H, l, r, f[<<l, r>>])
<1>. DEFINE Wrong(k) == \E a \in 1 .. n + 1, b \in 0 .. n :
                          k = b + n + 1 - a /\ ~IsFirst(H, a, b, f[<<a, b>>])
            lengths == {k \in Nat : Wrong(k)}
<1>1. CASE lengths # {}
  <2>1. lengths \in SUBSET Nat
    OBVIOUS
  <2>. HIDE DEF lengths
  <2>2. PICK k \in lengths : \A e \in lengths : k <= e
    BY <1>1, <2>1, LeastExists
  <2>3. PICK a \in 1 .. n + 1, b \in 0 .. n : k = b + n + 1 - a /\ ~IsFirst(H, a, b, f[<<a, b>>])
    BY DEF lengths
  <2>4. ASSUME NEW c \in 1 .. n + 1, NEW d \in 0 .. n, d - c < b - a PROVE IsFirst(H, c, d, f[<<c, d>>])
    <3>1. d + n + 1 - c \in Nat /\ ~(k <= d + n + 1 - c)
      BY <2>3, <2>4
    <3>2. d + n + 1 - c \notin lengths
      BY <2>2, <3>1
    <3>3. ~Wrong(d + n + 1 - c)
      BY <3>1, <3>2 DEF lengths
    <3>. QED BY <3>3
  <2>. HIDE DEF Wrong
  <2>5. SearchAt(f, H, a, b)
    BY SearchesAt
  <2>6. CASE a > b
    BY <2>3, <2>5, <2>6 DEF SearchAt, IsFirst
  <2>7. CASE ~(a > b)
    <3>1. PICK mid \in a .. b : mid = (a + b) \div 2
      BY <2>7, MiddleWithin
    <3>2. /\ a <= b /\ mid - 1 \in 0 .. n /\ mid + 1 \in 1 .. n + 1
          /\ (mid - 1) - a < b - a /\ b - (mid + 1) < b - a
      BY <2>7
    <3>3. CASE mid \in H
      <4>1. f[<<a, b>>] = f[<<a, mid - 1>>]
        BY <2>5, <2>7, <3>1, <3>3 DEF SearchAt
      <4>2. IsFirst(H, a, mid - 1, f[<<a, mid - 1>>])
        BY <2>4, <3>2
      <4>. QED BY <2>3, <3>2, <3>3, <4>1, <4>2, ProbeKeeps
    <3>4. CASE mid \notin H
      <4>1. f[<<a, b>>] = f[<<mid + 1, b>>]
        BY <2>5, <2>7, <3>1, <3>4 DEF SearchAt
      <4>2. IsFirst(H, mid + 1, b, f[<<mid + 1, b>>])
        BY <2>4, <3>2
      <4>. QED BY <2>3, <3>2, <3>4, <4>1, <4>2, ProbeKeeps
    <3>. QED BY <3>3, <3>4
  <2>. QED BY <2>6, <2>7
<1>2. CASE lengths = {}
  <2>1. r + n + 1 - l \in Nat
    OBVIOUS
  <2>2. ~Wrong(r + n + 1 - l)
    BY <1>2, <2>1
  <2>. QED BY <2>2
<1>. QED BY <1>1, <1>2

LEMMA BinarySearchFinds ==
  ASSUME NEW n \in Nat, NEW H, UpClosed(H, n) PROVE IsFirst(H, 1, n, BinarySearch(H, n))
<1>1. PICK f : f = CHOOSE g : Searches(g, H, n)
  OBVIOUS
<1>2. Searches(f, H, n)
  BY <1>1, SearchExists
<1>3. BinarySearch(H, n) = f[<<1, n>>]
  BY <1>1 DEF BinarySearch, Searches, Ranges, Middle
<1>. QED BY <1>2, <1>3, SearchFinds

(* The first place of a set that holds from a place on, the last included. *)
LEMMA FoundPlace ==
  ASSUME NEW n \in Nat \ {0}, NEW H \in SUBSET (1 .. n), UpClosed(H, n), n \in H,
         NEW t, t = BinarySearch(H, n)
  PROVE  t \in 1 .. n /\ t \in H /\ \A i \in 1 .. n : i < t <=> i \notin H
<1>1. t \in 1 .. n + 1 /\ (t <= n => t \in H) /\ \A i \in 1 .. n : i < t => i \notin H
  <2>1. IsFirst(H, 1, n, t) /\ ~(1 > n)
    BY BinarySearchFinds
  <2>. QED BY <2>1 DEF IsFirst
<1>2. t \in 1 .. n /\ t \in H
  <2>1. n \in 1 .. n /\ ~(n < t)
    BY <1>1
  <2>. QED BY <1>1, <2>1
<1>3. ASSUME NEW i \in 1 .. n, i \notin H PROVE i < t
  BY <1>2, <1>3 DEF UpClosed
<1>. QED BY <1>1, <1>2, <1>3

(* Products with a positive factor keep what is less, too.                 *)
LEMMA LessWithLess ==
  ASSUME NEW a \in Nat, NEW b \in Nat, NEW c \in Nat, a * c < b * c PROVE a < b
<1>1. CASE b <= a
  BY <1>1, TimesKeeps
<1>2. CASE ~(b <= a)
  BY <1>2
<1>. QED BY <1>1, <1>2

Share(r, n, C, i) == r[i] * (n + 1 - i) >= C - FirstSum(r, i - 1)

LEMMA LimitedIs ==
  ASSUME NEW n \in Nat, NEW r \in [0 .. n -> Nat], NEW C \in Nat, NEW i \in 1 .. n
  PROVE  Limited(r, C, i) <=> Share(r, n, C, i)
<1>1. i - 1 \in 0 .. n
  OBVIOUS
<1>2. dist(r)[i - 1] = FirstSum(r, i - 1)
  BY <1>1, DistSums
<1>. QED BY <1>2, HighestIs DEF Limited, Share

(* If the flows from the i-th on cannot have their rate, those from the    *)
(* next one on cannot either.                                              *)
LEMMA ShareNext ==
  ASSUME NEW n \in Nat, NEW r, Rising(r, n), NEW C \in Nat, NEW i \in 1 .. n, i + 1 \in 1 .. n,
         Share(r, n, C, i)
  PROVE  Share(r, n, C, i + 1)
<1>1. r \in [0 .. n -> Nat] /\ r[i] \in Nat /\ r[i + 1] \in Nat /\ r[i] <= r[i + 1]
  BY DEF Rising
<1>2. PICK k \in Nat : n - i = k /\ n + 1 - (i + 1) = k /\ n + 1 - i = k + 1
  <2>1. n - i \in Nat /\ n + 1 - (i + 1) = n - i /\ n + 1 - i = n - i + 1
    OBVIOUS
  <2>. QED BY <2>1
<1>3. PICK s \in Nat : s = FirstSum(r, i - 1) /\ FirstSum(r, i) = s + r[i]
  BY <1>1, FirstSums
<1>4. PICK x \in Nat, y \in Nat : x = r[i] /\ y = r[i + 1] /\ x <= y
  BY <1>1
<1>5. x * (k + 1) >= C - s
  BY <1>2, <1>3, <1>4 DEF Share
<1>6. x * (k + 1) = x * k + x /\ x * k \in Nat
  OBVIOUS
<1>7. x * k <= y * k /\ y * k \in Nat
  BY <1>4, TimesKeeps
<1>8. y * k >= C - (s + x)
  BY <1>5, <1>6, <1>7
<1>9. (i + 1) - 1 = i
  OBVIOUS
<1>. QED BY <1>2, <1>3, <1>4, <1>8, <1>9 DEF Share

LEMMA ShareOnward ==
  ASSUME NEW n \in Nat, NEW r, Rising(r, n), NEW C \in Nat, NEW i \in 1 .. n, NEW j \in 1 .. n,
         i <= j, Share(r, n, C, i)
  PROVE  Share(r, n, C, j)
<1>. DEFINE bad == {k \in 1 .. n : i <= k /\ ~Share(r, n, C, k)}
<1>1. CASE bad # {}
  <2>1. bad \in SUBSET Nat
    OBVIOUS
  <2>. HIDE DEF bad
  <2>2. PICK k \in bad : \A e \in bad : k <= e
    BY <1>1, <2>1, LeastExists
  <2>3. k \in 1 .. n /\ i <= k /\ ~Share(r, n, C, k)
    BY DEF bad
  <2>4. k # i
    BY <2>3
  <2>5. k - 1 \in 1 .. n /\ i <= k - 1 /\ (k - 1) + 1 = k /\ ~(k <= k - 1)
    BY <2>3, <2>4
  <2>6. Share(r, n, C, k - 1)
    <3>1. k - 1 \notin bad
      BY <2>2, <2>5
    <3>. QED BY <2>5, <3>1 DEF bad
  <2>. QED BY <2>3, <2>5, <2>6, ShareNext
<1>2. CASE bad = {}
  BY <1>2
<1>. QED BY <1>1, <1>2

(* What ThresholdIsFair says of the rates of a port.                       *)
Fair(r, n, C, a, one, th) ==
  LET small == {i \in 1 .. n : r[i] < th}
      big == (1 .. n) \ small
      left == C - SumOf([i \in small |-> r[i]])
  IN  /\ big # {}
      /\ IF FirstSum(r, n) >= C
         THEN /\ \A i \in small : r[i] * Cardinality(big) < left
              /\ \A i \in big : r[i] * Cardinality(big) >= left
         ELSE \A i \in 1 .. n : i \in big <=> r[i] * one >= r[n] * a

LEMMA FairWhenOverloaded ==
  ASSUME NEW n \in Nat \ {0}, NEW r, Rising(r, n), NEW C \in Nat, NEW a, NEW one,
         FirstSum(r, n) >= C, NEW t, t = BinarySearch({i \in 1 .. n : Limited(r, C, i)}, n)
  PROVE  Fair(r, n, C, a, one, r[t])
<1>. DEFINE H == {i \in 1 .. n : Limited(r, C, i)}
<1>1. r \in [0 .. n -> Nat] /\ \A i \in 1 .. n : r[i] \in Nat
  BY DEF Rising
<1>2. \A i \in 1 .. n : i \in H <=> Share(r, n, C, i)
  BY <1>1, LimitedIs
<1>3. H \in SUBSET (1 .. n) /\ t = BinarySearch(H, n)
  OBVIOUS
<1>. HIDE DEF H
<1>4. UpClosed(H, n)
  BY <1>2, ShareOnward DEF UpClosed
<1>5. n \in H
  <2>1. n \in 1 .. n /\ n + 1 - n = 1
    OBVIOUS
  <2>2. FirstSum(r, n) = FirstSum(r, n - 1) + r[n] /\ FirstSum(r, n - 1) \in Nat /\ r[n] \in Nat
    BY <1>1, <2>1, FirstSums
  <2>3. r[n] * 1 >= C - FirstSum(r, n - 1)
    BY <2>2
  <2>4. Share(r, n, C, n)
    BY <2>1, <2>3 DEF Share
  <2>. QED BY <1>2, <2>1, <2>4
<1>6. t \in 1 .. n /\ t \in H /\ \A i \in 1 .. n : i < t <=> i \notin H
  BY <1>3, <1>4, <1>5, FoundPlace
<1>7. PICK k \in Nat \ {0} : k = n + 1 - t
  <2>1. n + 1 - t \in Nat \ {0}
    BY <1>6
  <2>. QED BY <2>1
<1>8. PICK s \in Nat : s = FirstSum(r, t - 1)
  BY <1>1, <1>6, FirstSums
<1>9. r[t] * k >= C - s
  BY <1>2, <1>6, <1>7, <1>8 DEF Share
<1>10. ASSUME NEW i \in 1 .. n, i < t PROVE r[i] < r[t] /\ r[i] * k < C - s
  <2>1. t - 1 \in 1 .. n /\ i <= t - 1 /\ n + 1 - (t - 1) = k + 1 /\ t - 1 < t
    BY <1>6, <1>7, <1>10
  <2>2. ~Share(r, n, C, t - 1)
    BY <1>2, <1>6, <2>1
  <2>3. PICK e \in Nat : e = FirstSum(r, (t - 1) - 1) /\ s = e + r[t - 1]
    BY <1>1, <1>8, <2>1, FirstSums
  <2>4. PICK x \in Nat, y \in Nat : x = r[t - 1] /\ y = r[i] /\ y <= x
    BY <1>1, <2>1 DEF Rising
  <2>5. x * (k + 1) < C - e
    <3>1. ~(x * (k + 1) >= C - e) /\ x * (k + 1) \in Nat
      BY <2>1, <2>2, <2>3, <2>4 DEF Share
    <3>. QED BY <3>1, <2>3
  <2>6. x * (k + 1) = x * k + x /\ x * k \in Nat
    OBVIOUS
  <2>7. x * k < C - s
    BY <2>3, <2>4, <2>5, <2>6
  <2>8. y * k <= x * k /\ y * k \in Nat
    BY <2>4, TimesKeeps
  <2>9. PICK z \in Nat : z = r[t]
    BY <1>1, <1>6
  <2>10. z * k \in Nat
    OBVIOUS
  <2>11. x * k < z * k
    BY <1>9, <2>6, <2>7, <2>9, <2>10
  <2>12. x < z
    BY <2>11, LessWithLess
  <2>. QED BY <2>4, <2>6, <2>7, <2>8, <2>9, <2>12
<1>11. ASSUME NEW i \in 1 .. n, ~(i < t) PROVE ~(r[i] < r[t]) /\ r[i] * k >= C - s
  <2>1. PICK x \in Nat, y \in Nat : x = r[t] /\ y = r[i] /\ x <= y
    <3>1. t <= i
      BY <1>6, <1>11
    <3>. QED BY <1>1, <1>6, <3>1 DEF Rising
  <2>2. x * k <= y * k /\ x * k \in Nat /\ y * k \in Nat
    BY <2>1, TimesKeeps
  <2>. QED BY <1>9, <2>1, <2>2
<1>. DEFINE small == {i \in 1 .. n : r[i] < r[t]}
            big == (1 .. n) \ small
<1>12. \A i : i \in small <=> i \in 1 .. t - 1
  BY <1>6, <1>10, <1>11
<1>13. \A i : i \in big <=> i \in t .. n
  BY <1>6, <1>10, <1>11
<1>14. small = 1 .. t - 1 /\ big = t .. n
  <2>. HIDE DEF small, big
  <2>. QED BY <1>12, <1>13
<1>15. Cardinality(big) = k
  <2>1. n \in Nat /\ t \in 1 .. n + 1
    BY <1>6
  <2>2. Cardinality(t .. n) = n + 1 - t
    BY <2>1, CountedFrom
  <2>. QED BY <1>7, <1>14, <2>2
<1>16. SumOf([i \in small |-> r[i]]) = s
  BY <1>8, <1>14 DEF FirstSum
<1>17. big # {}
  BY <1>6, <1>14
<1>18. /\ \A i \in small : r[i] * Cardinality(big) < C - s
       /\ \A i \in big : r[i] * Cardinality(big) >= C - s
  BY <1>10, <1>11, <1>12, <1>13, <1>15, <1>6
<1>. QED BY <1>16, <1>17, <1>18 DEF Fair

LEMMA FairWhenNot ==
  ASSUME NEW n \in Nat \ {0}, NEW r, Rising(r, n), NEW C \in Nat, NEW one \in Nat, NEW a \in 0 .. one,
         ~(FirstSum(r, n) >= C), NEW t, t = BinarySearch({i \in 1 .. n : NearLargest(r, i, a, one)}, n)
  PROVE  Fair(r, n, C, a, one, r[t])
<1>. DEFINE H == {i \in 1 .. n : NearLargest(r, i, a, one)}
<1>1. r \in [0 .. n -> Nat] /\ \A i \in 1 .. n : r[i] \in Nat
  BY DEF Rising
<1>2. \A i \in 1 .. n : i \in H <=> r[i] * one >= r[n] * a
  BY <1>1, HighestIs DEF NearLargest
<1>3. H \in SUBSET (1 .. n) /\ t = BinarySearch(H, n)
  OBVIOUS
<1>. HIDE DEF H
<1>4. n \in 1 .. n /\ r[n] \in Nat /\ a \in Nat /\ a <= one
  BY <1>1
<1>5. r[n] * a \in Nat
  BY <1>4
<1>6. ASSUME NEW i \in 1 .. n, NEW j \in 1 .. n, r[i] <= r[j], r[i] * one >= r[n] * a
      PROVE  r[j] * one >= r[n] * a
  <2>1. r[i] * one <= r[j] * one /\ r[i] * one \in Nat /\ r[j] * one \in Nat
    BY <1>1, <1>6, TimesKeeps
  <2>. QED BY <1>5, <1>6, <2>1
<1>7. UpClosed(H, n)
  BY <1>2, <1>6 DEF UpClosed, Rising
<1>8. n \in H
  <2>1. a * r[n] <= one * r[n]
    BY <1>4, TimesKeeps
  <2>2. a * r[n] = r[n] * a /\ one * r[n] = r[n] * one
    BY <1>4
  <2>3. r[n] * one >= r[n] * a
    <3>1. one * r[n] \in Nat
      BY <1>4
    <3>. QED BY <1>5, <2>1, <2>2, <3>1
  <2>. QED BY <1>2, <1>4, <2>3
<1>9. t \in 1 .. n /\ t \in H /\ \A i \in 1 .. n : i < t <=> i \notin H
  BY <1>3, <1>7, <1>8, FoundPlace
<1>. DEFINE big == (1 .. n) \ {i \in 1 .. n : r[i] < r[t]}
<1>10. ASSUME NEW i \in 1 .. n PROVE i \in big <=> r[i] * one >= r[n] * a
  <2>1. r[i] \in Nat /\ r[t] \in Nat
    BY <1>1, <1>9
  <2>2. ASSUME ~(r[i] < r[t]) PROVE r[i] * one >= r[n] * a
    BY <1>2, <1>6, <1>9, <2>1, <2>2
  <2>3. ASSUME r[i] * one >= r[n] * a PROVE ~(r[i] < r[t])
    <3>1. ~(i < t)
      BY <1>2, <1>9, <2>3
    <3>2. t <= i
      BY <1>9, <3>1
    <3>3. r[t] <= r[i]
      BY <1>9, <3>2 DEF Rising
    <3>. QED BY <2>1, <3>3
  <2>. QED BY <2>2, <2>3
<1>11. t \in big
  <2>1. ~(r[t] < r[t])
    BY <1>1, <1>9
  <2>. QED BY <1>9, <2>1
<1>. QED BY <1>10, <1>11 DEF Fair

(* GetThBinary splits every load fairly.                                   *)
LEMMA SplitIsFair ==
  ASSUME NEW n \in Nat \ {0}, NEW r, Rising(r, n), NEW C \in Nat, NEW one \in Nat, NEW a \in 0 .. one
  PROVE  Fair(r, n, C, a, one, GetThBinary(r, C, a, one))
<1>1. r \in [0 .. n -> Nat] /\ n \in 0 .. n
  BY DEF Rising
<1>2. Highest(r) = n /\ dist(r)[n] = FirstSum(r, n) /\ FirstSum(r, n) \in Nat
  BY <1>1, DistSums, HighestIs
<1>3. CASE FirstSum(r, n) >= C
  <2>1. ~(dist(r)[n] < C)
    BY <1>2, <1>3
  <2>2. {i \in 1 .. n : IF dist(r)[n] < C THEN NearLargest(r, i, a, one) ELSE Limited(r, C, i)}
          = {i \in 1 .. n : Limited(r, C, i)}
    BY <2>1
  <2>3. GetThBinary(r, C, a, one) = r[BinarySearch({i \in 1 .. n : Limited(r, C, i)}, n)]
    BY <1>2, <2>2 DEF GetThBinary
  <2>. QED BY <1>3, <2>3, FairWhenOverloaded
<1>4. CASE ~(FirstSum(r, n) >= C)
  <2>1. dist(r)[n] < C
    BY <1>2, <1>4
  <2>2. {i \in 1 .. n : IF dist(r)[n] < C THEN NearLargest(r, i, a, one) ELSE Limited(r, C, i)}
          = {i \in 1 .. n : NearLargest(r, i, a, one)}
    BY <2>1
  <2>3. GetThBinary(r, C, a, one) = r[BinarySearch({i \in 1 .. n : NearLargest(r, i, a, one)}, n)]
    BY <1>2, <2>2 DEF GetThBinary
  <2>. QED BY <1>4, <2>3, FairWhenNot
<1>. QED BY <1>3, <1>4

-----------------------------------------------------------------------------
(* The rates GetThBinary sorts are those of flows, and naturals.           *)
KeysAreFlows == m_flowKeys \subseteq Flows

LEMMA StepKeys == KeysAreFlows /\ [Next]_vars => KeysAreFlows'
<1>. SUFFICES ASSUME KeysAreFlows, [Next]_vars PROVE KeysAreFlows'
  OBVIOUS
<1>1. ASSUME NEW flow \in Flows, NEW w \in Sizes, Update(flow, w) PROVE KeysAreFlows'
  <2>1. \A counters : Remembered(counters, m_flowKeys \cup {flow}) \subseteq m_flowKeys \cup {flow}
    BY DEF Remembered
  <2>2. PICK counters : m_flowKeys' = Remembered(counters, m_flowKeys \cup {flow})
    BY <1>1 DEF Update
  <2>. QED BY <2>1, <2>2 DEF KeysAreFlows
<1>2. CASE UNCHANGED m_flowKeys
  BY <1>2 DEF KeysAreFlows
<1>3. CASE Tick
  BY <1>2, <1>3 DEF Tick
<1>4. CASE NextWindow
  BY <1>2, <1>4 DEF NextWindow
<1>5. CASE UNCHANGED vars
  BY <1>2, <1>5 DEF vars
<1>. QED BY <1>1, <1>3, <1>4, <1>5 DEF Next

LEMMA InSequence ==
  ASSUME NEW S, IsFiniteSet(S) PROVE SetToSeq(S) \in [1 .. Cardinality(S) -> S] /\ Cardinality(S) \in Nat
<1>1. Cardinality(S) \in Nat /\ ExistsBijection(1 .. Cardinality(S), S)
  BY FS_CardinalityType
<1>2. PICK f \in Injection(1 .. Cardinality(S), S) : TRUE
  BY <1>1 DEF ExistsBijection, Bijection
<1>3. f \in [1 .. Cardinality(S) -> S] /\ IsInjective(f)
  BY <1>2 DEF Injection, IsInjective
<1>. QED BY <1>1, <1>3 DEF SetToSeq

LEMMA RatesRise ==
  ASSUME SketchInvariant, KeysAreFlows PROVE \E n \in Nat : Rising(RatesNow, n)
<1>. DEFINE counters == Touched(m_counters, m_flowKeys)
            R == Remembered(counters, m_flowKeys)
            known == SetToSeq(R)
            rates == [i \in 1 .. Len(known) |-> Query(counters, known[i])]
<1>1. m_cntWindows \in Nat /\ AllFit(m_counters, ByteTable, m_cntWindows, Now)
  BY SketchConstants DEF SketchInvariant, SInv, Counting, CountersFit
<1>2. AllFit(counters, ByteTable, m_cntWindows, Now)
  BY <1>1, TouchedFit
<1>3. ASSUME NEW f \in m_flowKeys PROVE Query(counters, f) \in Nat
  <2>1. f \in Flows
    BY DEF KeysAreFlows
  <2>2. m_counters \in [Ring -> [Rows -> [Columns -> Slots]]]
    BY <1>1 DEF AllFit
  <2>3. Fresh(counters, f)
    BY <1>1, <2>1, <2>2, TouchedFresh
  <2>. HIDE DEF counters
  <2>. QED BY <1>2, <2>1, <2>3, QueryIsNat DEF SketchInvariant
<1>4. IsFiniteSet(R) /\ R \subseteq m_flowKeys
  <2>1. R \in SUBSET Flows /\ R \subseteq m_flowKeys
    BY DEF KeysAreFlows, Remembered
  <2>. HIDE DEF R
  <2>. QED BY <2>1, SketchConstants, FS_Subset
<1>. HIDE DEF R
<1>5. PICK k \in Nat : known \in [1 .. k -> R]
  BY <1>4, InSequence
<1>. HIDE DEF known, counters
<1>6. Len(known) = k
  BY <1>5
<1>7. ASSUME NEW i \in 1 .. k PROVE Query(counters, known[i]) \in Nat
  BY <1>3, <1>4, <1>5
<1>8. rates \in Seq(Nat) /\ Len(rates) = k
  BY <1>6, <1>7
<1>9. RatesNow = Sorted(rates)
  BY DEF RatesNow, rates, known, counters, R
<1>. HIDE DEF rates
<1>. QED BY <1>8, <1>9, SortedRises

LEMMA FairNow == SketchInvariant /\ KeysAreFlows => ThresholdIsFair
<1>. SUFFICES ASSUME SketchInvariant, KeysAreFlows PROVE ThresholdIsFair
  OBVIOUS
<1>0. PICK rates : rates = RatesNow
  OBVIOUS
<1>1. PICK n \in Nat : Rising(rates, n)
  BY <1>0, RatesRise
<1>2. Highest(rates) = n
  BY <1>1, HighestIs DEF Rising
<1>3. CASE n > 0
  <2>1. n \in Nat \ {0} /\ Capacity \in Nat /\ One \in Nat /\ h \in 0 .. One
    BY <1>3, SketchAssumption
  <2>2. PICK th : th = GetThBinary(rates, Capacity, h, One)
    OBVIOUS
  <2>3. Fair(rates, n, Capacity, h, One, th)
    BY <1>1, <2>1, <2>2, SplitIsFair
  <2>. QED BY <1>0, <1>2, <1>3, <2>2, <2>3 DEF ThresholdIsFair, Fair, FirstSum
<1>4. CASE ~(n > 0)
  BY <1>0, <1>2, <1>4 DEF ThresholdIsFair
<1>. QED BY <1>3, <1>4

(* Whatever the flows send, the threshold GetThBinary finds by bisection   *)
(* splits the rates it remembers fairly: the flows below it get what they  *)
(* send, an equal share of the rest is more than any of these and no more  *)
(* than any of the others sends.                                           *)
THEOREM ThresholdFair == Spec => []ThresholdIsFair
<1>1. Init => KeysAreFlows
  BY DEF Init, KeysAreFlows
<1>. QED BY <1>1, StepKeys, FairNow, SketchInvariance, PTL DEF Spec
=============================================================================
