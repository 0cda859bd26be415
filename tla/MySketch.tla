------------------------------ MODULE MySketch ------------------------------
(***************************************************************************)
(* The sketch of an egress queue: bytes per flow over a sliding window of  *)
(* subwindows, counted in rows of hashed columns, the number of columns in *)
(* use, and the flows whose rate makes them big.  A subwindow's counters   *)
(* are reused in a ring and cleared when they are next touched, its sums   *)
(* when the ring comes round.                                              *)
(*                                                                         *)
(* Time counts in ticks; rates are bytes per Second ticks, rounded down.   *)
(* The estimate GetCard makes of the number of flows from the columns in   *)
(* use is a logarithm and left out.                                        *)
(***************************************************************************)
EXTENDS FairThreshold, ByteSums, FiniteSets, SequencesExt

CONSTANTS
  Flows,        \* the five-tuples
  Columns,      \* the columns of a row
  nRows,        \* m_nRows
  nWindows,     \* m_nWindows
  Hash,         \* Hash[flow][row] is a column
  WindowSize,   \* m_windowSize in ticks
  Second,       \* ticks of a second, times 8
  InitialRate,  \* the rate of a flow at the instant of its first packet
  Capacity,     \* m_rate
  h, One,       \* m_h = h / One
  Sizes,        \* bytes of a packet
  MaxWindows,   \* bound: subwindows started
  MaxBytes      \* bound: bytes of all flows together

Rows == 0 .. nRows - 1
Ring == 0 .. nWindows - 1

ASSUME SketchAssumption ==
  /\ IsFiniteSet(Flows) /\ IsFiniteSet(Columns)
  /\ nRows \in Nat \ {0} /\ nWindows \in Nat \ {0}
  /\ Hash \in [Flows -> [Rows -> Columns]]
  /\ WindowSize \in Nat \ {0}
  /\ Second \in Nat /\ Second >= nWindows * WindowSize
  /\ InitialRate \in Nat \ {0} /\ Capacity \in Nat \ {0}
  /\ One \in Nat \ {0} /\ h \in 0 .. One
  /\ Sizes \subseteq Nat \ {0}
  /\ MaxWindows \in Nat /\ MaxBytes \in Nat

VARIABLES
  m_curWindow,   \* the place in the ring
  m_cntWindows,  \* subwindows started since Init
  elapsed,       \* ticks since the subwindow started
  m_startTime,   \* when the oldest subwindow in sight started
  m_counters,    \* [n, e, t] of a place in the ring, a row and a column
  m_B,           \* the subwindow a column of row 0 was last used in
  m_cntB,        \* columns last used in a subwindow
  m_card,        \* columns in use
  m_bytes, m_totalBytes,
  m_flowKeys,    \* the flows GetThBinary looks at
  sent           \* the bytes of each flow in each subwindow: what really happened

windows == <<m_curWindow, m_cntWindows, elapsed, m_startTime>>
columns == <<m_B, m_cntB, m_card>>
vars == <<windows, columns, m_counters, m_bytes, m_totalBytes, m_flowKeys, sent>>

-----------------------------------------------------------------------------
Now == m_cntWindows * WindowSize + elapsed
InSight(w) == w > m_cntWindows - nWindows

Init ==
  /\ m_curWindow = 0 /\ m_cntWindows = 0
  /\ elapsed = 0 /\ m_startTime = 0
  /\ m_counters = [j \in Ring |-> [i \in Rows |-> [c \in Columns |-> [n |-> 0, e |-> 0, t |-> 0]]]]
  /\ m_B = [c \in Columns |-> -nWindows]
  /\ m_cntB = [j \in Ring |-> 0]
  /\ m_card = 0
  /\ m_bytes = [j \in Ring |-> 0] /\ m_totalBytes = 0
  /\ m_flowKeys = {}
  /\ sent = [f \in Flows |-> [w \in 0 .. MaxWindows |-> 0]]

(* Faulty variant: what the last turn of the ring left is added to.        *)
Touch_KeepsOld(slot, w) ==
  IF w = 0 THEN slot
  ELSE [n |-> slot.n + w, e |-> m_cntWindows, t |-> IF slot.n = 0 THEN Now ELSE slot.t]

(* data::update.                                                           *)
Touch(slot, w) ==
  LET n == IF m_cntWindows - slot.e >= nWindows THEN 0 ELSE slot.n
  IN  IF w = 0 THEN [slot EXCEPT !.n = n]
      ELSE [n |-> n + w, e |-> m_cntWindows, t |-> IF n = 0 THEN Now ELSE slot.t]

Hits(flow, i, c) == Hash[flow][i] = c
LowestOf(S) == CHOOSE x \in S : \A y \in S : x <= y

(* Query, of counters every slot of which it has touched.                  *)
re(counters, flow, j) == LowestOf({counters[j][i][Hash[flow][i]].n : i \in Rows})
tm(counters, flow, j) == LowestOf({counters[j][i][Hash[flow][i]].t : i \in Rows})
sz(counters, flow) == SumOf([j \in Ring |-> re(counters, flow, j)])
Query(counters, flow) ==
  LET used == {j \in Ring : re(counters, flow, j) > 0}
      delta == Now - LowestOf({tm(counters, flow, j) : j \in used})
  IN  IF used = {} THEN 0
      ELSE IF delta = 0 THEN InitialRate
      ELSE (sz(counters, flow) * Second) \div delta

Touched(counters, flows) ==
  [j \in Ring |-> [i \in Rows |-> [c \in Columns |->
     IF \E f \in flows : Hits(f, i, c) THEN Touch(counters[j][i][c], 0) ELSE counters[j][i][c]]]]

(* A column is counted in the subwindow it was last used in.               *)
UseColumn(c) ==
  LET held == IF m_cntWindows - m_B[c] < nWindows THEN {m_B[c] % nWindows} ELSE {}
      without == [j \in Ring |-> m_cntB[j] - (IF j \in held THEN 1 ELSE 0)]
  IN  /\ m_B' = [m_B EXCEPT ![c] = m_cntWindows]
      /\ m_cntB' = [without EXCEPT ![m_curWindow] = @ + 1]
      /\ m_card' = m_card - Cardinality(held) + 1

BytesOf(flows, w) == SumOf([f \in flows |-> sent[f][w]])
AllBytes == SumOf([w \in 0 .. MaxWindows |-> BytesOf(Flows, w)])

(* Faulty variant: a flow that paused for a subwindow is forgotten.        *)
Remembered_ThisWindow(counters, keys) == {f \in keys : re(counters, f, m_curWindow) > 0}

(* GetThBinary forgets the flows that have no rate any more.               *)
Remembered(counters, keys) == {f \in keys : Query(counters, f) > 0}

Update(flow, w) ==
  LET counted == [j \in Ring |-> [i \in Rows |-> [c \in Columns |->
                    IF Hits(flow, i, c)
                    THEN Touch(m_counters[j][i][c], IF j = m_curWindow THEN w ELSE 0)
                    ELSE m_counters[j][i][c]]]]
      keys == m_flowKeys \cup {flow}
      touched == Touched(counted, keys)
  IN  /\ AllBytes + w <= MaxBytes
      /\ m_totalBytes' = m_totalBytes + w
      /\ m_bytes' = [m_bytes EXCEPT ![m_curWindow] = @ + w]
      /\ UseColumn(Hash[flow][0])
      /\ m_counters' = touched
      /\ m_flowKeys' = Remembered(touched, keys)
      /\ sent' = [sent EXCEPT ![flow][m_cntWindows] = @ + w]
      /\ UNCHANGED windows

Tick ==
  /\ elapsed < WindowSize
  /\ elapsed' = elapsed + 1
  /\ UNCHANGED <<m_curWindow, m_cntWindows, m_startTime, columns, m_counters, m_bytes, m_totalBytes, m_flowKeys, sent>>

(* Faulty variant: the oldest subwindow stays counted.                     *)
DropOldest_KeepsCard(j) ==
  m_cntB' = [m_cntB EXCEPT ![j] = 0] /\ UNCHANGED <<m_B, m_card>>

DropOldest(j) ==
  /\ m_card' = m_card - m_cntB[j]
  /\ m_cntB' = [m_cntB EXCEPT ![j] = 0]
  /\ UNCHANGED m_B

AdvanceStart ==
  m_startTime' = IF m_cntWindows' >= nWindows THEN m_startTime + WindowSize ELSE m_startTime

(* The event comes after or before the packets of its instant.             *)
NextWindow ==
  /\ elapsed = WindowSize
  /\ m_cntWindows < MaxWindows
  /\ elapsed' = 0
  /\ m_curWindow' = (m_curWindow + 1) % nWindows
  /\ m_cntWindows' = m_cntWindows + 1
  /\ AdvanceStart
  /\ DropOldest(m_curWindow')
  /\ m_totalBytes' = m_totalBytes - m_bytes[m_curWindow']
  /\ m_bytes' = [m_bytes EXCEPT ![m_curWindow'] = 0]
  /\ UNCHANGED <<m_counters, m_flowKeys, sent>>

Next ==
  \/ \E flow \in Flows, w \in Sizes : Update(flow, w)
  \/ Tick
  \/ NextWindow

Spec == Init /\ [][Next]_vars

-----------------------------------------------------------------------------
TypeOK ==
  /\ m_curWindow \in Ring
  /\ m_cntWindows \in 0 .. MaxWindows
  /\ elapsed \in 0 .. WindowSize
  /\ m_startTime \in Nat
  /\ m_counters \in [Ring -> [Rows -> [Columns -> [n : Nat, e : 0 .. MaxWindows, t : Nat]]]]
  /\ m_B \in [Columns -> -nWindows .. MaxWindows]
  /\ m_cntB \in [Ring -> 0 .. Cardinality(Columns)]
  /\ m_card \in 0 .. Cardinality(Columns)
  /\ m_bytes \in [Ring -> Nat] /\ m_totalBytes \in Nat
  /\ m_flowKeys \subseteq Flows

Seen == {w \in 0 .. MaxWindows : InSight(w)}
Active(flow) == \E w \in Seen : sent[flow][w] > 0

(* However the ring comes round and flows share columns, m_card is the     *)
(* number of columns of the first row that a packet of the last nWindows   *)
(* subwindows fell into.                                                   *)
CardExact == m_card = Cardinality({Hash[f][0] : f \in {g \in Flows : Active(g)}})

(* Counters cleared late or reused in the ring, a query returns for every  *)
(* subwindow in sight the bytes of the flow and of those that share its    *)
(* column, in the row where they are fewest, and nothing older.            *)
QueryExact ==
  \A flow \in Flows :
    sz(Touched(m_counters, {flow}), flow) =
      SumOf([w \in Seen |->
               LowestOf({BytesOf({f \in Flows : Hits(f, i, Hash[flow][i])}, w) : i \in Rows})])

(* A flow that sent in the window is compared with the others: it is only  *)
(* forgotten when nothing of it is in sight.                               *)
ActiveAreKnown == \A flow \in Flows : Active(flow) => flow \in m_flowKeys

-----------------------------------------------------------------------------
(* The rates GetThBinary would sort now.                                   *)
RatesNow ==
  LET counters == Touched(m_counters, m_flowKeys)
      known == SetToSeq(Remembered(counters, m_flowKeys))
  IN  Sorted([i \in 1 .. Len(known) |-> Query(counters, known[i])])

(* The threshold splits the flows fairly: when they exceed the port, the   *)
(* flows below it get what they send, an equal share of the rest is more   *)
(* than any of them sends and no more than any of the others does.  When   *)
(* they do not, it is at the hysteresis factor of the largest or above.    *)
ThresholdIsFair ==
  LET rates == RatesNow
      n == Highest(rates)
      th == GetThBinary(rates, Capacity, h, One)
      small == {i \in 1 .. n : rates[i] < th}
      big == (1 .. n) \ small
      Sum(S) == SumOf([i \in S |-> rates[i]])
      left == Capacity - Sum(small)
  IN  n > 0 =>
        /\ big # {}
        /\ IF Sum(1 .. n) >= Capacity
           THEN /\ \A i \in small : rates[i] * Cardinality(big) < left
                /\ \A i \in big : rates[i] * Cardinality(big) >= left
           ELSE \A i \in 1 .. n : i \in big <=> rates[i] * One >= rates[n] * h
=============================================================================
