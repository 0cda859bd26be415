---------------------------- MODULE FairThreshold ----------------------------
(***************************************************************************)
(* MySketch::GetThBinary: from which rate on a flow counts as big at a     *)
(* port of a given capacity.  When the port is overloaded these are the    *)
(* flows that a fair share would limit, when it is not the flows near the  *)
(* largest.  flowRates is a function on 0 .. n, sorted, with 0 in front.   *)
(***************************************************************************)
EXTENDS Integers, Sequences, FiniteSets

(* std::sort: rates[i] goes behind those that are less and, of equal ones, *)
(* behind those before it.                                                 *)
PlaceOf(rates, i) ==
  Cardinality({j \in 1 .. Len(rates) : rates[j] < rates[i] \/ (rates[j] = rates[i] /\ j <= i)})

Sorted(rates) ==
  [k \in 0 .. Len(rates) |->
     IF k = 0 THEN 0 ELSE rates[CHOOSE i \in 1 .. Len(rates) : PlaceOf(rates, i) = k]]

Highest(flowRates) == CHOOSE n \in DOMAIN flowRates : n + 1 \notin DOMAIN flowRates

dist(flowRates) ==
  LET sum[i \in DOMAIN flowRates] == IF i = 0 THEN 0 ELSE sum[i - 1] + flowRates[i]
  IN  sum

(* The while loop over 1 .. n, given where its condition holds: the place  *)
(* the search narrows down to, n + 1 when no probe held (the code's -1).   *)
BinarySearch(holding, n) ==
  LET search[range \in (1 .. n + 1) \X (0 .. n)] ==
        LET l == range[1]
            r == range[2]
            mid == (l + r) \div 2
        IN  IF l > r THEN l
            ELSE IF mid \in holding THEN search[<<l, mid - 1>>]
            ELSE search[<<mid + 1, r>>]
  IN  search[<<1, n>>]

(* Faulty variant: the share is of one flow more.                          *)
Limited_OneMore(flowRates, capacity, i) ==
  flowRates[i] * (Highest(flowRates) + 2 - i) >= capacity - dist(flowRates)[i - 1]

(* An equal share of what the smaller flows leave does not suffice.        *)
Limited(flowRates, capacity, i) ==
  flowRates[i] * (Highest(flowRates) + 1 - i) >= capacity - dist(flowRates)[i - 1]

(* h and one: the hysteresis factor is h / one.                            *)
NearLargest(flowRates, i, h, one) == flowRates[i] * one >= flowRates[Highest(flowRates)] * h

GetThBinary(flowRates, capacity, h, one) ==
  LET n == Highest(flowRates)
      Holds(i) == IF dist(flowRates)[n] < capacity THEN NearLargest(flowRates, i, h, one)
                  ELSE Limited(flowRates, capacity, i)
  IN  flowRates[BinarySearch({i \in 1 .. n : Holds(i)}, n)]
=============================================================================
