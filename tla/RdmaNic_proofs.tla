--------------------------- MODULE RdmaNic_proofs ---------------------------
(***************************************************************************)
(* Theorems about RdmaNic for every set of queue pairs, sizes, windows and *)
(* rates its assumption allows: what GetNextQindex does to the group, that *)
(* the segment sent is of the queue pair chosen, that a NIC that goes to   *)
(* sleep is woken.                                                         *)
(***************************************************************************)
EXTENDS RdmaNic, Arithmetic_proofs

LEMMA MaxGapIsMax == MaxGap \in Gaps /\ \A h \in Gaps : h <= MaxGap
<1>1. \E g \in Gaps : \A h \in Gaps : h <= g
  BY NicAssumption, LargestExists
<1>. QED BY <1>1 DEF MaxGap

-----------------------------------------------------------------------------
(* Where the positions of a set go when the others leave: in order, onto   *)
(* the first positions.                                                    *)
LEMMA PlacesInOrder ==
  ASSUME NEW n \in Nat, NEW S \in SUBSET (1 .. n)
  PROVE  /\ IsFiniteSet(S) /\ Cardinality(S) \in 0 .. n
         /\ \A i \in S : Place(S, i) \in 1 .. Cardinality(S)
         /\ \A i, j \in S : i # j => Place(S, i) # Place(S, j)
<1>1. IsFiniteSet(1 .. n) /\ Cardinality(1 .. n) = n
  BY FS_Interval
<1>2. IsFiniteSet(S) /\ Cardinality(S) \in 0 .. n
  <2>1. IsFiniteSet(S) /\ Cardinality(S) <= Cardinality(1 .. n)
    BY <1>1, FS_Subset
  <2>. QED BY <1>1, <2>1, FS_CardinalityType
<1>3. ASSUME NEW i \in S PROVE Place(S, i) \in 1 .. Cardinality(S)
  <2>. DEFINE T == {j \in S : j <= i}
  <2>1. IsFiniteSet(T) /\ Cardinality(T) <= Cardinality(S) /\ Cardinality(T) \in Nat
    BY <1>2, FS_Subset, FS_CardinalityType
  <2>2. Cardinality(T) # 0
    <3>1. i \in T
      OBVIOUS
    <3>. HIDE DEF T
    <3>. QED BY <2>1, <3>1, FS_EmptySet
  <2>. QED BY <1>2, <2>1, <2>2 DEF Place
<1>4. ASSUME NEW i \in S, NEW j \in S, i < j PROVE Place(S, i) # Place(S, j)
  <2>. DEFINE T == {k \in S : k <= i}
              U == {k \in S : k <= j}
  <2>1. T \subseteq U /\ j \in U /\ j \notin T
    <3>1. \A k \in S : k <= i => k <= j
      BY <1>4
    <3>2. j <= j /\ ~(j <= i)
      BY <1>4
    <3>. QED BY <3>1, <3>2
  <2>2. IsFiniteSet(U)
    BY <1>2, FS_Subset
  <2>3. Cardinality(T) # Cardinality(U)
    <3>. HIDE DEF T, U
    <3>. QED BY <2>1, <2>2, FS_Subset
  <2>. QED BY <2>3 DEF Place
<1>5. \A i, j \in S : i # j => i < j \/ j < i
  OBVIOUS
<1>. QED BY <1>2, <1>3, <1>4, <1>5

(* Every one of the first positions is taken.                              *)
LEMMA PlacesFilled ==
  ASSUME NEW n \in Nat, NEW S \in SUBSET (1 .. n), NEW k \in 1 .. Cardinality(S)
  PROVE  \E i \in S : Place(S, i) = k
<1>. DEFINE c == Cardinality(S)
            f == [i \in S |-> Place(S, i)]
<1>1. c \in Nat /\ IsFiniteSet(S)
  BY PlacesInOrder
<1>4. IsFiniteSet(1 .. c) /\ Cardinality(1 .. c) = c
  BY <1>1, FS_Interval
<1>2. f \in Injection(S, 1 .. c)
  <2>1. f \in [S -> 1 .. c]
    BY PlacesInOrder
  <2>2. \A i, j \in S : i # j => f[i] # f[j]
    BY PlacesInOrder
  <2>. QED BY <2>1, <2>2 DEF Injection, IsInjective
<1>3. f \in Surjection(S, 1 .. c)
  <2>. HIDE DEF f
  <2>. QED BY <1>1, <1>2, <1>4, FS_Injection
<1>. QED BY <1>3 DEF Surjection

-----------------------------------------------------------------------------
(* GetNextQindex.                                                          *)
(* The scan goes over the positions of the group.                          *)
LEMMA PositionInGroup ==
  ASSUME TypeOK, NEW turn \in Turns PROVE Position(turn) \in Turns
<1>1. rrlast \in Int
  BY NicAssumption, FS_CardinalityType DEF TypeOK
<1>2. Len(group) \in Nat \ {0} /\ turn + rrlast \in Int
  BY <1>1 DEF TypeOK, Turns
<1>3. (turn + rrlast) % Len(group) \in 0 .. Len(group) - 1
  BY <1>2, DivMod
<1>. QED BY <1>2, <1>3 DEF Position, Turns

(* ... and over every one of them.                                         *)
LEMMA EveryPosition ==
  ASSUME TypeOK, NEW i \in Turns PROVE \E turn \in Turns : Position(turn) = i
<1>. DEFINE n == Len(group)
            m == (i - 1 - rrlast) % n
            k == (i - 1 - rrlast) \div n
            turn == IF m = 0 THEN n ELSE m
<1>1. n \in Nat \ {0} /\ i - 1 \in 0 .. n - 1 /\ rrlast \in Int
  <2>1. rrlast \in Int
    BY NicAssumption, FS_CardinalityType DEF TypeOK
  <2>. QED BY <2>1 DEF TypeOK, Turns
<1>2. i - 1 - rrlast = n * k + m /\ k \in Int /\ m \in 0 .. n - 1
  <2>1. n \in Nat \ {0} /\ i - 1 - rrlast \in Int
    BY <1>1
  <2>. HIDE DEF n
  <2>. QED BY <2>1, DivMod
<1>. HIDE DEF n, m, k
<1>3. turn \in 1 .. n
  BY <1>1, <1>2
<1>4. (turn + rrlast) % n = i - 1
  <2>1. CASE m = 0
    <3>1. n * (1 - k) = n - n * k /\ n * k \in Int
      BY <1>1, <1>2
    <3>2. n + rrlast = (i - 1) + n * (1 - k)
      BY <1>1, <1>2, <2>1, <3>1
    <3>3. turn = n /\ 1 - k \in Int /\ i - 1 \in Int
      BY <1>1, <1>2, <2>1
    <3>4. ((i - 1) + n * (1 - k)) % n = (i - 1) % n
      BY <1>1, <3>3, ShiftedModulo
    <3>5. (i - 1) % n = i - 1
      BY <1>1, SmallModulo
    <3>. QED BY <3>2, <3>3, <3>4, <3>5
  <2>2. CASE m # 0
    <3>1. n * (-k) = -(n * k) /\ n * k \in Int
      BY <1>1, <1>2
    <3>2. m + rrlast = (i - 1) + n * (-k)
      BY <1>1, <1>2, <2>2, <3>1
    <3>3. turn = m /\ -k \in Int /\ i - 1 \in Int
      BY <1>1, <1>2, <2>2
    <3>4. ((i - 1) + n * (-k)) % n = (i - 1) % n
      BY <1>1, <3>3, ShiftedModulo
    <3>5. (i - 1) % n = i - 1
      BY <1>1, SmallModulo
    <3>. QED BY <3>2, <3>3, <3>4, <3>5
  <2>. QED BY <2>1, <2>2
<1>5. Position(turn) = i
  <2>1. (i - 1) + 1 = i
    BY <1>1 DEF Turns
  <2>. QED BY <1>4, <2>1 DEF Position, n
<1>. QED BY <1>3, <1>5 DEF Turns, n

(* The queue pair taken may send and is due.                               *)
LEMMA TakenMaySend ==
  ASSUME TypeOK, NEW res \in Taken
  PROVE  res \in Turns /\ MaySend(group[res]) /\ wait[group[res]] <= 0
BY PositionInGroup DEF Taken, Tried, Takes

(* If none is taken there is none that may send and is due.                *)
LEMMA NoneMaySend ==
  ASSUME TypeOK, Taken = {}, NEW i \in Turns
  PROVE  ~(MaySend(group[i]) /\ wait[group[i]] <= 0)
<1>. SUFFICES ASSUME MaySend(group[i]), wait[group[i]] <= 0 PROVE FALSE
  OBVIOUS
<1>. DEFINE Takers == {turn \in Turns : Takes(turn)}
<1>1. PICK turn \in Turns : Position(turn) = i
  BY EveryPosition
<1>2. Takers # {} /\ Takers \in SUBSET Nat
  BY <1>1 DEF Takes, Turns
<1>3. PICK t \in Takers : \A s \in Takers : t <= s
  <2>. HIDE DEF Takers
  <2>. QED BY <1>2, LeastExists
<1>4. \A s \in 1 .. t - 1 : ~Takes(s)
  <2>1. t \in 1 .. Len(group) /\ Len(group) \in Nat
    BY DEF TypeOK, Turns
  <2>2. \A s \in 1 .. t - 1 : s \in Turns /\ ~(t <= s)
    BY <2>1 DEF Turns
  <2>. QED BY <1>3, <2>2
<1>5. Position(t) \in Taken
  BY <1>4 DEF Taken, Tried
<1>. QED BY <1>5

(* Only finished queue pairs leave the group.                              *)
LEMMA UnfinishedStays ==
  ASSUME NEW i \in Turns, ~IsFinished(group[i]) PROVE i \in Stays
BY DEF Stays

(* The group without them holds those that stay, each at its new place.    *)
LEMMA ClearedGroup ==
  ASSUME TypeOK
  PROVE  /\ Cleared \in Seq(Qps)
         /\ Len(Cleared) = Cardinality(Stays) /\ Len(Cleared) <= Len(group)
         /\ \A i \in Stays : Place(Stays, i) \in 1 .. Len(Cleared)
                               /\ Cleared[Place(Stays, i)] = group[i]
         /\ \A k \in 1 .. Len(Cleared) :
              \E i \in Stays : Place(Stays, i) = k /\ Cleared[k] = group[i]
<1>. DEFINE At(k) == CHOOSE i \in Stays : Place(Stays, i) = k
            c == Cardinality(Stays)
<1>1. Len(group) \in Nat /\ Stays \in SUBSET (1 .. Len(group))
  BY DEF TypeOK, Stays, Turns
<1>2. c \in 0 .. Len(group) /\ \A i \in Stays : Place(Stays, i) \in 1 .. c
  BY <1>1, PlacesInOrder
<1>3. \A i, j \in Stays : i # j => Place(Stays, i) # Place(Stays, j)
  BY <1>1, PlacesInOrder
<1>4. \A k \in 1 .. c : At(k) \in Stays /\ Place(Stays, At(k)) = k
  BY <1>1, PlacesFilled
<1>5. Cleared = [k \in 1 .. c |-> group[At(k)]]
  BY DEF Cleared
<1>. HIDE DEF At
<1>6. \A k \in 1 .. c : group[At(k)] \in Qps
  <2>1. \A i \in 1 .. Len(group) : group[i] \in Qps
    BY DEF TypeOK
  <2>. QED BY <1>1, <1>4, <2>1
<1>7. Cleared \in Seq(Qps) /\ Len(Cleared) = c
  BY <1>2, <1>5, <1>6
<1>8. \A i \in Stays : At(Place(Stays, i)) = i
  BY <1>2, <1>3, <1>4
<1>. QED BY <1>2, <1>4, <1>5, <1>7, <1>8

(* The index moves with the queue pair chosen.                             *)
LEMMA SentIsChosen ==
  ASSUME TypeOK, NEW res \in Taken
  PROVE  Moved(res) \in 1 .. Len(Cleared) /\ Cleared[Moved(res)] = group[res]
<1>1. res \in Turns /\ HasBytes(group[res])
  BY TakenMaySend DEF MaySend
<1>2. group[res] \in Qps
  BY <1>1 DEF TypeOK, Turns
<1>3. ~IsFinished(group[res])
  BY <1>1, <1>2, NicAssumption DEF HasBytes, IsFinished, TypeOK
<1>. QED BY <1>1, <1>3, UnfinishedStays, ClearedGroup DEF Moved

-----------------------------------------------------------------------------
(* The inductive invariant.  A queue pair is at most once in the group, so *)
(* that the group fits the indices; a segment is never paced by more than  *)
(* the gap of the rate it was sent at or has been moved to; a packet in    *)
(* m_ackQ is one of the segments to answer.                                *)
Members ==
  /\ \A i \in Turns : group[i] \in joined
  /\ \A i, j \in Turns : group[i] = group[j] => i = j

NicInv ==
  /\ TypeOK
  /\ Members
  /\ \A qp \in Qps : wait[qp] <= gap[qp]
  /\ acks <= upsets

(* The constants as the steps below need them.                             *)
LEMMA Constants ==
  /\ Cardinality(Qps) \in Nat
  /\ MaxGap \in Nat \ {0} /\ LineGap \in Nat \ {0} /\ LineGap <= MaxGap
  /\ \A g \in Gaps : g \in Nat \ {0} /\ LineGap <= g /\ g <= MaxGap
  /\ MaxUpsets \in Nat
  /\ \A qp \in Qps : Size[qp] \in Nat \ {0}
BY NicAssumption, MaxGapIsMax, FS_CardinalityType

LEMMA NicInitInv == Init => NicInv
<1>. SUFFICES ASSUME Init PROVE NicInv
  OBVIOUS
<1>1. TypeOK
  <2>1. group \in Seq(Qps) /\ joined \subseteq Qps
    BY DEF Init
  <2>2. /\ nxt \in [Qps -> Nat] /\ una \in [Qps -> Nat]
        /\ \A qp \in Qps : una[qp] <= nxt[qp] /\ nxt[qp] <= Size[qp]
    BY Constants DEF Init
  <2>3. wait \in [Qps -> LineGap - MaxGap .. MaxGap] /\ gap \in [Qps -> Gaps]
    BY Constants, NicAssumption DEF Init
  <2>4. rrlast \in 0 .. Cardinality(Qps) /\ acks \in 0 .. MaxUpsets /\ upsets \in 0 .. MaxUpsets
    BY Constants DEF Init
  <2>5. tx \in None .. LineGap /\ sleep \in None .. MaxGap
    BY Constants DEF Init, None
  <2>. QED BY <2>1, <2>2, <2>3, <2>4, <2>5 DEF TypeOK, Init
<1>2. Members
  BY DEF Init, Members, Turns
<1>3. (\A qp \in Qps : wait[qp] <= gap[qp]) /\ acks <= upsets
  BY Constants DEF Init
<1>. QED BY <1>1, <1>2, <1>3 DEF NicInv

LEMMA GroupSmall ==
  ASSUME TypeOK, Members PROVE Len(group) <= Cardinality(Qps)
<1>. DEFINE f == [i \in 1 .. Len(group) |-> group[i]]
<1>1. /\ Len(group) \in Nat /\ IsFiniteSet(1 .. Len(group))
      /\ Cardinality(1 .. Len(group)) = Len(group)
  <2>. DEFINE n == Len(group)
  <2>1. n \in Nat
    BY DEF TypeOK
  <2>. HIDE DEF n
  <2>2. IsFiniteSet(1 .. n) /\ Cardinality(1 .. n) = n
    BY <2>1, FS_Interval
  <2>. QED BY <2>1, <2>2 DEF n
<1>2. f \in Injection(1 .. Len(group), Qps)
  <2>1. f \in [1 .. Len(group) -> Qps]
    BY DEF TypeOK
  <2>. QED BY <2>1 DEF Injection, IsInjective, Members, Turns
<1>. QED BY <1>1, <1>2, FS_Injection, NicAssumption

(* What holds of the group holds of what GetNextQindex leaves of it.       *)
LEMMA ClearedMembers ==
  ASSUME TypeOK, Members, group' = Cleared, joined' = joined
  PROVE  Members' /\ group' \in Seq(Qps)
<1>1. \A k \in 1 .. Len(Cleared) : \E i \in Stays : Place(Stays, i) = k /\ Cleared[k] = group[i]
  BY ClearedGroup
<1>2. Stays \subseteq Turns
  BY DEF Stays
<1>3. \A k \in 1 .. Len(Cleared) : Cleared[k] \in joined
  BY <1>1, <1>2 DEF Members
<1>4. \A k, l \in 1 .. Len(Cleared) : Cleared[k] = Cleared[l] => k = l
  BY <1>1, <1>2 DEF Members
<1>5. Turns' = 1 .. Len(Cleared)
  BY DEF Turns
<1>. QED BY <1>3, <1>4, <1>5, ClearedGroup DEF Members

(* The queue pair a segment is taken from.                                 *)
LEMMA SegmentSent ==
  ASSUME TypeOK, Members, TransmitSegment
  PROVE  \E qp \in Qps :
           /\ MaySend(qp) /\ wait[qp] <= 0
           /\ nxt' = [nxt EXCEPT ![qp] = @ + 1]
           /\ wait' = [wait EXCEPT ![qp] = gap[qp]]
           /\ rrlast' \in 0 .. Cardinality(Qps)
<1>1. PICK res \in Taken :
        /\ rrlast' = Moved(res) - 1
        /\ nxt' = [nxt EXCEPT ![Cleared[Moved(res)]] = @ + 1]
        /\ wait' = [wait EXCEPT ![Cleared[Moved(res)]] = gap[Cleared[Moved(res)]]]
  BY DEF TransmitSegment
<1>2. Moved(res) \in 1 .. Len(Cleared) /\ Cleared[Moved(res)] = group[res]
  BY SentIsChosen
<1>3. /\ group[res] \in Qps /\ MaySend(group[res]) /\ wait[group[res]] <= 0
  BY TakenMaySend DEF TypeOK, Turns
<1>4. rrlast' \in 0 .. Cardinality(Qps)
  <2>1. Len(Cleared) \in Nat /\ Len(Cleared) <= Len(group) /\ Len(group) \in Nat
    BY ClearedGroup DEF TypeOK
  <2>. QED BY <1>1, <1>2, <2>1, GroupSmall, Constants
<1>. QED BY <1>1, <1>2, <1>3, <1>4

LEMMA SegmentInv == NicInv /\ TransmitSegment => NicInv'
<1>. SUFFICES ASSUME NicInv, TransmitSegment PROVE NicInv'
  OBVIOUS
<1>. USE DEF NicInv
<1>1. PICK qp \in Qps :
        /\ MaySend(qp) /\ wait[qp] <= 0
        /\ nxt' = [nxt EXCEPT ![qp] = @ + 1]
        /\ wait' = [wait EXCEPT ![qp] = gap[qp]]
        /\ rrlast' \in 0 .. Cardinality(Qps)
  BY SegmentSent
<1>2. Members' /\ group' \in Seq(Qps)
  BY ClearedMembers DEF TransmitSegment
<1>3. /\ nxt' \in [Qps -> Nat] /\ una' \in [Qps -> Nat]
      /\ \A q \in Qps : una'[q] <= nxt'[q] /\ nxt'[q] <= Size[q]
  <2>1. nxt[qp] < Size[qp] /\ Size[qp] \in Nat /\ nxt[qp] \in Nat /\ una' = una
    BY <1>1, Constants DEF TypeOK, TransmitSegment, MaySend, HasBytes
  <2>2. nxt'[qp] = nxt[qp] + 1 /\ \A q \in Qps \ {qp} : nxt'[q] = nxt[q]
    BY <1>1 DEF TypeOK
  <2>3. nxt' \in [Qps -> Nat]
    BY <1>1, <2>1 DEF TypeOK
  <2>4. una[qp] <= nxt[qp] + 1 /\ nxt[qp] + 1 <= Size[qp]
    BY <2>1 DEF TypeOK
  <2>. QED BY <2>1, <2>2, <2>3, <2>4 DEF TypeOK
<1>4. wait' \in [Qps -> LineGap - MaxGap .. MaxGap] /\ \A q \in Qps : wait'[q] <= gap'[q]
  <2>1. gap[qp] \in Gaps /\ gap[qp] \in LineGap - MaxGap .. MaxGap /\ gap[qp] <= gap[qp]
    BY Constants DEF TypeOK
  <2>2. wait'[qp] = gap[qp] /\ (\A q \in Qps \ {qp} : wait'[q] = wait[q]) /\ gap' = gap
    BY <1>1 DEF TypeOK, TransmitSegment
  <2>3. wait' \in [Qps -> LineGap - MaxGap .. MaxGap]
    BY <1>1, <2>1 DEF TypeOK
  <2>. QED BY <2>1, <2>2, <2>3
<1>5. TypeOK'
  <2>1. tx' \in None .. LineGap
    BY Constants DEF TransmitSegment, None
  <2>. QED BY <1>1, <1>2, <1>3, <1>4, <2>1 DEF TypeOK, TransmitSegment
<1>. QED BY <1>2, <1>4, <1>5 DEF TransmitSegment

LEMMA AckInv == NicInv /\ TransmitAck => NicInv'
<1>. SUFFICES ASSUME NicInv, TransmitAck PROVE NicInv'
  OBVIOUS
<1>1. acks' \in 0 .. MaxUpsets /\ acks' <= upsets' /\ tx' \in None .. LineGap
  BY Constants DEF NicInv, TypeOK, TransmitAck, AckReady, None
<1>. QED BY <1>1 DEF NicInv, TypeOK, Members, Turns, TransmitAck, flows

(* The times a NIC may wake up at.                                         *)
LEMMA EarliestIsWait ==
  ASSUME TypeOK, NEW t \in Earliest
  PROVE  \E i \in Stays : HasBytes(group[i]) /\ t = wait[group[i]] /\ group[i] \in Qps
           /\ \A s \in Earliest : s = t
<1>1. \A qp \in Wakers : \E i \in Stays : HasBytes(group[i]) /\ qp = group[i] /\ group[i] \in Qps
  <2>1. \A i \in Stays : group[i] \in Qps
    BY DEF Stays, Turns, TypeOK
  <2>. QED BY <2>1 DEF Wakers
<1>2. \A qp \in Wakers : wait[qp] \in Int
  <2>1. \A qp \in Qps : wait[qp] \in LineGap - MaxGap .. MaxGap
    BY DEF TypeOK
  <2>. QED BY <1>1, <2>1
<1>3. \A s \in Earliest : \E qp \in Wakers : s = wait[qp] /\ \A v \in Wakers : wait[qp] <= wait[v]
  BY DEF Earliest
<1>4. \A s \in Earliest : s = t
  BY <1>2, <1>3
<1>. QED BY <1>1, <1>3, <1>4

LEMMA NothingInv == NicInv /\ TransmitNothing => NicInv'
<1>. SUFFICES ASSUME NicInv, TransmitNothing PROVE NicInv'
  OBVIOUS
<1>. USE DEF NicInv
<1>1. Members' /\ group' \in Seq(Qps)
  BY ClearedMembers DEF TransmitNothing
<1>2. sleep' \in None .. MaxGap
  <2>1. CASE sleep' = sleep
    BY <2>1 DEF TypeOK
  <2>2. CASE sleep' \in Earliest /\ \E t \in Earliest : t > 0
    <3>1. sleep' > 0 /\ \E qp \in Qps : sleep' = wait[qp]
      BY <2>2, EarliestIsWait
    <3>. QED BY <3>1, Constants DEF TypeOK, None
  <2>. QED BY <2>1, <2>2 DEF TransmitNothing
<1>. QED BY <1>1, <1>2 DEF TypeOK, TransmitNothing, flows

LEMMA NewQpInv == ASSUME NEW qp \in Qps PROVE NicInv /\ NewQp(qp) => NicInv'
<1>. SUFFICES ASSUME NicInv, NewQp(qp) PROVE NicInv'
  OBVIOUS
<1>. USE DEF NicInv
<1>1. group' \in Seq(Qps) /\ Len(group') = Len(group) + 1 /\ Len(group) \in Nat
  BY DEF NewQp, TypeOK
<1>2. group'[Len(group) + 1] = qp /\ \A i \in 1 .. Len(group) : group'[i] = group[i]
  BY DEF NewQp, TypeOK
<1>3. Members'
  <2>1. \A i \in 1 .. Len(group) : group'[i] \in joined /\ group'[i] # qp
    BY <1>2 DEF Members, Turns, NewQp
  <2>2. \A i \in Turns' : i \in 1 .. Len(group) \/ i = Len(group) + 1
    BY <1>1 DEF Turns
  <2>3. \A i \in Turns' : group'[i] \in joined'
    BY <1>2, <2>1, <2>2 DEF NewQp
  <2>4. \A i, j \in Turns' : group'[i] = group'[j] => i = j
    BY <1>2, <2>1, <2>2 DEF Members, Turns
  <2>. QED BY <2>3, <2>4 DEF Members
<1>4. wait' \in [Qps -> LineGap - MaxGap .. MaxGap] /\ \A q \in Qps : wait'[q] <= gap'[q]
  BY Constants DEF NewQp, TypeOK
<1>. QED BY <1>1, <1>3, <1>4 DEF TypeOK, NewQp, Waking

(* What ChangeRate does to the times of a queue pair.                      *)
LEMMA RateChanged ==
  ASSUME NEW w \in Int, NEW g \in Gaps, NEW h \in Gaps, LineGap - MaxGap <= w, w <= h
  PROVE  /\ Past(w + g - h) \in LineGap - MaxGap .. MaxGap
         /\ Past(w + g - h) <= g
BY Constants DEF Past

LEMMA MovedForward ==
  ASSUME NEW w \in LineGap - MaxGap .. MaxGap PROVE Future(w) \in None .. MaxGap
BY Constants DEF Future, None

LEMMA ReceiveAckInv ==
  ASSUME NEW qp \in Qps, NEW isNack \in BOOLEAN, NEW g \in Gaps, NEW ack \in una[qp] .. nxt[qp]
  PROVE  NicInv /\ ReceiveAck(qp, ack, isNack, g) => NicInv'
<1>. SUFFICES ASSUME NicInv, ReceiveAck(qp, ack, isNack, g) PROVE NicInv'
  OBVIOUS
<1>. USE DEF NicInv
<1>1. /\ nxt' \in [Qps -> Nat] /\ una' \in [Qps -> Nat]
      /\ \A q \in Qps : una'[q] <= nxt'[q] /\ nxt'[q] <= Size[q]
  <2>1. /\ ack \in Nat /\ ack <= nxt[qp] /\ nxt[qp] \in Nat /\ nxt[qp] <= Size[qp]
        /\ Size[qp] \in Nat
    BY Constants DEF TypeOK
  <2>2. una' = [una EXCEPT ![qp] = ack] /\ nxt' \in {nxt, [nxt EXCEPT ![qp] = ack]}
    BY DEF ReceiveAck, Recovered, TypeOK
  <2>3. /\ una \in [Qps -> Nat] /\ nxt \in [Qps -> Nat]
        /\ \A q \in Qps : una[q] <= nxt[q] /\ nxt[q] <= Size[q]
    BY DEF TypeOK
  <2>4. una' \in [Qps -> Nat] /\ nxt' \in [Qps -> Nat]
    BY <2>1, <2>2, <2>3
  <2>5. ASSUME NEW q \in Qps PROVE una'[q] <= nxt'[q] /\ nxt'[q] <= Size[q]
    <3>1. CASE q = qp
      <4>1. una'[q] = ack /\ nxt'[q] \in {nxt[qp], ack}
        BY <3>1, <2>2, <2>3
      <4>. QED BY <4>1, <3>1, <2>1
    <3>2. CASE q # qp
      <4>1. una'[q] = una[q] /\ nxt'[q] = nxt[q]
        BY <3>2, <2>2, <2>3
      <4>. QED BY <4>1, <2>3
    <3>. QED BY <3>1, <3>2
  <2>. QED BY <2>4, <2>5
<1>2. /\ wait' \in [Qps -> LineGap - MaxGap .. MaxGap] /\ gap' \in [Qps -> Gaps]
      /\ \A q \in Qps : wait'[q] <= gap'[q]
  <2>1. wait[qp] \in Int /\ LineGap - MaxGap <= wait[qp] /\ gap[qp] \in Gaps /\ wait[qp] <= gap[qp]
    BY Constants DEF TypeOK
  <2>2. /\ Past(wait[qp] + g - gap[qp]) \in LineGap - MaxGap .. MaxGap
        /\ Past(wait[qp] + g - gap[qp]) <= g
    BY <2>1, RateChanged
  <2>3. /\ wait' = [wait EXCEPT ![qp] = Past(wait[qp] + g - gap[qp])]
        /\ gap' = [gap EXCEPT ![qp] = g]
    BY DEF ReceiveAck, ChangeRate
  <2>. QED BY <2>2, <2>3 DEF TypeOK
<1>3. sleep' \in None .. MaxGap
  <2>1. wait'[qp] \in LineGap - MaxGap .. MaxGap
    BY <1>2
  <2>2. sleep' \in {sleep, Future(wait'[qp])}
    BY DEF ReceiveAck, ChangeRate
  <2>3. Future(wait'[qp]) \in None .. MaxGap
    BY <2>1, MovedForward
  <2>4. sleep \in None .. MaxGap
    BY DEF TypeOK
  <2>. QED BY <2>2, <2>3, <2>4
<1>4. upsets' \in 0 .. MaxUpsets /\ acks' \in 0 .. MaxUpsets /\ acks' <= upsets'
  BY Constants DEF TypeOK, ReceiveAck
<1>5. TypeOK'
  BY <1>1, <1>2, <1>3, <1>4 DEF TypeOK, ReceiveAck, Waking
<1>6. Members'
  BY DEF Members, Turns, ReceiveAck
<1>. QED BY <1>2, <1>4, <1>5, <1>6

LEMMA TickInv == NicInv /\ Tick => NicInv'
<1>. SUFFICES ASSUME NicInv, Tick PROVE NicInv'
  OBVIOUS
<1>. USE DEF NicInv
<1>1. ASSUME NEW q \in Qps
      PROVE  wait'[q] \in LineGap - MaxGap .. MaxGap /\ wait'[q] <= gap'[q]
  <2>1. wait[q] \in LineGap - MaxGap .. MaxGap /\ wait[q] <= gap[q] /\ gap[q] \in Gaps
    BY DEF TypeOK
  <2>2. wait'[q] \in {wait[q], Past(wait[q] - 1)} /\ gap' = gap
    BY DEF Tick
  <2>. QED BY <2>1, <2>2, Constants DEF Past
<1>2. wait' \in [Qps -> LineGap - MaxGap .. MaxGap]
  BY <1>1 DEF Tick
<1>3. tx' \in None .. LineGap /\ sleep' \in None .. MaxGap
  BY Constants DEF Tick, TypeOK, None
<1>. QED BY <1>1, <1>2, <1>3 DEF TypeOK, Members, Turns, Tick

LEMMA NicNextInv == NicInv /\ [Next]_vars => NicInv'
<1>. SUFFICES ASSUME NicInv, [Next]_vars PROVE NicInv'
  OBVIOUS
<1>. USE Constants DEF NicInv
<1>1. CASE TransmitAck
  BY <1>1, AckInv
<1>2. CASE TransmitSegment
  BY <1>2, SegmentInv
<1>3. CASE TransmitNothing
  BY <1>3, NothingInv
<1>4. ASSUME NEW qp \in Qps, NewQp(qp) PROVE NicInv'
  BY <1>4, NewQpInv
<1>5. ASSUME NEW qp \in Qps, NEW isNack \in BOOLEAN, NEW g \in Gaps,
             NEW ack \in una[qp] .. nxt[qp], ReceiveAck(qp, ack, isNack, g)
      PROVE  NicInv'
  BY <1>5, ReceiveAckInv
<1>6. CASE ReceiveUdp
  <2>1. /\ UNCHANGED <<flows, group, joined, rrlast, held, tx, sleep>>
        /\ acks' = acks + 1 /\ upsets' = upsets + 1 /\ upsets < MaxUpsets
        /\ calling' \in BOOLEAN
    BY <1>6 DEF ReceiveUdp, Waking
  <2>2. acks \in Nat /\ upsets \in Nat /\ acks <= upsets /\ MaxUpsets \in Nat
    BY DEF TypeOK
  <2>3. acks' \in 0 .. MaxUpsets /\ upsets' \in 0 .. MaxUpsets /\ acks' <= upsets'
    BY <2>1, <2>2
  <2>4. TypeOK'
    BY <2>1, <2>3 DEF TypeOK, flows
  <2>5. Members' /\ \A qp \in Qps : wait'[qp] <= gap'[qp]
    BY <2>1 DEF Members, Turns, flows
  <2>. QED BY <2>3, <2>4, <2>5
<1>7. ASSUME NEW pg \in Priorities, ReceivePause(pg) PROVE NicInv'
  BY <1>7 DEF ReceivePause, TypeOK, Members, Turns, flows
<1>8. ASSUME NEW pg \in Priorities, Resume(pg) PROVE NicInv'
  BY <1>8 DEF Resume, Waking, TypeOK, Members, Turns, flows
<1>9. CASE TransmitComplete
  BY <1>9 DEF TransmitComplete, TypeOK, Members, Turns, flows, None
<1>10. CASE NextSend
  BY <1>10 DEF NextSend, Waking, TypeOK, Members, Turns, flows, None
<1>11. CASE Tick
  BY <1>11, TickInv
<1>12. CASE UNCHANGED vars
  BY <1>12 DEF vars, flows, TypeOK, Members, Turns
<1>. QED BY <1>1, <1>2, <1>3, <1>4, <1>5, <1>6, <1>7, <1>8, <1>9, <1>10, <1>11, <1>12 DEF Next

LEMMA NicInvariance == Spec => []NicInv
BY NicInitInv, NicNextInv, PTL DEF Spec

-----------------------------------------------------------------------------
(* A segment is only sent for a queue pair that may send.                  *)
LEMMA StepSends ==
  ASSUME NicInv, [Next]_vars, NEW qp \in Qps, nxt'[qp] > nxt[qp]
  PROVE  MaySend(qp) /\ wait[qp] <= 0
<1>. USE DEF NicInv
<1>1. nxt[qp] \in Nat /\ nxt' # nxt
  BY DEF TypeOK
<1>2. CASE TransmitSegment
  <2>1. PICK q \in Qps : MaySend(q) /\ wait[q] <= 0 /\ nxt' = [nxt EXCEPT ![q] = @ + 1]
    BY <1>2, SegmentSent
  <2>2. q = qp
    BY <1>1, <2>1 DEF TypeOK
  <2>. QED BY <2>1, <2>2
<1>3. ASSUME NEW q \in Qps, NEW isNack \in BOOLEAN, NEW g \in Gaps,
             NEW ack \in una[q] .. nxt[q], ReceiveAck(q, ack, isNack, g)
      PROVE  FALSE
  <2>1. una' = [una EXCEPT ![q] = ack] /\ nxt' \in {nxt, [nxt EXCEPT ![q] = una'[q]]}
    BY <1>3 DEF ReceiveAck, Recovered
  <2>2. nxt' = [nxt EXCEPT ![q] = ack]
    BY <1>1, <2>1 DEF TypeOK
  <2>3. ack <= nxt[q] /\ ack \in Int
    BY DEF TypeOK
  <2>. QED BY <1>1, <2>2, <2>3 DEF TypeOK
<1>4. CASE nxt' = nxt
  BY <1>1, <1>4
<1>. QED
  BY <1>2, <1>3, <1>4 DEF Next, vars, flows, TransmitAck, TransmitNothing, NewQp, ReceiveUdp,
                          ReceivePause, Resume, TransmitComplete, NextSend, Tick

(* However finished queue pairs leave the group while the scan of          *)
(* GetNextQindex has one chosen, and wherever the scan wraps: the segment  *)
(* sent is of a queue pair with bytes left, not paused, within its window  *)
(* and due.                                                                *)
THEOREM NicSendsWhatItMay == Spec => SendsWhatItMay
<1>1. NicInv /\ [Next]_vars =>
        [\A qp \in Qps : nxt'[qp] > nxt[qp] => MaySend(qp) /\ wait[qp] <= 0]_vars
  BY StepSends
<1>. QED BY <1>1, NicInvariance, PTL DEF SendsWhatItMay, Spec

(* What a NIC counts stays within its bounds, whatever the sizes, windows, *)
(* rates and PAUSEs: a queue pair sends no more than it has, the index of  *)
(* the round robin fits the group, pacing no further than the slowest      *)
(* rate.                                                                   *)
THEOREM NicTypeCorrect == Spec => []TypeOK
BY NicInvariance, PTL DEF NicInv

-----------------------------------------------------------------------------
(* Falling asleep: if there is one to wait for, the NIC wakes up when the  *)
(* first of them is due.                                                   *)
LEMMA EarliestExists ==
  ASSUME TypeOK, Wakers # {} PROVE Earliest # {}
<1>. DEFINE b == LineGap - MaxGap
            f == [qp \in Wakers |-> wait[qp] - b]
<1>1. Wakers \subseteq Qps
  BY DEF Wakers, Stays, Turns, TypeOK
<1>2. b \in Int /\ \A qp \in Wakers : wait[qp] \in Int /\ wait[qp] - b \in Nat
  <2>1. \A qp \in Qps : wait[qp] \in b .. MaxGap
    BY DEF TypeOK
  <2>2. b \in Int /\ MaxGap \in Int
    BY Constants
  <2>. HIDE DEF b
  <2>. QED BY <1>1, <2>1, <2>2
<1>. HIDE DEF b
<1>3. f \in [Wakers -> Nat]
  BY <1>2
<1>4. PICK w \in Wakers : \A v \in Wakers : f[w] <= f[v]
  <2>. HIDE DEF f
  <2>. QED BY <1>3, LeastAt
<1>5. \A v \in Wakers : wait[w] <= wait[v]
  BY <1>2, <1>4
<1>6. wait[w] \in Earliest
  BY <1>5 DEF Earliest
<1>. QED BY <1>6

LEMMA NothingWakes == NicInv /\ TransmitNothing => SomethingWillWake'
<1>. SUFFICES ASSUME NicInv, TransmitNothing, sleep' = None,
                     NEW q \in InGroup', MaySend(q)'
              PROVE  \E qp \in InGroup' : (HasBytes(qp) /\ ~MaySend(qp))'
  BY DEF SomethingWillWake
<1>. USE DEF NicInv
<1>1. /\ group' = Cleared /\ Taken = {}
      /\ sleep' \in IF sleep = None /\ \E t \in Earliest : t > 0 THEN Earliest ELSE {sleep}
      /\ UNCHANGED <<nxt, una, gap, held>>
  BY DEF TransmitNothing, flows
<1>2. \A qp : HasBytes(qp)' = HasBytes(qp) /\ MaySend(qp)' = MaySend(qp)
  BY <1>1 DEF HasBytes, MaySend, IsWinBound
<1>3. \A i \in Stays : group[i] \in InGroup' /\ group[i] \in Qps
  <2>1. \A i \in Stays : Place(Stays, i) \in 1 .. Len(Cleared) /\ Cleared[Place(Stays, i)] = group[i]
    BY ClearedGroup
  <2>2. InGroup' = {Cleared[i] : i \in 1 .. Len(Cleared)}
    BY <1>1 DEF InGroup
  <2>3. \A i \in Stays : group[i] \in Qps
    BY DEF Stays, Turns, TypeOK
  <2>. QED BY <2>1, <2>2, <2>3
<1>4. Wakers # {}
  <2>1. PICK i \in Stays : q = group[i]
    <3>1. PICK k \in 1 .. Len(Cleared) : q = Cleared[k]
      BY <1>1 DEF InGroup
    <3>. QED BY <3>1, ClearedGroup
  <2>2. HasBytes(group[i])
    BY <1>2, <2>1 DEF MaySend
  <2>. QED BY <2>2 DEF Wakers
<1>5. PICK t \in Earliest : TRUE
  BY <1>4, EarliestExists
<1>6. t <= 0
  <2>1. PICK qp \in Qps : t = wait[qp]
    BY <1>5, EarliestIsWait
  <2>2. t \in Int
    BY <2>1, Constants DEF TypeOK
  <2>3. ASSUME t > 0 PROVE FALSE
    <3>1. CASE sleep = None
      <4>1. None \in Earliest
        BY <1>1, <1>5, <2>3, <3>1
      <4>2. None = t
        BY <1>5, <4>1, EarliestIsWait
      <4>. QED BY <2>3, <4>2 DEF None
    <3>2. CASE sleep # None
      BY <1>1, <3>2
    <3>. QED BY <3>1, <3>2
  <2>. QED BY <2>2, <2>3
<1>7. PICK i \in Stays : HasBytes(group[i]) /\ t = wait[group[i]]
  BY <1>5, EarliestIsWait
<1>8. ~MaySend(group[i])
  <2>1. i \in Turns
    BY DEF Stays
  <2>. QED BY <1>1, <1>6, <1>7, <2>1, NoneMaySend
<1>. QED BY <1>2, <1>3, <1>7, <1>8

(* A step that leaves the group, the queue pairs and what is held alone,   *)
(* but for a priority that is held now, and does not wake or unsleep.      *)
LEMMA StaysAwake ==
  ASSUME SomethingWillWake, group' = group, nxt' = nxt, una' = una, gap' = gap,
         \A pg : held[pg] => held'[pg], tx' = tx \/ tx' # None, calling' = calling,
         sleep # None => sleep' # None, tx = None \/ tx' # None
  PROVE  SomethingWillWake'
<1>. SUFFICES ASSUME Awake', NEW qp \in InGroup', MaySend(qp)'
              PROVE  \/ sleep' # None
                     \/ \E q \in InGroup' : (HasBytes(q) /\ ~MaySend(q))'
  BY DEF SomethingWillWake
<1>1. InGroup' = InGroup /\ Awake
  BY DEF InGroup, Awake, Idle
<1>2. \A q : HasBytes(q)' = HasBytes(q) /\ (MaySend(q)' => MaySend(q))
  BY DEF HasBytes, MaySend, IsWinBound
<1>. QED BY <1>1, <1>2 DEF SomethingWillWake

LEMMA WakeStep == NicInv /\ SomethingWillWake /\ [Next]_vars => SomethingWillWake'
<1>. SUFFICES ASSUME NicInv, SomethingWillWake, [Next]_vars PROVE SomethingWillWake'
  OBVIOUS
<1>. DEFINE Woken == calling' = TRUE \/ tx' # None
<1>1. CASE Woken
  BY <1>1 DEF SomethingWillWake, Awake, Idle
<1>2. CASE TransmitNothing
  BY <1>2, NothingWakes
<1>3. ASSUME NEW pg \in Priorities, ReceivePause(pg) PROVE SomethingWillWake'
  <2>1. \A p : held[p] => held'[p]
    BY <1>3 DEF ReceivePause, NicInv, TypeOK
  <2>. QED BY <1>3, <2>1, StaysAwake DEF ReceivePause, flows
<1>4. CASE Tick
  <2>1. (sleep # None => sleep' # None) /\ (tx # None => tx' # None) /\ (tx = None => tx' = None)
    BY <1>4, Constants DEF Tick, None, NicInv, TypeOK
  <2>. QED BY <1>4, <2>1, StaysAwake DEF Tick
<1>5. CASE UNCHANGED vars
  BY <1>5, StaysAwake DEF vars, flows
<1>6. CASE TransmitAck \/ TransmitSegment
  <2>1. LineGap # None
    BY Constants DEF None
  <2>. QED BY <1>1, <1>6, <2>1 DEF TransmitAck, TransmitSegment
<1>7. ASSUME NEW qp \in Qps, NewQp(qp) PROVE Woken
  BY <1>7 DEF NewQp, Waking
<1>8. ASSUME NEW qp \in Qps, NEW isNack \in BOOLEAN, NEW g \in Gaps,
             NEW ack \in una[qp] .. nxt[qp], ReceiveAck(qp, ack, isNack, g)
      PROVE  Woken
  BY <1>8 DEF ReceiveAck, Waking
<1>9. ASSUME NEW pg \in Priorities, Resume(pg) PROVE Woken
  BY <1>9 DEF Resume, Waking
<1>10. CASE ReceiveUdp \/ TransmitComplete \/ NextSend
  BY <1>1, <1>10 DEF ReceiveUdp, TransmitComplete, NextSend, Waking
<1>. HIDE DEF Woken
<1>. QED BY <1>1, <1>2, <1>3, <1>4, <1>5, <1>6, <1>7, <1>8, <1>9, <1>10 DEF Next

(* A NIC that stops although it has segments it may send now or later has  *)
(* m_nextSend to wake it, or a queue pair whose ACK or RESUME will:        *)
(* GetNextQindex has looked at every queue pair of the group, those        *)
(* DequeueAndTransmit does not wait for have nothing to send or may not,   *)
(* and whatever makes one eligible again calls DequeueAndTransmit.         *)
THEOREM NicIsWoken == Spec => []SomethingWillWake
<1>1. Init => SomethingWillWake
  BY DEF Init, SomethingWillWake, InGroup
<1>. QED BY <1>1, WakeStep, NicInvariance, PTL DEF Spec
=============================================================================
