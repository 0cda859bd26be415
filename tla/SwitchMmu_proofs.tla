-------------------------- MODULE SwitchMmu_proofs --------------------------
(***************************************************************************)
(* The accounting invariants of SwitchMmu for every switch, packet mix and *)
(* configuration its assumptions allow.                                    *)
(***************************************************************************)
EXTENDS SwitchMmu, Arithmetic_proofs

(* The counters as naturals, without the width TypeOK gives them.          *)
Counters ==
  /\ shared_used_bytes \in Nat
  /\ hdrm_bytes \in [Ports \X Queues -> Nat]
  /\ ingress_bytes \in [Ports \X Queues -> Nat]
  /\ egress_bytes \in [Ports \X Queues -> Nat]
  /\ paused \in [Ports \X Queues -> BOOLEAN]
  /\ resident \in [Pkts -> Charges \cup {Absent}]

(* The inductive invariant: IngressExact bounds the counters below Word,   *)
(* so that none of the wrapping operations wraps; SharedExact makes the    *)
(* credits of the pool land above zero; PausedHasPacket needs both.        *)
IInv ==
  /\ Counters
  /\ IngressExact
  /\ EgressExact
  /\ SharedExact
  /\ PoolNotOverdrawn
  /\ HeadroomRespected
  /\ HeadroomOnlyWhenPaused
  /\ PausedHasPacket

-----------------------------------------------------------------------------
(* What the pool has left is a natural number less than Word.              *)
LEMMA PoolFits == SharedPool \in Nat /\ SharedPool < Word /\ Word \in Nat
<1>1. TotalHdrm \in Nat
  BY SwitchAssumption, SumIsNat DEF TotalHdrm
<1>2. TotalRsrv \in Nat
  <2>1. [port \in Ports |-> Reserve] \in [Ports -> Nat]
    BY SwitchAssumption
  <2> QED BY <2>1, SwitchAssumption, SumIsNat DEF TotalRsrv
<1> QED
  BY <1>1, <1>2, SwitchAssumption, LoadAssumption DEF SharedPool

(* Dividing by a positive number does not increase a natural number.       *)
LEMMA QuotientBound ==
  ASSUME NEW n \in Nat, NEW d \in Nat \ {0}
  PROVE  n \div d \in Nat /\ n \div d <= n
OBVIOUS

LEMMA PktsFinite == IsFiniteSet(Pkts)
BY LoadAssumption

(* The laws of sums used below, for sums over the packets.                 *)
LEMMA PktSumChange ==
  ASSUME NEW f \in [Pkts -> Nat], NEW g \in [Pkts -> Nat], NEW k \in Pkts,
         \A e \in Pkts \ {k} : g[e] = f[e]
  PROVE  /\ SumOf(g) = SumOf(f) - f[k] + g[k]
         /\ SumOf(f) \in Nat /\ SumOf(g) \in Nat
         /\ f[k] <= SumOf(f)
BY PktsFinite, SumChange, SumIsNat, SumAtLeast

(* A buffered packet's charge has a positive size; Absent is no charge.     *)
LEMMA ChargeFacts ==
  /\ \A charge \in Charges : /\ charge # Absent
                             /\ charge.size \in PacketSizes
                             /\ charge.size \in Nat \ {0}
                             /\ charge.in \in Ports
                             /\ charge.out \in Ports
                             /\ charge.q \in Queues
  /\ \A r \in Charges \cup {Absent} : r # Absent => r \in Charges
<1>1. Absent.size = 0
  BY DEF Absent
<1>2. \A charge \in Charges : /\ charge.size \in PacketSizes
                             /\ charge.in \in Ports
                             /\ charge.out \in Ports
                             /\ charge.q \in Queues
  BY DEF Charges
<1>3. \A charge \in Charges : charge.size \in Nat \ {0}
  BY <1>2, LoadAssumption
<1> QED
  BY <1>1, <1>2, <1>3

(* The loads are functions into the naturals.                              *)
LEMMA LoadTypes ==
  ASSUME resident \in [Pkts -> Charges \cup {Absent}], NEW port, NEW q
  PROVE  /\ LoadFrom(port, q) \in [Pkts -> Nat]
         /\ LoadFor(port, q) \in [Pkts -> Nat]
         /\ SumOf(LoadFrom(port, q)) \in Nat
         /\ SumOf(LoadFor(port, q)) \in Nat
<1>1. /\ LoadFrom(port, q) \in [Pkts -> Nat]
      /\ LoadFor(port, q) \in [Pkts -> Nat]
  BY ChargeFacts DEF LoadFrom, LoadFor
<1> QED
  BY <1>1, SumIsNat, LoadAssumption

(* No load reaches Word, whichever packets are buffered, not even after    *)
(* one more packet.                                                        *)
LEMMA LoadFits ==
  ASSUME resident \in [Pkts -> Charges \cup {Absent}], NEW port, NEW q
  PROVE  /\ SumOf(LoadFrom(port, q)) < Word
         /\ SumOf(LoadFor(port, q)) < Word
<1>1. CASE PacketSizes = {}
  <2>1. \A k \in Pkts : resident[k] = Absent
    BY <1>1, ChargeFacts
  <2>2. SumOf(LoadFrom(port, q)) = 0 /\ SumOf(LoadFor(port, q)) = 0
    <3>1. \A k \in Pkts : LoadFrom(port, q)[k] = 0 /\ LoadFor(port, q)[k] = 0
      BY <2>1 DEF LoadFrom, LoadFor
    <3> QED BY <3>1, LoadTypes, SumZero
  <2> QED BY <2>2, LoadAssumption, SwitchAssumption
<1>2. ASSUME NEW psize \in PacketSizes
      PROVE  /\ SumOf(LoadFrom(port, q)) < Word
             /\ SumOf(LoadFor(port, q)) < Word
  <2> DEFINE full == [k \in Pkts |-> IF resident[k] # Absent THEN resident[k].size ELSE psize]
  <2>1. full \in [Pkts -> PacketSizes] /\ full \in [Pkts -> Nat]
    BY ChargeFacts, LoadAssumption
  <2>2. /\ \A k \in Pkts : LoadFrom(port, q)[k] <= full[k]
        /\ \A k \in Pkts : LoadFor(port, q)[k] <= full[k]
    BY ChargeFacts, LoadAssumption DEF LoadFrom, LoadFor
  <2>3. SumOf(full) < Word /\ SumOf(full) \in Nat
    BY <2>1, LoadAssumption, SumIsNat
  <2> HIDE DEF full
  <2>4. SumOf(LoadFrom(port, q)) <= SumOf(full)
    BY <2>1, <2>2, LoadTypes, PktsFinite, SumMonotone
  <2>5. SumOf(LoadFor(port, q)) <= SumOf(full)
    BY <2>1, <2>2, LoadTypes, PktsFinite, SumMonotone
  <2> QED
    BY <2>3, <2>4, <2>5, LoadTypes, LoadAssumption
<1> QED
  BY <1>1, <1>2

LEMMA OneMoreFits ==
  ASSUME resident \in [Pkts -> Charges \cup {Absent}], NEW port, NEW q,
         NEW k \in Pkts, resident[k] = Absent, NEW psize \in PacketSizes
  PROVE  /\ SumOf(LoadFrom(port, q)) + psize < Word
         /\ SumOf(LoadFor(port, q)) + psize < Word
<1> DEFINE full == [j \in Pkts |-> IF resident[j] # Absent THEN resident[j].size ELSE psize]
<1>1. full \in [Pkts -> PacketSizes] /\ full \in [Pkts -> Nat]
  BY ChargeFacts, LoadAssumption
<1>2. SumOf(full) < Word /\ SumOf(full) \in Nat /\ Word \in Nat /\ psize \in Nat
  BY <1>1, LoadAssumption, SumIsNat
<1>3. ASSUME NEW f \in [Pkts -> Nat], f[k] = 0,
             \A j \in Pkts \ {k} : f[j] <= full[j]
      PROVE  SumOf(f) + psize < Word
  <2> DEFINE more == [f EXCEPT ![k] = psize]
  <2>1. /\ more \in [Pkts -> Nat] /\ more[k] = psize
        /\ \A j \in Pkts \ {k} : more[j] = f[j]
        /\ \A j \in Pkts : more[j] <= full[j]
    BY <1>2, <1>3
  <2> HIDE DEF more, full
  <2>2. SumOf(more) = SumOf(f) - f[k] + more[k]
    BY <1>3, <2>1, PktsFinite, SumChange
  <2>3. SumOf(more) <= SumOf(full)
    BY <1>1, <2>1, PktsFinite, SumMonotone
  <2>4. SumOf(f) \in Nat /\ SumOf(more) \in Nat
    BY <1>3, <2>1, PktsFinite, SumIsNat
  <2> QED BY <1>2, <1>3, <2>1, <2>2, <2>3, <2>4
<1>4. /\ LoadFrom(port, q)[k] = 0 /\ \A j \in Pkts \ {k} : LoadFrom(port, q)[j] <= full[j]
      /\ LoadFor(port, q)[k] = 0 /\ \A j \in Pkts \ {k} : LoadFor(port, q)[j] <= full[j]
  BY ChargeFacts, LoadAssumption DEF LoadFrom, LoadFor
<1> HIDE DEF full
<1> QED
  BY <1>3, <1>4, LoadTypes

(* The load of a charge's ingress and egress queue changes by the given    *)
(* amount and no other load changes.                                       *)
LoadsChange(charge, amount, port, q) ==
  /\ charge.in = port /\ charge.q = q =>
       SumOf(LoadFrom(port, q)') = SumOf(LoadFrom(port, q)) + amount
  /\ ~(charge.in = port /\ charge.q = q) =>
       SumOf(LoadFrom(port, q)') = SumOf(LoadFrom(port, q))
  /\ charge.out = port /\ charge.q = q =>
       SumOf(LoadFor(port, q)') = SumOf(LoadFor(port, q)) + amount
  /\ ~(charge.out = port /\ charge.q = q) =>
       SumOf(LoadFor(port, q)') = SumOf(LoadFor(port, q))

(* Buffering or releasing one packet changes the loads by its size.        *)
LEMMA LoadGrows ==
  ASSUME resident \in [Pkts -> Charges \cup {Absent}], NEW k \in Pkts, NEW charge \in Charges,
         resident[k] = Absent,
         resident' = [resident EXCEPT ![k] = charge],
         NEW port, NEW q
  PROVE  LoadsChange(charge, charge.size, port, q)
<1>1. charge # Absent /\ charge.size \in Nat
  BY ChargeFacts
<1>2. resident' \in [Pkts -> Charges \cup {Absent}]
  OBVIOUS
<1>3. /\ LoadFrom(port, q)' \in [Pkts -> Nat]
      /\ LoadFor(port, q)' \in [Pkts -> Nat]
  BY <1>2, ChargeFacts DEF LoadFrom, LoadFor
<1>4. /\ \A e \in Pkts \ {k} : LoadFrom(port, q)'[e] = LoadFrom(port, q)[e]
      /\ \A e \in Pkts \ {k} : LoadFor(port, q)'[e] = LoadFor(port, q)[e]
  BY DEF LoadFrom, LoadFor
<1>5. /\ LoadFrom(port, q)[k] = 0
      /\ LoadFor(port, q)[k] = 0
  BY DEF LoadFrom, LoadFor
<1>6. /\ LoadFrom(port, q)'[k] = IF charge.in = port /\ charge.q = q THEN charge.size ELSE 0
      /\ LoadFor(port, q)'[k] = IF charge.out = port /\ charge.q = q THEN charge.size ELSE 0
  BY <1>1 DEF LoadFrom, LoadFor
<1>7. /\ SumOf(LoadFrom(port, q)') =
             SumOf(LoadFrom(port, q)) - LoadFrom(port, q)[k] + LoadFrom(port, q)'[k]
      /\ LoadFrom(port, q)[k] <= SumOf(LoadFrom(port, q))
  BY <1>3, <1>4, LoadTypes, PktSumChange
<1>8. /\ SumOf(LoadFor(port, q)') =
             SumOf(LoadFor(port, q)) - LoadFor(port, q)[k] + LoadFor(port, q)'[k]
      /\ LoadFor(port, q)[k] <= SumOf(LoadFor(port, q))
  BY <1>3, <1>4, LoadTypes, PktSumChange
<1> QED
  BY <1>1, <1>5, <1>6, <1>7, <1>8, LoadTypes DEF LoadsChange

LEMMA LoadShrinks ==
  ASSUME resident \in [Pkts -> Charges \cup {Absent}], NEW k \in Pkts, NEW charge \in Charges,
         resident[k] = charge,
         resident' = [resident EXCEPT ![k] = Absent],
         NEW port, NEW q
  PROVE  /\ LoadsChange(charge, 0 - charge.size, port, q)
         /\ charge.in = port /\ charge.q = q => charge.size <= SumOf(LoadFrom(port, q))
         /\ charge.out = port /\ charge.q = q => charge.size <= SumOf(LoadFor(port, q))
<1>1. charge # Absent /\ charge.size \in Nat
  BY ChargeFacts
<1>2. resident' \in [Pkts -> Charges \cup {Absent}]
  OBVIOUS
<1>3. /\ LoadFrom(port, q)' \in [Pkts -> Nat]
      /\ LoadFor(port, q)' \in [Pkts -> Nat]
  BY <1>2, ChargeFacts DEF LoadFrom, LoadFor
<1>4. /\ \A e \in Pkts \ {k} : LoadFrom(port, q)'[e] = LoadFrom(port, q)[e]
      /\ \A e \in Pkts \ {k} : LoadFor(port, q)'[e] = LoadFor(port, q)[e]
  BY DEF LoadFrom, LoadFor
<1>5. /\ LoadFrom(port, q)'[k] = 0
      /\ LoadFor(port, q)'[k] = 0
  BY DEF LoadFrom, LoadFor
<1>6. /\ LoadFrom(port, q)[k] = IF charge.in = port /\ charge.q = q THEN charge.size ELSE 0
      /\ LoadFor(port, q)[k] = IF charge.out = port /\ charge.q = q THEN charge.size ELSE 0
  BY <1>1 DEF LoadFrom, LoadFor
<1>7. /\ SumOf(LoadFrom(port, q)') =
             SumOf(LoadFrom(port, q)) - LoadFrom(port, q)[k] + LoadFrom(port, q)'[k]
      /\ LoadFrom(port, q)[k] <= SumOf(LoadFrom(port, q))
  BY <1>3, <1>4, LoadTypes, PktSumChange
<1>8. /\ SumOf(LoadFor(port, q)') =
             SumOf(LoadFor(port, q)) - LoadFor(port, q)[k] + LoadFor(port, q)'[k]
      /\ LoadFor(port, q)[k] <= SumOf(LoadFor(port, q))
  BY <1>3, <1>4, LoadTypes, PktSumChange
<1> QED
  BY <1>1, <1>5, <1>6, <1>7, <1>8, LoadTypes DEF LoadsChange

(* The arithmetic of an admission at the ingress queue it is charged to.   *)
LEMMA AdmitEffect ==
  ASSUME IInv, NEW inDev \in Ports, NEW q \in Queues, NEW psize \in PacketSizes,
         ingress_bytes[<<inDev, q>>] + hdrm_bytes[<<inDev, q>>] + psize < Word,
         CheckIngressAdmission(inDev, q, psize),
         UpdateIngressAdmission(inDev, q, psize)
  PROVE  /\ shared_used_bytes' \in Nat
         /\ hdrm_bytes' \in [Ports \X Queues -> Nat]
         /\ ingress_bytes' \in [Ports \X Queues -> Nat]
         /\ \A pq \in (Ports \X Queues) \ {<<inDev, q>>} :
              hdrm_bytes'[pq] = hdrm_bytes[pq] /\ ingress_bytes'[pq] = ingress_bytes[pq]
         /\ ingress_bytes'[<<inDev, q>>] + hdrm_bytes'[<<inDev, q>>] =
              ingress_bytes[<<inDev, q>>] + hdrm_bytes[<<inDev, q>>] + psize
         /\ shared_used_bytes' =
              shared_used_bytes - GetSharedUsed(inDev, q) + GetSharedUsed(inDev, q)'
         /\ shared_used_bytes' <= SharedPool
         /\ hdrm_bytes'[<<inDev, q>>] <= Headroom[inDev]
<1> DEFINE ing == ingress_bytes[<<inDev, q>>]
           hdrm == hdrm_bytes[<<inDev, q>>]
           new == ing + psize
<1>1. /\ ing \in Nat /\ hdrm \in Nat /\ shared_used_bytes \in Nat
      /\ psize \in Nat \ {0} /\ <<inDev, q>> \in Ports \X Queues
      /\ hdrm <= Headroom[inDev] /\ Headroom[inDev] \in Nat
      /\ Reserve \in Nat /\ Word \in Nat
      /\ hdrm_bytes \in [Ports \X Queues -> Nat]
      /\ ingress_bytes \in [Ports \X Queues -> Nat]
  BY SwitchAssumption, LoadAssumption DEF IInv, Counters, HeadroomRespected
<1>2. /\ GetPfcThreshold(inDev) \in Nat
      /\ shared_used_bytes + GetPfcThreshold(inDev) <= SharedPool
  <2>1. /\ Minus(SharedPool, shared_used_bytes) = SharedPool - shared_used_bytes
        /\ SharedPool - shared_used_bytes \in Nat
    BY <1>1, PoolFits DEF IInv, PoolNotOverdrawn, Minus
  <2>2. PfcShare[inDev] \in Nat \ {0}
    BY SwitchAssumption
  <2>3. /\ (SharedPool - shared_used_bytes) \div PfcShare[inDev] \in Nat
        /\ (SharedPool - shared_used_bytes) \div PfcShare[inDev] <= SharedPool - shared_used_bytes
    BY <2>1, <2>2, QuotientBound
  <2> QED
    BY <1>1, <2>1, <2>3, PoolFits DEF GetPfcThreshold
<1>3. /\ GetSharedUsed(inDev, q) = IF ing > Reserve THEN ing - Reserve ELSE 0
      /\ Plus(ing, psize) = new
      /\ Plus(hdrm, psize) = hdrm + psize /\ Plus(psize, hdrm) = psize + hdrm
      /\ Plus(psize, GetSharedUsed(inDev, q)) = psize + GetSharedUsed(inDev, q)
  BY <1>1 DEF GetSharedUsed, Plus
<1>4. CASE new <= Reserve
  <2>1. ChargeReserve(inDev, q, psize)
    BY <1>3, <1>4 DEF UpdateIngressAdmission
  <2>2. /\ ingress_bytes' = [ingress_bytes EXCEPT ![<<inDev, q>>] = new]
        /\ shared_used_bytes' = shared_used_bytes /\ hdrm_bytes' = hdrm_bytes
    BY <1>1, <1>3, <2>1 DEF ChargeReserve
  <2> QED
    BY <1>1, <1>2, <1>3, <1>4, <2>2, PoolFits DEF GetSharedUsed
<1>5. CASE new > Reserve /\ new - Reserve > GetPfcThreshold(inDev)
  <2>1. ChargeHeadroom(inDev, q, psize)
    BY <1>1, <1>3, <1>5 DEF UpdateIngressAdmission
  <2>2. /\ hdrm_bytes' = [hdrm_bytes EXCEPT ![<<inDev, q>>] = hdrm + psize]
        /\ shared_used_bytes' = shared_used_bytes /\ ingress_bytes' = ingress_bytes
    BY <1>1, <1>3, <2>1 DEF ChargeHeadroom
  <2>3. psize + GetSharedUsed(inDev, q) > GetPfcThreshold(inDev)
    BY <1>1, <1>2, <1>3, <1>5
  <2>4. psize + hdrm <= Headroom[inDev]
    BY <1>1, <1>3, <2>3 DEF CheckIngressAdmission
  <2> QED
    BY <1>1, <1>2, <1>3, <2>2, <2>4, PoolFits DEF GetSharedUsed
<1>6. CASE new > Reserve /\ ~(new - Reserve > GetPfcThreshold(inDev))
  <2>1. ChargeShared(inDev, q, psize, new - Reserve)
    BY <1>1, <1>3, <1>6 DEF UpdateIngressAdmission
  <2>2. Smaller(psize, new - Reserve) = new - Reserve - GetSharedUsed(inDev, q)
    BY <1>1, <1>3, <1>6 DEF Smaller
  <2>3. /\ Smaller(psize, new - Reserve) \in Nat
        /\ shared_used_bytes + Smaller(psize, new - Reserve) <= SharedPool
    BY <1>1, <1>2, <1>6, PoolFits DEF Smaller
  <2>4. /\ ingress_bytes' = [ingress_bytes EXCEPT ![<<inDev, q>>] = new]
        /\ shared_used_bytes' = shared_used_bytes + Smaller(psize, new - Reserve)
        /\ hdrm_bytes' = hdrm_bytes
    <3>1. Plus(shared_used_bytes, Smaller(psize, new - Reserve)) =
            shared_used_bytes + Smaller(psize, new - Reserve)
      BY <1>1, <2>3, PoolFits DEF Plus
    <3> QED BY <1>1, <1>3, <2>1, <3>1 DEF ChargeShared
  <2>5. GetSharedUsed(inDev, q)' = new - Reserve
    BY <1>1, <1>6, <2>4 DEF GetSharedUsed
  <2> QED
    BY <1>1, <1>3, <2>2, <2>3, <2>4, <2>5
<1> QED
  BY <1>1, <1>2, <1>4, <1>5, <1>6

(* The arithmetic of a departure at the ingress queue it is credited to.   *)
LEMMA ReleaseEffect ==
  ASSUME IInv, NEW inDev \in Ports, NEW q \in Queues, NEW psize \in PacketSizes,
         psize <= ingress_bytes[<<inDev, q>>] + hdrm_bytes[<<inDev, q>>],
         GetSharedUsed(inDev, q) <= shared_used_bytes,
         RemoveFromIngressAdmission(inDev, q, psize)
  PROVE  /\ shared_used_bytes' \in Nat
         /\ hdrm_bytes' \in [Ports \X Queues -> Nat]
         /\ ingress_bytes' \in [Ports \X Queues -> Nat]
         /\ \A pq \in (Ports \X Queues) \ {<<inDev, q>>} :
              hdrm_bytes'[pq] = hdrm_bytes[pq] /\ ingress_bytes'[pq] = ingress_bytes[pq]
         /\ ingress_bytes'[<<inDev, q>>] + hdrm_bytes'[<<inDev, q>>] =
              ingress_bytes[<<inDev, q>>] + hdrm_bytes[<<inDev, q>>] - psize
         /\ shared_used_bytes' =
              shared_used_bytes - GetSharedUsed(inDev, q) + GetSharedUsed(inDev, q)'
         /\ shared_used_bytes' <= shared_used_bytes
         /\ hdrm_bytes'[<<inDev, q>>] <= hdrm_bytes[<<inDev, q>>]
<1> DEFINE ing == ingress_bytes[<<inDev, q>>]
           hdrm == hdrm_bytes[<<inDev, q>>]
           used == GetSharedUsed(inDev, q)
           from_hdrm == Smaller(hdrm, psize)
           from_shared == Smaller(psize - from_hdrm, used)
<1>1. /\ ing \in Nat /\ hdrm \in Nat /\ shared_used_bytes \in Nat
      /\ psize \in Nat \ {0} /\ <<inDev, q>> \in Ports \X Queues
      /\ Reserve \in Nat
      /\ hdrm_bytes \in [Ports \X Queues -> Nat]
      /\ ingress_bytes \in [Ports \X Queues -> Nat]
  BY SwitchAssumption, LoadAssumption DEF IInv, Counters
<1>2. /\ used = IF ing > Reserve THEN ing - Reserve ELSE 0
      /\ used \in Nat
  BY <1>1 DEF GetSharedUsed
<1>3. /\ from_hdrm \in Nat /\ from_hdrm <= hdrm /\ from_hdrm <= psize
      /\ psize - from_hdrm \in Nat /\ psize - from_hdrm <= ing
      /\ from_shared \in Nat /\ from_shared <= used
      /\ from_shared = IF psize - from_hdrm <= used THEN psize - from_hdrm ELSE used
  BY <1>1, <1>2 DEF Smaller
<1>4. /\ hdrm_bytes' = [hdrm_bytes EXCEPT ![<<inDev, q>>] = hdrm - from_hdrm]
      /\ ingress_bytes' = [ingress_bytes EXCEPT ![<<inDev, q>>] = ing - (psize - from_hdrm)]
      /\ shared_used_bytes' = shared_used_bytes - from_shared
  <2>1. /\ Minus(hdrm, from_hdrm) = hdrm - from_hdrm
        /\ Minus(ing, psize - from_hdrm) = ing - (psize - from_hdrm)
        /\ Minus(shared_used_bytes, from_shared) = shared_used_bytes - from_shared
    BY <1>1, <1>2, <1>3 DEF Minus
  <2> QED
    BY <1>1, <2>1 DEF RemoveFromIngressAdmission
<1>5. GetSharedUsed(inDev, q)' =
        IF ing - (psize - from_hdrm) > Reserve THEN ing - (psize - from_hdrm) - Reserve ELSE 0
  BY <1>1, <1>4 DEF GetSharedUsed
<1> HIDE DEF from_hdrm, from_shared, used
<1>6. GetSharedUsed(inDev, q)' = used - from_shared
  BY <1>1, <1>2, <1>3, <1>5
<1> QED
  BY <1>1, <1>2, <1>3, <1>4, <1>6 DEF used

-----------------------------------------------------------------------------
(* What a change of one ingress queue's counters does to the sum of the    *)
(* shared use of all of them.                                              *)
LEMMA SharedUseChange ==
  ASSUME Counters, NEW inDev \in Ports, NEW q \in Queues,
         ingress_bytes' \in [Ports \X Queues -> Nat],
         \A pq \in (Ports \X Queues) \ {<<inDev, q>>} : ingress_bytes'[pq] = ingress_bytes[pq]
  PROVE  /\ SumOf(SharedUse') =
              SumOf(SharedUse) - GetSharedUsed(inDev, q) + GetSharedUsed(inDev, q)'
         /\ GetSharedUsed(inDev, q) <= SumOf(SharedUse)
         /\ SumOf(SharedUse) \in Nat
<1> DEFINE f == SharedUse
           g == SharedUse'
           d == <<inDev, q>>
<1>1. Reserve \in Nat /\ ingress_bytes \in [Ports \X Queues -> Nat]
  BY SwitchAssumption DEF Counters
<1>2. /\ f \in [Ports \X Queues -> Nat]
      /\ g \in [Ports \X Queues -> Nat]
      /\ \A e \in (Ports \X Queues) \ {d} : g[e] = f[e]
  <2>1. \A e \in Ports \X Queues : e = <<e[1], e[2]>>
    OBVIOUS
  <2>2. \A e \in Ports \X Queues :
          /\ GetSharedUsed(e[1], e[2]) = IF ingress_bytes[e] > Reserve THEN ingress_bytes[e] - Reserve ELSE 0
          /\ GetSharedUsed(e[1], e[2])' = IF ingress_bytes'[e] > Reserve THEN ingress_bytes'[e] - Reserve ELSE 0
    BY <2>1 DEF GetSharedUsed
  <2>3. /\ f = [e \in Ports \X Queues |-> IF ingress_bytes[e] > Reserve THEN ingress_bytes[e] - Reserve ELSE 0]
        /\ g = [e \in Ports \X Queues |-> IF ingress_bytes'[e] > Reserve THEN ingress_bytes'[e] - Reserve ELSE 0]
    BY <2>2 DEF SharedUse
  <2> QED BY <1>1, <2>3
<1>3. d \in Ports \X Queues /\ f[d] = GetSharedUsed(inDev, q) /\ g[d] = GetSharedUsed(inDev, q)'
  BY DEF SharedUse, GetSharedUsed
<1>4. IsFiniteSet(Ports \X Queues)
  BY SwitchAssumption, FS_Product
<1> HIDE DEF f, g, d
<1>5. SumOf(g) = SumOf(f) - f[d] + g[d]
  BY <1>2, <1>3, <1>4, SumChange
<1>6. f[d] <= SumOf(f) /\ SumOf(f) \in Nat
  BY <1>2, <1>3, <1>4, SumAtLeast, SumIsNat
<1> QED
  BY <1>3, <1>5, <1>6 DEF f, g

(* An admission preserves the invariant.                                   *)
LEMMA AdmitPreserves ==
  ASSUME IInv, NEW k \in Pkts, NEW inDev \in Ports, NEW outDev \in Ports,
         NEW q \in Queues, NEW psize \in PacketSizes,
         Admit(k, inDev, outDev, q, psize)
  PROVE  IInv'
<1> DEFINE charge == [in |-> inDev, out |-> outDev, q |-> q, size |-> psize]
<1>1. /\ Counters /\ charge \in Charges /\ resident[k] = Absent /\ psize \in Nat \ {0}
      /\ resident \in [Pkts -> Charges \cup {Absent}]
      /\ resident' = [resident EXCEPT ![k] = charge]
      /\ <<inDev, q>> \in Ports \X Queues /\ <<outDev, q>> \in Ports \X Queues
  BY LoadAssumption DEF IInv, Counters, Admit, Buffered, Charges
<1>2. /\ SumOf(LoadFrom(inDev, q)) + psize < Word
      /\ SumOf(LoadFor(outDev, q)) + psize < Word
  BY <1>1, OneMoreFits
<1>3. \A port, b :
        /\ inDev = port /\ q = b => SumOf(LoadFrom(port, b)') = SumOf(LoadFrom(port, b)) + psize
        /\ ~(inDev = port /\ q = b) => SumOf(LoadFrom(port, b)') = SumOf(LoadFrom(port, b))
        /\ outDev = port /\ q = b => SumOf(LoadFor(port, b)') = SumOf(LoadFor(port, b)) + psize
        /\ ~(outDev = port /\ q = b) => SumOf(LoadFor(port, b)') = SumOf(LoadFor(port, b))
  <2> TAKE port, b
  <2>1. charge.in = inDev /\ charge.out = outDev /\ charge.q = q /\ charge.size = psize
    OBVIOUS
  <2> HIDE DEF charge
  <2>2. /\ resident \in [Pkts -> Charges \cup {Absent}]
        /\ charge \in Charges /\ resident[k] = Absent
        /\ resident' = [resident EXCEPT ![k] = charge]
    BY <1>1
  <2>3. LoadsChange(charge, charge.size, port, b)
    BY <2>2, LoadGrows
  <2> QED BY <2>1, <2>3 DEF LoadsChange
<1>4. ingress_bytes[<<inDev, q>>] + hdrm_bytes[<<inDev, q>>] = SumOf(LoadFrom(inDev, q))
  BY DEF IInv, IngressExact
<1>5. /\ shared_used_bytes' \in Nat
      /\ hdrm_bytes' \in [Ports \X Queues -> Nat]
      /\ ingress_bytes' \in [Ports \X Queues -> Nat]
      /\ \A pq \in (Ports \X Queues) \ {<<inDev, q>>} :
           hdrm_bytes'[pq] = hdrm_bytes[pq] /\ ingress_bytes'[pq] = ingress_bytes[pq]
      /\ ingress_bytes'[<<inDev, q>>] + hdrm_bytes'[<<inDev, q>>] =
           ingress_bytes[<<inDev, q>>] + hdrm_bytes[<<inDev, q>>] + psize
      /\ shared_used_bytes' =
           shared_used_bytes - GetSharedUsed(inDev, q) + GetSharedUsed(inDev, q)'
      /\ shared_used_bytes' <= SharedPool
      /\ hdrm_bytes'[<<inDev, q>>] <= Headroom[inDev]
  BY <1>2, <1>4, AdmitEffect DEF Admit
<1>6. egress_bytes' = [egress_bytes EXCEPT ![<<outDev, q>>] = egress_bytes[<<outDev, q>>] + psize]
  <2>1. egress_bytes[<<outDev, q>>] + psize < Word
    BY <1>2 DEF IInv, EgressExact
  <2> QED BY <1>1, <2>1 DEF Admit, UpdateEgressAdmission, Plus, Counters
<1>7. paused' = [paused EXCEPT ![<<inDev, q>>] = paused[<<inDev, q>>] \/ Congested(inDev, q)']
  BY DEF Admit, CheckAndSendPfc
<1>8. Counters'
  <2>1. egress_bytes' \in [Ports \X Queues -> Nat]
    BY <1>1, <1>6 DEF Counters
  <2>2. paused' \in [Ports \X Queues -> BOOLEAN]
    <3>1. (paused[<<inDev, q>>] \/ Congested(inDev, q)') \in BOOLEAN
      OBVIOUS
    <3> QED BY <1>1, <1>7, <3>1 DEF Counters
  <2> QED BY <1>1, <1>5, <2>1, <2>2 DEF Counters
<1>9. IngressExact'
  <2> SUFFICES ASSUME NEW port \in Ports, NEW b \in Queues
               PROVE  ingress_bytes'[<<port, b>>] + hdrm_bytes'[<<port, b>>] = SumOf(LoadFrom(port, b)')
    BY DEF IngressExact
  <2>1. CASE port = inDev /\ b = q
    BY <1>3, <1>4, <1>5, <2>1
  <2>2. CASE ~(port = inDev /\ b = q)
    <3>1. <<port, b>> \in (Ports \X Queues) \ {<<inDev, q>>}
      BY <2>2
    <3>2. SumOf(LoadFrom(port, b)') = SumOf(LoadFrom(port, b))
      BY <1>1, <1>3, <2>2, LoadTypes
    <3> QED BY <1>5, <3>1, <3>2 DEF IInv, IngressExact
  <2> QED BY <2>1, <2>2
<1>10. EgressExact'
  <2> SUFFICES ASSUME NEW port \in Ports, NEW b \in Queues
               PROVE  egress_bytes'[<<port, b>>] = SumOf(LoadFor(port, b)')
    BY DEF EgressExact
  <2>1. egress_bytes[<<port, b>>] = SumOf(LoadFor(port, b)) /\ <<port, b>> \in Ports \X Queues
    BY DEF IInv, EgressExact
  <2>2. egress_bytes \in [Ports \X Queues -> Nat]
    BY <1>1 DEF Counters
  <2> QED BY <1>1, <1>3, <1>6, <2>1, <2>2
<1>11. SharedExact'
  BY <1>1, <1>5, SharedUseChange DEF IInv, SharedExact
<1>12. PoolNotOverdrawn'
  BY <1>5, PoolFits DEF PoolNotOverdrawn
<1>13. HeadroomRespected'
  BY <1>5 DEF IInv, HeadroomRespected
<1>14. HeadroomOnlyWhenPaused'
  <2> SUFFICES ASSUME NEW port \in Ports, NEW b \in Queues, hdrm_bytes'[<<port, b>>] > 0
               PROVE  paused'[<<port, b>>]
    BY DEF HeadroomOnlyWhenPaused
  <2>1. CASE port = inDev /\ b = q
    <3>1. Congested(inDev, q)'
      BY <2>1 DEF Congested
    <3> QED BY <1>1, <1>7, <2>1, <3>1 DEF Counters
  <2>2. CASE ~(port = inDev /\ b = q)
    <3>1. <<port, b>> \in (Ports \X Queues) \ {<<inDev, q>>}
      BY <2>2
    <3> QED BY <1>1, <1>5, <1>7, <3>1 DEF IInv, Counters, HeadroomOnlyWhenPaused
  <2> QED BY <2>1, <2>2
<1>15. PausedHasPacket'
  <2> SUFFICES ASSUME NEW port \in Ports, NEW b \in Queues, paused'[<<port, b>>]
               PROVE  SumOf(LoadFrom(port, b)') > 0
    BY DEF PausedHasPacket
  <2>1. CASE port = inDev /\ b = q
    BY <1>1, <1>3, <2>1, LoadTypes
  <2>2. CASE ~(port = inDev /\ b = q)
    <3>1. paused[<<port, b>>]
      BY <1>1, <1>7, <2>2 DEF Counters
    <3> QED BY <1>1, <1>3, <2>2, <3>1, LoadTypes DEF IInv, PausedHasPacket
  <2> QED BY <2>1, <2>2
<1> QED
  BY <1>8, <1>9, <1>10, <1>11, <1>12, <1>13, <1>14, <1>15 DEF IInv

(* A departure preserves the invariant.                                    *)
LEMMA ReleasePreserves ==
  ASSUME IInv, NEW k \in Pkts, NEW charge \in Charges, Release(k, charge)
  PROVE  IInv'
<1> DEFINE inDev == charge.in
           outDev == charge.out
           q == charge.q
           psize == charge.size
<1>1. /\ Counters /\ resident[k] = charge /\ psize \in PacketSizes /\ psize \in Nat \ {0}
      /\ resident \in [Pkts -> Charges \cup {Absent}]
      /\ resident' = [resident EXCEPT ![k] = Absent]
      /\ inDev \in Ports /\ outDev \in Ports /\ q \in Queues
      /\ <<inDev, q>> \in Ports \X Queues /\ <<outDev, q>> \in Ports \X Queues
  BY ChargeFacts DEF IInv, Counters, Release
<1>2. /\ RemoveFromIngressAdmission(inDev, q, psize)
      /\ RemoveFromEgressAdmission(outDev, q, psize)
      /\ CheckAndSendResume(inDev, q)
  BY DEF Release
<1>3. \A port, b :
        /\ inDev = port /\ q = b => SumOf(LoadFrom(port, b)') = SumOf(LoadFrom(port, b)) - psize
        /\ ~(inDev = port /\ q = b) => SumOf(LoadFrom(port, b)') = SumOf(LoadFrom(port, b))
        /\ outDev = port /\ q = b => SumOf(LoadFor(port, b)') = SumOf(LoadFor(port, b)) - psize
        /\ ~(outDev = port /\ q = b) => SumOf(LoadFor(port, b)') = SumOf(LoadFor(port, b))
        /\ inDev = port /\ q = b => psize <= SumOf(LoadFrom(port, b))
        /\ outDev = port /\ q = b => psize <= SumOf(LoadFor(port, b))
  <2> TAKE port, b
  <2>1. /\ LoadsChange(charge, 0 - charge.size, port, b)
        /\ charge.in = port /\ charge.q = b => charge.size <= SumOf(LoadFrom(port, b))
        /\ charge.out = port /\ charge.q = b => charge.size <= SumOf(LoadFor(port, b))
    BY <1>1, LoadShrinks
  <2>2. SumOf(LoadFrom(port, b)) \in Nat /\ SumOf(LoadFor(port, b)) \in Nat
    BY <1>1, LoadTypes
  <2> QED BY <1>1, <2>1, <2>2 DEF LoadsChange
<1> HIDE DEF inDev, outDev, q, psize
<1>4. /\ ingress_bytes[<<inDev, q>>] + hdrm_bytes[<<inDev, q>>] = SumOf(LoadFrom(inDev, q))
      /\ egress_bytes[<<outDev, q>>] = SumOf(LoadFor(outDev, q))
      /\ psize <= SumOf(LoadFrom(inDev, q)) /\ psize <= SumOf(LoadFor(outDev, q))
  BY <1>1, <1>3 DEF IInv, IngressExact, EgressExact
<1>5. GetSharedUsed(inDev, q) <= shared_used_bytes
  <2>1. ASSUME NEW f \in [Ports \X Queues -> Nat], NEW d \in Ports \X Queues
        PROVE  f[d] <= SumOf(f)
    <3>1. IsFiniteSet(Ports \X Queues)
      BY SwitchAssumption, FS_Product
    <3> QED BY <3>1, SumAtLeast
  <2>2. SharedUse \in [Ports \X Queues -> Nat]
    BY <1>1, SwitchAssumption DEF SharedUse, GetSharedUsed, Counters
  <2>3. SharedUse[<<inDev, q>>] = GetSharedUsed(inDev, q)
    BY <1>1 DEF SharedUse
  <2> QED BY <1>1, <2>1, <2>2, <2>3 DEF IInv, SharedExact
<1>6. /\ shared_used_bytes' \in Nat
      /\ hdrm_bytes' \in [Ports \X Queues -> Nat]
      /\ ingress_bytes' \in [Ports \X Queues -> Nat]
      /\ \A pq \in (Ports \X Queues) \ {<<inDev, q>>} :
           hdrm_bytes'[pq] = hdrm_bytes[pq] /\ ingress_bytes'[pq] = ingress_bytes[pq]
      /\ ingress_bytes'[<<inDev, q>>] + hdrm_bytes'[<<inDev, q>>] =
           ingress_bytes[<<inDev, q>>] + hdrm_bytes[<<inDev, q>>] - psize
      /\ shared_used_bytes' =
           shared_used_bytes - GetSharedUsed(inDev, q) + GetSharedUsed(inDev, q)'
      /\ shared_used_bytes' <= shared_used_bytes
      /\ hdrm_bytes'[<<inDev, q>>] <= hdrm_bytes[<<inDev, q>>]
  BY <1>1, <1>2, <1>4, <1>5, ReleaseEffect
<1>7. egress_bytes' = [egress_bytes EXCEPT ![<<outDev, q>>] = egress_bytes[<<outDev, q>>] - psize]
  BY <1>1, <1>2, <1>4 DEF RemoveFromEgressAdmission, Minus, Counters
<1>8. paused' = [paused EXCEPT ![<<inDev, q>>] = paused[<<inDev, q>>] /\ ~Relieved(inDev, q)']
  BY <1>2 DEF CheckAndSendResume
<1>9. Counters'
  <2>1. egress_bytes' \in [Ports \X Queues -> Nat]
    BY <1>1, <1>4, <1>7 DEF Counters
  <2>2. paused' \in [Ports \X Queues -> BOOLEAN]
    <3>1. (paused[<<inDev, q>>] /\ ~Relieved(inDev, q)') \in BOOLEAN
      OBVIOUS
    <3> QED BY <1>1, <1>8, <3>1 DEF Counters
  <2>3. resident' \in [Pkts -> Charges \cup {Absent}]
    BY <1>1
  <2> QED BY <1>6, <2>1, <2>2, <2>3 DEF Counters
<1>10. IngressExact'
  <2> SUFFICES ASSUME NEW port \in Ports, NEW b \in Queues
               PROVE  ingress_bytes'[<<port, b>>] + hdrm_bytes'[<<port, b>>] = SumOf(LoadFrom(port, b)')
    BY DEF IngressExact
  <2>1. CASE port = inDev /\ b = q
    <3>1. SumOf(LoadFrom(inDev, q)') = SumOf(LoadFrom(inDev, q)) - psize
      BY <1>3
    <3>2. ingress_bytes'[<<inDev, q>>] + hdrm_bytes'[<<inDev, q>>] =
            ingress_bytes[<<inDev, q>>] + hdrm_bytes[<<inDev, q>>] - psize
      BY <1>6
    <3>3. ingress_bytes[<<inDev, q>>] + hdrm_bytes[<<inDev, q>>] = SumOf(LoadFrom(inDev, q))
      BY <1>4
    <3>4. ingress_bytes'[<<inDev, q>>] + hdrm_bytes'[<<inDev, q>>] = SumOf(LoadFrom(inDev, q)')
      <4>1. /\ ingress_bytes[<<inDev, q>>] \in Nat /\ hdrm_bytes[<<inDev, q>>] \in Nat /\ psize \in Nat
            /\ ingress_bytes'[<<inDev, q>>] \in Nat /\ hdrm_bytes'[<<inDev, q>>] \in Nat
        BY <1>1, <1>6 DEF Counters
      <4> QED BY ONLY <3>1, <3>2, <3>3, <4>1
    <3> QED BY ONLY <2>1, <3>4
  <2>2. CASE ~(port = inDev /\ b = q)
    <3>1. <<port, b>> \in (Ports \X Queues) \ {<<inDev, q>>}
      BY <2>2
    <3>2. SumOf(LoadFrom(port, b)') = SumOf(LoadFrom(port, b))
      BY <1>3, <2>2
    <3> QED BY <1>6, <3>1, <3>2 DEF IInv, IngressExact
  <2> QED BY <2>1, <2>2
<1>11. EgressExact'
  <2> SUFFICES ASSUME NEW port \in Ports, NEW b \in Queues
               PROVE  egress_bytes'[<<port, b>>] = SumOf(LoadFor(port, b)')
    BY DEF EgressExact
  <2>1. egress_bytes[<<port, b>>] = SumOf(LoadFor(port, b)) /\ <<port, b>> \in Ports \X Queues
    BY DEF IInv, EgressExact
  <2>2. egress_bytes \in [Ports \X Queues -> Nat]
    BY <1>1 DEF Counters
  <2> QED BY <1>1, <1>3, <1>7, <2>1, <2>2
<1>12. SharedExact'
  BY <1>1, <1>6, SharedUseChange DEF IInv, SharedExact
<1>13. PoolNotOverdrawn'
  BY <1>1, <1>6, PoolFits DEF IInv, Counters, PoolNotOverdrawn
<1>14. HeadroomRespected'
  <2> SUFFICES ASSUME NEW port \in Ports, NEW b \in Queues
               PROVE  hdrm_bytes'[<<port, b>>] <= Headroom[port]
    BY DEF HeadroomRespected
  <2>1. /\ hdrm_bytes'[<<port, b>>] <= hdrm_bytes[<<port, b>>]
        /\ hdrm_bytes'[<<port, b>>] \in Nat /\ hdrm_bytes[<<port, b>>] \in Nat
    <3>1. hdrm_bytes \in [Ports \X Queues -> Nat] /\ <<port, b>> \in Ports \X Queues
      BY <1>1 DEF Counters
    <3>2. hdrm_bytes'[<<port, b>>] <= hdrm_bytes[<<port, b>>]
      BY <1>6, <3>1
    <3> QED BY <1>6, <3>1, <3>2
  <2>2. hdrm_bytes[<<port, b>>] <= Headroom[port] /\ Headroom[port] \in Nat
    BY SwitchAssumption DEF IInv, HeadroomRespected
  <2> QED BY <2>1, <2>2
<1>15. HeadroomOnlyWhenPaused'
  <2> SUFFICES ASSUME NEW port \in Ports, NEW b \in Queues, hdrm_bytes'[<<port, b>>] > 0
               PROVE  paused'[<<port, b>>]
    BY DEF HeadroomOnlyWhenPaused
  <2>1. <<port, b>> \in Ports \X Queues /\ hdrm_bytes[<<port, b>>] > 0
    BY <1>1, <1>6 DEF Counters
  <2>2. paused[<<port, b>>]
    BY <2>1 DEF IInv, HeadroomOnlyWhenPaused
  <2>3. CASE port = inDev /\ b = q
    <3>1. ~Relieved(inDev, q)'
      BY <2>3 DEF Relieved
    <3> QED BY <1>1, <1>8, <2>2, <2>3, <3>1 DEF Counters
  <2>4. CASE ~(port = inDev /\ b = q)
    BY <1>1, <1>8, <2>1, <2>2, <2>4 DEF Counters
  <2> QED BY <2>3, <2>4
<1>16. PausedHasPacket'
  <2> SUFFICES ASSUME NEW port \in Ports, NEW b \in Queues, paused'[<<port, b>>]
               PROVE  SumOf(LoadFrom(port, b)') > 0
    BY DEF PausedHasPacket
  <2>1. CASE port = inDev /\ b = q
    <3>1. ~Relieved(inDev, q)'
      BY <1>1, <1>8, <2>1 DEF Counters
    <3>2. /\ hdrm_bytes'[<<inDev, q>>] \in Nat /\ ingress_bytes'[<<inDev, q>>] \in Nat
          /\ Reserve \in Nat
      BY <1>1, <1>6, SwitchAssumption
    <3>3. hdrm_bytes'[<<inDev, q>>] > 0 \/ ingress_bytes'[<<inDev, q>>] > 0
      BY <3>1, <3>2 DEF Relieved, GetSharedUsed
    <3>4. ingress_bytes'[<<inDev, q>>] + hdrm_bytes'[<<inDev, q>>] = SumOf(LoadFrom(inDev, q)')
      BY <1>1, <1>10 DEF IngressExact
    <3> QED BY <2>1, <3>2, <3>3, <3>4
  <2>2. CASE ~(port = inDev /\ b = q)
    <3>1. paused[<<port, b>>]
      BY <1>1, <1>8, <2>2 DEF Counters
    <3> QED BY <1>3, <2>2, <3>1 DEF IInv, PausedHasPacket
  <2> QED BY <2>1, <2>2
<1> QED
  BY <1>9, <1>10, <1>11, <1>12, <1>13, <1>14, <1>15, <1>16 DEF IInv

-----------------------------------------------------------------------------
(* An empty switch satisfies the invariant.                                *)
LEMMA InitEstablishes ==
  ASSUME Init
  PROVE  IInv
<1>1. Counters
  BY DEF Init, Counters
<1>2. \A port, q : SumOf(LoadFrom(port, q)) = 0 /\ SumOf(LoadFor(port, q)) = 0
  <2> TAKE port, q
  <2>1. \A k \in Pkts : LoadFrom(port, q)[k] = 0 /\ LoadFor(port, q)[k] = 0
    BY DEF Init, LoadFrom, LoadFor
  <2> QED BY <1>1, <2>1, LoadTypes, SumZero DEF Counters
<1>3. IngressExact
  BY <1>2 DEF Init, IngressExact
<1>4. EgressExact
  BY <1>2 DEF Init, EgressExact
<1>5. SharedExact
  <2>1. SharedUse \in [Ports \X Queues -> Nat] /\ \A pq \in Ports \X Queues : SharedUse[pq] = 0
    BY SwitchAssumption DEF Init, SharedUse, GetSharedUsed
  <2> QED BY <2>1, SumZero DEF Init, SharedExact
<1>6. PoolNotOverdrawn
  BY PoolFits DEF Init, PoolNotOverdrawn
<1>7. HeadroomRespected
  BY SwitchAssumption DEF Init, HeadroomRespected
<1>8. HeadroomOnlyWhenPaused /\ PausedHasPacket
  BY DEF Init, HeadroomOnlyWhenPaused, PausedHasPacket
<1> QED
  BY <1>1, <1>3, <1>4, <1>5, <1>6, <1>7, <1>8 DEF IInv

(* Every step, stuttering included, preserves the invariant.               *)
LEMMA StepPreserves ==
  ASSUME IInv, [Next]_vars
  PROVE  IInv'
<1>1. ASSUME NEW k \in Pkts, NEW inDev \in Ports, NEW outDev \in Ports,
             NEW q \in Queues, NEW psize \in PacketSizes,
             Admit(k, inDev, outDev, q, psize)
      PROVE  IInv'
  BY <1>1, AdmitPreserves
<1>2. ASSUME NEW k \in Pkts, Depart(k)
      PROVE  IInv'
  <2>1. PICK charge \in {resident[k]} \ {Absent} : Release(k, charge)
    BY <1>2 DEF Depart
  <2>2. charge \in Charges
    BY ChargeFacts DEF IInv, Counters
  <2> QED BY <2>1, <2>2, ReleasePreserves
<1>3. CASE UNCHANGED vars
  BY <1>3 DEF vars, IInv, Counters, IngressExact, EgressExact, SharedExact, SharedUse,
     PoolNotOverdrawn, HeadroomRespected, HeadroomOnlyWhenPaused, PausedHasPacket,
     LoadFrom, LoadFor, GetSharedUsed
<1>4. ASSUME NEW k \in Pkts, NEW inDev \in Ports, NEW outDev \in Ports,
             NEW q \in Queues, NEW psize \in PacketSizes,
             Drop(k, inDev, outDev, q, psize)
      PROVE  IInv'
  BY <1>3, <1>4 DEF Drop
<1> QED
  BY <1>1, <1>2, <1>3, <1>4 DEF Next, Arrive

-----------------------------------------------------------------------------
(* The invariant holds in every reachable state of SwitchMmu.              *)
THEOREM Invariance == Spec => []IInv
<1>1. Init => IInv
  BY InitEstablishes
<1>2. IInv /\ [Next]_vars => IInv'
  BY StepPreserves
<1> QED
  BY <1>1, <1>2, PTL DEF Spec

(* Every counter stays a uint32_t that never wrapped.                      *)
THEOREM TypeCorrect == Spec => []TypeOK
<1>1. IInv => TypeOK
  <2> SUFFICES ASSUME IInv PROVE TypeOK
    OBVIOUS
  <2>1. Counters /\ Word \in Nat
    BY LoadAssumption DEF IInv
  <2>2. shared_used_bytes \in 0 .. Word - 1
    BY <2>1, PoolFits DEF IInv, PoolNotOverdrawn, Counters
  <2>3. ASSUME NEW port \in Ports, NEW q \in Queues
        PROVE  /\ hdrm_bytes[<<port, q>>] \in 0 .. Word - 1
               /\ ingress_bytes[<<port, q>>] \in 0 .. Word - 1
               /\ egress_bytes[<<port, q>>] \in 0 .. Word - 1
    <3>1. SumOf(LoadFrom(port, q)) < Word /\ SumOf(LoadFor(port, q)) < Word
      BY <2>1, LoadFits DEF Counters
    <3>2. /\ hdrm_bytes[<<port, q>>] \in Nat /\ ingress_bytes[<<port, q>>] \in Nat
          /\ egress_bytes[<<port, q>>] \in Nat
      BY <2>1 DEF Counters
    <3> QED BY <2>1, <3>1, <3>2 DEF IInv, IngressExact, EgressExact
  <2>4. \A pq \in Ports \X Queues :
          /\ hdrm_bytes[pq] \in 0 .. Word - 1
          /\ ingress_bytes[pq] \in 0 .. Word - 1
          /\ egress_bytes[pq] \in 0 .. Word - 1
    BY <2>3
  <2> QED BY <2>1, <2>2, <2>4 DEF TypeOK, Counters
<1> QED
  BY <1>1, Invariance, PTL

(* The counters agree with what is buffered, and the shared pool's counter *)
(* with the ingress queues' share of it.                                   *)
THEOREM AccountingExact == Spec => [](IngressExact /\ EgressExact /\ SharedExact)
<1>1. IInv => IngressExact /\ EgressExact /\ SharedExact
  BY DEF IInv
<1> QED
  BY <1>1, Invariance, PTL

(* The unsigned subtraction in GetPfcThreshold never wraps.                *)
THEOREM PoolSafe == Spec => []PoolNotOverdrawn
<1>1. IInv => PoolNotOverdrawn
  BY DEF IInv
<1> QED
  BY <1>1, Invariance, PTL

(* What each port is given is given to one queue of it, if it has one.     *)
LEMMA PerPort ==
  ASSUME \A p, q \in Queues : p = q, NEW share \in [Ports -> Nat]
  PROVE  SumOf([pq \in Ports \X Queues |-> share[pq[1]]]) <= SumOf(share)
<1>. DEFINE pairs == Ports \X Queues
            each == [pq \in pairs |-> share[pq[1]]]
            port == [pq \in pairs |-> pq[1]]
<1>1. each \in [pairs -> Nat] /\ port \in [pairs -> Ports]
  OBVIOUS
<1>2. SumOf(share) \in Nat
  BY SwitchAssumption, SumIsNat
<1>3. CASE Queues = {}
  <2>1. SumOf(each) = 0
    BY <1>1, <1>3, SumZero
  <2>. QED BY <1>2, <2>1
<1>4. CASE Queues # {}
  <2>1. \A c, d \in pairs : port[c] = port[d] => c = d
    OBVIOUS
  <2>2. \A d \in pairs : share[port[d]] = each[d]
    OBVIOUS
  <2>3. \A e \in Ports : \E d \in pairs : port[d] = e /\ each[d] = share[e]
    <3>. SUFFICES ASSUME NEW e \in Ports PROVE \E d \in pairs : port[d] = e /\ each[d] = share[e]
      OBVIOUS
    <3>1. PICK q \in Queues : TRUE
      BY <1>4
    <3>. WITNESS <<e, q>> \in pairs
    <3>. QED OBVIOUS
  <2>. HIDE DEF pairs, each, port
  <2>4. /\ \A c, d \in pairs : each[c] > 0 /\ each[d] > 0 /\ port[c] = port[d] => c = d
        /\ \A d \in pairs : each[d] > 0 => share[port[d]] = each[d]
        /\ \A e \in Ports : share[e] > 0 => \E d \in pairs : port[d] = e /\ each[d] = share[e]
    BY <2>1, <2>2, <2>3
  <2>5. IsFiniteSet(Ports)
    BY SwitchAssumption
  <2>6. SumOf(each) = SumOf(share)
    BY ONLY <1>1, <2>4, <2>5, share \in [Ports -> Nat], SumRenamed
  <2>. QED BY <1>2, <2>6 DEF each, pairs
<1>. QED BY <1>3, <1>4

(* With at most one lossless queue per port, whatever thresholds and       *)
(* headroom the ports have, the switch holds no more than its buffer: the  *)
(* bytes above the reserves are those of the pool, and no port's headroom  *)
(* is exceeded.                                                            *)
THEOREM FitsBuffer ==
  ASSUME \A p, q \in Queues : p = q PROVE Spec => []WithinBuffer
<1>1. IInv => WithinBuffer
  <2>. SUFFICES ASSUME IInv PROVE WithinBuffer
    OBVIOUS
  <2>. DEFINE reserves == [pq \in Ports \X Queues |-> Reserve]
              headrooms == [pq \in Ports \X Queues |-> Headroom[pq[1]]]
              reserve == [port \in Ports |-> Reserve]
  <2>1. IsFiniteSet(Ports \X Queues)
    BY SwitchAssumption, FS_Product
  <2>2. /\ ingress_bytes \in [Ports \X Queues -> Nat] /\ hdrm_bytes \in [Ports \X Queues -> Nat]
        /\ SharedUse \in [Ports \X Queues -> Nat]
    BY SwitchAssumption DEF IInv, Counters, SharedUse, GetSharedUsed
  <2>3. reserves \in [Ports \X Queues -> Nat] /\ headrooms \in [Ports \X Queues -> Nat]
        /\ reserve \in [Ports -> Nat]
    BY SwitchAssumption
  <2>4. SumOf(reserves) <= TotalRsrv
    <3>1. reserves = [pq \in Ports \X Queues |-> reserve[pq[1]]]
      OBVIOUS
    <3>. HIDE DEF reserves, reserve
    <3>2. SumOf(reserves) <= SumOf(reserve)
      BY <2>3, <3>1, PerPort
    <3>. QED BY <3>2 DEF reserve, TotalRsrv
  <2>5. SumOf(headrooms) <= TotalHdrm
    BY SwitchAssumption, PerPort DEF TotalHdrm
  <2>6. \A pq \in Ports \X Queues : ingress_bytes[pq] <= SharedUse[pq] + reserves[pq]
    BY <2>2, SwitchAssumption DEF SharedUse, GetSharedUsed
  <2>7. \A pq \in Ports \X Queues : hdrm_bytes[pq] <= headrooms[pq]
    BY DEF IInv, HeadroomRespected
  <2>. HIDE DEF reserves, headrooms, reserve
  <2>8. SumOf(ingress_bytes) <= SumOf(SharedUse) + SumOf(reserves)
    BY <2>1, <2>2, <2>3, <2>6, SumOfTwo
  <2>9. SumOf(hdrm_bytes) <= SumOf(headrooms)
    BY <2>1, <2>2, <2>3, <2>7, SumMonotone
  <2>10. SumOf(SharedUse) <= SharedPool
    BY DEF IInv, SharedExact, PoolNotOverdrawn
  <2>11. /\ SumOf(ingress_bytes) \in Nat /\ SumOf(hdrm_bytes) \in Nat /\ SumOf(SharedUse) \in Nat
         /\ SumOf(reserves) \in Nat /\ SumOf(headrooms) \in Nat
    BY <2>1, <2>2, <2>3, SumIsNat
  <2>12. TotalRsrv \in Nat /\ TotalHdrm \in Nat
    BY <2>3, SwitchAssumption, SumIsNat DEF TotalRsrv, TotalHdrm, reserve
  <2>. QED BY <2>4, <2>5, <2>8, <2>9, <2>10, <2>11, <2>12, SwitchAssumption DEF WithinBuffer, SharedPool
<1>. QED BY <1>1, Invariance, PTL

(* Headroom is respected, and used only after a PAUSE.                     *)
THEOREM HeadroomSafe == Spec => [](HeadroomRespected /\ HeadroomOnlyWhenPaused)
<1>1. IInv => HeadroomRespected /\ HeadroomOnlyWhenPaused
  BY DEF IInv
<1> QED
  BY <1>1, Invariance, PTL

(* A paused ingress queue has a packet left whose departure can resume it. *)
THEOREM NoStuckPause == Spec => []PausedHasPacket
<1>1. IInv => PausedHasPacket
  BY DEF IInv
<1> QED
  BY <1>1, Invariance, PTL

(* A packet the headroom could hold is refused only after a PAUSE.         *)
THEOREM NoDropBeforePause == Spec => []DropOnlyWhenPaused
<1>1. IInv => DropOnlyWhenPaused
  <2> SUFFICES ASSUME IInv, NEW port \in Ports, NEW q \in Queues, NEW psize \in PacketSizes,
                      psize <= Headroom[port], ~CheckIngressAdmission(port, q, psize)
               PROVE  paused[<<port, q>>]
    BY DEF DropOnlyWhenPaused
  <2>1. /\ hdrm_bytes[<<port, q>>] \in Nat /\ psize \in Nat
        /\ Word \in Nat /\ Headroom[port] \in Nat
    BY LoadAssumption, SwitchAssumption DEF IInv, Counters
  <2>2. Plus(psize, hdrm_bytes[<<port, q>>]) > Headroom[port]
    BY DEF CheckIngressAdmission
  <2>3. hdrm_bytes[<<port, q>>] > 0
    BY <2>1, <2>2 DEF Plus
  <2> QED BY <2>3 DEF IInv, HeadroomOnlyWhenPaused
<1> QED
  BY <1>1, Invariance, PTL
=============================================================================
