------------------------------ MODULE SwitchMmu ------------------------------
(***************************************************************************)
(* Buffer accounting of a shared-memory switch: class SwitchMmu, driven as *)
(* SwitchNode drives it.  Every ingress (port, queue) owns a private       *)
(* reserve, competes for a pool all of them share up to a threshold that   *)
(* shrinks as the pool fills, and falls back on its headroom, meant for    *)
(* the bytes in flight after a PFC PAUSE was sent upstream.                *)
(*                                                                         *)
(* The counters are uint32_t in the code: Plus and Minus wrap modulo Word. *)
(* Which packets are buffered, and under which counters they were charged, *)
(* is remembered in `resident`; in the switch that is the content of the   *)
(* egress queues (module SwitchNode models their order).                   *)
(***************************************************************************)
EXTENDS Integers, FiniteSets, ByteSums

CONSTANTS
  Ports,         \* the switch's ports
  Queues,        \* its lossless priority queues; queue 0 bypasses the MMU
  Pkts,          \* identities of packets, as many as are buffered at once
  PacketSizes,   \* the sizes packets come in
  BufferSize,    \* buffer_size
  Reserve,       \* reserve
  ResumeOffset,  \* resume_offset
  Headroom,      \* headroom[port]
  PfcShare,      \* 2 ^ pfc_a_shift[port]
  Word           \* 2 ^ 32, the modulus of uint32_t

VARIABLES
  shared_used_bytes,  \* bytes taken from the shared pool
  hdrm_bytes,         \* hdrm_bytes[<<port, queue>>]: bytes charged to headroom
  ingress_bytes,      \* ingress_bytes[<<port, queue>>]: reserve and shared bytes
  egress_bytes,       \* egress_bytes[<<port, queue>>]: bytes waiting to leave
  paused,             \* paused[<<port, queue>>]: a PAUSE was sent upstream
  resident            \* the buffered packets and where they are charged

vars == <<shared_used_bytes, hdrm_bytes, ingress_bytes, egress_bytes, paused, resident>>

-----------------------------------------------------------------------------
(* ConfigNPort: what the pool leaves aside, per port.                      *)
TotalHdrm == SumOf(Headroom)
TotalRsrv == SumOf([port \in Ports |-> Reserve])

(* Faulty variant: the reserves are not set aside.                         *)
SharedPool_WithReserve == BufferSize - TotalHdrm

SharedPool == BufferSize - TotalHdrm - TotalRsrv

ASSUME SwitchAssumption ==
  /\ IsFiniteSet(Ports)
  /\ IsFiniteSet(Queues)
  /\ Reserve \in Nat
  /\ ResumeOffset \in Nat
  /\ Headroom \in [Ports -> Nat]
  /\ PfcShare \in [Ports -> Nat \ {0}]
  /\ BufferSize \in Nat
  /\ SharedPool \in Nat

(* The packets the switch holds at once are less than 2^32 bytes (it holds *)
(* tens of megabytes).                                                     *)
ASSUME LoadAssumption ==
  /\ IsFiniteSet(Pkts)
  /\ PacketSizes \subseteq Nat \ {0}
  /\ Word \in Nat
  /\ BufferSize < Word
  /\ \A load \in [Pkts -> PacketSizes] : SumOf(load) < Word

-----------------------------------------------------------------------------
Plus(a, b) == IF a + b < Word THEN a + b ELSE a + b - Word
Minus(a, b) == IF b <= a THEN a - b ELSE Word + a - b
Smaller(a, b) == IF a <= b THEN a ELSE b

GetSharedUsed(port, q) ==
  IF ingress_bytes[<<port, q>>] > Reserve THEN ingress_bytes[<<port, q>>] - Reserve ELSE 0

(* Faulty variant: a threshold that does not shrink as the pool fills.     *)
GetPfcThreshold_Static(port) == SharedPool \div PfcShare[port]

GetPfcThreshold(port) == Minus(SharedPool, shared_used_bytes) \div PfcShare[port]

(* Faulty variant: the headroom test leaves the packet out.                *)
CheckIngressAdmission_PacketLeftOut(port, q, psize) ==
  ~ /\ hdrm_bytes[<<port, q>>] > Headroom[port]
    /\ Plus(psize, GetSharedUsed(port, q)) > GetPfcThreshold(port)

CheckIngressAdmission(port, q, psize) ==
  ~ /\ Plus(psize, hdrm_bytes[<<port, q>>]) > Headroom[port]
    /\ Plus(psize, GetSharedUsed(port, q)) > GetPfcThreshold(port)

CheckEgressAdmission(port, q, psize) == TRUE

ChargeReserve(port, q, psize) ==
  /\ ingress_bytes' = [ingress_bytes EXCEPT ![<<port, q>>] = Plus(@, psize)]
  /\ UNCHANGED <<shared_used_bytes, hdrm_bytes>>

ChargeHeadroom(port, q, psize) ==
  /\ hdrm_bytes' = [hdrm_bytes EXCEPT ![<<port, q>>] = Plus(@, psize)]
  /\ UNCHANGED <<shared_used_bytes, ingress_bytes>>

ChargeShared(port, q, psize, excess) ==
  /\ ingress_bytes' = [ingress_bytes EXCEPT ![<<port, q>>] = Plus(@, psize)]
  /\ shared_used_bytes' = Plus(shared_used_bytes, Smaller(psize, excess))
  /\ UNCHANGED hdrm_bytes

UpdateIngressAdmission(port, q, psize) ==
  LET new_bytes == Plus(ingress_bytes[<<port, q>>], psize)
  IN  IF new_bytes <= Reserve THEN ChargeReserve(port, q, psize)
      ELSE IF new_bytes - Reserve > GetPfcThreshold(port)
           THEN ChargeHeadroom(port, q, psize)
           ELSE ChargeShared(port, q, psize, new_bytes - Reserve)

UpdateEgressAdmission(port, q, psize) ==
  egress_bytes' = [egress_bytes EXCEPT ![<<port, q>>] = Plus(@, psize)]

(* Faulty variants: the credit to headroom is not taken off the credit to  *)
(* the ingress counter; signed counters and no minimum.                    *)
RemoveFromIngressAdmission_CreditsTwice(port, q, psize) ==
  LET from_hdrm == Smaller(hdrm_bytes[<<port, q>>], psize)
      from_shared == Smaller(psize - from_hdrm, GetSharedUsed(port, q))
  IN  /\ hdrm_bytes' = [hdrm_bytes EXCEPT ![<<port, q>>] = Minus(@, from_hdrm)]
      /\ ingress_bytes' = [ingress_bytes EXCEPT ![<<port, q>>] = Minus(@, psize)]
      /\ shared_used_bytes' = Minus(shared_used_bytes, from_shared)

RemoveFromIngressAdmission_Signed(port, q, psize) ==
  /\ hdrm_bytes' = [hdrm_bytes EXCEPT ![<<port, q>>] = @ - psize]
  /\ UNCHANGED <<ingress_bytes, shared_used_bytes>>

RemoveFromIngressAdmission(port, q, psize) ==
  LET from_hdrm == Smaller(hdrm_bytes[<<port, q>>], psize)
      from_shared == Smaller(psize - from_hdrm, GetSharedUsed(port, q))
  IN  /\ hdrm_bytes' = [hdrm_bytes EXCEPT ![<<port, q>>] = Minus(@, from_hdrm)]
      /\ ingress_bytes' = [ingress_bytes EXCEPT ![<<port, q>>] = Minus(@, psize - from_hdrm)]
      /\ shared_used_bytes' = Minus(shared_used_bytes, from_shared)

RemoveFromEgressAdmission(port, q, psize) ==
  egress_bytes' = [egress_bytes EXCEPT ![<<port, q>>] = Minus(@, psize)]

(* Faulty variants: bytes in headroom do not count as congestion; RESUME   *)
(* only by the threshold.                                                  *)
Congested_PoolOnly(port, q) == GetSharedUsed(port, q) >= GetPfcThreshold(port)

Relieved_ThresholdOnly(port, q) ==
  /\ hdrm_bytes[<<port, q>>] = 0
  /\ Plus(GetSharedUsed(port, q), ResumeOffset) <= GetPfcThreshold(port)

(* The conditions of CheckShouldPause and CheckShouldResume on the         *)
(* counters; the callers conjoin the test of paused.                       *)
Congested(port, q) ==
  hdrm_bytes[<<port, q>>] > 0 \/ GetSharedUsed(port, q) >= GetPfcThreshold(port)

Relieved(port, q) ==
  /\ hdrm_bytes[<<port, q>>] = 0
  /\ \/ GetSharedUsed(port, q) = 0
     \/ Plus(GetSharedUsed(port, q), ResumeOffset) <= GetPfcThreshold(port)

CheckShouldPause(port, q) == ~paused[<<port, q>>] /\ Congested(port, q)
CheckShouldResume(port, q) == paused[<<port, q>>] /\ Relieved(port, q)

(* CheckAndSendPfc and CheckAndSendResume, which run on the counters the   *)
(* same handler has just updated.                                          *)
CheckAndSendPfc(port, q) ==
  paused' = [paused EXCEPT ![<<port, q>>] = @ \/ Congested(port, q)']

CheckAndSendResume(port, q) ==
  paused' = [paused EXCEPT ![<<port, q>>] = @ /\ ~Relieved(port, q)']

-----------------------------------------------------------------------------
Absent == [in |-> 0, out |-> 0, q |-> 0, size |-> 0]
Charges == [in : Ports, out : Ports, q : Queues, size : PacketSizes]
Buffered == {k \in Pkts : resident[k] # Absent}

Init ==
  /\ shared_used_bytes = 0
  /\ hdrm_bytes = [pq \in Ports \X Queues |-> 0]
  /\ ingress_bytes = [pq \in Ports \X Queues |-> 0]
  /\ egress_bytes = [pq \in Ports \X Queues |-> 0]
  /\ paused = [pq \in Ports \X Queues |-> FALSE]
  /\ resident = [k \in Pkts |-> Absent]

(* SendToDev of a packet of psize bytes that came in by inDev and leaves   *)
(* by outDev, admitted.                                                    *)
Admit(k, inDev, outDev, q, psize) ==
  /\ k \notin Buffered
  /\ CheckIngressAdmission(inDev, q, psize)
  /\ CheckEgressAdmission(outDev, q, psize)
  /\ UpdateIngressAdmission(inDev, q, psize)
  /\ UpdateEgressAdmission(outDev, q, psize)
  /\ CheckAndSendPfc(inDev, q)
  /\ resident' = [resident EXCEPT ![k] = [in |-> inDev, out |-> outDev, q |-> q, size |-> psize]]

(* SendToDev of a packet that is refused: it is dropped and forgotten.     *)
Drop(k, inDev, outDev, q, psize) ==
  /\ k \notin Buffered
  /\ ~(CheckIngressAdmission(inDev, q, psize) /\ CheckEgressAdmission(outDev, q, psize))
  /\ UNCHANGED vars

(* SwitchNotifyDequeue of a packet buffered under the given charge.        *)
Release(k, charge) ==
  /\ resident[k] = charge
  /\ RemoveFromIngressAdmission(charge.in, charge.q, charge.size)
  /\ RemoveFromEgressAdmission(charge.out, charge.q, charge.size)
  /\ CheckAndSendResume(charge.in, charge.q)
  /\ resident' = [resident EXCEPT ![k] = Absent]

Depart(k) == \E charge \in {resident[k]} \ {Absent} : Release(k, charge)

Arrive(k) ==
  \E inDev, outDev \in Ports, q \in Queues, psize \in PacketSizes :
    Admit(k, inDev, outDev, q, psize) \/ Drop(k, inDev, outDev, q, psize)

Next == \E k \in Pkts : Arrive(k) \/ Depart(k)

Spec == Init /\ [][Next]_vars

-----------------------------------------------------------------------------
(* Bytes buffered from (port, q), and bytes buffered for (port, q).        *)
LoadFrom(port, q) ==
  [k \in Pkts |-> IF resident[k] # Absent /\ resident[k].in = port /\ resident[k].q = q
                  THEN resident[k].size ELSE 0]
LoadFor(port, q) ==
  [k \in Pkts |-> IF resident[k] # Absent /\ resident[k].out = port /\ resident[k].q = q
                  THEN resident[k].size ELSE 0]
SharedUse == [pq \in Ports \X Queues |-> GetSharedUsed(pq[1], pq[2])]

(* Every counter is a uint32_t and every buffered packet has a charge.     *)
TypeOK ==
  /\ shared_used_bytes \in 0 .. Word - 1
  /\ hdrm_bytes \in [Ports \X Queues -> 0 .. Word - 1]
  /\ ingress_bytes \in [Ports \X Queues -> 0 .. Word - 1]
  /\ egress_bytes \in [Ports \X Queues -> 0 .. Word - 1]
  /\ paused \in [Ports \X Queues -> BOOLEAN]
  /\ resident \in [Pkts -> Charges \cup {Absent}]

(* A packet may be charged to the reserve, the pool or the headroom, and   *)
(* RemoveFromIngressAdmission credits headroom first whatever the packet   *)
(* was charged to.  The two counters of an ingress queue still add up to   *)
(* the bytes buffered from it: no credit ever goes below zero.             *)
IngressExact ==
  \A port \in Ports, q \in Queues :
    ingress_bytes[<<port, q>>] + hdrm_bytes[<<port, q>>] = SumOf(LoadFrom(port, q))

(* egress_bytes, which the ECN decision reads, is what waits to leave.     *)
EgressExact ==
  \A port \in Ports, q \in Queues : egress_bytes[<<port, q>>] = SumOf(LoadFor(port, q))

(* shared_used_bytes, updated by minima of differences on both sides, is   *)
(* the sum of what the ingress queues hold beyond their reserve.           *)
SharedExact == shared_used_bytes = SumOf(SharedUse)

(* The pool is never overdrawn, so the unsigned subtraction in             *)
(* GetPfcThreshold does not wrap to a huge threshold that stops PFC.       *)
PoolNotOverdrawn == shared_used_bytes <= SharedPool

(* The two-sided test of CheckIngressAdmission and the different test of   *)
(* UpdateIngressAdmission agree well enough that a queue never has more    *)
(* bytes in headroom than the port's headroom.                             *)
HeadroomRespected ==
  \A port \in Ports, q \in Queues : hdrm_bytes[<<port, q>>] <= Headroom[port]

(* Headroom is for what arrives after a PAUSE: bytes in it mean the        *)
(* upstream has been paused and not resumed.                               *)
HeadroomOnlyWhenPaused ==
  \A port \in Ports, q \in Queues : hdrm_bytes[<<port, q>>] > 0 => paused[<<port, q>>]

(* Nothing but the departure of a packet of the same ingress queue ever    *)
(* tests for RESUME, so a queue left paused and empty stays paused for     *)
(* ever.  A paused ingress queue always has a packet buffered.             *)
PausedHasPacket ==
  \A port \in Ports, q \in Queues : paused[<<port, q>>] => SumOf(LoadFrom(port, q)) > 0

(* Where the headroom takes at least one packet, a packet is refused only  *)
(* on an ingress queue whose upstream has been told to pause.              *)
DropOnlyWhenPaused ==
  \A port \in Ports, q \in Queues, psize \in PacketSizes :
    /\ psize <= Headroom[port]
    /\ ~CheckIngressAdmission(port, q, psize)
    => paused[<<port, q>>]

(* The bytes in the switch fit its buffer (BUFFER_SIZE in the scenario's   *)
(* configuration is the buffer of a switch): what ports take from the pool *)
(* under thresholds of their own, their reserves and their headroom are    *)
(* what ConfigNPort divided it into, whatever order bytes are charged and  *)
(* credited in.  It holds with one lossless queue per port and not with    *)
(* more, to each of which a reserve and a headroom are granted.            *)
WithinBuffer == SumOf(ingress_bytes) + SumOf(hdrm_bytes) <= BufferSize
=============================================================================
