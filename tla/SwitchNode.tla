----------------------------- MODULE SwitchNode -----------------------------
(***************************************************************************)
(* A switch: SwitchNode with its SwitchMmu and, for every port, the        *)
(* switch's side of a QbbNetDevice and its BEgressQueue.                   *)
(*                                                                         *)
(* The simulator runs one event at a time, but an event runs deep: a       *)
(* packet that arrives may send a PFC frame by the port it came from and   *)
(* start a transmission, which gives bytes back to the MMU, which may send *)
(* another frame.  `calls` holds the calls the running event has still to  *)
(* make, innermost first, so that the code is modelled where it re-enters  *)
(* a device that is half-way through a call.  An event starts only when    *)
(* the one before has returned; a call never waits for anything.           *)
(***************************************************************************)
EXTENDS SwitchMmu, Sequences

CONSTANTS
  QCnt,         \* qCnt, priority queues of a port; Queues are among 1 .. QCnt - 1
  SwitchPeers,  \* the ports that lead to a switch; a host sends no PFC frame
  MayTakeDown,  \* the ports whose link may be taken down
  MayReroute,   \* links elsewhere may be taken down, which changes the routes
  MaxHigh       \* bound: no more packets come that may add to as many in queue 0

ASSUME NodeAssumption ==
  /\ QCnt \in Nat \ {0}
  /\ Queues \subseteq 1 .. QCnt - 1
  /\ SwitchPeers \subseteq Ports
  /\ MayTakeDown \subseteq Ports
  /\ MayReroute \in BOOLEAN
  /\ MaxHigh \in Nat

VARIABLES
  queue,      \* queue[<<port, q>>]: packets in m_queues[q], q # 0
  high,       \* high[port]: packets in m_queues[0]
  rrlast,     \* rrlast[port]: m_rrlast
  held,       \* held[<<port, q>>]: m_paused, the peer has paused the queue
  busy,       \* busy[port]: m_txMachineState is BUSY
  linkUp,     \* linkUp[port]: m_linkUp
  upstream,   \* upstream[<<port, q>>]: the last PFC frame sent said PAUSE
  rerouted,   \* the routes have changed since packets were sent to this switch
  calls       \* what the running event has still to call

mmu == <<shared_used_bytes, hdrm_bytes, ingress_bytes, egress_bytes, paused, resident>>
device == <<queue, high, rrlast, held, busy, linkUp, upstream>>
nodeVars == <<shared_used_bytes, hdrm_bytes, ingress_bytes, egress_bytes, paused, resident,
              queue, high, rrlast, held, busy, linkUp, upstream, rerouted, calls>>

-----------------------------------------------------------------------------
(* Packets of the high-priority queue: PFC frames, which carry the queue   *)
(* they are about, and ACKs, of which nothing matters here.                *)
Frame(q, pause) == [q |-> q, pause |-> pause]
Frames == [q : Queues, pause : BOOLEAN]
Ack == [q |-> 0, pause |-> FALSE]

ASSUME PacketAssumption == Pkts \cap (Frames \cup {Ack}) = {}

Calls ==
  [fn : {"SwitchSend"}, dev : Ports, arg : Pkts]
    \cup [fn : {"SendPfc"}, dev : Ports, arg : Frames]
    \cup [fn : {"DequeueAndTransmit"}, dev : Ports, arg : {Ack}]
    \cup [fn : {"TransmitStart"}, dev : Ports, arg : Pkts \cup Frames \cup {Ack}]
Call(fn, dev, arg) == [fn |-> fn, dev |-> dev, arg |-> arg]
Transmit(dev) == Call("DequeueAndTransmit", dev, Ack)
Calling(fn, dev) == calls # <<>> /\ Head(calls).fn = fn /\ Head(calls).dev = dev
Idle == calls = <<>>

NodeInit ==
  /\ Init
  /\ queue = [pq \in Ports \X Queues |-> <<>>]
  /\ high = [port \in Ports |-> <<>>]
  /\ rrlast = [port \in Ports |-> 0]
  /\ held = [pq \in Ports \X Queues |-> FALSE]
  /\ busy = [port \in Ports |-> FALSE]
  /\ linkUp = [port \in Ports |-> TRUE]
  /\ upstream = [pq \in Ports \X Queues |-> FALSE]
  /\ rerouted = FALSE
  /\ calls = <<>>

-----------------------------------------------------------------------------
(* SwitchNode.                                                             *)

(* Faulty variant: sends a frame although nothing changed.                 *)
PfcDue_Always(inDev, q) ==
  <<Call("SendPfc", inDev, Frame(q, paused'[<<inDev, q>>]))>>

(* The SendPfc of CheckAndSendPfc and CheckAndSendResume.  Both set the    *)
(* pause state after it; nothing SendPfc calls reads that state.           *)
PfcDue(inDev, q) ==
  IF paused'[<<inDev, q>>] = paused[<<inDev, q>>] THEN <<>>
  ELSE <<Call("SendPfc", inDev, Frame(q, paused'[<<inDev, q>>]))>>

(* GetOutDev.  Routes lead closer to the destination, so a packet does not *)
(* leave by the port it came from unless they changed while it was under   *)
(* way.  The tables never hold a link that is down.                        *)
Routed(inDev, outDev) == linkUp[outDev] /\ (inDev # outDev \/ rerouted)

(* SendToDev of a packet that is subject to admission control.             *)
SendToDev(k, inDev, outDev, q, psize) ==
  \/ /\ Admit(k, inDev, outDev, q, psize)
     /\ calls' = PfcDue(inDev, q) \o <<Call("SwitchSend", outDev, k)>>
  \/ Drop(k, inDev, outDev, q, psize) /\ UNCHANGED calls

SwitchReceiveFromDevice(k, inDev, outDev, q, psize) ==
  /\ Idle /\ linkUp[inDev] /\ Routed(inDev, outDev)
  /\ Len(high[inDev]) < MaxHigh
  /\ SendToDev(k, inDev, outDev, q, psize)
  /\ UNCHANGED <<device, rerouted>>

(* SendToDev of an ACK or NACK with high priority.                         *)
ReceiveHighPrio(inDev, outDev) ==
  /\ Idle /\ linkUp[inDev] /\ Routed(inDev, outDev)
  /\ Len(high[outDev]) < MaxHigh
  /\ high' = [high EXCEPT ![outDev] = Append(@, Ack)]
  /\ calls' = <<Transmit(outDev)>>
  /\ UNCHANGED <<mmu, queue, rrlast, held, busy, linkUp, upstream, rerouted>>

(* Links elsewhere are taken down and the tables filled anew.              *)
RoutesChange ==
  /\ Idle /\ MayReroute
  /\ rerouted' = TRUE
  /\ UNCHANGED <<mmu, device, calls>>

-----------------------------------------------------------------------------
(* Faulty variant: round robin from the queue served last.                 *)
Turn_LastFirst(port, q) == (q - rrlast[port] + QCnt) % QCnt

(* BEgressQueue: round robin from the queue after the one served last.     *)
Turn(port, q) == (q - rrlast[port] + QCnt - 1) % QCnt
Ready(port) == {q \in Queues : ~held[<<port, q>>] /\ queue[<<port, q>>] # <<>>}
NextQueue(port) == {q \in Ready(port) : \A r \in Ready(port) : Turn(port, q) <= Turn(port, r)}

Served(port, q) ==
  /\ queue' = [queue EXCEPT ![<<port, q>>] = Tail(@)]
  /\ rrlast' = [rrlast EXCEPT ![port] = q]

-----------------------------------------------------------------------------
(* QbbNetDevice.                                                           *)
SwitchSend(dev) ==
  /\ Calling("SwitchSend", dev)
  /\ LET k == Head(calls).arg
     IN  queue' = [queue EXCEPT ![<<dev, resident[k].q>>] = Append(@, k)]
  /\ calls' = <<Transmit(dev)>> \o Tail(calls)
  /\ UNCHANGED <<mmu, high, rrlast, held, busy, linkUp, upstream, rerouted>>

(* Faulty variant: the frame overtakes the frames that wait.               *)
SendPfc_Overtakes(dev) ==
  /\ Calling("SendPfc", dev)
  /\ high' = [high EXCEPT ![dev] = <<Head(calls).arg>> \o @]
  /\ calls' = <<Transmit(dev)>> \o Tail(calls)
  /\ UNCHANGED <<mmu, queue, rrlast, held, busy, linkUp, upstream, rerouted>>

SendPfc(dev) ==
  /\ Calling("SendPfc", dev)
  /\ high' = [high EXCEPT ![dev] = Append(@, Head(calls).arg)]
  /\ calls' = <<Transmit(dev)>> \o Tail(calls)
  /\ UNCHANGED <<mmu, queue, rrlast, held, busy, linkUp, upstream, rerouted>>

(* Faulty variant: a busy device is not left alone.                        *)
CanTransmit_Busy(dev) == linkUp[dev]

CanTransmit(dev) == linkUp[dev] /\ ~busy[dev]

(* DequeueAndTransmit with nothing to do.                                  *)
TransmitNothing(dev) ==
  /\ Calling("DequeueAndTransmit", dev)
  /\ ~CanTransmit(dev) \/ (high[dev] = <<>> /\ Ready(dev) = {})
  /\ calls' = Tail(calls)
  /\ UNCHANGED <<mmu, device, rerouted>>

(* DequeueAndTransmit: the high-priority queue goes first, held or not,    *)
(* and its packets do not count in the MMU.                                *)
TransmitHighPrio(dev) ==
  /\ Calling("DequeueAndTransmit", dev)
  /\ CanTransmit(dev) /\ high[dev] # <<>>
  /\ high' = [high EXCEPT ![dev] = Tail(@)]
  /\ calls' = <<Call("TransmitStart", dev, Head(high[dev]))>> \o Tail(calls)
  /\ UNCHANGED <<mmu, queue, rrlast, held, busy, linkUp, upstream, rerouted>>

(* Faulty variant: skips a packet that came in by the port it leaves by.   *)
SwitchNotifyDequeue_NotSelf(k, dev) ==
  IF resident[k].in = dev THEN UNCHANGED mmu ELSE Depart(k)

SwitchNotifyDequeue(k, dev) == Depart(k)

(* DequeueAndTransmit of a packet: SwitchNotifyDequeue gives its bytes     *)
(* back, and sends the RESUME, before the transmission starts.             *)
TransmitData(dev, q) ==
  /\ Calling("DequeueAndTransmit", dev)
  /\ CanTransmit(dev) /\ high[dev] = <<>> /\ q \in NextQueue(dev)
  /\ LET k == Head(queue[<<dev, q>>])
     IN  /\ SwitchNotifyDequeue(k, dev)
         /\ calls' = PfcDue(resident[k].in, q)
                       \o <<Call("TransmitStart", dev, k)>> \o Tail(calls)
  /\ Served(dev, q)
  /\ UNCHANGED <<high, held, busy, linkUp, upstream, rerouted>>

(* TransmitStart asserts that the transmitter is READY: the simulation     *)
(* ends where it is not.                                                   *)
TransmitStart(dev) ==
  /\ Calling("TransmitStart", dev)
  /\ ~busy[dev]
  /\ busy' = [busy EXCEPT ![dev] = TRUE]
  /\ LET sent == Head(calls).arg
     IN  upstream' = IF sent \in Frames
                     THEN [upstream EXCEPT ![<<dev, sent.q>>] = sent.pause]
                     ELSE upstream
  /\ calls' = Tail(calls)
  /\ UNCHANGED <<mmu, queue, high, rrlast, held, linkUp, rerouted>>

TransmitComplete(dev) ==
  /\ Idle /\ busy[dev]
  /\ busy' = [busy EXCEPT ![dev] = FALSE]
  /\ calls' = <<Transmit(dev)>>
  /\ UNCHANGED <<mmu, queue, high, rrlast, held, linkUp, upstream, rerouted>>

(* Receive of a PAUSE, and of a RESUME, from the peer, which alternates.   *)
ReceivePause(dev, q) ==
  /\ Idle /\ linkUp[dev] /\ dev \in SwitchPeers
  /\ ~held[<<dev, q>>]
  /\ held' = [held EXCEPT ![<<dev, q>>] = TRUE]
  /\ UNCHANGED <<mmu, queue, high, rrlast, busy, linkUp, upstream, rerouted, calls>>

(* Faulty variant: leaves it to the next packet to start the transmitter.  *)
Resume_NoTransmit(dev, q) ==
  /\ held[<<dev, q>>]
  /\ held' = [held EXCEPT ![<<dev, q>>] = FALSE]
  /\ UNCHANGED calls

Resume(dev, q) ==
  /\ held[<<dev, q>>]
  /\ held' = [held EXCEPT ![<<dev, q>>] = FALSE]
  /\ calls' = <<Transmit(dev)>>

ReceiveResume(dev, q) ==
  /\ Idle /\ linkUp[dev]
  /\ Resume(dev, q)
  /\ UNCHANGED <<mmu, queue, high, rrlast, busy, linkUp, upstream, rerouted>>

(* TakeDown empties the queues and, as its TODO says, tells the switch     *)
(* nothing: the MMU keeps the bytes of the packets dropped. It empties     *)
(* them with DequeueRR, whose pointer is left alone here: no link comes    *)
(* back up, so nothing reads the pointer again.                            *)
TakeDown(dev) ==
  /\ Idle /\ linkUp[dev] /\ dev \in MayTakeDown
  /\ linkUp' = [linkUp EXCEPT ![dev] = FALSE]
  /\ queue' = [pq \in DOMAIN queue |-> IF pq[1] = dev THEN <<>> ELSE queue[pq]]
  /\ held' = [pq \in DOMAIN held |-> pq[1] # dev /\ held[pq]]
  /\ high' = [high EXCEPT ![dev] = <<>>]
  /\ rerouted' = TRUE
  /\ UNCHANGED <<mmu, rrlast, busy, upstream, calls>>

NodeNext ==
  \/ \E k \in Pkts, inDev, outDev \in Ports, q \in Queues, psize \in PacketSizes :
       SwitchReceiveFromDevice(k, inDev, outDev, q, psize)
  \/ \E inDev, outDev \in Ports : ReceiveHighPrio(inDev, outDev)
  \/ RoutesChange
  \/ \E dev \in Ports :
       \/ SwitchSend(dev)
       \/ SendPfc(dev)
       \/ TransmitNothing(dev)
       \/ TransmitHighPrio(dev)
       \/ TransmitStart(dev)
       \/ TransmitComplete(dev)
       \/ TakeDown(dev)
  \/ \E dev \in Ports, q \in Queues :
       TransmitData(dev, q) \/ ReceivePause(dev, q) \/ ReceiveResume(dev, q)

NodeSpec == NodeInit /\ [][NodeNext]_nodeVars

-----------------------------------------------------------------------------
NodeTypeOK ==
  /\ queue \in [Ports \X Queues -> Seq(Pkts)]
  /\ high \in [Ports -> Seq(Frames \cup {Ack})]
  /\ rrlast \in [Ports -> 0 .. QCnt - 1]
  /\ held \in [Ports \X Queues -> BOOLEAN]
  /\ busy \in [Ports -> BOOLEAN]
  /\ linkUp \in [Ports -> BOOLEAN]
  /\ upstream \in [Ports \X Queues -> BOOLEAN]
  /\ rerouted \in BOOLEAN
  /\ calls \in Seq(Calls)

(* Between two events, a device with a link that transmits nothing has     *)
(* nothing it may transmit: every event that makes a packet eligible (it   *)
(* is queued, its queue is released, the transmitter is free) also starts  *)
(* the transmitter, for nothing will look again.                           *)
NoIdleWithWork ==
  \A dev \in Ports :
    Idle /\ CanTransmit(dev) => high[dev] = <<>> /\ Ready(dev) = {}

Waiting(port, q) == {queue[<<port, q>>][i] : i \in 1 .. Len(queue[<<port, q>>])}

(* Between two events the MMU counts the packets in the egress queues,     *)
(* each where it waits, and the ones TakeDown threw away; those it counts  *)
(* for ever.                                                               *)
BufferedIsQueued ==
  Idle =>
    /\ \A port \in Ports, q \in Queues : \A k \in Waiting(port, q) :
         k \in Buffered /\ resident[k].out = port /\ resident[k].q = q
    /\ \A k \in Buffered :
         linkUp[resident[k].out] => k \in Waiting(resident[k].out, resident[k].q)

(* The last of the first n packets of s that is a frame about q, and what  *)
(* those n packets leave an upstream knowing of q that knew `known`.       *)
LatestAbout(s, q, n) == {i \in 1 .. n : s[i].q = q /\ \A j \in i + 1 .. n : s[j].q # q}
Told(s, known, q, n) ==
  IF LatestAbout(s, q, n) = {} THEN {known} ELSE {s[i].pause : i \in LatestAbout(s, q, n)}

(* What the frames sent and waiting tell the upstream, in the end, is what *)
(* the MMU believes it told it.                                            *)
UpstreamWillKnow ==
  \A port \in Ports, q \in Queues :
    Idle /\ linkUp[port] =>
      Told(high[port], upstream[<<port, q>>], q, Len(high[port])) = {paused[<<port, q>>]}

(* A RESUME follows a PAUSE of the same queue, and a PAUSE a RESUME: the   *)
(* upstream's Resume asserts "Must be PAUSEd".                             *)
FramesAlternate ==
  \A port \in Ports, q \in Queues :
    Idle /\ linkUp[port] =>
      \A i \in 1 .. Len(high[port]) :
        high[port][i].q = q =>
          high[port][i].pause \notin Told(high[port], upstream[<<port, q>>], q, i - 1)

(* No queue is served twice running while another of the port could be.    *)
RoundRobin ==
  [][\A port \in Ports, q \in Queues :
       TransmitData(port, q) /\ rrlast[port] = q => Ready(port) = {q}]_nodeVars

(* "Must be READY to transmit", asserts TransmitStart.                     *)
ReadyToTransmit == \A dev \in Ports : Calling("TransmitStart", dev) => ~busy[dev]
=============================================================================
