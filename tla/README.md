# TLA+ verification of the HPCC simulator

The repository is a fork of ns-3.17 that simulates RDMA over a lossless
Ethernet: shared-buffer switches with priority flow control (PFC), host NICs
with queue pairs, go-back-N, and several congestion controllers. This directory
holds TLA+ models of the parts the fork adds, TLC configurations that check
them on small instances, and proofs, checked by TLAPS, that hold for every
instance. Paths below are relative to `src/simulation/src/` unless they start
with `scratch/` (then `src/simulation/`); `pp/` is `point-to-point/model/`.

## 1. The system

### Execution

ns-3 runs one event at a time to its end. There are no threads: interleaving
comes from the order of events (arrivals, end of a transmission, timers) and
from re-entrance: a handler calls another device, which calls back.

### Components, state, operations, what must hold

| component | state | operations | correct when |
|---|---|---|---|
| `SwitchMmu` (`pp/switch-mmu.cc`) | `shared_used_bytes`, and per (port, queue) `hdrm_bytes`, `ingress_bytes`, `egress_bytes`, `paused`; all `uint32_t` | admission tests, Update/RemoveFrom, CheckShouldPause/Resume, ShouldSendCN | counters are the bytes buffered, nothing wraps, pool and headroom kept, every PAUSE is followed by a RESUME |
| `SwitchNode` (`pp/switch-node.cc`) | routing table, INT/PINT counters, its MMU | SendToDev, SwitchNotifyDequeue, CheckAndSendPfc/Resume, AddTableEntry, ClearTable | the MMU is told of every packet exactly once at each end |
| `QbbNetDevice` on a switch (`pp/qbb-net-device.cc`) with `BEgressQueue` (`network/utils/broadcom-egress-queue.cc`) | transmitter READY/BUSY, `m_paused[8]`, `m_linkUp`, eight FIFOs, `m_rrlast` | SwitchSend, SendPfc, Receive (PAUSE, RESUME), DequeueAndTransmit, TransmitStart, TransmitComplete, TakeDown | never idle with an eligible packet; never starts twice; PFC frames alternate; round robin is fair |
| `QbbNetDevice` on a host with `RdmaEgressQueue` | ACK queue, the group of queue pairs, `m_rrlast`, the wake-up event `m_nextSend` | GetNextQindex, DequeueQindex, UpdateNextAvail, NewQp, ReassignedQp | a queue pair that may send is sent, now or at its `m_nextAvail` |
| `RdmaHw` transport with `RdmaQueuePair`, `RdmaRxQueuePair` | `snd_nxt`, `snd_una`, `m_rate`; `ReceiverNextExpectedSeq`, `m_nackTimer`, `m_lastNACK`; the maps of queue pairs | AddQueuePair, GetNxtPacket, ReceiveUdp, ReceiverCheckSeq, ReceiveAck, RecoverQueue, QpComplete | bytes delivered in order, once; window kept; finished exactly when delivered |
| `RdmaHw` tables | `m_nic`, `m_rtTable`, `m_qpMap` | GetNicIdxOfQp, AddQueuePair, RedistributeQp, AddTableEntry, ClearTable | a queue pair is in exactly the group of the NIC it is routed by |
| DCQCN | `m_alpha`, `m_targetRate`, stage, three timers | cnp_received_mlx, UpdateAlpha, CheckRateDecrease, RateIncEvent | rate within bounds, timers live exactly as long as the flow |
| HPCC, MyCC, Magic | `m_lastUpdateSeq`, `m_curRate`, stage, last INT records | HandleAckHp, UpdateRateHp, FastReactHp | one full update per round trip, rate within bounds |
| TIMELY, DCTCP, HPCC-PINT | like HPCC; `m_caState`, `m_highSeq`, ECN counters; encoded utilisation | one handler per ACK each | at most one decrease per round trip, rate within bounds |
| `IntHeader`, `IntHop` (`network/utils/int-header.h`) | five hops of packed counters of 16, 20 and 24 bits | PushHop, GetBytesDelta, GetTimeDelta | differences survive a wrap |
| `MySketch` (`network/utils/my-sketch.*`) | counters per window, row and column, bitmap of active columns | Update, NextWindow, Query, GetThBinary | no flow under-estimated, active columns counted once, threshold is the max-min fair share |
| scenario (`scratch/third.cc`) | topology, next hops, schedule of flows | CalculateRoute, SetRoutingEntries, TakeDownLink, ScheduleFlowInputs, qp_finish | routes get closer to the destination; every flow is started once |
| headers, tags, `QbbChannel`, `RdmaDriver`, `RdmaClient` | no logic of their own | serialise, delay, forward a call | - |

Left aside: the vendored ns-3 (event loop, internet stack, other devices,
bindings, build), the offline analysis and the traffic generator, and
`CmSketch`, `CmSketchHp`, `QbbRemoteChannel`, `DoDequeuePrio` and
`updateWindow`, which nothing in the simulator calls any more.

### How they interact

- A packet that reaches a switch goes Receive -> SwitchReceiveFromDevice ->
  SendToDev: admission in the MMU, perhaps a PAUSE sent back by the ingress
  port, then SwitchSend at the egress port, which may start a transmission at
  once. Starting one calls SwitchNotifyDequeue, which gives bytes back to the
  MMU and may send a RESUME by yet another port, in the same event.
- A host's NIC polls its group of queue pairs when it becomes free, when an ACK
  arrives, a queue pair is added, a priority is resumed or `m_nextSend` fires.
- The receiver answers segments with ACKs and NACKs; they carry the ECN mark
  and the INT records that feed the congestion controller of the sender.
- QpComplete removes a queue pair from `m_qpMap` and, through the scenario's
  callback `qp_finish`, deletes the receiver's. The NIC's group is a separate
  table and drops finished queue pairs by itself.
- TakeDownLink empties two devices, recomputes all routes and redistributes the
  queue pairs, within one event, while packets are under way.

### What is hard

Re-entrance of a device from SwitchNotifyDequeue; unsigned counters credited in
another order than they were charged; wake-ups that nothing repeats; NACKs that
are repeated while the retransmission is under way; completion with segments
still under way; two tables of queue pairs; take-down of links with packets
queued and under way; timers of finished flows; wrapped telemetry. The list with
its lines is `hazards` in `PROJECT.json`.

## 2. Modules

| module | content | code |
|---|---|---|
| `ByteSums` | sum of a function over a finite domain, by counting units so that the library's facts on cardinality apply | - |
| `SwitchMmu` | the MMU and the order in which a switch calls it | `pp/switch-mmu.cc`, `pp/switch-node.cc` |
| `SwitchNode` | a switch: extends `SwitchMmu` with devices, egress queues and the stack of pending calls | `pp/switch-node.cc`, `pp/qbb-net-device.cc`, `broadcom-egress-queue.cc` |
| `ReliableTransfer` | abstract specification of a flow | - |
| `GoBackN` | sender, receiver and network of one flow; implements `ReliableTransfer` | `pp/rdma-hw.cc`, `pp/rdma-queue-pair.cc`, `pp/qbb-net-device.cc` |
| `RateControl` | extends `GoBackN` with the controllers that react to ACKs: HPCC, HPCC per hop, TIMELY, DCTCP, HPCC-PINT | `pp/rdma-hw.cc` |
| `Dcqcn` | DCQCN of one queue pair with its three timers | `pp/rdma-hw.cc` |
| `RdmaNic` | a host's NIC: the choice among queue pairs, pacing, sleeping and waking | `pp/qbb-net-device.cc`, `pp/rdma-hw.cc` |
| `PacketNetwork` | abstract specification of what the two ends of a flow expect of the network | - |
| `Routing` | routes, tables, groups of queue pairs, links that go down with packets under way; implements `PacketNetwork` | `scratch/third.cc`, `pp/rdma-hw.cc`, `pp/switch-node.cc`, `pp/qbb-net-device.cc`, `pp/qbb-channel.cc` |
| `FairThreshold` | the search for the threshold between small and big flows, pure operators | `network/utils/my-sketch.h` |
| `MySketch` | the sketch of an egress queue over a sliding window; uses `FairThreshold` | `network/utils/my-sketch.cc`, `.h` |
| `Arithmetic_proofs` | lemmas the proofs share: remainders, least and largest elements, sums over finite sets | - |
| `Transport_proofs` | theorems on `GoBackN` and `RateControl` | - |
| `SwitchMmu_proofs`, `SwitchNode_proofs`, `RdmaNic_proofs`, `Dcqcn_proofs`, `MySketch_proofs`, `Routing_proofs` | theorems on the module of that name | - |
| `MCSwitchMmu`, `MCSwitchNode`, `MCGoBackN`, `MCRateControl`, `MCDcqcn`, `MCRdmaNic`, `MCMySketch`, `MCRouting` | instances for TLC | - |
| `MCGoBackNModes` | `GoBackN` and two further instances of it side by side, one of which a behaviour picks | - |

The map of every definition to its lines is in `PROJECT.json`. Operators with an
underscored suffix (`QpComplete_KeepsRp`, `ClearTable_Not`, ...) are faulty
variants of the definition they precede; each stands for a plausible bug, and
the property it is paired with in `PROJECT.json` fails when it is put in place.

### SwitchMmu

One operator per method, with the method's name. `Admit`, `Drop` and `Depart`
are SendToDev and SwitchNotifyDequeue as far as the MMU is concerned, the PFC
decision included. Arithmetic is unsigned: `Plus` and `Minus` wrap at `Word`.
`resident` remembers for every buffered packet where it was charged; the code
keeps this in the packet's tag and in the queue it waits in. Queue 0 bypasses
the MMU and is not in `Queues`. `CheckEgressAdmission` is constantly true in the
code. ECN marking (`ShouldSendCN`) reads a counter and marks a packet; it is not
modelled, `EgressExact` says the counter it reads is right. `m_bytes` of
`SwitchNode` is written and never read by the program and is left out.

### SwitchNode

Extends `SwitchMmu` with what surrounds it. `calls` is the stack of calls the
running event still has to make, innermost first, so that the model re-enters a
device exactly where the code does: `TransmitData` puts the SendPfc that
SwitchNotifyDequeue may issue in front of the TransmitStart of the device it was
called by. An external event (`SwitchReceiveFromDevice`, `ReceiveHighPrio`,
`ReceivePause`, `ReceiveResume`, `TransmitComplete`, `TakeDown`,
`RoutesChange`) needs an empty stack; that is ns-3's guarantee. `upstream` is
not in the code: it is what the last PFC frame put on the wire said. Peers send
PFC frames that alternate, which is what this very model shows of a switch.

Where a packet goes is a choice, constrained by what routing guarantees: never
to a link that is down, and never back where it came from unless the routes
changed while it was under way. `Routing` justifies both: tables name shortest
ways over links that are up, and TakeDownLink refills all of them while packets
travel along the old routes.

Left out: marking and INT/PINT fields at departure, which change no state that
the properties read, and the size limit of `BEgressQueue`, which is above the
switch's buffer in every configuration of the repository.

### GoBackN

`Send(w)` is GetNxtPacket when the window is `w`; the window moves with the rate
under VAR_WIN, so `w` ranges over a set. `ReceiveUdp` and `ReceiveAck` are the
handlers with all they call, `ClearFinished` the part of GetNextQindex that
takes a finished queue pair off the group, `EndTimeReached` the event
AddQueuePair schedules for an `endTime`. The network loses what `Losable` allows
up to `MaxLosses`, keeps order unless `Reroutes`, and is slow enough to outlast
`m_nack_interval` only if `SlowNetwork`. Sequence numbers on the wire are
modulo `SeqWord`; `snd_nxt - snd_una` is modulo `CountWord`. `Init` is the state
after AddQueuePair.

`ReliableTransfer` is what a flow promises: bytes are delivered in order and no
more at a time than one packet can complete, the sender only believes what was
delivered, and finishes once. The refinement maps `delivered` to the receiver's
expected byte (with back-to-zero, to the start of its chunk, since the receiver
throws away the rest), `acked` to `snd_una` and `finished` to the queue pair
having left `m_qpMap`. The end-time event finishes a flow whatever was delivered,
and may finish it a second time; `TransfersUntilEnd` is the refinement of all that
comes before it.

### RdmaNic

Several queue pairs share one device. `group` is `m_qpGrp`; `Taken`, `Cleared`
and `Moved` are the three results of GetNextQindex: the index it stops at, the
group without the finished queue pairs it came by and those behind them, and the
index after the move. An event that calls DequeueAndTransmit sets `calling`
unless the transmitter is busy; then one of `TransmitAck`, `TransmitSegment`
and `TransmitNothing` runs before any other event. Time is relative: `wait[qp]`
is `m_nextAvail - Now()`, `tx` and `sleep` the time to the end of the
transmission and to `m_nextSend`; `Tick` lets time pass up to the next of the
two. `wait` is not counted below `LineGap - MaxGap`: rate changes cannot bring a
time so far back into the future. Segments have one size, `gap[qp]` is the time
one takes at `m_rate`. ACKs and NACKs come from the environment, for
any part of what is under way; they may change the rate by ChangeRate, as HPCC
and HPCC-PINT do. The other controllers set `m_rate` directly, which only
affects segments to come; that is left out, as are ReassignedQp and a link that
is taken down: `Routing` has several NICs and moves queue pairs between them,
without their timing.

### RateControl

Each controller's handler runs inside `ReceiveAck`, as in the code, so that the
sequence numbers it compares (`m_lastUpdateSeq`, `m_highSeq` against the ACK's
and `snd_nxt`) are those of a flow that loses segments and goes back; `snd_nxt'`
is what the handler reads after RecoverQueue. What the network reports is a
choice: the utilisation INT or PINT report (below, at or above the target), the
verdict of TIMELY on its round-trip time, the CNP flag, whether a feedback is
sampled. Rates are integers on a small scale. `old` is not in the code: it counts
the packets under way that left before the last round began, and so defines a
round trip independently of sequence numbers.

Going back is where rounds are delicate: after RecoverQueue `m_lastUpdateSeq` is
ahead of `snd_nxt`, and no full update happens until ACKs have caught up with it.
That follows the code; the runs show that there is never one too many.

### Dcqcn

CNPs, completion, the end time and three timers that reschedule themselves.
`agenda` holds what is scheduled, with the time until each; time jumps to the
next event, and of two events due at once the one scheduled first runs. A
microsecond is two units, one of them for the nanosecond the code adds once so
that the check of the rate runs behind the update of alpha. Alpha and rates are
integers, rounded down as DataRate rounds. `FinalAck` runs QpComplete before
`cnp_received_mlx`, in the order of ReceiveAck.

### Routing

`CalculateRoute` is the breadth-first search as written: its queue, distances and
lists of next hops, in the order the search appends them. `Look` is one turn of the
inner loop; `Search` is both loops as one recursive function of the number of turns
over, which has the length both loops have when every node is in the queue: a turn
beyond its end changes nothing. `ScheduleFlowInputs` installs the clients of one start time, and
`AddQueuePair` is the event of each; `TakeDownLink` is the whole handler: link
down, search, ClearTable and AddTableEntry at every node, both devices emptied,
RedistributeQp at every host. A link is only taken down if the hosts stay
connected; otherwise GetNicIdxOfQp asserts "We assume at least one NIC is alive".

Packets only carry their number and channel (the data or the ACKs of a flow).
`fly` holds, for each direction of a link, those in the queues for it and on the
wire: the packets of one channel share a queue at each port and stay in order,
those of two channels may overtake. `Send`, `ReceiveUdp` and `ReceiveAck` leave to
`GoBackN` what is sent and answered, and to `SwitchNode` and `RdmaNic` when. The
send of DequeueAndTransmit that RedistributeQp triggers by ReassignedQp is a step
of its own, as RedistributeQp leaves nothing it would read inconsistent.

`PacketNetwork` is what both ends of a flow rely on: packets of a channel arrive
in the order sent; those under way when routes change may be lost or overtaken.
This is the network `GoBackN` assumes, `Reroutes` included. Not in this model: the
error model of a link, drops of the MMU (both are losses of `GoBackN`), and keys of
queue pairs that collide once a pair has started more than 55,536 flows.

### MySketch and FairThreshold

`Update` and `NextWindow` are the methods with all they call; a ring of subwindows
reuses counters that are cleared when next touched (`Touch`), and sums that are
cleared when the ring comes round (`DropOldest`). `sent` is not in the code: it is
what really happened. Time is in ticks and rates are integers rounded down.
`FairThreshold` is GetThBinary's sort (`Sorted`, by the place of each rate), its sums,
its binary search and the two conditions the search goes by.
GetCard's logarithm is left out: `CardExact` is about the count it starts from.
`QueryExact` is about bytes; a *rate* is bytes by the time since the flow's first
packet in sight, and the code takes the smallest such time over the rows, so that
a flow that shares a column may be given a smaller rate than it has.

## 3. What TLC checks

Twelve runs, nine of which pass; each property of a passing run has a faulty
variant that breaks it.

| run | instance | shows |
|---|---|---|
| `mmu` | 2 ports with different headroom (3, 2) and threshold shares (1/2, 1), one queue, 5 packets of 1..3, pool of 4 | counters exact, pool and headroom kept, no queue stays paused when empty, no drop before a PAUSE, and the bytes buffered, which come to 13, fit the buffer of 13 |
| `switch_node` | 2 ports, queues 1 and 3, 2 packets, 1 frame or ACK queued before more arrive, one link that may go down, routes that change | nothing eligible left idle, MMU counts what is queued, what was and will be sent upstream is what the MMU believes, PFC frames alternate, round robin |
| `gbn_modes` | three flows: 11 bytes in segments of 2, windows 1, 6, 8, any 3 packets lost; 9 bytes, window 6, acknowledged every 5 bytes, one loss of a segment but the last or an ACK but the final; back-to-zero, 12 bytes in 3 chunks, acknowledged every 7 bytes, one segment lost | each is a `ReliableTransfer`; the first keeps its window and leaves nothing under way after completion; the other two complete |
| `gbn_hostile` | 5 bytes with an end time, windows 0 (none), 1, 6, any 2 lost, overtaking, repeated NACKs | until its end time the flow is a `ReliableTransfer`, and retransmissions stay aligned, when answers are stale and late segments create the receiver's queue pair anew |
| `rate_control` | five controllers over 6 segments in a window of 3, any 2 packets lost, rates 1..8, two hops, two utilisations | rates in bounds, at most one full update and one DCTCP reduction per round trip, fast reactions do not build on each other |
| `dcqcn` | intervals 2, 3, 5, rates 2..21, alpha in quarters, an end time | rates in bounds and below the target, each timer once, alpha updated before a check due in the same microsecond, no timer after the flow but in one case, recovery once CNPs stop |
| `nic` | 3 queue pairs of 1, 2 and 1 segments, the third in the ACKs' priority, gaps of 1 and 2 with windows of 2 and 1 segments, one PAUSE, NACK or segment to answer | what is sent is what was chosen, the NIC sleeps only if something wakes it, every flow is sent |
| `routing` | 2 hosts with 2 links each, 4 switches, 4 shortest paths, 2 flows in opposite directions, any 2 links taken down | tables name exactly the shortest ways, queue pairs are in the group of their NIC, packets arrive in order unless routes change, none circles for ever |
| `sketch` | 3 flows in 2 rows of 2 columns, 2 subwindows in sight of 5, packets of 1 and 2, 4 bytes | columns in use and bytes are counted exactly, no active flow is forgotten, the threshold is fair |

The one exception in `TimersEndWithFlow` is the code's: when the last ACK carries
the first CNP, QpComplete cancels the timers and `cnp_received_mlx` then starts
them on a finished queue pair, for ever. It costs events and changes no flow.

The violation runs show where the code and a statement of the repository
disagree:

| run | property | what happens |
|---|---|---|
| `mmu_two_queues` | `WithinBuffer` | reserve and headroom are set aside once per port but granted to every queue: with two lossless queues the switch buffers more than `BUFFER_SIZE`; with one, as when all flows have priority 3 (the repository's), it does not (`mmu`, `FitsBuffer`) |
| `switch_reentry` | `ReadyToTransmit` | a packet that leaves by the port it came in by (routes changed while it was under way) makes SwitchNotifyDequeue send the RESUME by the device that is dequeuing; its TransmitStart then finds the transmitter busy and the assertion fails |
| `gbn_stale_nack` | `WindowKept` | a repeated NACK takes `snd_nxt` back, an ACK of the first transmission then moves `snd_una` past it; `GetOnTheFly` wraps and the window is closed for ever |

Other differences between documents and code, met while reading and not checked:
the ACK interval is documented in packets (`mix/naive/config_doc.txt:29`, under
`src/simulation/`) and compared with bytes, and the milestone is set anew at
every packet, so that an interval of 0 still acknowledges every packet and the
sender only complains (`pp/rdma-hw.cc:360`, `:453`, `:507`);
L2_BACK_TO_ZERO moves the receiver back as well (`:520`). A flow that reaches its
end time leaves `m_qpMap` while the NIC goes on sending it, unanswered (`:277`).
Chunk size 0, documented as "off", is a divisor as soon as the ACK interval
exceeds a segment (`:510`); no configuration of the repository does that.
Sequence numbers are 32 bits on the wire and 64 at the sender, so that a flow of
4 GB or more never completes (`:442`); the theorems assume shorter ones. At this commit
`pp/rdma-hw.cc:1017`, in the MyCC branch, is not valid C++.

`m_nextSend` is called "The next send event" (`pp/qbb-net-device.h:170`). When a
queue pair held back by its window or a PAUSE has its `m_nextAvail` in the past
it is not scheduled at all, and when it is pending it is not moved for a queue
pair that is due earlier. A queue pair that may send then waits for the ACK or
RESUME of the other, which is the second disjunct of `SomethingWillWake`, or for
the later event; if that ACK is lost it waits until something else happens.

### Bounds

- Five packets of up to three units against a pool of four and headrooms of two
  and three fill reserve, pool and headroom of both ports at once: drops,
  pauses, resumes and every order of charge and credit occur.
- Two packets and two queues are enough for a device to be re-entered: one
  packet holds the transmitter or the pool, the other is dequeued. `MaxHigh`
  stops arrivals that may add a frame to as many; frames themselves are never
  refused.
- Windows of 1 (less than a segment), of three and of four segments, and none,
  with flows of four to six segments let the window close, reopen, shrink below
  what is under way, and end in a short segment. Three losses cover a segment,
  its retransmission and an answer. `InFlight` is four: above a window of three
  segments.
- `Word`, `SeqWord` and `CountWord` only need to exceed what the instance
  counts; the theorems take any value that does.

- Three queue pairs are the fewest with which a queue pair can be chosen behind
  a finished one and in front of another, which an index that is not moved
  would send instead. A gap of twice the transmission time makes the NIC
  sleep; `MaxUpsets` bounds what may arrive out of turn, and each kind is tried.
- In `rate_control` a flow of six segments sees two rounds and a third after going
  back; two losses cover a segment and its retransmission. `MiThresh` of one makes
  both kinds of increase happen.
- In `dcqcn` the stage is not counted beyond `Threshold + 1`, where it stops to
  matter; intervals without a common divisor let the three timers meet in every
  order.
- Four switches with every link between the two layers give each host a choice at
  each hop; after two links went down some routes are longer than before, and
  packets turn round. `Packets` allows two data packets in one direction and their
  answers in the other, so that data can overtake data and an ACK meets both.
- `MaxWindows` is twice the subwindows in sight: counters of the ring are reused
  twice. Two flows share a column of each row, so that no row is exact alone.

Deadlock checking is off for `GoBackN` and `RateControl`, where a flow ends, or
stalls after a loss it does not recover from; for `SwitchNode`, where the failed
assertion of TransmitStart ends the simulation; for `Dcqcn` and `Routing`, where
nothing happens after the flows; and for `MySketch`, which ends at its bound.

### Fairness

Safety runs assume none. `gbn_modes` assumes, for its two flows that are to
complete, weak fairness of `Send`, of `ReceiveAck` and of `ReceiveUdp`: a scheduled
Receive event happens, and the NIC asks the queue pair again on every event that
may make it eligible. With one queue pair and no pacing that is what TriggerTransmit at
the end of ReceiveAck and TransmitComplete do; that several queue pairs and
pacing do not change this is what `Drains` of `RdmaNic` shows. `nic` assumes
that the simulator runs what is scheduled and time passes, that a PAUSE ends
(peers send RESUME, `PausedHasPacket` and `UpstreamWillKnow`), and that what is
under way is acknowledged in the end. `dcqcn` assumes that the simulator runs
what is scheduled, `routing` weak fairness of `Receive`: a channel delivers what is
transmitted, and no PAUSE lasts for ever. That pauses of a ring of switches never
wait for each other is *not* shown. Nothing is assumed about the NACK timer,
losses, CNPs, links or the end-time event.

A flow is *not* live in general. There is no retransmission timer: the loss of
the last segment, of the final ACK, of a NACK before the next one, of a
retransmission with nothing behind it, or of anything when the window holds one
segment, stops it. `Losable` of `GoBack` in `MCGoBackNModes` names the losses the
code recovers from. With back-to-zero the size must be a multiple of the chunk: the last,
partial chunk is never acknowledged beyond its start; and a flow that ends inside a
chunk must not be shorter than the ACK interval, or no ACK of its end is ever due.

## 4. What is proved

TLAPS checks these for every value of the constants that satisfies the named
assumptions. `Arithmetic_proofs` holds what they share: remainders, that a set of
naturals has a least element, and sums. A sum over a finite set is the number of
units of its terms (`ByteSums`), so that its laws follow from the library's facts on
cardinality, without induction: it changes by what one term changes (`SumChange`), is
at least each term (`SumAtLeast`), and is the same over two sets whose non-zero terms
are paired (`SumRenamed`).

### The MMU

`SwitchMmu_proofs`, from `SwitchAssumption` (finite ports and queues, natural
sizes, the pool not negative) and `LoadAssumption` (what can be buffered at once
and the buffer fit a `uint32_t`): `TypeCorrect`, `AccountingExact`, `PoolSafe`,
`HeadroomSafe`, `NoStuckPause`, `NoDropBeforePause` and `FitsBuffer`. The inductive invariant
`IInv` is the conjunction of types, the three accounting equations, the two
bounds and the two facts on pauses. They need each other: a credit does not
wrap because the counters equal the load (`IngressExact`); the pool is not
overdrawn because the threshold is computed from it and charges stay under the
threshold (`PoolNotOverdrawn`, `SharedExact`); headroom keeps its bound because
a queue charged to headroom was paused and is resumed only when its headroom is
empty (`HeadroomOnlyWhenPaused`, proved and not run); and a queue whose load becomes
zero satisfies the RESUME test (`PausedHasPacket`).

`FitsBuffer` is about several ports with one lossless queue each. The bytes of a queue
are what it has in the reserve, in the pool and in headroom. The first and the last are at
most what was set aside for its port, and with one queue to a port this adds up to what
the pool leaves of the buffer (`PerPort`, `SumOfTwo`); the shares of the pool add up to
`shared_used_bytes`, which the pool bounds. With two queues to a port the first step
fails, and so does the property.

### The switch

`SwitchNode_proofs`, adding `NodeAssumption` and `PacketAssumption` (a packet is
neither a PFC frame nor an ACK): `NodeTypeCorrect` and `NodeMmuSafe`, the MMU's
invariants inside the switch. The switch is written with the MMU's own operations, so
these carry over without a further argument. A packet that is dequeued must
be one the MMU holds: in the model the step that takes it is enabled only then, and
`CountedWhereQueued` shows that it always is.

`NothingLeftIdle`, `CountedWhereQueued`, `UpstreamLearns` and `FramesInTurn` are about
the instants between two events, and hold there because of what holds inside an
event. `EventInv` says that for any stack of pending calls:

- `CallsShape`: a SwitchSend is the outermost call, and below the innermost only a
  SwitchSend and the TransmitStart of a packet wait. So at most one PFC frame is on
  the stack, and it is the innermost call.
- `QueuesInv`: a packet in a queue, or in a pending SwitchSend, is charged to that
  queue and is there once; a charged packet is in one of the two unless its link is
  down.
- `NothingMissed`: a device that could transmit and is in no pending call has nothing
  to transmit. The stack empties, and this becomes `NoIdleWithWork`.
- `UpstreamWillAgree`: the frame about to be transmitted, those queued and the one
  about to be queued, in this order, alternate from what the upstream knows to what
  the MMU believes. The MMU changes its belief and makes the call in the same
  step, and a call never overtakes a frame of its port. It holds of ports whose link
  is up: TakeDown drops frames, and what the upstream of a dead link knows no longer
  matters.

`RoundRobinFair` needs only the types: the turn of the queue just served is the last
of all, so being chosen again means that no other was eligible.

### A flow

`Transport_proofs`, from `FlowAssumption` and `ShortFlow` (flows below 4 GB):
`TypeCorrect` (all sequence numbers inside the flow, at most two completions),
`InOrderDelivery` (until its end time, if it has one, a flow is a `ReliableTransfer`,
under any loss, reordering and repetition of NACKs, with go-back-N and with
back-to-zero; a corollary, `EndlessDelivery`, is that a flow without an end time
implements `ReliableTransfer`) and `Alignment` (without back-to-zero, every sequence number is a
boundary between segments). `IInv` bounds what is under way by the flow; `TInv`
adds that neither `snd_una` nor any answer under way is ahead of what the receiver
will keep. With back-to-zero the receiver's expected byte does go back, so an answer
under way may name a byte it no longer has; what never goes back is the start of the
chunk it is in, to which the sender rounds an answer too (`Kept`, which does not fall
and which rounding again does not change: `KeptOf`, `KeptGrows`). `AInv` adds that
answers under way are aligned too.

`WindowNotExceeded` and `NoGhostFlow` need more of the network and are false without
it. `Orderly` says that packets do not overtake each other, that none outlasts
`m_nack_interval`, and that the mode is go-back-N with an ACK interval (with an
interval of 0 the sender ignores ACKs) and without an end time. That is the simulator
as long as routes do not change and queues are shorter than the interval; the run
`gbn_stale_nack` shows `WindowKept` violated when a NACK is repeated. The losses are
arbitrary. The invariant is `Fifo`: while the flow lasts, the two ends and the two
channels are `InStep`:

- `NoDuplicate`, `Resumed`: no segment under way is one the receiver has; when the one
  it waits for is under way, all that was sent behind it follows without a gap.
- `NackIsLast`: a NACK under way is for what the receiver waits for, nothing answers
  behind it, the NACK timer runs, and the segment it asks for is not under way.
- `NothingStale`: segments sent before the sender went back are under way only while no
  answer is and the receiver may not send a NACK.

Hence `snd_una` is never ahead of `snd_nxt` when a NACK has taken it back, the
subtraction does not wrap, and at completion nothing is under way.

### Congestion control

`Transport_proofs`, adding `ControlAssumption`: `RatesWithinBounds` (every controller's
rates between the minimum and the line rate, stages and alpha in range, DCTCP's batch
never empty, so that it never divides by zero), `StepsDoNotBuildUp` (the rate is one step from that the
round began with) and, of an `Orderly` network, `UpdatesOnce` and `ReducesOnce` (at most
one full update, and one reduction of DCTCP, per round trip). Every controlled step is
a step of `GoBackN`; the rest uses that proof's invariants for what a handler reads.

For the last two, `Marks` ties the round trip as it is (`old`, packets under way when
the round began) to the sequence number the code keeps of it: an old answer does not
acknowledge beyond `m_lastUpdateSeq` (or `m_highSeq`); an old segment ends below it, or
is beyond a gap, so that its answer will not acknowledge beyond it either; and answers
of the round come behind all of them. So an answer beyond the mark proves that the
round is over. After going back the mark is ahead of `snd_nxt`: the round only gets
longer.

`Dcqcn_proofs`, from `RateAssumption` and `TimerAssumption`: `TypeCorrect`,
`ConvergesFromBelow`, `TimersOnce`, `AlphaFirst` and `NoTimerOutlives`. The invariant
on the agenda is that each timer is in it at most once and that checks and updates
of alpha are an odd number of units apart: time jumps by the same amount for both,
and each is rescheduled by whole microseconds, so that they never meet. An even
minimum rate is assumed: halving an odd one, as RateIncEvent does, would fall
below it (the minimum of every configuration is even).

### A host's NIC

`RdmaNic_proofs`, from `NicAssumption`: `NicTypeCorrect`, `NicSendsWhatItMay` and
`NicIsWoken`. The strengthening `NicInv` is that a queue pair is at most once in the
group, that no segment waits longer than the gap of its rate, and that a packet to
answer is one of the counted upsets. `NicSendsWhatItMay` is about an index into a list
that shrinks while it is used: `Place` counts the queue pairs that stay up to an index,
`ClearedGroup` shows that the group without the finished ones holds each where `Place`
says, and so that the moved index still names the queue pair chosen, wherever the scan
began and whether it came round. For `NicIsWoken` a NIC that finds nothing to send has
looked at all of its group (`NoneMaySend`), and schedules `m_nextSend` for the earliest
`m_nextAvail` of those that wait for nothing else.

### The sketch

`MySketch_proofs`, from `SketchAssumption`: `ColumnsCounted`, `QueriesExact`,
`ActiveKnown` and `ThresholdFair`. The invariant has `Counting` (`m_cntB` of a place in the ring is the
number of columns last used in its subwindow, `m_card` that of all columns in sight),
`LastUse` (`m_B` of a column is the last subwindow a packet fell into it) and
`CountersFit`. A counter that is cleared late holds bytes nobody may see, so an
equation between counters and bytes sent does not hold of the state. What holds is
`Fits`: a counter is of one subwindow, that of its place in the ring; it equals the
bytes of its column while that subwindow is in sight; and the column has had none at
this place since. Touching a counter keeps that (`TouchNothing`, `TouchCounts`), and
after touching it a counter that is not 0 is in sight (`TouchedFresh`). As at most one
subwindow in sight is at each place of the ring (`OneInSight`), the sum over the ring
is that over the subwindows in sight. `ActiveKnown` follows from it: a row's counter is
at least what one flow of its column sent, and dividing by the time does not round to
zero because the window is not longer than `Second` (an assumption; in the code the
window is 30 microseconds, `network/utils/my-sketch.cc:32`).

`ThresholdFair` is about the algorithm. A bisection is right when what it probes holds
from some place on (`UpClosed`): then one probe loses nothing (`ProbeKeeps`) and the
search ends at the first place where it holds (`BinarySearchFinds`, by a shortest range
where it would not). That a flow exceeds an equal share of what the smaller ones leave
does hold from a place on (`ShareNext`): the next flow is at least as large, and taking
a flow that exceeds the share out leaves the others no more each. The last flow exceeds
it when the port is overloaded, so the code's -1 is never left. Flows of the same rate are on
the same side (`FairWhenOverloaded`): if the first beyond the threshold had the rate of
the one before it, that one would exceed its share too.

### Routing

`Routing_proofs`, from `RoutingAssumption` and, for `PacketsInOrder`,
`ConnectedAssumption` (hosts reach each other at the start; TakeDownLink has the same
as its guard), for every topology, hash, schedule of flows and number of links that go
down: `RoutingTypeCorrect`, `GroupsFollowRoutes`, `PacketsInOrder`, `TablesShortest`.

`GroupsFollowRoutes` needs that a flow that has not started is in no group, so that
AddQueuePair makes it one. The content of the tables plays no part in it.

The other two are about what the search computes. Its recursive function is that of a
loop, so what holds of it after every turn is proved by the first turn after which it
does not (`SearchKeeps`, `SearchFinds`), and needs no induction principle. `Searched`
says that each next hop recorded is a neighbour one link closer that may be gone
through, `Queued` and `Found` that the queue is in the order of distances, and that
every node of the queue has looked at just the nodes its turns so far have named.

- `PacketsInOrder` (the network implements `PacketNetwork`): distances fall along the
  next hops, so every channel has one way, which ends at its destination and does not
  come back (`Leads`; `Ahead` is the wires still to come, the least set that the routes do
  not leave). The invariant `InTransit` says of the packets sent since routes changed
  that they are on that way, and that of two of them the older is further on, or
  ahead on the same wire. What arrives has nothing ahead of it, so it is the oldest.
  Packets sent before the change are anywhere; they may be overtaken or lost.
- `TablesShortest` (`RoutesAreShortest`): at the end every node of the queue has
  looked at every neighbour, because the queue holds no node twice and is no longer than
  the number of nodes the loop makes turns for. So the search's distances grow by at most
  one over each link and are reached by links (`Reach`). Those `Distances` counts
  satisfy the same; the sets of nodes within k links agree for each k (`ListedOnce`),
  and no way is longer than there are nodes (`ReachIsShort`).

### Only model-checked

- `Recovers` of `gbn_modes` and of `dcqcn`, `Drains` and `Arrives`: liveness under
  fairness, which is out of the prover's reach.
- `EachTransfers` as the run states it, about three flows with their constants, none
  of which has an end time: `EndlessDelivery` proves the refinement for each.
- The properties of the violation runs, which do not hold.

## 5. Not modelled, and why

- `IntHeader`, `IntHop`: layout of packed counters. Only HPCC's computation of the
  utilisation reads them, which is a choice in `RateControl`. Whether a counter
  wraps more than once between two feedbacks depends on rates and round trips in
  real units.
- HPCC's utilisation, PINT's encoding, GetCard, Magic's estimate: floating point.
- The MyCC branch does not compile (see above); what it shares with HPCC is covered.
- The time a PAUSE takes against the headroom (`scratch/third.cc:836`), and pauses
  of a ring of switches that wait for each other: both need several switches with
  transmission times, beyond the size TLC can exhaust with packets in the buffers.
  `DropOnlyWhenPaused` and `Arrives` state what is shown instead.
- ECN marking and the writing of INT and PINT fields at departure: they change no
  state of the switch that a property reads. `EgressExact` says the counter that
  marking reads is right.
- `QbbRemoteChannel`, `CmSketch`, `CmSketchHp`, ReceiveCnp: the scenario never runs them.
- Reading configurations, monitors, traces, offline scripts, the vendored ns-3.

What could come next: a bound on how often round robin passes a queue pair over when
finished ones leave the group.
