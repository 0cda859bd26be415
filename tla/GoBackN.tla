------------------------------- MODULE GoBackN -------------------------------
(***************************************************************************)
(* The transport of one RDMA flow: a sending RdmaQueuePair in RdmaHw of    *)
(* one host, the RdmaRxQueuePair in RdmaHw of another, and the network     *)
(* between them.  The sender streams segments under a window, the receiver *)
(* takes them in order only, acknowledges what it has and answers a gap    *)
(* with one NACK, on which the sender goes back.  Nothing is retransmitted *)
(* on a timeout: there is none.                                            *)
(*                                                                         *)
(* The network loses packets (switch buffers, link errors, a link taken    *)
(* down) and lets them overtake each other only when routes change; how    *)
(* much of either happens is a constant.  The NIC's choice among queue     *)
(* pairs, rates and ECN feedback are in other modules: here the queue pair *)
(* may send whenever its window allows.                                    *)
(***************************************************************************)
EXTENDS Integers, Sequences

CONSTANTS
  Size,          \* m_size, the bytes of the flow
  Mtu,           \* m_mtu
  Chunk,         \* m_chunk
  AckInterval,   \* m_ack_interval
  BackToZero,    \* m_backto0
  Windows,       \* the values GetWin takes as the rate moves; 0 is no window
  SeqWord,       \* 2 ^ 32: sequence numbers travel as uint32_t
  CountWord,     \* 2 ^ 64: snd_nxt and snd_una are uint64_t
  HasEndTime,    \* AddQueuePair was given an endTime
  SlowNetwork,   \* a packet may be under way for longer than m_nack_interval
  Reroutes,      \* routes may change while packets are under way
  Losable,       \* the kinds of packets the network may lose
  MaxLosses,     \* bound: how many it loses
  InFlight       \* bound: packets under way in a direction

Kinds == {"data", "last", "ack", "final", "nack"}

ASSUME FlowAssumption ==
  /\ Size \in Nat \ {0}
  /\ Mtu \in Nat \ {0}
  /\ Chunk \in Nat
  /\ AckInterval \in Nat
  /\ BackToZero \in BOOLEAN
  /\ BackToZero => Chunk > 0
  /\ Windows \subseteq Nat /\ Windows # {}
  /\ SeqWord \in Nat \ {0}
  /\ CountWord \in Nat \ {0}
  /\ HasEndTime \in BOOLEAN
  /\ Losable \subseteq Kinds
  /\ MaxLosses \in Nat
  /\ InFlight \in Nat

(* Flows are shorter than 4 GB: the scenario reads their size as uint32_t. *)
ASSUME ShortFlow == Size < SeqWord

VARIABLES
  snd_nxt,      \* next byte to send
  snd_una,      \* first byte not known to be delivered
  in_group,     \* the queue pair is in its NIC's RdmaQueuePairGroup
  completions,  \* calls of QpComplete; the first takes it out of m_qpMap
  end_pending,  \* the event scheduled for endTime has not happened
  rxQp,         \* the receiver's queue pair, NoQp when there is none
  toRx,         \* data packets under way, oldest first
  toTx,         \* ACKs and NACKs under way, oldest first
  losses        \* packets lost so far

sender == <<snd_nxt, snd_una, in_group, completions, end_pending>>
vars == <<snd_nxt, snd_una, in_group, completions, end_pending, rxQp, toRx, toTx, losses>>

-----------------------------------------------------------------------------
Smaller(a, b) == IF a <= b THEN a ELSE b
Larger(a, b) == IF a >= b THEN a ELSE b
ChunkStart(seq) == (seq \div Chunk) * Chunk

Segments == [seq : 0 .. SeqWord - 1, len : 1 .. Mtu]
Answers == [kind : {"ack", "nack"}, seq : 0 .. SeqWord - 1]
RxQps == [expected : 0 .. SeqWord - 1,  \* ReceiverNextExpectedSeq
          lastNACK : 0 .. SeqWord - 1,  \* m_lastNACK
          nackHeld : BOOLEAN]           \* Now() < m_nackTimer
NoQp == [expected |-> -1, lastNACK |-> -1, nackHeld |-> FALSE]
NewRxQp == [expected |-> 0, lastNACK |-> 0, nackHeld |-> FALSE]

Remove(channel, i) == SubSeq(channel, 1, i - 1) \o SubSeq(channel, i + 1, Len(channel))
Arriving(channel) == {i \in 1 .. Len(channel) : Reroutes \/ i = 1}

GetBytesLeft == IF Size >= snd_nxt THEN Size - snd_nxt ELSE 0
GetOnTheFly == IF snd_nxt >= snd_una THEN snd_nxt - snd_una ELSE snd_nxt - snd_una + CountWord

(* Faulty variant: the segment that fills the window does not close it.    *)
IsWinBound_Late(w) == w # 0 /\ GetOnTheFly > w

IsWinBound(w) == w # 0 /\ GetOnTheFly >= w
IsFinished == snd_una >= Size
InQpMap == completions = 0

Init ==
  /\ snd_nxt = 0
  /\ snd_una = 0
  /\ in_group = TRUE
  /\ completions = 0
  /\ end_pending = HasEndTime
  /\ rxQp = NoQp
  /\ toRx = <<>>
  /\ toTx = <<>>
  /\ losses = 0

-----------------------------------------------------------------------------
(* The sender.                                                             *)
Eligible(w) == in_group /\ GetBytesLeft > 0 /\ ~IsWinBound(w)

GetNxtPacket ==
  LET payload_size == Smaller(Mtu, GetBytesLeft)
  IN  /\ toRx' = Append(toRx, [seq |-> snd_nxt % SeqWord, len |-> payload_size])
      /\ snd_nxt' = snd_nxt + payload_size

Send(w) ==
  /\ Eligible(w)
  /\ Len(toRx) < InFlight
  /\ GetNxtPacket
  /\ UNCHANGED <<snd_una, in_group, completions, end_pending, rxQp, toTx, losses>>

(* GetNextQindex takes a finished queue pair off the group when it finds   *)
(* it unable to send: nothing left, window closed or priority paused.      *)
ClearFinished ==
  /\ in_group /\ IsFinished
  /\ in_group' = FALSE
  /\ UNCHANGED <<snd_nxt, snd_una, completions, end_pending, rxQp, toRx, toTx, losses>>

(* QpComplete: the completion callback deletes the receiver's queue pair   *)
(* (qp_finish of the scenario), the sender's leaves m_qpMap.               *)
QpComplete ==
  /\ completions' = completions + 1
  /\ rxQp' = NoQp

(* The event AddQueuePair schedules for endTime.                           *)
EndTimeReached ==
  /\ end_pending
  /\ end_pending' = FALSE
  /\ QpComplete
  /\ UNCHANGED <<snd_nxt, snd_una, in_group, toRx, toTx, losses>>

(* Faulty variant: an ACK that was overtaken takes snd_una back.           *)
Acknowledge_Any(ack) == snd_una' = ack

Acknowledge(ack) == snd_una' = Larger(snd_una, ack)

(* With acknowledgements disabled the sender reports the ACK and ignores it. *)
TakeAck(seq) ==
  IF AckInterval = 0
  THEN UNCHANGED <<snd_una, completions, rxQp>>
  ELSE /\ Acknowledge(IF BackToZero THEN ChunkStart(seq) ELSE seq)
       /\ IF IsFinished' THEN QpComplete ELSE UNCHANGED <<completions, rxQp>>

(* RecoverQueue, which only a NACK calls.                                  *)
RecoverQueue(answer) == snd_nxt' = IF answer.kind = "nack" THEN snd_una' ELSE snd_nxt

ReceiveAck(i) ==
  /\ toTx' = Remove(toTx, i)
  /\ IF InQpMap
     THEN TakeAck(toTx[i].seq) /\ RecoverQueue(toTx[i])
     ELSE UNCHANGED <<snd_nxt, snd_una, completions, rxQp>>
  /\ UNCHANGED <<in_group, end_pending, toRx, losses>>

-----------------------------------------------------------------------------
(* The receiver.                                                           *)
GetRxQp == IF rxQp = NoQp THEN NewRxQp ELSE rxQp

(* Faulty variant: only whole chunks are acknowledged.                     *)
AckDue_ByChunk(expected) == Chunk > 0 /\ expected % Chunk = 0

(* The milestone is AckInterval again at every packet.  With Chunk = 0 the *)
(* code's second test divides by zero; here it does not hold.              *)
AckDue(expected) ==
  expected >= AckInterval \/ (Chunk > 0 /\ expected % Chunk = 0)

(* Faulty variant: acknowledges the last byte it has, not the one it wants. *)
InOrder_LastByte(q, segment) ==
  LET expected == (q.expected + segment.len) % SeqWord
  IN  /\ segment.seq = q.expected
      /\ rxQp' = [q EXCEPT !.expected = expected]
      /\ toTx' = Append(toTx, [kind |-> "ack", seq |-> expected - 1])

InOrder(q, segment) ==
  LET expected == (q.expected + segment.len) % SeqWord
  IN  /\ segment.seq = q.expected
      /\ rxQp' = [q EXCEPT !.expected = expected]
      /\ toTx' = IF AckDue(expected) THEN Append(toTx, [kind |-> "ack", seq |-> expected])
                 ELSE toTx

(* Faulty variant: every segment beyond a gap is answered.                 *)
MayNack_Always(q) == TRUE

MayNack(q) == ~q.nackHeld \/ q.lastNACK # q.expected

Gap(q, segment) ==
  LET resume_at == IF BackToZero THEN ChunkStart(q.expected) ELSE q.expected
  IN  /\ segment.seq > q.expected
      /\ IF MayNack(q)
         THEN /\ rxQp' = [expected |-> resume_at, lastNACK |-> q.expected, nackHeld |-> TRUE]
              /\ toTx' = Append(toTx, [kind |-> "nack", seq |-> resume_at])
         ELSE rxQp' = q /\ UNCHANGED toTx

Duplicate(q, segment) ==
  /\ segment.seq < q.expected
  /\ rxQp' = q
  /\ UNCHANGED toTx

(* Faulty variant: takes whatever comes next for what it expects.          *)
ReceiverCheckSeq_AnyNewer(q, segment) ==
  \/ InOrder([q EXCEPT !.expected = Larger(@, segment.seq)], segment)
  \/ Duplicate(q, segment)

ReceiverCheckSeq(q, segment) ==
  InOrder(q, segment) \/ Gap(q, segment) \/ Duplicate(q, segment)

ReceiveUdp(i) ==
  /\ Len(toTx) < InFlight
  /\ toRx' = Remove(toRx, i)
  /\ ReceiverCheckSeq(GetRxQp, toRx[i])
  /\ UNCHANGED <<sender, losses>>

(* m_nack_interval is over.                                                *)
NackTimerPasses ==
  /\ SlowNetwork
  /\ rxQp.nackHeld
  /\ rxQp' = [rxQp EXCEPT !.nackHeld = FALSE]
  /\ UNCHANGED <<sender, toRx, toTx, losses>>

-----------------------------------------------------------------------------
(* The network.                                                            *)
KindOf(segment) == IF segment.seq + segment.len = Size THEN "last" ELSE "data"
AnswerKindOf(answer) == IF answer.kind = "ack" /\ answer.seq = Size THEN "final" ELSE answer.kind

LoseData ==
  /\ toRx # <<>> /\ KindOf(Head(toRx)) \in Losable
  /\ losses < MaxLosses
  /\ losses' = losses + 1
  /\ toRx' = Tail(toRx)
  /\ UNCHANGED <<sender, rxQp, toTx>>

LoseAnswer ==
  /\ toTx # <<>> /\ AnswerKindOf(Head(toTx)) \in Losable
  /\ losses < MaxLosses
  /\ losses' = losses + 1
  /\ toTx' = Tail(toTx)
  /\ UNCHANGED <<sender, rxQp, toRx>>

Next ==
  \/ \E w \in Windows : Send(w)
  \/ ClearFinished
  \/ EndTimeReached
  \/ \E i \in Arriving(toTx) : ReceiveAck(i)
  \/ \E i \in Arriving(toRx) : ReceiveUdp(i)
  \/ NackTimerPasses
  \/ LoseData
  \/ LoseAnswer

Spec == Init /\ [][Next]_vars

Smallest == {w \in Windows : \A v \in Windows : w <= v}

(* The NIC serves an eligible queue pair in the end, and what the network  *)
(* does not lose arrives.  The window may stay at its smallest for ever.   *)
Fairness ==
  /\ \A w \in Smallest : WF_vars(Send(w))
  /\ WF_vars(\E i \in Arriving(toTx) : ReceiveAck(i))
  /\ WF_vars(\E i \in Arriving(toRx) : ReceiveUdp(i))

FairSpec == Spec /\ Fairness

-----------------------------------------------------------------------------
TypeOK ==
  /\ snd_nxt \in 0 .. Size
  /\ snd_una \in 0 .. Size
  /\ in_group \in BOOLEAN
  /\ completions \in 0 .. 2
  /\ end_pending \in BOOLEAN
  /\ rxQp \in RxQps \cup {NoQp}
  /\ toRx \in Seq(Segments)
  /\ toTx \in Seq(Answers)
  /\ losses \in 0 .. MaxLosses

(* Bytes delivered for good: going back to the start of a chunk, the       *)
(* receiver drops what it has of the chunk under way.                      *)
Delivered ==
  IF ~InQpMap THEN Size
  ELSE IF BackToZero THEN ChunkStart(GetRxQp.expected) ELSE GetRxQp.expected

(* A segment completes at most the chunk under way and what it holds.      *)
Piece == IF BackToZero THEN Chunk + Mtu ELSE Mtu

(* What a flow without an end time implements.                             *)
Transfer == INSTANCE ReliableTransfer
              WITH delivered <- Delivered, acked <- snd_una, finished <- ~InQpMap
ImplementsTransfer == Transfer!Spec

(* Whatever the network loses or reorders, and however late an answer is,  *)
(* until the end-time event comes, if the flow has one, the flow is        *)
(* delivered in order and without a gap, snd_una is never ahead of the     *)
(* receiver and the flow is reported finished once and only when all of it *)
(* arrived.                                                                *)
NotEnded == end_pending = HasEndTime
TransfersUntilEnd ==
  /\ Transfer!Init
  /\ [][NotEnded' => Transfer!Next \/ UNCHANGED Transfer!vars]_vars

(* However often the sender goes back, it cuts the flow at the same bytes: *)
(* a segment cut elsewhere would never start where the receiver waits.     *)
Cut(seq) == seq = Size \/ \E n \in 0 .. Size : seq = n * Mtu
SegmentsAligned ==
  /\ Cut(snd_nxt) /\ Cut(snd_una) /\ Cut(GetRxQp.expected)
  /\ \A i \in 1 .. Len(toRx) : Cut(toRx[i].seq) /\ Cut(toRx[i].seq + toRx[i].len)

(* The bytes on the fly stay under the largest window but for the segment  *)
(* that reaches it: "m_win; // bound of on-the-fly packets" says           *)
(* rdma-queue-pair.h.  The difference GetOnTheFly takes is unsigned.       *)
WindowKept == 0 \in Windows \/ \E w \in Windows : GetOnTheFly < w + Mtu

(* QpComplete deletes both queue pairs.  No segment of the flow is still   *)
(* under way, which the receiver would take for the start of a new flow.   *)
QuietAfterCompletion == InQpMap \/ (toRx = <<>> /\ rxQp = NoQp)

(* The flow completes.                                                     *)
Completes == <>~InQpMap
=============================================================================
