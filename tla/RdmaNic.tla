------------------------------- MODULE RdmaNic -------------------------------
(***************************************************************************)
(* The host side of a QbbNetDevice: its RdmaEgressQueue, which chooses     *)
(* among the queue pairs of a group, and the pacing of each queue pair by  *)
(* m_nextAvail.  A NIC that has nothing to send sleeps until the event     *)
(* m_nextSend, an ACK, a RESUME, a new queue pair or the end of a          *)
(* transmission wakes it.                                                  *)
(*                                                                         *)
(* Times are relative to now: wait[qp] is m_nextAvail - Now().  Flows are  *)
(* counted in segments; module GoBackN has what a queue pair and its       *)
(* receiver do with them, here ACKs and NACKs are the environment's.       *)
(***************************************************************************)
EXTENDS Integers, Sequences, FiniteSets

CONSTANTS
  Qps,        \* the queue pairs that may be started
  Pg,         \* Pg[qp]: m_pg, its priority
  AckPg,      \* ack_q_idx, the priority of the queue of ACKs
  Size,       \* Size[qp]: m_size, in segments
  Win,        \* Win[g]: GetWin in segments at the rate of gap g; 0 is no window
  Gaps,       \* the times UpdateNextAvail leaves between segments as the rate moves
  LineGap,    \* the time at line rate, which is also the time to transmit
  MaxUpsets   \* bound: PAUSEs, NACKs and segments to answer that arrive

Priorities == {Pg[qp] : qp \in Qps} \cup {AckPg}
MaxGap == CHOOSE g \in Gaps : \A h \in Gaps : h <= g

ASSUME NicAssumption ==
  /\ IsFiniteSet(Qps)
  /\ Size \in [Qps -> Nat \ {0}]
  /\ Win \in [Gaps -> Nat]
  /\ LineGap \in Gaps
  /\ Gaps \subseteq Nat \ {0}
  /\ IsFiniteSet(Gaps)
  /\ \A g \in Gaps : LineGap <= g
  /\ MaxUpsets \in Nat

VARIABLES
  group,    \* m_qpGrp: the queue pairs of the NIC, in order
  joined,   \* the queue pairs started so far
  nxt,      \* nxt[qp]: snd_nxt
  una,      \* una[qp]: snd_una
  wait,     \* wait[qp]: time until m_nextAvail, negative once it has passed
  gap,      \* gap[qp]: time between two segments at m_rate
  rrlast,   \* m_rrlast of the RdmaEgressQueue
  held,     \* held[pg]: m_paused
  acks,     \* packets in m_ackQ
  tx,       \* time until TransmitComplete, None when READY
  sleep,    \* time until m_nextSend, None when it is expired
  calling,  \* the running event has still to call DequeueAndTransmit
  upsets    \* PAUSEs, NACKs and segments to answer so far

flows == <<nxt, una, wait, gap>>
vars == <<group, joined, nxt, una, wait, gap, rrlast, held, acks, tx, sleep, calling,
          upsets>>

None == -1

Init ==
  /\ group = <<>>
  /\ joined = {}
  /\ nxt = [qp \in Qps |-> 0]
  /\ una = [qp \in Qps |-> 0]
  /\ wait = [qp \in Qps |-> 0]
  /\ gap = [qp \in Qps |-> LineGap]
  /\ rrlast = 0
  /\ held = [pg \in Priorities |-> FALSE]
  /\ acks = 0
  /\ tx = None
  /\ sleep = None
  /\ calling = FALSE
  /\ upsets = 0

-----------------------------------------------------------------------------
(* RdmaEgressQueue.                                                        *)
HasBytes(qp) == nxt[qp] < Size[qp]
IsFinished(qp) == una[qp] >= Size[qp]
IsWinBound(qp) == Win[gap[qp]] # 0 /\ nxt[qp] - una[qp] >= Win[gap[qp]]
MaySend(qp) == ~held[Pg[qp]] /\ HasBytes(qp) /\ ~IsWinBound(qp)

(* Positions in the order GetNextQindex tries them, and the first it takes. *)
Position(turn) == ((turn + rrlast) % Len(group)) + 1
Turns == 1 .. Len(group)
Takes(turn) == MaySend(group[Position(turn)]) /\ wait[group[Position(turn)]] <= 0
Tried == {turn \in Turns : \A t \in 1 .. turn - 1 : ~Takes(t)}
Taken == {Position(turn) : turn \in {t \in Tried : Takes(t)}}

(* The finished queue pairs it came by.  From the first of them, by        *)
(* position, on every finished queue pair leaves the group.                *)
SeenFinished == {Position(turn) : turn \in {t \in Tried :
                    /\ ~MaySend(group[Position(t)])
                    /\ IsFinished(group[Position(t)])}}

(* The positions that stay, where each of them goes, and what is left.     *)
Stays == {i \in Turns : ~(IsFinished(group[i]) /\ \E j \in SeenFinished : j <= i)}
Place(stay, i) == Cardinality({j \in stay : j <= i})
Cleared ==
  LET stay == Stays
  IN  [k \in 1 .. Cardinality(stay) |-> group[CHOOSE i \in stay : Place(stay, i) = k]]

(* Faulty variant: the index is not moved with the queue pair.             *)
Moved_Not(res) == IF res > Len(Cleared) THEN Len(Cleared) ELSE res

(* The index chosen, moved with its queue pair.                            *)
Moved(res) == Place(Stays, res)

-----------------------------------------------------------------------------
(* DequeueAndTransmit, which ends every event that calls it.               *)
AckReady == ~held[AckPg] /\ acks > 0

TransmitAck ==
  /\ calling /\ AckReady
  /\ acks' = acks - 1
  /\ tx' = LineGap
  /\ calling' = FALSE
  /\ UNCHANGED <<group, joined, flows, rrlast, held, sleep, upsets>>

(* DequeueQindex, TransmitStart, and UpdateNextAvail by way of PktSent.    *)
TransmitSegment ==
  /\ calling /\ ~AckReady
  /\ \E res \in Taken :
       LET qp == Cleared[Moved(res)]
       IN  /\ rrlast' = Moved(res) - 1
           /\ nxt' = [nxt EXCEPT ![qp] = @ + 1]
           /\ wait' = [wait EXCEPT ![qp] = gap[qp]]
  /\ group' = Cleared
  /\ tx' = LineGap
  /\ calling' = FALSE
  /\ UNCHANGED <<joined, una, gap, held, acks, sleep, upsets>>

(* Faulty variant: queue pairs with nothing left to send count as well.    *)
Wakers_All == {group[i] : i \in Stays}

(* The queue pairs whose m_nextAvail the NIC considers waking up for.      *)
Wakers == {group[i] : i \in {n \in Stays : HasBytes(group[n])}}
Earliest ==
  LET wakers == Wakers
  IN  {wait[qp] : qp \in {w \in wakers : \A v \in wakers : wait[w] <= wait[v]}}

(* Nothing to send: m_nextSend is scheduled unless it already is.          *)
TransmitNothing ==
  /\ calling /\ ~AckReady /\ Taken = {}
  /\ group' = Cleared
  /\ sleep' \in IF sleep = None /\ \E t \in Earliest : t > 0 THEN Earliest ELSE {sleep}
  /\ calling' = FALSE
  /\ UNCHANGED <<joined, flows, rrlast, held, acks, tx, upsets>>

-----------------------------------------------------------------------------
(* The events.                                                             *)
Idle == ~calling

(* The event ends with DequeueAndTransmit, which returns at once when BUSY. *)
Waking == calling' = (tx = None)

NewQp(qp) ==
  /\ Idle /\ qp \notin joined
  /\ joined' = joined \cup {qp}
  /\ group' = Append(group, qp)
  /\ wait' = [wait EXCEPT ![qp] = 0]
  /\ Waking
  /\ UNCHANGED <<nxt, una, gap, rrlast, held, acks, tx, sleep, upsets>>

(* Changes of the rate move m_nextAvail by no more than MaxGap - LineGap: a *)
(* time further in the past than that stays in the past.                   *)
Past(t) == IF t < LineGap - MaxGap THEN LineGap - MaxGap ELSE t
Future(t) == IF t < 0 THEN 0 ELSE t

(* RdmaHw's ChangeRate and the device's UpdateNextAvail: the time the last *)
(* segment still costs follows the rate, and m_nextSend moves forward.     *)
ChangeRate(qp, g) ==
  /\ gap' = [gap EXCEPT ![qp] = g]
  /\ wait' = [wait EXCEPT ![qp] = Past(@ + g - gap[qp])]
  /\ sleep' = IF sleep # None /\ wait'[qp] < sleep THEN Future(wait'[qp]) ELSE sleep

(* Faulty variant: it goes back before the NACK is taken as an ACK.        *)
Recovered_First(qp) == una[qp]

(* Where RecoverQueue takes snd_nxt.                                       *)
Recovered(qp) == una'[qp]

(* ReceiveAck of an ACK or NACK for some of what is under way.  The        *)
(* congestion controller may change the rate.                              *)
ReceiveAck(qp, ack, isNack, g) ==
  /\ Idle /\ qp \in joined
  /\ una[qp] < nxt[qp]
  /\ isNack => upsets < MaxUpsets /\ ack < nxt[qp]
  /\ ~isNack => ack > una[qp]
  /\ una' = [una EXCEPT ![qp] = ack]
  /\ nxt' = IF isNack THEN [nxt EXCEPT ![qp] = Recovered(qp)] ELSE nxt
  /\ upsets' = IF isNack THEN upsets + 1 ELSE upsets
  /\ ChangeRate(qp, g)
  /\ Waking
  /\ UNCHANGED <<group, joined, rrlast, held, acks, tx>>

(* ReceiveUdp of a segment that is answered.                               *)
ReceiveUdp ==
  /\ Idle /\ upsets < MaxUpsets
  /\ acks' = acks + 1
  /\ upsets' = upsets + 1
  /\ Waking
  /\ UNCHANGED <<group, joined, flows, rrlast, held, tx, sleep>>

ReceivePause(pg) ==
  /\ Idle /\ upsets < MaxUpsets
  /\ ~held[pg]
  /\ held' = [held EXCEPT ![pg] = TRUE]
  /\ upsets' = upsets + 1
  /\ UNCHANGED <<group, joined, flows, rrlast, acks, tx, sleep, calling>>

(* Faulty variant: the device is not restarted.                            *)
Resume_Quiet(pg) ==
  /\ Idle /\ held[pg]
  /\ held' = [held EXCEPT ![pg] = FALSE]
  /\ UNCHANGED <<group, joined, flows, rrlast, acks, tx, sleep, calling, upsets>>

Resume(pg) ==
  /\ Idle /\ held[pg]
  /\ held' = [held EXCEPT ![pg] = FALSE]
  /\ Waking
  /\ UNCHANGED <<group, joined, flows, rrlast, acks, tx, sleep, upsets>>

TransmitComplete ==
  /\ Idle /\ tx = 0
  /\ tx' = None
  /\ calling' = TRUE
  /\ UNCHANGED <<group, joined, flows, rrlast, held, acks, sleep, upsets>>

NextSend ==
  /\ Idle /\ sleep = 0
  /\ sleep' = None
  /\ Waking
  /\ UNCHANGED <<group, joined, flows, rrlast, held, acks, tx, upsets>>

Running(qp) == qp \in joined /\ ~IsFinished(qp)

(* Time goes on to the next event that is due.                             *)
Tick ==
  /\ Idle /\ tx # 0 /\ sleep # 0
  /\ tx' = IF tx > 0 THEN tx - 1 ELSE tx
  /\ sleep' = IF sleep > 0 THEN sleep - 1 ELSE sleep
  /\ wait' = [qp \in Qps |-> IF Running(qp) THEN Past(wait[qp] - 1) ELSE wait[qp]]
  /\ UNCHANGED <<group, joined, nxt, una, gap, rrlast, held, acks, calling, upsets>>

Next ==
  \/ TransmitAck
  \/ TransmitSegment
  \/ TransmitNothing
  \/ \E qp \in Qps : NewQp(qp)
  \/ \E qp \in Qps, isNack \in BOOLEAN, g \in Gaps :
       \E ack \in una[qp] .. nxt[qp] : ReceiveAck(qp, ack, isNack, g)
  \/ ReceiveUdp
  \/ \E pg \in Priorities : ReceivePause(pg) \/ Resume(pg)
  \/ TransmitComplete
  \/ NextSend
  \/ Tick

Spec == Init /\ [][Next]_vars

(* The simulator runs the events that are scheduled and time passes; a     *)
(* PAUSE ends and what is under way is acknowledged, in the end.  There    *)
(* are finitely many PAUSEs and segments, so that no priority and no queue *)
(* pair is passed over for ever.                                           *)
Scheduled == TransmitAck \/ TransmitSegment \/ TransmitNothing
               \/ TransmitComplete \/ NextSend \/ Tick
Answered ==
  \/ \E pg \in Priorities : Resume(pg)
  \/ \E qp \in Qps, g \in Gaps : \E ack \in 1 .. nxt[qp] : ReceiveAck(qp, ack, FALSE, g)

Fairness == WF_vars(Scheduled) /\ WF_vars(Answered)

FairSpec == Spec /\ Fairness

-----------------------------------------------------------------------------
TypeOK ==
  /\ group \in Seq(Qps)
  /\ joined \subseteq Qps
  /\ nxt \in [Qps -> Nat]
  /\ una \in [Qps -> Nat]
  /\ \A qp \in Qps : una[qp] <= nxt[qp] /\ nxt[qp] <= Size[qp]
  /\ wait \in [Qps -> LineGap - MaxGap .. MaxGap]
  /\ gap \in [Qps -> Gaps]
  /\ rrlast \in 0 .. Cardinality(Qps)
  /\ held \in [Priorities -> BOOLEAN]
  /\ acks \in 0 .. MaxUpsets
  /\ tx \in None .. LineGap
  /\ sleep \in None .. MaxGap
  /\ calling \in BOOLEAN
  /\ upsets \in 0 .. MaxUpsets

InGroup == {group[i] : i \in 1 .. Len(group)}

(* The segment sent is of a queue pair that may send: not of the one that  *)
(* has moved to the index of the one chosen.                               *)
SendsWhatItMay ==
  [][\A qp \in Qps : nxt'[qp] > nxt[qp] => MaySend(qp) /\ wait[qp] <= 0]_vars

Awake == Idle /\ tx = None

(* A NIC that is not transmitting although a queue pair has segments and   *)
(* may send them, now or later, is going to wake up, or waits for the ACK  *)
(* or RESUME that another queue pair needs.                                *)
SomethingWillWake ==
  Awake /\ (\E qp \in InGroup : MaySend(qp)) =>
    \/ sleep # None
    \/ \E qp \in InGroup : HasBytes(qp) /\ ~MaySend(qp)

(* If ACKs and RESUMEs arrive in the end, every flow is sent: again and    *)
(* again a time comes when all that were started are finished.             *)
AllDone == \A qp \in joined : IsFinished(qp)
Drains == []<>AllDone
=============================================================================
