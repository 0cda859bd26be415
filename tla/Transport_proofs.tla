-------------------------- MODULE Transport_proofs --------------------------
(***************************************************************************)
(* The theorems of GoBackN, for every flow, window, loss and reordering,   *)
(* and of RateControl, which extends it, for every controller, rate and    *)
(* threshold: what a controller reads of the flow is typed by GoBackN's    *)
(* invariant, and when it updates rests on the order GoBackN keeps.        *)
(***************************************************************************)
EXTENDS RateControl, Arithmetic_proofs

-----------------------------------------------------------------------------
(* GoBackN.                                                                *)
LEMMA OnTheWire == \A n \in 0 .. Size : n % SeqWord = n
  BY FlowAssumption, ShortFlow

LEMMA ChunkStartBound ==
  ASSUME Chunk > 0, NEW n \in Nat PROVE ChunkStart(n) \in 0 .. n
  BY FlowAssumption DEF ChunkStart

(* What the receiver keeps of n bytes when there is a gap behind them.     *)
Kept(n) == IF BackToZero THEN ChunkStart(n) ELSE n

LEMMA KeptOf ==
  ASSUME NEW n \in Nat
  PROVE  Kept(n) \in 0 .. n /\ Kept(Kept(n)) = Kept(n) /\ n - Kept(n) <= (IF BackToZero THEN Chunk - 1 ELSE 0)
<1>1. CASE ~BackToZero
  BY <1>1 DEF Kept
<1>2. CASE BackToZero
  <2>1. PICK c \in Nat \ {0} : c = Chunk
    BY <1>2, FlowAssumption
  <2>2. PICK q \in Int, m \in 0 .. c - 1 : n \div c = q /\ n = c * q + m
    <3>1. n \in Int
      OBVIOUS
    <3>. QED BY <3>1, DivMod
  <2>3. PICK a \in Int : a = c * q /\ q * c = a
    OBVIOUS
  <2>4. Kept(n) = a
    BY <1>2, <2>1, <2>2, <2>3 DEF Kept, ChunkStart
  <2>5. a \in 0 .. n
    <3>1. q < 0 => c * (q + 1) <= 0
      OBVIOUS
    <3>2. c * (q + 1) = a + c
      BY <2>3
    <3>3. q < 0 => a + c <= 0
      BY <3>1, <3>2
    <3>4. q >= 0 => c * q >= 0
      OBVIOUS
    <3>. QED BY <2>2, <2>3, <3>3, <3>4
  <2>6. PICK p \in Int, l \in 0 .. c - 1 : a \div c = p /\ a = c * p + l /\ a % c = l
    BY DivMod
  <2>7. l = 0
    <3>1. 0 \in Int /\ 0 \in 0 .. c - 1
      OBVIOUS
    <3>2. (c * q + 0) % c = 0
      BY <3>1, ResidueOf
    <3>3. c * q + 0 = a
      BY <2>3
    <3>. QED BY <2>6, <3>2, <3>3
  <2>8. p * c = a
    <3>1. p * c = c * p /\ c * p \in Int
      OBVIOUS
    <3>. QED BY <2>6, <2>7, <3>1
  <2>9. Kept(a) = a
    BY <1>2, <2>1, <2>6, <2>8 DEF Kept, ChunkStart
  <2>. QED BY <1>2, <2>1, <2>2, <2>3, <2>4, <2>5, <2>9
<1>. QED BY <1>1, <1>2

LEMMA KeptGrows ==
  ASSUME NEW m \in Nat, NEW n \in Nat, m <= n PROVE Kept(m) <= Kept(n)
<1>1. CASE ~BackToZero
  BY <1>1 DEF Kept
<1>2. CASE BackToZero
  <2>1. PICK c \in Nat \ {0} : c = Chunk
    BY <1>2, FlowAssumption
  <2>2. PICK p \in Int, l \in 0 .. c - 1 : m \div c = p /\ m = c * p + l
    BY DivMod
  <2>3. PICK q \in Int, k \in 0 .. c - 1 : n \div c = q /\ n = c * q + k
    BY DivMod
  <2>4. Kept(m) = p * c /\ Kept(n) = q * c
    BY <1>2, <2>1, <2>2, <2>3 DEF Kept, ChunkStart
  <2>5. p <= q
    <3>. SUFFICES ASSUME q + 1 <= p PROVE FALSE
      OBVIOUS
    <3>1. PICK d \in Nat : p = q + 1 + d
      <4>1. p - q - 1 \in Nat /\ p = q + 1 + (p - q - 1)
        OBVIOUS
      <4>. QED BY <4>1
    <3>2. c * p = c * q + c + c * d /\ c * d \in Nat /\ c * q \in Int
      BY <3>1
    <3>. QED BY <2>2, <2>3, <3>2
  <2>6. PICK d \in Nat : q = p + d
    <3>1. q - p \in Nat /\ q = p + (q - p)
      BY <2>5
    <3>. QED BY <3>1
  <2>7. q * c = p * c + d * c /\ d * c \in Nat /\ p * c \in Int
    BY <2>6
  <2>. QED BY <2>4, <2>7
<1>. QED BY <1>1, <1>2

LEMMA NextCut ==
  ASSUME NEW n \in 0 .. Size, n < Size, Cut(n)
  PROVE  Cut(n + Smaller(Mtu, Size - n))
<1>1. CASE Size - n <= Mtu
  BY <1>1, FlowAssumption DEF Cut, Smaller
<1>2. CASE ~(Size - n <= Mtu)
  <2>1. PICK k \in 0 .. Size : n = k * Mtu
    BY DEF Cut
  <2>2. n + Smaller(Mtu, Size - n) = (k + 1) * Mtu
    BY <1>2, <2>1, FlowAssumption DEF Smaller
  <2>3. k + 1 \in 0 .. Size
    <3>1. k <= k * Mtu
      BY FlowAssumption
    <3>. QED BY <2>1, <3>1, FlowAssumption
  <2>. QED BY <2>2, <2>3 DEF Cut
<1>. QED BY <1>1, <1>2

LEMMA RemoveKeeps ==
  ASSUME NEW S, NEW s \in Seq(S), NEW i \in 1 .. Len(s)
  PROVE  /\ Remove(s, i) \in Seq(S)
         /\ \A j \in 1 .. Len(Remove(s, i)) : \E k \in 1 .. Len(s) : Remove(s, i)[j] = s[k]
<1>. DEFINE before == SubSeq(s, 1, i - 1)
            after == SubSeq(s, i + 1, Len(s))
<1>1. before \in Seq(S) /\ Len(before) = i - 1 /\ \A j \in 1 .. i - 1 : before[j] = s[j]
  OBVIOUS
<1>2. after \in Seq(S) /\ Len(after) = Len(s) - i
        /\ \A j \in 1 .. Len(s) - i : after[j] = s[i + j]
  OBVIOUS
<1>3. Remove(s, i) = before \o after
  BY DEF Remove
<1>. HIDE DEF before, after
<1>4. Remove(s, i) \in Seq(S) /\ Len(Remove(s, i)) = Len(s) - 1
  BY <1>1, <1>2, <1>3
<1>5. ASSUME NEW j \in 1 .. Len(Remove(s, i))
      PROVE  \E k \in 1 .. Len(s) : Remove(s, i)[j] = s[k]
  <2>1. CASE j <= i - 1
    <3>1. Remove(s, i)[j] = s[j]
      BY <1>1, <1>2, <1>3, <2>1
    <3>. QED BY <3>1, <1>4
  <2>2. CASE j > i - 1
    <3>1. Remove(s, i)[j] = after[j - (i - 1)]
      BY <1>1, <1>2, <1>3, <1>4, <2>2
    <3>2. j - (i - 1) \in 1 .. Len(s) - i
      BY <1>4, <2>2
    <3>3. after[j - (i - 1)] = s[i + (j - (i - 1))]
      BY <1>2, <3>2
    <3>4. i + (j - (i - 1)) \in 1 .. Len(s)
      BY <1>4, <2>2
    <3>. QED BY <3>1, <3>3, <3>4
  <2>. QED BY <2>1, <2>2
<1>. QED BY <1>4, <1>5

LEMMA AppendKeeps ==
  ASSUME NEW S, NEW s \in Seq(S), NEW e \in S
  PROVE  /\ Append(s, e) \in Seq(S)
         /\ \A j \in 1 .. Len(Append(s, e)) :
              Append(s, e)[j] = e \/ \E k \in 1 .. Len(s) : Append(s, e)[j] = s[k]
  OBVIOUS

LEMMA TailKeeps ==
  ASSUME NEW S, NEW s \in Seq(S), s # <<>>
  PROVE  /\ Tail(s) \in Seq(S)
         /\ \A j \in 1 .. Len(Tail(s)) : \E k \in 1 .. Len(s) : Tail(s)[j] = s[k]
  OBVIOUS

-----------------------------------------------------------------------------
(* Nothing under way, and nothing the receiver waits for, is beyond the    *)
(* end of the flow.                                                        *)
RxInside == GetRxQp.expected <= Size
SegmentsInside == \A i \in 1 .. Len(toRx) : toRx[i].seq + toRx[i].len <= Size
AnswersInside == \A i \in 1 .. Len(toTx) : toTx[i].seq <= Size
OnceBeforeEnd == end_pending => completions <= 1
IInv == TypeOK /\ RxInside /\ SegmentsInside /\ AnswersInside /\ OnceBeforeEnd

LEMMA InitIInv == Init => IInv
  BY FlowAssumption, ShortFlow DEF Init, IInv, TypeOK, RxInside, SegmentsInside, AnswersInside,
     OnceBeforeEnd, GetRxQp, NewRxQp, NoQp, RxQps, Segments, Answers

LEMMA RxQpType == TypeOK => GetRxQp \in RxQps
  BY ShortFlow, FlowAssumption DEF TypeOK, GetRxQp, NewRxQp, RxQps

LEMMA SendKeeps ==
  ASSUME IInv, NEW w \in Windows, Send(w) PROVE IInv'
<1>. DEFINE segment == [seq |-> snd_nxt % SeqWord, len |-> Smaller(Mtu, GetBytesLeft)]
<1>1. snd_nxt < Size /\ GetBytesLeft = Size - snd_nxt
  BY FlowAssumption DEF IInv, TypeOK, Send, Eligible, GetBytesLeft
<1>2. snd_nxt % SeqWord = snd_nxt
  BY OnTheWire DEF IInv, TypeOK
<1>3. segment \in Segments /\ segment.seq + segment.len <= Size
  BY <1>1, <1>2, FlowAssumption, ShortFlow DEF IInv, TypeOK, Segments, Smaller
<1>4. toRx' = Append(toRx, segment) /\ snd_nxt' = snd_nxt + segment.len
  BY DEF Send, GetNxtPacket
<1>5. /\ toRx' \in Seq(Segments)
      /\ \A j \in 1 .. Len(toRx') : toRx'[j] = segment \/ \E k \in 1 .. Len(toRx) : toRx'[j] = toRx[k]
  BY <1>3, <1>4, AppendKeeps DEF IInv, TypeOK
<1>6. snd_nxt' \in 0 .. Size
  BY <1>1, <1>2, <1>3, <1>4 DEF IInv, TypeOK, Segments
<1>7. TypeOK'
  BY <1>5, <1>6 DEF IInv, TypeOK, Send
<1>8. SegmentsInside'
  BY <1>3, <1>5 DEF IInv, SegmentsInside
<1>. QED BY <1>7, <1>8 DEF IInv, Send, RxInside, GetRxQp, AnswersInside, OnceBeforeEnd

LEMMA ClearFinishedKeeps ==
  ASSUME IInv, ClearFinished PROVE IInv'
  BY DEF IInv, TypeOK, ClearFinished, RxInside, GetRxQp, SegmentsInside, AnswersInside, OnceBeforeEnd

LEMMA EndTimeKeeps ==
  ASSUME IInv, EndTimeReached PROVE IInv'
<1>1. completions' \in 0 .. 2
  BY DEF IInv, TypeOK, OnceBeforeEnd, EndTimeReached, QpComplete
<1>3. TypeOK'
  BY <1>1 DEF IInv, TypeOK, EndTimeReached, QpComplete
<1>2. RxInside'
  BY FlowAssumption DEF EndTimeReached, QpComplete, RxInside, GetRxQp, NewRxQp
<1>. QED BY <1>2, <1>3 DEF IInv, EndTimeReached, SegmentsInside, AnswersInside, OnceBeforeEnd

LEMMA ReceiveAckKeeps ==
  ASSUME IInv, NEW i \in Arriving(toTx), ReceiveAck(i) PROVE IInv'
<1>1. i \in 1 .. Len(toTx) /\ toTx[i] \in Answers /\ toTx[i].seq \in 0 .. Size
  <2>1. i \in 1 .. Len(toTx) /\ toTx[i] \in Answers
    BY DEF IInv, TypeOK, Arriving
  <2>2. toTx[i].seq \in 0 .. SeqWord - 1 /\ toTx[i].seq <= Size
    BY <2>1 DEF IInv, AnswersInside, Answers
  <2>. QED BY <2>1, <2>2, FlowAssumption
<1>2. /\ toTx' \in Seq(Answers)
      /\ \A j \in 1 .. Len(toTx') : \E k \in 1 .. Len(toTx) : toTx'[j] = toTx[k]
  BY <1>1, RemoveKeeps DEF IInv, TypeOK, ReceiveAck
<1>3. AnswersInside'
  BY <1>2 DEF IInv, AnswersInside
<1>4. CASE InQpMap
  <2>1. BackToZero => ChunkStart(toTx[i].seq) \in 0 .. Size
    <3>1. SUFFICES ASSUME BackToZero PROVE ChunkStart(toTx[i].seq) \in 0 .. Size
      OBVIOUS
    <3>2. toTx[i].seq \in Nat /\ Chunk > 0
      BY <1>1, <3>1, FlowAssumption
    <3>3. ChunkStart(toTx[i].seq) \in 0 .. toTx[i].seq
      BY <3>2, ChunkStartBound
    <3>. QED BY <1>1, <3>3, FlowAssumption
  <2>2. snd_una' \in 0 .. Size
    BY <1>1, <1>4, <2>1, FlowAssumption DEF IInv, TypeOK, ReceiveAck, TakeAck, Acknowledge, Larger
  <2>3. snd_nxt' \in 0 .. Size
    BY <1>4, <2>2 DEF IInv, TypeOK, ReceiveAck, RecoverQueue
  <2>4. completions' \in 0 .. 1 /\ (rxQp' = rxQp \/ rxQp' = NoQp)
    BY <1>4 DEF InQpMap, ReceiveAck, TakeAck, QpComplete
  <2>5. TypeOK'
    BY <1>2, <2>2, <2>3, <2>4 DEF IInv, TypeOK, ReceiveAck
  <2>6. RxInside'
    BY <2>4, FlowAssumption DEF IInv, RxInside, GetRxQp, NewRxQp, NoQp
  <2>. QED BY <1>3, <2>4, <2>5, <2>6 DEF IInv, ReceiveAck, SegmentsInside, OnceBeforeEnd
<1>5. CASE ~InQpMap
  BY <1>2, <1>3, <1>5 DEF IInv, TypeOK, ReceiveAck, RxInside, GetRxQp, SegmentsInside, OnceBeforeEnd
<1>. QED BY <1>4, <1>5

(* What ReceiverCheckSeq does to the receiver and which answer it sends.   *)
LEMMA CheckSeqKeeps ==
  ASSUME IInv, NEW segment \in Segments, segment.seq + segment.len <= Size,
         ReceiverCheckSeq(GetRxQp, segment)
  PROVE  /\ rxQp' \in RxQps /\ rxQp'.expected <= Size
         /\ \/ toTx' = toTx
            \/ \E answer \in Answers : toTx' = Append(toTx, answer) /\ answer.seq = rxQp'.expected
<1>1. GetRxQp \in RxQps /\ GetRxQp.expected <= Size /\ GetRxQp.expected \in Nat
  BY RxQpType DEF IInv, RxInside, RxQps
<1>2. CASE InOrder(GetRxQp, segment)
  <2>. DEFINE expected == (GetRxQp.expected + segment.len) % SeqWord
  <2>1. expected = GetRxQp.expected + segment.len
    BY <1>1, <1>2, OnTheWire DEF InOrder, Segments
  <2>3. rxQp' = [GetRxQp EXCEPT !.expected = expected]
    BY <1>2 DEF InOrder
  <2>. HIDE DEF expected
  <2>6. segment.seq = GetRxQp.expected
    BY <1>2 DEF InOrder
  <2>2. expected \in 0 .. Size /\ expected \in 0 .. SeqWord - 1
    BY <1>1, <2>1, <2>6, ShortFlow, FlowAssumption DEF Segments
  <2>4. rxQp' \in RxQps /\ rxQp'.expected = expected
    BY <1>1, <2>2, <2>3 DEF RxQps
  <2>5. [kind |-> "ack", seq |-> expected] \in Answers
    BY <2>2 DEF Answers
  <2>. QED BY <1>2, <2>2, <2>4, <2>5 DEF InOrder, expected
<1>3. CASE Gap(GetRxQp, segment)
  <2>. DEFINE resume_at == IF BackToZero THEN ChunkStart(GetRxQp.expected) ELSE GetRxQp.expected
  <2>1. resume_at \in 0 .. Size /\ resume_at \in 0 .. SeqWord - 1
    BY <1>1, ChunkStartBound, FlowAssumption, ShortFlow DEF RxQps
  <2>2. [kind |-> "nack", seq |-> resume_at] \in Answers
    BY <2>1 DEF Answers
  <2>3. [expected |-> resume_at, lastNACK |-> GetRxQp.expected, nackHeld |-> TRUE] \in RxQps
    BY <1>1, <2>1 DEF RxQps
  <2>. HIDE DEF resume_at
  <2>4. CASE MayNack(GetRxQp)
    <3>1. /\ rxQp' = [expected |-> resume_at, lastNACK |-> GetRxQp.expected, nackHeld |-> TRUE]
          /\ toTx' = Append(toTx, [kind |-> "nack", seq |-> resume_at])
      BY <1>3, <2>4 DEF Gap, resume_at
    <3>. QED BY <2>1, <2>2, <2>3, <3>1
  <2>5. CASE ~MayNack(GetRxQp)
    BY <1>1, <1>3, <2>5 DEF Gap
  <2>. QED BY <2>4, <2>5
<1>4. CASE Duplicate(GetRxQp, segment)
  BY <1>1, <1>4 DEF Duplicate
<1>. QED BY <1>2, <1>3, <1>4 DEF ReceiverCheckSeq

LEMMA ReceiveUdpKeeps ==
  ASSUME IInv, NEW i \in Arriving(toRx), ReceiveUdp(i) PROVE IInv'
<1>1. i \in 1 .. Len(toRx) /\ toRx[i] \in Segments /\ toRx[i].seq + toRx[i].len <= Size
  BY DEF IInv, TypeOK, Arriving, SegmentsInside
<1>2. /\ toRx' \in Seq(Segments)
      /\ \A j \in 1 .. Len(toRx') : \E k \in 1 .. Len(toRx) : toRx'[j] = toRx[k]
  <2>1. toRx' = Remove(toRx, i) /\ toRx \in Seq(Segments)
    BY DEF IInv, TypeOK, ReceiveUdp
  <2>. QED BY <1>1, <2>1, RemoveKeeps
<1>3. SegmentsInside'
  BY <1>2 DEF IInv, SegmentsInside
<1>4. /\ rxQp' \in RxQps /\ rxQp'.expected <= Size
      /\ \/ toTx' = toTx
         \/ \E answer \in Answers : toTx' = Append(toTx, answer) /\ answer.seq = rxQp'.expected
  BY <1>1, CheckSeqKeeps DEF ReceiveUdp
<1>5. toTx' \in Seq(Answers) /\ AnswersInside'
  <2>1. CASE toTx' = toTx
    BY <2>1 DEF IInv, TypeOK, AnswersInside
  <2>2. ASSUME NEW answer \in Answers, toTx' = Append(toTx, answer), answer.seq = rxQp'.expected
        PROVE  toTx' \in Seq(Answers) /\ AnswersInside'
    BY <1>4, <2>2, AppendKeeps DEF IInv, TypeOK, AnswersInside
  <2>. QED BY <1>4, <2>1, <2>2
<1>6. RxInside'
  BY <1>4, FlowAssumption DEF RxInside, GetRxQp, NewRxQp
<1>7. TypeOK'
  BY <1>2, <1>4, <1>5 DEF IInv, TypeOK, ReceiveUdp, sender
<1>. QED BY <1>3, <1>5, <1>6, <1>7 DEF IInv, ReceiveUdp, sender, OnceBeforeEnd

LEMMA NackTimerKeeps ==
  ASSUME IInv, NackTimerPasses PROVE IInv'
<1>1. rxQp \in RxQps
  BY DEF IInv, TypeOK, NackTimerPasses, NoQp
<1>2. rxQp' \in RxQps /\ rxQp'.expected = rxQp.expected
  BY <1>1 DEF NackTimerPasses, RxQps
<1>3. rxQp # NoQp /\ rxQp' # NoQp
  BY <1>1, <1>2, FlowAssumption DEF RxQps, NoQp
<1>. QED BY <1>2, <1>3 DEF IInv, TypeOK, NackTimerPasses, sender, RxInside, GetRxQp, SegmentsInside,
          AnswersInside, OnceBeforeEnd

LEMMA LoseDataKeeps ==
  ASSUME IInv, LoseData PROVE IInv'
<1>1. /\ toRx' \in Seq(Segments)
      /\ \A j \in 1 .. Len(toRx') : \E k \in 1 .. Len(toRx) : toRx'[j] = toRx[k]
  BY TailKeeps DEF IInv, TypeOK, LoseData
<1>2. SegmentsInside'
  BY <1>1 DEF IInv, SegmentsInside
<1>. QED BY <1>1, <1>2, FlowAssumption
          DEF IInv, TypeOK, LoseData, sender, RxInside, GetRxQp, AnswersInside, OnceBeforeEnd

LEMMA LoseAnswerKeeps ==
  ASSUME IInv, LoseAnswer PROVE IInv'
<1>1. /\ toTx' \in Seq(Answers)
      /\ \A j \in 1 .. Len(toTx') : \E k \in 1 .. Len(toTx) : toTx'[j] = toTx[k]
  BY TailKeeps DEF IInv, TypeOK, LoseAnswer
<1>2. AnswersInside'
  BY <1>1 DEF IInv, AnswersInside
<1>. QED BY <1>1, <1>2, FlowAssumption
          DEF IInv, TypeOK, LoseAnswer, sender, RxInside, GetRxQp, SegmentsInside, OnceBeforeEnd

LEMMA NextKeeps == IInv /\ [Next]_vars => IInv'
<1>. SUFFICES ASSUME IInv, [Next]_vars PROVE IInv'
  OBVIOUS
<1>1. CASE UNCHANGED vars
  BY <1>1 DEF vars, IInv, TypeOK, RxInside, GetRxQp, SegmentsInside, AnswersInside, OnceBeforeEnd
<1>2. CASE Next
  BY <1>2, SendKeeps, ClearFinishedKeeps, EndTimeKeeps, ReceiveAckKeeps, ReceiveUdpKeeps,
     NackTimerKeeps, LoseDataKeeps, LoseAnswerKeeps DEF Next
<1>. QED BY <1>1, <1>2

(* The bookkeeping of sender and receiver stays inside the flow, for every *)
(* size, window, mode, loss and reordering.                                *)
THEOREM Bookkeeping == Spec => []IInv
  BY InitIInv, NextKeeps, PTL DEF Spec

THEOREM TypeCorrect == Spec => []TypeOK
<1>1. IInv => TypeOK
  BY DEF IInv
<1>. QED BY <1>1, Bookkeeping, PTL

-----------------------------------------------------------------------------
(* Delivery in order: the sender's knowledge follows what the receiver     *)
(* keeps, whatever the network does to segments and answers.               *)
UnaBehind == InQpMap => snd_una < Size /\ snd_una <= Kept(GetRxQp.expected)
AnswersBehind == InQpMap => \A i \in 1 .. Len(toTx) : Kept(toTx[i].seq) <= Kept(GetRxQp.expected)
TInv == IInv /\ UnaBehind /\ AnswersBehind /\ NotEnded

LEMMA InitTInv == Init => TInv
<1>. SUFFICES ASSUME Init PROVE TInv
  OBVIOUS
<1>1. Kept(0) = 0
  BY KeptOf
<1>. QED BY <1>1, InitIInv, FlowAssumption
         DEF Init, TInv, UnaBehind, AnswersBehind, NotEnded, GetRxQp, NewRxQp

(* What the receiver keeps never gets less, and a segment adds at most     *)
(* Piece to it.                                                            *)
LEMMA Progress ==
  ASSUME IInv, NEW i \in Arriving(toRx), ReceiveUdp(i)
  PROVE  /\ GetRxQp'.expected \in 0 .. Size
         /\ Kept(GetRxQp'.expected) \in Kept(GetRxQp.expected) .. Size
         /\ Kept(GetRxQp'.expected) - Kept(GetRxQp.expected) <= Piece
         /\ toTx' = toTx \/ \E answer \in Answers :
                               toTx' = Append(toTx, answer) /\ answer.seq = GetRxQp'.expected
<1>1. i \in 1 .. Len(toRx) /\ toRx[i] \in Segments /\ toRx[i].seq + toRx[i].len <= Size
  BY DEF IInv, TypeOK, Arriving, SegmentsInside
<1>2. ReceiverCheckSeq(GetRxQp, toRx[i])
  BY DEF ReceiveUdp
<1>3. GetRxQp \in RxQps /\ GetRxQp.expected \in Nat
  BY RxQpType DEF IInv, RxQps
<1>4. /\ rxQp' \in RxQps /\ rxQp'.expected <= Size
      /\ \/ toTx' = toTx
         \/ \E answer \in Answers : toTx' = Append(toTx, answer) /\ answer.seq = rxQp'.expected
  BY <1>1, <1>2, CheckSeqKeeps
<1>5. GetRxQp' = rxQp' /\ rxQp'.expected \in 0 .. Size
  BY <1>4, FlowAssumption DEF GetRxQp, RxQps, NoQp
<1>6. PICK e \in Nat, d \in Nat : e = GetRxQp.expected /\ d = rxQp'.expected
  BY <1>3, <1>5
<1>7. d = Kept(e) \/ (e <= d /\ d - e <= Mtu)
  <2>1. CASE InOrder(GetRxQp, toRx[i])
    <3>1. toRx[i].seq = e /\ toRx[i].len \in Nat /\ toRx[i].len <= Mtu
      BY <1>1, <1>6, <2>1, FlowAssumption DEF InOrder, Segments
    <3>2. (e + toRx[i].len) % SeqWord = e + toRx[i].len
      BY <1>1, <1>6, <3>1, OnTheWire
    <3>3. d = e + toRx[i].len
      BY <1>3, <1>6, <2>1, <3>2 DEF InOrder, RxQps
    <3>. QED BY <3>1, <3>3, FlowAssumption
  <2>2. CASE Gap(GetRxQp, toRx[i])
    BY <1>3, <1>6, <2>2, FlowAssumption DEF Gap, Kept
  <2>3. CASE Duplicate(GetRxQp, toRx[i])
    BY <1>3, <1>6, <2>3, FlowAssumption DEF Duplicate
  <2>. QED BY <1>2, <2>1, <2>2, <2>3 DEF ReceiverCheckSeq
<1>8. PICK k \in Nat, l \in Nat : k = Kept(e) /\ l = Kept(d) /\ l <= d /\ k <= e
                                /\ e - k <= (IF BackToZero THEN Chunk - 1 ELSE 0)
  BY KeptOf
<1>9. k <= l /\ l - k <= Piece
  <2>1. CASE d = Kept(e)
    <3>1. l = k
      BY <1>8, <2>1, KeptOf
    <3>. QED BY <3>1, FlowAssumption DEF Piece
  <2>2. CASE e <= d /\ d - e <= Mtu
    <3>1. k <= l
      BY <1>8, <2>2, KeptGrows
    <3>. QED BY <1>8, <2>2, <3>1, FlowAssumption DEF Piece
  <2>. QED BY <1>7, <2>1, <2>2
<1>10. l \in k .. Size
  BY <1>5, <1>6, <1>8, <1>9, FlowAssumption
<1>. QED BY <1>4, <1>5, <1>6, <1>8, <1>9, <1>10

(* What an answer does while the flow is in m_qpMap.                       *)
LEMMA AckEffect ==
  ASSUME TInv, InQpMap, NEW i \in Arriving(toTx), ReceiveAck(i)
  PROVE  \/ snd_una' = snd_una /\ UNCHANGED <<completions, rxQp>>
         \/ /\ snd_una' \in snd_una + 1 .. Kept(GetRxQp.expected)
            /\ snd_una' < Size
            /\ UNCHANGED <<completions, rxQp>>
         \/ /\ snd_una' \in snd_una + 1 .. Kept(GetRxQp.expected)
            /\ snd_una' = Size
            /\ completions' = 1
<1>1. i \in 1 .. Len(toTx) /\ toTx[i] \in Answers
  BY DEF TInv, IInv, TypeOK, Arriving
<1>2. PICK a \in Nat, e \in Nat : a = Kept(toTx[i].seq) /\ e = Kept(GetRxQp.expected) /\ a <= e /\ e <= Size
  <2>1. toTx[i].seq \in Nat /\ GetRxQp.expected \in Nat /\ GetRxQp.expected <= Size
    BY <1>1, RxQpType DEF TInv, IInv, RxInside, RxQps, Answers
  <2>2. Kept(toTx[i].seq) \in Nat /\ Kept(GetRxQp.expected) \in 0 .. GetRxQp.expected
    BY <2>1, KeptOf
  <2>3. Kept(toTx[i].seq) <= Kept(GetRxQp.expected)
    BY <1>1 DEF TInv, AnswersBehind
  <2>. QED BY <2>1, <2>2, <2>3, FlowAssumption
<1>3. snd_una \in Nat /\ snd_una < Size /\ completions = 0
  BY DEF TInv, IInv, TypeOK, UnaBehind, InQpMap
<1>5. CASE AckInterval = 0
  BY <1>5 DEF ReceiveAck, TakeAck
<1>6. CASE AckInterval # 0
  <2>1. snd_una' = Larger(snd_una, a)
    BY <1>2, <1>6, FlowAssumption DEF ReceiveAck, TakeAck, Acknowledge, Kept
  <2>2. IF snd_una' >= Size THEN completions' = 1 ELSE UNCHANGED <<completions, rxQp>>
    BY <1>3, <1>6 DEF ReceiveAck, TakeAck, IsFinished, QpComplete
  <2>3. CASE a <= snd_una
    <3>1. snd_una' = snd_una
      BY <1>3, <2>1, <2>3 DEF Larger
    <3>. QED BY <1>3, <2>2, <3>1, FlowAssumption
  <2>4. CASE a > snd_una
    <3>1. snd_una' = a /\ snd_una' \in snd_una + 1 .. e
      BY <1>2, <1>3, <2>1, <2>4 DEF Larger
    <3>. QED BY <1>2, <1>3, <2>2, <3>1, FlowAssumption
  <2>. QED BY <1>3, <2>3, <2>4
<1>. QED BY <1>5, <1>6

(* The end-time event comes once, and only to a flow that has an end time. *)
LEMMA EndComesOnce ==
  [Next]_vars => end_pending' = end_pending \/ (EndTimeReached /\ end_pending /\ ~end_pending')
  BY DEF Next, vars, sender, Send, ClearFinished, EndTimeReached, ReceiveAck, ReceiveUdp,
     NackTimerPasses, LoseData, LoseAnswer

LEMMA NextTInv == TInv /\ NotEnded' /\ [Next]_vars => TInv'
<1>. SUFFICES ASSUME TInv, NotEnded', [Next]_vars PROVE TInv'
  OBVIOUS
<1>. USE DEF TInv
<1>1. IInv'
  BY NextKeeps
<1>2. NotEnded'
  OBVIOUS
<1>3. Kept(GetRxQp.expected) \in Nat /\ snd_una \in Nat
  <2>1. GetRxQp.expected \in Nat /\ snd_una \in Nat
    BY RxQpType DEF IInv, TypeOK, RxQps
  <2>. QED BY <2>1, KeptOf
<1>4. ASSUME UNCHANGED <<snd_una, completions, toTx>>, GetRxQp'.expected = GetRxQp.expected
      PROVE  UnaBehind' /\ AnswersBehind'
  BY <1>4 DEF UnaBehind, AnswersBehind, InQpMap
<1>5. CASE UNCHANGED vars
  BY <1>1, <1>2, <1>4, <1>5 DEF vars, GetRxQp
<1>6. CASE ClearFinished \/ \E w \in Windows : Send(w)
  BY <1>1, <1>2, <1>4, <1>6 DEF Send, ClearFinished, GetRxQp
<1>7. CASE EndTimeReached
  BY <1>7 DEF NotEnded, EndTimeReached
<1>8. ASSUME NEW i \in Arriving(toTx), ReceiveAck(i) PROVE TInv'
  <2>1. CASE InQpMap
    <3>1. CASE completions' = 1
      BY <1>1, <1>2, <3>1 DEF UnaBehind, AnswersBehind, InQpMap
    <3>2. CASE completions' # 1
      <4>1. UNCHANGED <<completions, rxQp>>
        BY <1>8, <2>1, <3>2, AckEffect
      <4>2. snd_una' < Size /\ snd_una' <= Kept(GetRxQp.expected)
        BY <1>3, <1>8, <2>1, <3>2, AckEffect DEF UnaBehind
      <4>3. GetRxQp' = GetRxQp
        BY <4>1 DEF GetRxQp
      <4>4. toTx \in Seq(Answers) /\ i \in 1 .. Len(toTx) /\ toTx' = Remove(toTx, i)
        BY <1>8 DEF IInv, TypeOK, Arriving, ReceiveAck
      <4>5. \A j \in 1 .. Len(toTx') : \E k \in 1 .. Len(toTx) : toTx'[j] = toTx[k]
        BY <4>4, RemoveKeeps
      <4>6. AnswersBehind'
        BY <2>1, <4>3, <4>5 DEF AnswersBehind
      <4>. QED BY <1>1, <1>2, <4>2, <4>3, <4>6 DEF UnaBehind
    <3>. QED BY <3>1, <3>2
  <2>2. CASE ~InQpMap
    BY <1>1, <1>2, <1>8, <2>2 DEF ReceiveAck, UnaBehind, AnswersBehind, InQpMap
  <2>. QED BY <2>1, <2>2
<1>9. ASSUME NEW i \in Arriving(toRx), ReceiveUdp(i) PROVE TInv'
  <2>1. PICK e, d \in Nat : /\ e = GetRxQp'.expected /\ d = Kept(e)
                            /\ d \in Kept(GetRxQp.expected) .. Size
                            /\ toTx' = toTx \/ \E answer \in Answers :
                                                  toTx' = Append(toTx, answer) /\ answer.seq = e
    BY <1>3, <1>9, Progress
  <2>2. UNCHANGED <<snd_una, completions>>
    BY <1>9 DEF ReceiveUdp, sender
  <2>3. UnaBehind'
    BY <1>3, <2>1, <2>2, FlowAssumption DEF UnaBehind, InQpMap
  <2>4. toTx \in Seq(Answers) /\ \A k \in 1 .. Len(toTx) : Kept(toTx[k].seq) \in Nat
    <3>1. toTx \in Seq(Answers) /\ \A k \in 1 .. Len(toTx) : toTx[k].seq \in Nat
      <4>1. toTx \in Seq(Answers) /\ \A k \in 1 .. Len(toTx) : toTx[k] \in Answers
        BY DEF IInv, TypeOK
      <4>. QED BY <4>1 DEF Answers
    <3>2. ASSUME NEW k \in 1 .. Len(toTx) PROVE Kept(toTx[k].seq) \in Nat
      <4>1. Kept(toTx[k].seq) \in 0 .. toTx[k].seq /\ toTx[k].seq \in Nat
        BY <3>1, KeptOf
      <4>. QED BY <4>1
    <3>. QED BY <3>1, <3>2
  <2>5. InQpMap => \A k \in 1 .. Len(toTx) : Kept(toTx[k].seq) <= d
    BY <1>3, <2>1, <2>4, FlowAssumption DEF AnswersBehind
  <2>6. AnswersBehind'
    <3>1. CASE toTx' = toTx
      BY <2>1, <2>2, <2>5, <3>1 DEF AnswersBehind, InQpMap
    <3>2. ASSUME NEW answer \in Answers, toTx' = Append(toTx, answer), answer.seq = e
          PROVE  AnswersBehind'
      <4>1. \A j \in 1 .. Len(toTx') :
              toTx'[j] = answer \/ \E k \in 1 .. Len(toTx) : toTx'[j] = toTx[k]
        BY <2>4, <3>2, AppendKeeps
      <4>. QED BY <2>1, <2>2, <2>5, <3>2, <4>1 DEF AnswersBehind, InQpMap
    <3>. QED BY <2>1, <3>1, <3>2
  <2>. QED BY <1>1, <1>2, <2>3, <2>6
<1>10. CASE NackTimerPasses
  <2>1. rxQp \in RxQps /\ rxQp # NoQp
    BY <1>10 DEF IInv, TypeOK, NackTimerPasses, NoQp
  <2>2. rxQp' \in RxQps /\ rxQp'.expected = rxQp.expected
    BY <1>10, <2>1 DEF NackTimerPasses, RxQps
  <2>4. rxQp' # NoQp
    BY <2>2, FlowAssumption DEF RxQps, NoQp
  <2>3. GetRxQp'.expected = GetRxQp.expected
    BY <2>1, <2>2, <2>4 DEF GetRxQp
  <2>. QED BY <1>1, <1>2, <1>4, <1>10, <2>3 DEF NackTimerPasses, sender
<1>11. CASE LoseData
  BY <1>1, <1>2, <1>4, <1>11 DEF LoseData, sender, GetRxQp
<1>12. CASE LoseAnswer
  <2>1. \A j \in 1 .. Len(toTx') : \E k \in 1 .. Len(toTx) : toTx'[j] = toTx[k]
    BY <1>12, TailKeeps DEF IInv, TypeOK, LoseAnswer
  <2>. QED BY <1>1, <1>2, <1>12, <2>1 DEF LoseAnswer, sender, GetRxQp, UnaBehind, AnswersBehind, InQpMap
<1>. QED BY <1>5, <1>6, <1>7, <1>8, <1>9, <1>10, <1>11, <1>12 DEF Next

LEMMA DeliveredIs == Delivered = IF ~InQpMap THEN Size ELSE Kept(GetRxQp.expected)
  BY DEF Delivered, Kept

LEMMA InitTransfer == Init => Transfer!Init
<1>1. Kept(0) = 0
  BY KeptOf
<1>. QED BY <1>1, DeliveredIs DEF Init, Transfer!Init, InQpMap, GetRxQp, NewRxQp

LEMMA Stutter ==
  ASSUME GetRxQp'.expected = GetRxQp.expected, UNCHANGED <<snd_una, completions>>
  PROVE  UNCHANGED Transfer!vars
  BY DEF Transfer!vars, Delivered, InQpMap

LEMMA AckSimulates ==
  ASSUME TInv, NEW i \in Arriving(toTx), ReceiveAck(i)
  PROVE  [Transfer!Next]_(Transfer!vars)
<1>1. CASE ~InQpMap
  BY <1>1 DEF ReceiveAck, Transfer!vars, Delivered, InQpMap
<1>2. CASE InQpMap
  <2>1. PICK e \in Nat : e = Kept(GetRxQp.expected) /\ e <= Size /\ completions = 0
    <3>1. GetRxQp.expected \in Nat /\ GetRxQp.expected <= Size /\ completions = 0
      BY <1>2, RxQpType DEF TInv, IInv, RxInside, RxQps, InQpMap
    <3>2. Kept(GetRxQp.expected) \in 0 .. GetRxQp.expected
      BY <3>1, KeptOf
    <3>. QED BY <3>1, <3>2, FlowAssumption
  <2>2. CASE snd_una' = snd_una /\ UNCHANGED <<completions, rxQp>>
    BY <2>2, Stutter DEF GetRxQp
  <2>3. CASE /\ snd_una' \in snd_una + 1 .. e
             /\ snd_una' < Size
             /\ UNCHANGED <<completions, rxQp>>
    <3>1. Delivered' = Delivered /\ Delivered = e
      BY <1>2, <2>1, <2>3, DeliveredIs DEF Delivered, InQpMap, GetRxQp
    <3>2. ~(~InQpMap)' /\ snd_una' # Size
      BY <2>1, <2>3, FlowAssumption DEF InQpMap
    <3>. QED BY <1>2, <2>3, <3>1, <3>2 DEF Transfer!Next, Transfer!Confirm
  <2>4. CASE /\ snd_una' \in snd_una + 1 .. e
             /\ snd_una' = Size
             /\ completions' = 1
    <3>1. e = Size
      BY <2>1, <2>4, FlowAssumption
    <3>2. Delivered = Size /\ Delivered' = Size /\ (~InQpMap)'
      BY <1>2, <2>1, <2>4, <3>1, DeliveredIs DEF Delivered, InQpMap
    <3>. QED BY <1>2, <2>4, <3>1, <3>2 DEF Transfer!Next, Transfer!Confirm
  <2>. QED BY <1>2, <2>1, <2>2, <2>3, <2>4, AckEffect
<1>. QED BY <1>1, <1>2

LEMMA UdpSimulates ==
  ASSUME TInv, NEW i \in Arriving(toRx), ReceiveUdp(i)
  PROVE  [Transfer!Next]_(Transfer!vars)
<1>1. PICK k, d \in Nat : /\ k = Kept(GetRxQp.expected) /\ d = Kept(GetRxQp'.expected)
                         /\ d \in k .. Size /\ d - k <= Piece
  <2>1. GetRxQp.expected \in Nat
    BY RxQpType DEF TInv, IInv, RxQps
  <2>2. Kept(GetRxQp.expected) \in Nat
    BY <2>1, KeptOf
  <2>3. /\ Kept(GetRxQp'.expected) \in Kept(GetRxQp.expected) .. Size
        /\ Kept(GetRxQp'.expected) - Kept(GetRxQp.expected) <= Piece
    BY Progress DEF TInv
  <2>4. Kept(GetRxQp'.expected) \in Nat
    BY <2>2, <2>3, FlowAssumption
  <2>. QED BY <2>2, <2>3, <2>4
<1>2. UNCHANGED <<snd_una, completions>>
  BY DEF ReceiveUdp, sender
<1>3. CASE ~InQpMap
  BY <1>2, <1>3 DEF Transfer!vars, Delivered, InQpMap
<1>4. CASE InQpMap
  <2>1. Delivered = k /\ Delivered' = d
    BY <1>1, <1>2, <1>4 DEF Delivered, InQpMap, Kept
  <2>2. CASE d = k
    BY <1>2, <2>1, <2>2 DEF Transfer!vars, InQpMap
  <2>3. CASE d # k
    <3>1. Delivered' \in Delivered + 1 .. Size /\ Delivered' - Delivered <= Piece
      BY <1>1, <2>1, <2>3, FlowAssumption
    <3>. QED BY <1>2, <3>1 DEF Transfer!Next, Transfer!Deliver, InQpMap
  <2>. QED BY <2>2, <2>3
<1>. QED BY <1>3, <1>4

LEMMA NextSimulates ==
  TInv /\ NotEnded' /\ [Next]_vars => [Transfer!Next]_(Transfer!vars)
<1>. SUFFICES ASSUME TInv, NotEnded', [Next]_vars PROVE [Transfer!Next]_(Transfer!vars)
  OBVIOUS
<1>1. CASE UNCHANGED vars
  BY <1>1, Stutter DEF vars, GetRxQp
<1>2. CASE ClearFinished \/ \E w \in Windows : Send(w)
  BY <1>2, Stutter DEF Send, ClearFinished, GetRxQp
<1>3. CASE EndTimeReached
  BY <1>3 DEF TInv, NotEnded, EndTimeReached
<1>4. CASE NackTimerPasses
  <2>1. rxQp \in RxQps /\ rxQp # NoQp
    BY <1>4 DEF TInv, IInv, TypeOK, NackTimerPasses, NoQp
  <2>2. rxQp' \in RxQps /\ rxQp'.expected = rxQp.expected
    BY <1>4, <2>1 DEF NackTimerPasses, RxQps
  <2>3. rxQp' # NoQp
    BY <2>2, FlowAssumption DEF RxQps, NoQp
  <2>4. GetRxQp'.expected = GetRxQp.expected
    BY <2>1, <2>2, <2>3 DEF GetRxQp
  <2>. QED BY <1>4, <2>4, Stutter DEF NackTimerPasses, sender
<1>5. CASE LoseData \/ LoseAnswer
  BY <1>5, Stutter DEF LoseData, LoseAnswer, sender, GetRxQp
<1>. QED BY <1>1, <1>2, <1>3, <1>4, <1>5, AckSimulates, UdpSimulates DEF Next

UntilEnd == (end_pending => HasEndTime) /\ (NotEnded => TInv)

LEMMA NextUntilEnd ==
  UntilEnd /\ [Next]_vars => UntilEnd' /\ (NotEnded' => [Transfer!Next]_(Transfer!vars))
<1>. SUFFICES ASSUME UntilEnd, [Next]_vars
              PROVE  UntilEnd' /\ (NotEnded' => [Transfer!Next]_(Transfer!vars))
  OBVIOUS
<1>1. (end_pending => HasEndTime) /\ (NotEnded => TInv)
  BY DEF UntilEnd
<1>2. end_pending' => end_pending
  BY EndComesOnce
<1>3. NotEnded' => NotEnded
  BY <1>1, EndComesOnce DEF NotEnded
<1>4. NotEnded' => TInv' /\ [Transfer!Next]_(Transfer!vars)
  BY <1>1, <1>3, NextTInv, NextSimulates
<1>. QED BY <1>1, <1>2, <1>4 DEF UntilEnd

(* Until its end time, and for ever if it has none, a flow implements      *)
(* ReliableTransfer for every size, segment size, chunk, window, loss,     *)
(* reordering and repetition of NACKs, whether its receiver goes back to   *)
(* what it has or to a chunk's start.                                      *)
THEOREM InOrderDelivery == Spec => TransfersUntilEnd
<1>1. Init => UntilEnd
  BY InitTInv, FlowAssumption DEF Init, UntilEnd
<1>2. UntilEnd /\ [Next]_vars => UntilEnd'
  BY NextUntilEnd
<1>3. Init => Transfer!Init
  BY InitTransfer
<1>4. UntilEnd /\ [Next]_vars => [NotEnded' => Transfer!Next \/ UNCHANGED Transfer!vars]_vars
  BY NextUntilEnd
<1>. QED BY <1>1, <1>2, <1>3, <1>4, PTL DEF Spec, TransfersUntilEnd

(* A flow without an end time is a ReliableTransfer.                       *)
COROLLARY EndlessDelivery ==
  ASSUME ~HasEndTime PROVE Spec => ImplementsTransfer
<1>1. Init => TInv
  BY InitTInv
<1>2. TInv /\ [Next]_vars => NotEnded'
  BY EndComesOnce DEF TInv, NotEnded
<1>3. TInv /\ [Next]_vars => TInv'
  BY <1>2, NextTInv
<1>4. Init => Transfer!Init
  BY InitTransfer
<1>5. TInv /\ [Next]_vars => [Transfer!Next]_(Transfer!vars)
  BY <1>2, NextSimulates
<1>. QED BY <1>1, <1>3, <1>4, <1>5, PTL DEF Spec, ImplementsTransfer, Transfer!Spec

-----------------------------------------------------------------------------
(* Every sequence number in play is a cut of the flow into segments.       *)
AnswersAligned == \A i \in 1 .. Len(toTx) : Cut(toTx[i].seq)
AInv == IInv /\ SegmentsAligned /\ AnswersAligned

LEMMA CutZero == Cut(0)
<1>1. 0 \in 0 .. Size /\ 0 = 0 * Mtu
  BY FlowAssumption
<1>. QED BY <1>1 DEF Cut

LEMMA InitAInv == Init => AInv
  BY InitIInv, CutZero DEF Init, AInv, SegmentsAligned, AnswersAligned, GetRxQp, NewRxQp

LEMMA SendAligned ==
  ASSUME AInv, NEW w \in Windows, Send(w) PROVE AInv'
<1>. DEFINE segment == [seq |-> snd_nxt % SeqWord, len |-> Smaller(Mtu, GetBytesLeft)]
<1>1. snd_nxt \in 0 .. Size /\ snd_nxt < Size /\ GetBytesLeft = Size - snd_nxt /\ Cut(snd_nxt)
  BY FlowAssumption DEF AInv, IInv, TypeOK, Send, Eligible, GetBytesLeft, SegmentsAligned
<1>2. snd_nxt % SeqWord = snd_nxt
  BY <1>1, OnTheWire
<1>3. Cut(segment.seq) /\ Cut(segment.seq + segment.len)
  BY <1>1, <1>2, NextCut
<1>4. toRx' = Append(toRx, segment) /\ snd_nxt' = segment.seq + segment.len
  BY <1>2 DEF Send, GetNxtPacket
<1>5. segment \in Segments /\ toRx \in Seq(Segments)
  BY <1>1, <1>2, FlowAssumption, ShortFlow DEF AInv, IInv, TypeOK, Segments, Smaller
<1>. HIDE DEF segment
<1>6. \A j \in 1 .. Len(toRx') : toRx'[j] = segment \/ \E k \in 1 .. Len(toRx) : toRx'[j] = toRx[k]
  BY <1>4, <1>5, AppendKeeps
<1>7. \A j \in 1 .. Len(toRx') : Cut(toRx'[j].seq) /\ Cut(toRx'[j].seq + toRx'[j].len)
  BY <1>3, <1>6 DEF AInv, SegmentsAligned
<1>8. UNCHANGED <<snd_una, rxQp, toTx>>
  BY DEF Send
<1>9. IInv'
  BY SendKeeps DEF AInv
<1>. QED BY <1>3, <1>4, <1>7, <1>8, <1>9 DEF AInv, SegmentsAligned, AnswersAligned, GetRxQp, Cut

LEMMA ReceiveAckAligned ==
  ASSUME ~BackToZero, AInv, NEW i \in Arriving(toTx), ReceiveAck(i) PROVE AInv'
<1>1. i \in 1 .. Len(toTx) /\ toTx \in Seq(Answers) /\ toTx' = Remove(toTx, i)
  BY DEF AInv, IInv, TypeOK, Arriving, ReceiveAck
<1>2. \A j \in 1 .. Len(toTx') : \E k \in 1 .. Len(toTx) : toTx'[j] = toTx[k]
  BY <1>1, RemoveKeeps
<1>3. AnswersAligned'
  BY <1>2 DEF AInv, AnswersAligned, Cut
<1>4. Cut(toTx[i].seq) /\ Cut(snd_una) /\ Cut(snd_nxt) /\ Cut(GetRxQp.expected)
  BY <1>1 DEF AInv, AnswersAligned, SegmentsAligned
<1>5. snd_una' = snd_una \/ snd_una' = toTx[i].seq
  BY DEF ReceiveAck, TakeAck, Acknowledge, Larger
<1>6. snd_nxt' = snd_nxt \/ snd_nxt' = snd_una'
  BY DEF ReceiveAck, RecoverQueue
<1>7. rxQp' = rxQp \/ rxQp' = NoQp
  BY DEF ReceiveAck, TakeAck, QpComplete
<1>8. Cut(snd_una') /\ Cut(snd_nxt')
  BY <1>4, <1>5, <1>6
<1>9. Cut(GetRxQp'.expected)
  BY <1>4, <1>7, CutZero DEF GetRxQp, NewRxQp
<1>10. IInv' /\ toRx' = toRx
  BY ReceiveAckKeeps DEF AInv, ReceiveAck
<1>. QED BY <1>3, <1>8, <1>9, <1>10 DEF AInv, SegmentsAligned, Cut

LEMMA ReceiveUdpAligned ==
  ASSUME ~BackToZero, AInv, NEW i \in Arriving(toRx), ReceiveUdp(i) PROVE AInv'
<1>1. i \in 1 .. Len(toRx) /\ toRx \in Seq(Segments) /\ toRx' = Remove(toRx, i)
  BY DEF AInv, IInv, TypeOK, Arriving, ReceiveUdp
<1>2. \A j \in 1 .. Len(toRx') : \E k \in 1 .. Len(toRx) : toRx'[j] = toRx[k]
  BY <1>1, RemoveKeeps
<1>3. toRx[i] \in Segments /\ toRx[i].seq + toRx[i].len <= Size
  BY <1>1 DEF AInv, IInv, SegmentsInside
<1>4. Cut(toRx[i].seq + toRx[i].len) /\ Cut(GetRxQp.expected)
  BY <1>1 DEF AInv, SegmentsAligned
<1>5. ReceiverCheckSeq(GetRxQp, toRx[i])
  BY DEF ReceiveUdp
<1>6. GetRxQp \in RxQps /\ GetRxQp.expected \in Nat
  BY RxQpType DEF AInv, IInv, RxQps
<1>7. /\ rxQp' \in RxQps
      /\ \/ toTx' = toTx
         \/ \E answer \in Answers : toTx' = Append(toTx, answer) /\ answer.seq = rxQp'.expected
  BY <1>3, <1>5, CheckSeqKeeps DEF AInv
<1>8. Cut(rxQp'.expected)
  <2>1. CASE InOrder(GetRxQp, toRx[i])
    <3>1. toRx[i].seq = GetRxQp.expected /\ toRx[i].len \in Nat
      BY <1>3, <2>1 DEF InOrder, Segments
    <3>2. (GetRxQp.expected + toRx[i].len) % SeqWord = toRx[i].seq + toRx[i].len
      BY <1>3, <1>6, <3>1, OnTheWire
    <3>3. rxQp'.expected = toRx[i].seq + toRx[i].len
      BY <1>6, <2>1, <3>2 DEF InOrder, RxQps
    <3>. QED BY <1>4, <3>3
  <2>2. CASE Gap(GetRxQp, toRx[i])
    BY <1>4, <1>6, <2>2 DEF Gap
  <2>3. CASE Duplicate(GetRxQp, toRx[i])
    BY <1>4, <2>3 DEF Duplicate
  <2>. QED BY <1>5, <2>1, <2>2, <2>3 DEF ReceiverCheckSeq
<1>9. GetRxQp' = rxQp'
  BY <1>7, FlowAssumption DEF GetRxQp, RxQps, NoQp
<1>10. AnswersAligned'
  <2>1. CASE toTx' = toTx
    BY <2>1 DEF AInv, AnswersAligned, Cut
  <2>2. ASSUME NEW answer \in Answers, toTx' = Append(toTx, answer), answer.seq = rxQp'.expected
        PROVE  AnswersAligned'
    <3>1. toTx \in Seq(Answers)
      BY DEF AInv, IInv, TypeOK
    <3>2. \A j \in 1 .. Len(toTx') :
            toTx'[j] = answer \/ \E k \in 1 .. Len(toTx) : toTx'[j] = toTx[k]
      BY <2>2, <3>1, AppendKeeps
    <3>. QED BY <1>8, <2>2, <3>2 DEF AInv, AnswersAligned, Cut
  <2>. QED BY <1>7, <2>1, <2>2
<1>11. \A j \in 1 .. Len(toRx') : Cut(toRx'[j].seq) /\ Cut(toRx'[j].seq + toRx'[j].len)
  BY <1>2 DEF AInv, SegmentsAligned
<1>12. IInv' /\ UNCHANGED <<snd_nxt, snd_una>>
  BY ReceiveUdpKeeps DEF AInv, ReceiveUdp, sender
<1>13. Cut(snd_nxt) /\ Cut(snd_una)
  BY DEF AInv, SegmentsAligned
<1>. QED BY <1>8, <1>9, <1>10, <1>11, <1>12, <1>13 DEF AInv, SegmentsAligned, Cut

LEMMA NextAligned == ~BackToZero /\ AInv /\ [Next]_vars => AInv'
<1>. SUFFICES ASSUME ~BackToZero, AInv, [Next]_vars PROVE AInv'
  OBVIOUS
<1>1. IInv'
  BY NextKeeps DEF AInv
<1>2. CASE UNCHANGED vars
  BY <1>1, <1>2 DEF vars, AInv, SegmentsAligned, AnswersAligned, GetRxQp, Cut
<1>3. CASE ClearFinished
  BY <1>1, <1>3 DEF ClearFinished, AInv, SegmentsAligned, AnswersAligned, GetRxQp, Cut
<1>4. CASE EndTimeReached
  <2>1. Cut(GetRxQp'.expected)
    BY <1>4, CutZero DEF EndTimeReached, QpComplete, GetRxQp, NewRxQp
  <2>. QED BY <1>1, <1>4, <2>1 DEF EndTimeReached, AInv, SegmentsAligned, AnswersAligned, Cut
<1>5. CASE NackTimerPasses
  <2>1. rxQp \in RxQps /\ rxQp # NoQp
    BY <1>5 DEF AInv, IInv, TypeOK, NackTimerPasses, NoQp
  <2>2. rxQp' \in RxQps /\ rxQp'.expected = rxQp.expected
    BY <1>5, <2>1 DEF NackTimerPasses, RxQps
  <2>3. rxQp' # NoQp
    BY <2>2, FlowAssumption DEF RxQps, NoQp
  <2>4. GetRxQp'.expected = GetRxQp.expected
    BY <2>1, <2>2, <2>3 DEF GetRxQp
  <2>. QED BY <1>1, <1>5, <2>4 DEF NackTimerPasses, sender, AInv, SegmentsAligned, AnswersAligned, Cut
<1>6. CASE LoseData
  <2>1. \A j \in 1 .. Len(toRx') : \E k \in 1 .. Len(toRx) : toRx'[j] = toRx[k]
    BY <1>6, TailKeeps DEF AInv, IInv, TypeOK, LoseData
  <2>. QED BY <1>1, <1>6, <2>1
           DEF LoseData, sender, AInv, SegmentsAligned, AnswersAligned, GetRxQp, Cut
<1>7. CASE LoseAnswer
  <2>1. \A j \in 1 .. Len(toTx') : \E k \in 1 .. Len(toTx) : toTx'[j] = toTx[k]
    BY <1>7, TailKeeps DEF AInv, IInv, TypeOK, LoseAnswer
  <2>. QED BY <1>1, <1>7, <2>1
           DEF LoseAnswer, sender, AInv, SegmentsAligned, AnswersAligned, GetRxQp, Cut
<1>. QED BY <1>2, <1>3, <1>4, <1>5, <1>6, <1>7, SendAligned, ReceiveAckAligned, ReceiveUdpAligned
         DEF Next

(* Go-back-N never cuts the flow anew: what is sent again starts where the *)
(* receiver may wait for it.                                               *)
THEOREM Alignment == ASSUME ~BackToZero PROVE Spec => []SegmentsAligned
<1>1. Init => AInv
  BY InitAInv
<1>2. AInv /\ [Next]_vars => AInv'
  BY NextAligned
<1>3. AInv => SegmentsAligned
  BY DEF AInv
<1>. QED BY <1>1, <1>2, <1>3, PTL DEF Spec

-----------------------------------------------------------------------------
(* A flow whose packets neither overtake each other nor outlive the        *)
(* interval between two NACKs: what the two ends and the two channels know *)
(* of each other, for values una and nxt of snd_una and snd_nxt, q of the  *)
(* receiver and rx and tx of toRx and toTx.                                *)
End(segment) == segment.seq + segment.len

(* From the i-th on the segments are those sent since the sender last went *)
(* back, none of them missing.                                             *)
RunFrom(i, nxt, rx) ==
  /\ \A j \in i .. Len(rx) : End(rx[j]) = IF j = Len(rx) THEN nxt ELSE rx[j + 1].seq
  /\ \A j \in i .. Len(rx) : End(rx[j]) <= nxt
  /\ \A j, k \in i .. Len(rx) : j < k => End(rx[j]) <= rx[k].seq

(* Nothing is sent twice to a receiver that has it, and when the segment   *)
(* it wants is under way all that follows it is too.                       *)
NoDuplicate(q, rx) == \A i \in 1 .. Len(rx) : rx[i].seq >= q.expected
Resumed(nxt, q, rx) == \A i \in 1 .. Len(rx) : rx[i].seq = q.expected => RunFrom(i, nxt, rx)

(* A NACK under way is the last answer, is for what the receiver wants now *)
(* and not repeated, and what it wants is not under way yet.               *)
NackIsLast(nxt, q, rx, tx) ==
  \A j \in 1 .. Len(tx) : tx[j].kind = "nack" =>
    /\ j = Len(tx) /\ tx[j].seq = q.expected /\ ~MayNack(q)
    /\ \A i \in 1 .. Len(rx) : rx[i].seq > q.expected
    /\ nxt > q.expected

(* Segments sent before the sender went back are under way only while the  *)
(* gap they show has been answered and nothing else is on its way back.    *)
NothingStale(nxt, q, rx, tx) ==
  /\ Len(tx) > 0 \/ MayNack(q) => \A i \in 1 .. Len(rx) : End(rx[i]) <= nxt
  /\ MayNack(q) => \A i \in 1 .. Len(rx) : rx[i].seq = q.expected => i = 1

InStep(una, nxt, q, rx, tx) ==
  /\ una <= q.expected /\ q.expected <= nxt
  /\ NoDuplicate(q, rx)
  /\ Resumed(nxt, q, rx)
  /\ NackIsLast(nxt, q, rx, tx)
  /\ NothingStale(nxt, q, rx, tx)

(* Sequences by their elements.                                            *)
Measured(rx) ==
  /\ Len(rx) \in Nat
  /\ \A i \in 1 .. Len(rx) : rx[i].seq \in Nat /\ rx[i].len \in Nat \ {0}
Appended(t, s, e) ==
  /\ Len(t) = Len(s) + 1 /\ t[Len(s) + 1] = e
  /\ \A i \in 1 .. Len(s) : t[i] = s[i]
Shifted(t, s) ==
  /\ Len(s) > 0 /\ Len(t) = Len(s) - 1
  /\ \A i \in 1 .. Len(s) - 1 : t[i] = s[i + 1]

LEMMA SegmentsMeasured == ASSUME NEW rx \in Seq(Segments) PROVE Measured(rx)
<1>1. Len(rx) \in Nat /\ \A i \in 1 .. Len(rx) : rx[i] \in Segments
  OBVIOUS
<1>. QED BY <1>1, FlowAssumption DEF Measured, Segments

LEMMA AppendAppended ==
  ASSUME NEW S, NEW s \in Seq(S), NEW e \in S PROVE Appended(Append(s, e), s, e)
  BY DEF Appended

LEMMA TailShifted ==
  ASSUME NEW S, NEW s \in Seq(S), s # <<>> PROVE Shifted(Tail(s), s)
  BY DEF Shifted

LEMMA RemoveShifted ==
  ASSUME NEW S, NEW s \in Seq(S), NEW i \in 1 .. Len(s), i = 1 PROVE Shifted(Remove(s, i), s)
<1>. DEFINE before == SubSeq(s, 1, i - 1)
            after == SubSeq(s, i + 1, Len(s))
<1>1. before \in Seq(S) /\ Len(before) = 0
  OBVIOUS
<1>0. s \in Seq(S) /\ i \in 1 .. Len(s)
  OBVIOUS
<1>2. after \in Seq(S) /\ Len(after) = Len(s) - i /\ \A j \in 1 .. Len(s) - i : after[j] = s[i + j]
  BY ONLY <1>0
<1>3. Remove(s, i) = before \o after
  BY DEF Remove
<1>. HIDE DEF before, after
<1>4. Len(Remove(s, i)) = Len(s) - 1
  BY <1>1, <1>2, <1>3
<1>5. \A j \in 1 .. Len(s) - 1 : Remove(s, i)[j] = after[j]
  BY <1>1, <1>2, <1>3
<1>. QED BY <1>2, <1>4, <1>5 DEF Shifted

LEMMA StepSend ==
  ASSUME NEW una \in Nat, NEW nxt \in Nat, NEW q, q.expected \in Nat, NEW rx, Measured(rx), NEW tx, Len(tx) \in Nat,
         NEW e, e.seq = nxt, e.len \in Nat \ {0}, NEW t, Appended(t, rx, e),
         InStep(una, nxt, q, rx, tx)
  PROVE  InStep(una, End(e), q, t, tx)
<1>1. /\ Len(rx) \in Nat /\ Len(t) = Len(rx) + 1 /\ t[Len(t)] = e
      /\ \A i \in 1 .. Len(rx) : t[i] = rx[i] /\ rx[i].seq \in Nat /\ rx[i].len \in Nat \ {0}
  BY DEF Appended, Measured
<1>2. End(e) \in Nat /\ End(e) > nxt /\ nxt >= q.expected
  BY DEF End, InStep
<1>3. NoDuplicate(q, t)
  BY <1>1, <1>2 DEF InStep, NoDuplicate
<1>4. Resumed(End(e), q, t)
  <2>. SUFFICES ASSUME NEW i \in 1 .. Len(t), t[i].seq = q.expected PROVE RunFrom(i, End(e), t)
    BY DEF Resumed
  <2>1. CASE i = Len(t)
    BY <1>1, <1>2, <2>1 DEF RunFrom
  <2>2. CASE i # Len(t)
    <3>1. RunFrom(i, nxt, rx) /\ i \in 1 .. Len(rx)
      BY <1>1, <2>2 DEF InStep, Resumed
    <3>6. \A j \in i .. Len(rx) : j \in 1 .. Len(rx) /\ End(t[j]) = End(rx[j]) /\ End(rx[j]) \in Nat
      BY <1>1, <3>1 DEF End
    <3>7. \A j \in i .. Len(rx) : End(rx[j]) = (IF j = Len(rx) THEN nxt ELSE rx[j + 1].seq)
                                  /\ End(rx[j]) <= nxt
      BY <3>1 DEF RunFrom
    <3>2. \A j \in i .. Len(t) : End(t[j]) = IF j = Len(t) THEN End(e) ELSE t[j + 1].seq
      <4>. SUFFICES ASSUME NEW j \in i .. Len(t)
                    PROVE  End(t[j]) = IF j = Len(t) THEN End(e) ELSE t[j + 1].seq
        OBVIOUS
      <4>1. CASE j = Len(t)
        BY <1>1, <4>1
      <4>2. CASE j = Len(rx)
        BY <1>1, <3>1, <3>6, <3>7, <4>2
      <4>3. CASE j < Len(rx)
        <5>1. j \in i .. Len(rx) /\ j + 1 \in 1 .. Len(rx) /\ t[j + 1] = rx[j + 1]
          BY <1>1, <3>1, <4>3
        <5>. QED BY <1>1, <3>6, <3>7, <4>3, <5>1
      <4>. QED BY <1>1, <3>1, <4>1, <4>2, <4>3
    <3>3. \A j \in i .. Len(rx) : End(t[j]) \in Nat /\ End(t[j]) <= nxt
      BY <3>6, <3>7
    <3>4. \A j \in i .. Len(t) : End(t[j]) <= End(e)
      BY <1>1, <1>2, <3>3
    <3>5. \A j, k \in i .. Len(t) : j < k => End(t[j]) <= t[k].seq
      <4>1. \A j, k \in i .. Len(rx) : j < k => End(rx[j]) <= rx[k].seq
        BY <3>1 DEF RunFrom
      <4>3. i \in Int /\ Len(t) \in Int /\ Len(rx) \in Int /\ Len(t) = Len(rx) + 1
        BY <1>1, <3>1
      <4>2. \A j \in i .. Len(t) : j # Len(t) => j \in i .. Len(rx)
        BY ONLY <4>3
      <4>. QED BY <1>1, <3>1, <3>3, <3>6, <4>1, <4>2
    <3>. QED BY <3>2, <3>4, <3>5 DEF RunFrom
  <2>. QED BY <2>1, <2>2
<1>5. NackIsLast(End(e), q, t, tx)
  <2>. SUFFICES ASSUME NEW j \in 1 .. Len(tx), tx[j].kind = "nack"
                PROVE  /\ j = Len(tx) /\ tx[j].seq = q.expected /\ ~MayNack(q)
                       /\ \A i \in 1 .. Len(t) : t[i].seq > q.expected
                       /\ End(e) > q.expected
    BY DEF NackIsLast
  <2>1. /\ j = Len(tx) /\ tx[j].seq = q.expected /\ ~MayNack(q)
        /\ \A i \in 1 .. Len(rx) : rx[i].seq > q.expected
        /\ nxt > q.expected
    BY DEF InStep, NackIsLast
  <2>2. \A i \in 1 .. Len(t) : i \in 1 .. Len(rx) \/ i = Len(t)
    BY <1>1
  <2>3. \A i \in 1 .. Len(t) : t[i].seq > q.expected
    BY <1>1, <2>1, <2>2
  <2>. QED BY <1>2, <2>1, <2>3
<1>6. NothingStale(End(e), q, t, tx)
  <2>0. NothingStale(nxt, q, rx, tx)
    BY DEF InStep
  <2>1. ASSUME Len(tx) > 0 \/ MayNack(q), NEW i \in 1 .. Len(t) PROVE End(t[i]) <= End(e)
    <3>1. CASE i # Len(t)
      <4>1. i \in 1 .. Len(rx) /\ t[i] = rx[i]
        BY <1>1, <3>1
      <4>2. End(rx[i]) <= nxt
        BY <2>0, <2>1, <4>1 DEF NothingStale
      <4>3. End(rx[i]) \in Nat
        BY <1>1, <4>1 DEF End
      <4>. QED BY <1>2, <4>1, <4>2, <4>3
    <3>2. CASE i = Len(t)
      BY <1>1, <1>2, <3>2
    <3>. QED BY <3>1, <3>2
  <2>2. ASSUME MayNack(q), NEW i \in 1 .. Len(t), t[i].seq = q.expected PROVE i = 1
    <3>1. CASE i # Len(t)
      <4>1. i \in 1 .. Len(rx) /\ rx[i].seq = q.expected
        BY <1>1, <2>2, <3>1
      <4>. QED BY <2>0, <2>2, <4>1 DEF NothingStale
    <3>2. CASE i = Len(t) /\ Len(rx) > 0
      <4>1. End(rx[1]) <= nxt /\ nxt = q.expected /\ rx[1].seq >= q.expected
        BY <1>1, <2>2, <3>2 DEF InStep, NothingStale, NoDuplicate
      <4>2. rx[1].seq \in Nat /\ rx[1].len \in Nat \ {0}
        BY <3>2 DEF Measured
      <4>. QED BY ONLY <4>1, <4>2, nxt \in Nat DEF End
    <3>. QED BY <1>1, <3>1, <3>2
  <2>. QED BY <2>1, <2>2 DEF NothingStale
<1>. QED BY <1>2, <1>3, <1>4, <1>5, <1>6 DEF InStep

(* A run without its first segment.                                        *)
LEMMA RunShifted ==
  ASSUME NEW rx, Measured(rx), NEW t, Shifted(t, rx), NEW nxt, NEW i \in 1 .. Len(t),
         RunFrom(i + 1, nxt, rx)
  PROVE  RunFrom(i, nxt, t)
<1>1. Len(rx) \in Nat /\ Len(t) = Len(rx) - 1 /\ \A j \in 1 .. Len(t) : t[j] = rx[j + 1]
  BY DEF Shifted, Measured
<1>2. \A j \in i .. Len(t) : j + 1 \in i + 1 .. Len(rx) /\ (j = Len(t) <=> j + 1 = Len(rx))
  BY <1>1
<1>3. \A j \in i .. Len(t) : End(t[j]) = IF j = Len(t) THEN nxt ELSE t[j + 1].seq
  <2>1. \A j \in i + 1 .. Len(rx) : End(rx[j]) = IF j = Len(rx) THEN nxt ELSE rx[j + 1].seq
    BY DEF RunFrom
  <2>3. i \in Nat /\ i > 0 /\ Len(t) \in Int
    BY <1>1
  <2>2. \A j \in i .. Len(t) : j # Len(t) => j + 1 \in 1 .. Len(t)
    BY ONLY <2>3
  <2>. QED BY <1>1, <1>2, <2>1, <2>2
<1>4. \A j \in i .. Len(t) : End(t[j]) <= nxt
  BY <1>1, <1>2 DEF RunFrom
<1>5. \A j, k \in i .. Len(t) : j < k => End(t[j]) <= t[k].seq
  BY <1>1, <1>2 DEF RunFrom
<1>. QED BY <1>3, <1>4, <1>5 DEF RunFrom

(* The first segment is gone, lost or of no use to the receiver.           *)
LEMMA StepShift ==
  ASSUME NEW una \in Nat, NEW nxt \in Nat, NEW q, q.expected \in Nat, NEW rx, Measured(rx), NEW tx, Len(tx) \in Nat,
         NEW t, Shifted(t, rx), InStep(una, nxt, q, rx, tx)
  PROVE  InStep(una, nxt, q, t, tx)
<1>1. Len(rx) \in Nat /\ Len(t) = Len(rx) - 1 /\ \A j \in 1 .. Len(t) : t[j] = rx[j + 1] /\ j + 1 \in 1 .. Len(rx)
  BY DEF Shifted, Measured
<1>2. NoDuplicate(q, t)
  BY <1>1 DEF InStep, NoDuplicate
<1>3. Resumed(nxt, q, t)
  <2>. SUFFICES ASSUME NEW i \in 1 .. Len(t), t[i].seq = q.expected PROVE RunFrom(i, nxt, t)
    BY DEF Resumed
  <2>1. i + 1 \in 1 .. Len(rx) /\ rx[i + 1].seq = q.expected
    BY <1>1
  <2>2. RunFrom(i + 1, nxt, rx)
    BY <2>1 DEF InStep, Resumed
  <2>. QED BY <2>2, RunShifted
<1>4. NackIsLast(nxt, q, t, tx)
  BY <1>1 DEF InStep, NackIsLast
<1>5. NothingStale(nxt, q, t, tx)
  <2>1. ASSUME Len(tx) > 0 \/ MayNack(q), NEW i \in 1 .. Len(t) PROVE End(t[i]) <= nxt
    <3>1. t[i] = rx[i + 1] /\ i + 1 \in 1 .. Len(rx)
      BY <1>1
    <3>. QED BY <2>1, <3>1 DEF InStep, NothingStale
  <2>2. ASSUME MayNack(q), NEW i \in 1 .. Len(t), t[i].seq = q.expected PROVE FALSE
    <3>1. t[i] = rx[i + 1] /\ i + 1 \in 1 .. Len(rx) /\ i + 1 # 1
      BY <1>1
    <3>. QED BY <2>2, <3>1 DEF InStep, NothingStale
  <2>. QED BY <2>1, <2>2 DEF NothingStale
<1>. QED BY <1>2, <1>3, <1>4, <1>5 DEF InStep

(* The segment the receiver wants arrives.                                 *)
LEMMA StepInOrder ==
  ASSUME NEW una \in Nat, NEW nxt \in Nat, NEW q, q.expected \in Nat, NEW rx, Measured(rx),
         NEW tx, Len(tx) \in Nat, NEW t, Shifted(t, rx), InStep(una, nxt, q, rx, tx),
         rx[1].seq = q.expected, NEW p, p.expected = End(rx[1]),
         NEW u, \/ u = tx
                \/ \E a : Appended(u, tx, a) /\ a.kind # "nack"
  PROVE  InStep(una, nxt, p, t, u)
<1>1. /\ Len(rx) \in Nat /\ 1 \in 1 .. Len(rx) /\ Len(t) = Len(rx) - 1
      /\ \A j \in 1 .. Len(t) : t[j] = rx[j + 1] /\ j + 1 \in 1 .. Len(rx)
  BY DEF Shifted, Measured
<1>2. \A j \in 1 .. Len(rx) : rx[j].seq \in Nat /\ End(rx[j]) \in Nat /\ rx[j].seq < End(rx[j])
  BY DEF Measured, End
<1>3. RunFrom(1, nxt, rx)
  BY <1>1 DEF InStep, Resumed
<1>4. /\ \A j \in 1 .. Len(rx) : End(rx[j]) <= nxt
      /\ \A j, k \in 1 .. Len(rx) : j < k => End(rx[j]) <= rx[k].seq
      /\ Len(rx) > 1 => End(rx[1]) = rx[2].seq
  BY <1>1, <1>3 DEF RunFrom
<1>5. una <= p.expected /\ p.expected <= nxt
  BY <1>1, <1>2, <1>4 DEF InStep
<1>6. NoDuplicate(p, t)
  BY <1>1, <1>4 DEF NoDuplicate
<1>7. Resumed(nxt, p, t)
  <2>. SUFFICES ASSUME NEW i \in 1 .. Len(t) PROVE RunFrom(i, nxt, t)
    BY DEF Resumed
  <2>1. \A j \in i + 1 .. Len(rx) : j \in 1 .. Len(rx)
    BY <1>1
  <2>2. RunFrom(i + 1, nxt, rx)
    BY <1>3, <2>1 DEF RunFrom
  <2>. QED BY <2>2, RunShifted
<1>8. \A j \in 1 .. Len(tx) : tx[j].kind # "nack"
  <2>. SUFFICES ASSUME NEW j \in 1 .. Len(tx), tx[j].kind = "nack" PROVE FALSE
    OBVIOUS
  <2>1. \A i \in 1 .. Len(rx) : rx[i].seq > q.expected
    BY DEF InStep, NackIsLast
  <2>2. rx[1].seq > q.expected
    BY <1>1, <2>1
  <2>. QED BY <2>2
<1>9. \A j \in 1 .. Len(u) : u[j].kind # "nack"
  BY <1>8 DEF Appended
<1>10. NothingStale(nxt, p, t, u)
  <2>1. \A i \in 1 .. Len(t) : End(t[i]) <= nxt
    BY <1>1, <1>4
  <2>2. ASSUME NEW i \in 1 .. Len(t), t[i].seq = p.expected PROVE i = 1
    <3>1. SUFFICES ASSUME i > 1 PROVE FALSE
      BY <1>1
    <3>2. 2 \in 1 .. Len(rx) /\ i + 1 \in 1 .. Len(rx) /\ 2 < i + 1
      BY <1>1, <3>1
    <3>3. End(rx[2]) <= rx[i + 1].seq /\ rx[i + 1].seq = rx[2].seq
      BY <1>1, <1>4, <2>2, <3>2
    <3>. QED BY <1>2, <3>2, <3>3
  <2>. QED BY <2>1, <2>2 DEF NothingStale
<1>. QED BY <1>5, <1>6, <1>7, <1>9, <1>10 DEF InStep, NackIsLast

(* A gap is answered.                                                      *)
LEMMA StepGap ==
  ASSUME NEW una \in Nat, NEW nxt \in Nat, NEW q, q.expected \in Nat, NEW rx, Measured(rx),
         NEW tx, Len(tx) \in Nat, NEW t, Shifted(t, rx), InStep(una, nxt, q, rx, tx),
         rx[1].seq > q.expected, MayNack(q),
         NEW p, p.expected = q.expected, ~MayNack(p),
         NEW u, NEW a, Appended(u, tx, a), a.kind = "nack", a.seq = q.expected
  PROVE  InStep(una, nxt, p, t, u)
<1>1. /\ Len(rx) \in Nat /\ 1 \in 1 .. Len(rx) /\ Len(t) = Len(rx) - 1
      /\ \A j \in 1 .. Len(t) : t[j] = rx[j + 1] /\ j + 1 \in 1 .. Len(rx)
  BY DEF Shifted, Measured
<1>2. \A j \in 1 .. Len(rx) : rx[j].seq \in Nat /\ End(rx[j]) \in Nat /\ rx[j].seq < End(rx[j])
  BY DEF Measured, End
<1>3. \A i \in 1 .. Len(rx) : rx[i].seq >= q.expected /\ rx[i].seq # q.expected
  BY <1>2 DEF InStep, NoDuplicate, NothingStale
<1>4. ASSUME NEW i \in 1 .. Len(t) PROVE t[i].seq > q.expected
  <2>1. t[i] = rx[i + 1] /\ i + 1 \in 1 .. Len(rx)
    BY <1>1
  <2>2. rx[i + 1].seq \in Nat /\ rx[i + 1].seq >= q.expected /\ rx[i + 1].seq # q.expected
    BY <1>2, <1>3, <2>1
  <2>. QED BY <2>1, <2>2
<1>5. \A i \in 1 .. Len(rx) : End(rx[i]) <= nxt
  BY DEF InStep, NothingStale
<1>6. nxt > q.expected
  <2>1. rx[1].seq \in Nat /\ End(rx[1]) \in Nat /\ rx[1].seq < End(rx[1]) /\ End(rx[1]) <= nxt
    BY <1>1, <1>2, <1>5
  <2>. QED BY <2>1
<1>7. NoDuplicate(p, t) /\ Resumed(nxt, p, t)
  <2>1. \A i \in 1 .. Len(t) : t[i].seq \in Nat
    BY <1>1, <1>2
  <2>2. \A i \in 1 .. Len(t) : t[i].seq >= p.expected /\ t[i].seq # p.expected
    BY <1>4, <2>1
  <2>. QED BY <2>2 DEF NoDuplicate, Resumed
<1>8. NackIsLast(nxt, p, t, u)
  <2>1. \A j \in 1 .. Len(tx) : tx[j].kind # "nack"
    BY DEF InStep, NackIsLast
  <2>2. \A j \in 1 .. Len(u) : u[j].kind = "nack" => j = Len(u)
    BY <2>1 DEF Appended
  <2>3. u[Len(u)] = a
    BY DEF Appended
  <2>. QED BY <1>4, <1>6, <2>2, <2>3 DEF NackIsLast
<1>9. NothingStale(nxt, p, t, u)
  BY <1>1, <1>5 DEF NothingStale
<1>. QED BY <1>7, <1>8, <1>9 DEF InStep

(* An answer is gone, lost or taken; the sender may have learnt from it.   *)
LEMMA StepAnswer ==
  ASSUME NEW una, NEW nxt \in Nat, NEW q, q.expected \in Nat, NEW rx, NEW tx, Len(tx) \in Nat,
         NEW u, Shifted(u, tx), InStep(una, nxt, q, rx, tx),
         NEW una2 \in Nat, una2 <= q.expected
  PROVE  InStep(una2, nxt, q, rx, u)
<1>1. /\ Len(u) = Len(tx) - 1 /\ \A j \in 1 .. Len(u) : u[j] = tx[j + 1] /\ j + 1 \in 1 .. Len(tx)
      /\ \A j \in 1 .. Len(u) : j + 1 = Len(tx) => j = Len(u)
  BY DEF Shifted
<1>2. NackIsLast(nxt, q, rx, u)
  BY <1>1 DEF InStep, NackIsLast
<1>3. NothingStale(nxt, q, rx, u)
  BY <1>1 DEF InStep, NothingStale
<1>. QED BY <1>2, <1>3 DEF InStep

(* The sender goes back.                                                   *)
LEMMA StepGoBack ==
  ASSUME NEW una, NEW nxt \in Nat, NEW q, q.expected \in Nat, NEW rx, NEW tx, Len(tx) \in Nat,
         NEW u, Shifted(u, tx), InStep(una, nxt, q, rx, tx), tx[1].kind = "nack"
  PROVE  InStep(q.expected, q.expected, q, rx, u)
<1>1. 1 \in 1 .. Len(tx)
  BY DEF Shifted
<1>2. /\ Len(tx) = 1 /\ ~MayNack(q)
      /\ \A i \in 1 .. Len(rx) : rx[i].seq > q.expected
  BY <1>1 DEF InStep, NackIsLast
<1>3. Len(u) = 0
  BY <1>2 DEF Shifted
<1>. QED BY <1>2, <1>3 DEF InStep, NoDuplicate, Resumed, NackIsLast, NothingStale

-----------------------------------------------------------------------------
(* While the flow lasts its two ends are in step; after it nothing is left *)
(* under way for the receiver, whose queue pair is gone.                   *)
Fifo ==
  IF InQpMap THEN InStep(snd_una, snd_nxt, GetRxQp, toRx, toTx)
  ELSE toRx = <<>> /\ rxQp = NoQp /\ snd_nxt = Size
FInv == TInv /\ Fifo

(* Packets do not overtake each other, none is under way for longer than   *)
(* the interval between two NACKs, and the sender heeds what it is told.   *)
Orderly == ~BackToZero /\ ~HasEndTime /\ ~SlowNetwork /\ ~Reroutes /\ AckInterval # 0

LEMMA InitFInv == Orderly /\ Init => FInv
<1>. SUFFICES ASSUME Orderly, Init PROVE FInv
  OBVIOUS
<1>1. TInv
  BY InitTInv DEF Orderly
<1>2. Len(toRx) = 0 /\ Len(toTx) = 0 /\ snd_una = 0 /\ snd_nxt = 0 /\ GetRxQp.expected = 0 /\ InQpMap
  BY DEF Init, GetRxQp, NewRxQp, InQpMap
<1>3. InStep(snd_una, snd_nxt, GetRxQp, toRx, toTx)
  BY <1>2 DEF InStep, NoDuplicate, Resumed, NackIsLast, NothingStale
<1>. QED BY <1>1, <1>2, <1>3 DEF FInv, Fifo

(* The state as the lemmas about InStep want it.                           *)
LEMMA Shapes ==
  ASSUME FInv
  PROVE  /\ snd_una \in 0 .. Size /\ snd_nxt \in 0 .. Size
         /\ toRx \in Seq(Segments) /\ Measured(toRx) /\ Len(toRx) \in Nat
         /\ toTx \in Seq(Answers) /\ Len(toTx) \in Nat
         /\ GetRxQp \in RxQps /\ GetRxQp.expected \in 0 .. Size
<1>1. TypeOK /\ RxInside
  BY DEF FInv, TInv, IInv
<1>2. GetRxQp \in RxQps /\ GetRxQp.expected \in Nat
  BY <1>1, RxQpType DEF RxQps
<1>. QED BY <1>1, <1>2, SegmentsMeasured, FlowAssumption DEF TypeOK, RxInside

LEMMA StillInStep ==
  ASSUME FInv, TInv', UNCHANGED <<snd_nxt, snd_una, completions, rxQp, toRx, toTx>>
  PROVE  FInv'
  BY DEF FInv, Fifo, InQpMap, GetRxQp

LEMMA SendInStep ==
  ASSUME FInv, TInv', NEW w \in Windows, Send(w) PROVE FInv'
<1>. DEFINE segment == [seq |-> snd_nxt % SeqWord, len |-> Smaller(Mtu, GetBytesLeft)]
<1>1. snd_nxt < Size /\ GetBytesLeft = Size - snd_nxt
  BY Shapes, FlowAssumption DEF Send, Eligible, GetBytesLeft
<1>2. InQpMap
  BY <1>1, FlowAssumption DEF FInv, Fifo
<1>3. snd_nxt % SeqWord = snd_nxt
  BY OnTheWire, Shapes
<1>4. segment.seq = snd_nxt /\ segment.len \in Nat \ {0} /\ segment \in Segments
  <2>1. Smaller(Mtu, GetBytesLeft) \in 1 .. Mtu
    BY <1>1, Shapes, FlowAssumption DEF Smaller
  <2>2. snd_nxt \in 0 .. SeqWord - 1
    BY <1>1, Shapes, FlowAssumption, ShortFlow
  <2>. QED BY <1>3, <2>1, <2>2, FlowAssumption DEF Segments
<1>5. toRx' = Append(toRx, segment) /\ snd_nxt' = End(segment)
  BY <1>3 DEF Send, GetNxtPacket, End
<1>6. UNCHANGED <<snd_una, completions, rxQp, toTx>>
  BY DEF Send
<1>. HIDE DEF segment
<1>7. PICK t : t = toRx'
  OBVIOUS
<1>8. Appended(t, toRx, segment)
  BY <1>4, <1>5, <1>7, AppendAppended, Shapes
<1>9. InStep(snd_una, snd_nxt, GetRxQp, toRx, toTx)
  BY <1>2 DEF FInv, Fifo
<1>10. InStep(snd_una, End(segment), GetRxQp, t, toTx)
  BY <1>4, <1>8, <1>9, StepSend, Shapes
<1>. QED BY <1>2, <1>5, <1>6, <1>7, <1>10 DEF FInv, Fifo, InQpMap, GetRxQp

LEMMA LoseDataInStep ==
  ASSUME FInv, TInv', LoseData PROVE FInv'
<1>1. toRx # <<>> /\ toRx' = Tail(toRx) /\ UNCHANGED <<snd_nxt, snd_una, completions, rxQp, toTx>>
  BY DEF LoseData, sender
<1>2. PICK t : t = toRx'
  OBVIOUS
<1>3. Shifted(t, toRx)
  BY <1>1, <1>2, TailShifted, Shapes
<1>4. CASE InQpMap
  <2>1. InStep(snd_una, snd_nxt, GetRxQp, t, toTx)
    BY <1>3, <1>4, StepShift, Shapes DEF FInv, Fifo
  <2>. QED BY <1>1, <1>2, <1>4, <2>1 DEF FInv, Fifo, InQpMap, GetRxQp
<1>5. CASE ~InQpMap
  BY <1>1, <1>5 DEF FInv, Fifo
<1>. QED BY <1>4, <1>5

LEMMA LoseAnswerInStep ==
  ASSUME FInv, TInv', LoseAnswer PROVE FInv'
<1>1. toTx # <<>> /\ toTx' = Tail(toTx) /\ UNCHANGED <<snd_nxt, snd_una, completions, rxQp, toRx>>
  BY DEF LoseAnswer, sender
<1>2. PICK u : u = toTx'
  OBVIOUS
<1>3. Shifted(u, toTx)
  BY <1>1, <1>2, TailShifted, Shapes
<1>4. CASE InQpMap
  <2>1. InStep(snd_una, snd_nxt, GetRxQp, toRx, toTx)
    BY <1>4 DEF FInv, Fifo
  <2>2. snd_una <= GetRxQp.expected /\ snd_una \in Nat
    BY <2>1, Shapes DEF InStep
  <2>3. InStep(snd_una, snd_nxt, GetRxQp, toRx, u)
    BY <1>3, <2>1, <2>2, StepAnswer, Shapes
  <2>. QED BY <1>1, <1>2, <1>4, <2>3 DEF FInv, Fifo, InQpMap, GetRxQp
<1>5. CASE ~InQpMap
  BY <1>1, <1>5 DEF FInv, Fifo, InQpMap
<1>. QED BY <1>4, <1>5

LEMMA ReceiveAckInStep ==
  ASSUME Orderly, FInv, TInv', NEW i \in Arriving(toTx), ReceiveAck(i) PROVE FInv'
<1>1. i \in 1 .. Len(toTx) /\ i = 1 /\ toTx' = Remove(toTx, i) /\ UNCHANGED toRx
  BY DEF Orderly, Arriving, ReceiveAck
<1>2. PICK u : u = toTx'
  OBVIOUS
<1>3. Shifted(u, toTx)
  BY <1>1, <1>2, RemoveShifted, Shapes
<1>4. CASE ~InQpMap
  BY <1>1, <1>4 DEF ReceiveAck, FInv, Fifo, InQpMap
<1>5. CASE InQpMap
  <2>1. InStep(snd_una, snd_nxt, GetRxQp, toRx, toTx)
    BY <1>5 DEF FInv, Fifo
  <2>2. snd_nxt' = IF toTx[1].kind = "nack" THEN snd_una' ELSE snd_nxt
    BY <1>1, <1>5 DEF ReceiveAck, RecoverQueue
  <2>3. snd_una' = Larger(snd_una, toTx[1].seq) /\ (IF snd_una' >= Size THEN QpComplete ELSE UNCHANGED <<completions, rxQp>>)
    BY <1>1, <1>5 DEF Orderly, ReceiveAck, TakeAck, Acknowledge, IsFinished
  <2>4. toTx[1].seq \in Nat /\ toTx[1].seq <= GetRxQp.expected
    <3>1. toTx[1] \in Answers
      BY <1>1, Shapes
    <3>. QED BY <1>1, <1>5, <3>1 DEF Answers, FInv, TInv, AnswersBehind, Orderly, Kept
  <2>5. snd_una' \in Nat /\ snd_una' <= GetRxQp.expected
    BY <2>1, <2>3, <2>4, Shapes DEF Larger, InStep
  <2>6. toTx[1].kind = "nack" => snd_una' = GetRxQp.expected
    <3>1. toTx[1].kind = "nack" => toTx[1].seq = GetRxQp.expected
      BY <1>1, <2>1 DEF InStep, NackIsLast
    <3>. QED BY <2>3, <2>4, <2>5, <3>1, Shapes DEF Larger
  <2>7. CASE snd_una' < Size
    <3>1. UNCHANGED <<completions, rxQp>>
      BY <2>3, <2>5, <2>7, FlowAssumption
    <3>2. PICK una2 : una2 = snd_una'
      OBVIOUS
    <3>3. CASE toTx[1].kind = "nack"
      <4>1. InStep(GetRxQp.expected, GetRxQp.expected, GetRxQp, toRx, u)
        BY <1>3, <2>1, <3>3, StepGoBack, Shapes
      <4>. QED BY <1>1, <1>2, <1>5, <2>2, <2>6, <3>1, <3>3, <4>1 DEF FInv, Fifo, InQpMap, GetRxQp
    <3>4. CASE toTx[1].kind # "nack"
      <4>1. una2 \in Nat /\ una2 <= GetRxQp.expected
        BY <2>5, <3>2
      <4>2. InStep(una2, snd_nxt, GetRxQp, toRx, u)
        BY <1>3, <2>1, <4>1, StepAnswer, Shapes
      <4>. QED BY <1>1, <1>2, <1>5, <2>2, <3>1, <3>2, <3>4, <4>2 DEF FInv, Fifo, InQpMap, GetRxQp
    <3>. QED BY <3>3, <3>4
  <2>8. CASE ~(snd_una' < Size)
    <3>1. snd_una' = Size /\ GetRxQp.expected = Size
      BY <2>5, <2>8, Shapes, FlowAssumption
    <3>2. completions' = 1 /\ rxQp' = NoQp
      BY <1>5, <2>3, <3>1, FlowAssumption DEF QpComplete, InQpMap
    <3>3. snd_nxt' = Size
      BY <2>1, <2>2, <3>1, Shapes, FlowAssumption DEF InStep
    <3>4. toRx = <<>>
      <4>1. SUFFICES ASSUME 1 \in 1 .. Len(toRx) PROVE FALSE
        BY Shapes
      <4>2. toRx[1].seq >= Size
        BY <2>1, <3>1, <4>1 DEF InStep, NoDuplicate
      <4>3. toRx[1].seq + toRx[1].len <= Size /\ toRx[1].seq \in Nat /\ toRx[1].len \in Nat \ {0}
        BY <4>1, Shapes DEF FInv, TInv, IInv, SegmentsInside, Measured
      <4>. QED BY <4>2, <4>3, FlowAssumption
    <3>. QED BY <1>1, <3>2, <3>3, <3>4 DEF FInv, Fifo, InQpMap
  <2>. QED BY <2>7, <2>8
<1>. QED BY <1>4, <1>5

(* What a segment does when it arrives in order or beyond a gap.           *)
LEMMA UdpEffect ==
  ASSUME Orderly, FInv, NEW i \in Arriving(toRx), ReceiveUdp(i)
  PROVE  /\ Shifted(toRx', toRx)
         /\ \/ toRx[1].seq = GetRxQp.expected /\ GetRxQp'.expected = End(toRx[1])
            \/ toRx[1].seq > GetRxQp.expected /\ GetRxQp'.expected = GetRxQp.expected
         /\ \/ toTx' = toTx
            \/ \E a : Appended(toTx', toTx, a) /\ a.seq = GetRxQp'.expected
<1>1. i \in 1 .. Len(toRx) /\ i = 1 /\ toRx' = Remove(toRx, i) /\ ReceiverCheckSeq(GetRxQp, toRx[1])
  BY DEF Orderly, Arriving, ReceiveUdp
<1>2. Shifted(toRx', toRx)
  <2>1. PICK t : t = toRx'
    OBVIOUS
  <2>2. Shifted(t, toRx)
    BY <1>1, <2>1, RemoveShifted, Shapes
  <2>. QED BY <2>1, <2>2
<1>3. /\ toRx[1] \in Segments /\ toRx[1].seq \in Nat /\ toRx[1].len \in Nat
      /\ toRx[1].seq + toRx[1].len <= Size /\ toRx[1].seq >= GetRxQp.expected
  <2>1. toRx[1] \in Segments
    BY <1>1, Shapes
  <2>2. InStep(snd_una, snd_nxt, GetRxQp, toRx, toTx)
    BY <1>1 DEF FInv, Fifo
  <2>. QED BY <1>1, <2>1, <2>2, Shapes DEF FInv, TInv, IInv, SegmentsInside, Measured, InStep, NoDuplicate
<1>4. /\ rxQp' \in RxQps
      /\ \/ toTx' = toTx
         \/ \E answer \in Answers : toTx' = Append(toTx, answer) /\ answer.seq = rxQp'.expected
  BY <1>1, <1>3, CheckSeqKeeps DEF FInv, TInv
<1>5. GetRxQp' = rxQp'
  BY <1>4, FlowAssumption DEF GetRxQp, RxQps, NoQp
<1>6. toTx' = toTx \/ \E a : Appended(toTx', toTx, a) /\ a.seq = rxQp'.expected
  <2>1. PICK u : u = toTx'
    OBVIOUS
  <2>2. u = toTx \/ \E a : Appended(u, toTx, a) /\ a.seq = rxQp'.expected
    BY <1>4, <2>1, AppendAppended, Shapes
  <2>. QED BY <2>1, <2>2
<1>7. CASE InOrder(GetRxQp, toRx[1])
  <2>1. toRx[1].seq = GetRxQp.expected /\ (GetRxQp.expected + toRx[1].len) % SeqWord = End(toRx[1])
    BY <1>3, <1>7, OnTheWire, Shapes DEF InOrder, End
  <2>2. rxQp'.expected = End(toRx[1])
    BY <1>7, <2>1, Shapes DEF InOrder, RxQps
  <2>. QED BY <1>2, <1>5, <1>6, <2>1, <2>2
<1>8. CASE Gap(GetRxQp, toRx[1])
  <2>1. toRx[1].seq > GetRxQp.expected /\ rxQp'.expected = GetRxQp.expected
    BY <1>8 DEF Gap, Orderly
  <2>. QED BY <1>2, <1>5, <1>6, <2>1
<1>9. ~Duplicate(GetRxQp, toRx[1])
  BY <1>3, Shapes DEF Duplicate
<1>. QED BY <1>1, <1>7, <1>8, <1>9 DEF ReceiverCheckSeq

LEMMA ReceiveUdpInStep ==
  ASSUME Orderly, FInv, TInv', NEW i \in Arriving(toRx), ReceiveUdp(i) PROVE FInv'
<1>1. i \in 1 .. Len(toRx) /\ i = 1 /\ toRx' = Remove(toRx, i) /\ UNCHANGED <<snd_nxt, snd_una, completions>>
  BY DEF Orderly, Arriving, ReceiveUdp, sender
<1>2. InQpMap /\ InStep(snd_una, snd_nxt, GetRxQp, toRx, toTx)
  BY <1>1 DEF FInv, Fifo
<1>3. PICK t : t = toRx'
  OBVIOUS
<1>4. Shifted(t, toRx)
  BY <1>1, <1>3, RemoveShifted, Shapes
<1>5. /\ toRx[1] \in Segments /\ toRx[1].seq \in Nat /\ toRx[1].len \in Nat
      /\ toRx[1].seq + toRx[1].len <= Size /\ toRx[1].seq >= GetRxQp.expected
  <2>1. toRx[1] \in Segments
    BY <1>1, Shapes
  <2>. QED BY <1>1, <1>2, <2>1, Shapes
           DEF FInv, TInv, IInv, SegmentsInside, Measured, InStep, NoDuplicate
<1>6. InOrder(GetRxQp, toRx[1]) \/ Gap(GetRxQp, toRx[1])
  BY <1>1, <1>5, Shapes DEF ReceiveUdp, ReceiverCheckSeq, Duplicate
<1>7. PICK p, u : p = GetRxQp' /\ u = toTx'
  OBVIOUS
<1>8. rxQp' # NoQp
  <2>1. rxQp' \in RxQps
    BY <1>1, <1>5, CheckSeqKeeps DEF FInv, TInv, ReceiveUdp
  <2>. QED BY <2>1, FlowAssumption DEF RxQps, NoQp
<1>9. p = rxQp'
  BY <1>7, <1>8 DEF GetRxQp
<1>10. SUFFICES InStep(snd_una, snd_nxt, p, t, u)
  BY <1>1, <1>2, <1>3, <1>7 DEF FInv, Fifo, InQpMap
<1>11. CASE InOrder(GetRxQp, toRx[1])
  <2>. DEFINE expected == (GetRxQp.expected + toRx[1].len) % SeqWord
  <2>1. expected = End(toRx[1]) /\ toRx[1].seq = GetRxQp.expected
    BY <1>5, <1>11, OnTheWire, Shapes DEF InOrder, End
  <2>2. rxQp' = [GetRxQp EXCEPT !.expected = expected]
    BY <1>11 DEF InOrder
  <2>3. u = toTx \/ u = Append(toTx, [kind |-> "ack", seq |-> expected])
    BY <1>7, <1>11 DEF InOrder
  <2>. HIDE DEF expected
  <2>4. p.expected = End(toRx[1])
    BY <1>9, <2>1, <2>2, Shapes DEF RxQps
  <2>5. expected \in 0 .. SeqWord - 1
    BY <1>5, <2>1, ShortFlow, FlowAssumption DEF End
  <2>6. [kind |-> "ack", seq |-> expected] \in Answers /\ [kind |-> "ack", seq |-> expected].kind # "nack"
    BY <2>5 DEF Answers
  <2>7. u = toTx \/ \E a : Appended(u, toTx, a) /\ a.kind # "nack"
    BY <2>3, <2>6, AppendAppended, Shapes
  <2>. QED BY <1>2, <1>4, <2>1, <2>4, <2>7, StepInOrder, Shapes
<1>12. CASE Gap(GetRxQp, toRx[1]) /\ MayNack(GetRxQp)
  <2>. DEFINE nack == [kind |-> "nack", seq |-> GetRxQp.expected]
  <2>1. /\ p = [expected |-> GetRxQp.expected, lastNACK |-> GetRxQp.expected, nackHeld |-> TRUE]
        /\ u = Append(toTx, nack) /\ toRx[1].seq > GetRxQp.expected
    BY <1>7, <1>9, <1>12 DEF Gap, Orderly
  <2>2. nack \in Answers /\ nack.kind = "nack" /\ nack.seq = GetRxQp.expected
    BY Shapes, ShortFlow, FlowAssumption DEF Answers
  <2>. HIDE DEF nack
  <2>3. p.expected = GetRxQp.expected /\ ~MayNack(p)
    BY <2>1 DEF MayNack
  <2>4. Appended(u, toTx, nack)
    BY <2>1, <2>2, AppendAppended, Shapes
  <2>. QED BY <1>2, <1>4, <1>12, <2>1, <2>2, <2>3, <2>4, StepGap, Shapes
<1>13. CASE Gap(GetRxQp, toRx[1]) /\ ~MayNack(GetRxQp)
  <2>1. p = GetRxQp /\ u = toTx
    BY <1>7, <1>9, <1>13 DEF Gap
  <2>. QED BY <1>2, <1>4, <2>1, StepShift, Shapes
<1>. QED BY <1>6, <1>11, <1>12, <1>13

LEMMA NextFInv == Orderly /\ FInv /\ [Next]_vars => FInv'
<1>. SUFFICES ASSUME Orderly, FInv, [Next]_vars PROVE FInv'
  OBVIOUS
<1>1. TInv'
  <2>1. NotEnded'
    BY EndComesOnce DEF Orderly, FInv, TInv, NotEnded
  <2>. QED BY <2>1, NextTInv DEF FInv
<1>2. CASE UNCHANGED vars \/ ClearFinished
  BY <1>1, <1>2, StillInStep DEF vars, ClearFinished
<1>3. CASE EndTimeReached
  BY <1>3 DEF Orderly, FInv, TInv, NotEnded, EndTimeReached
<1>4. CASE NackTimerPasses
  BY <1>4 DEF Orderly, NackTimerPasses
<1>. QED BY <1>1, <1>2, <1>3, <1>4, SendInStep, ReceiveAckInStep, ReceiveUdpInStep,
            LoseDataInStep, LoseAnswerInStep DEF Next

THEOREM InStepAlways == ASSUME Orderly PROVE Spec => []FInv
<1>1. Init => FInv
  BY InitFInv
<1>2. FInv /\ [Next]_vars => FInv'
  BY NextFInv
<1>. QED BY <1>1, <1>2, PTL DEF Spec

(* When both queue pairs are gone no segment is under way that would make  *)
(* the receiver anew, however many packets were lost.                      *)
THEOREM NoGhostFlow == ASSUME Orderly PROVE Spec => []QuietAfterCompletion
<1>1. FInv => QuietAfterCompletion
  BY DEF FInv, Fifo, QuietAfterCompletion
<1>. QED BY <1>1, InStepAlways, PTL

(* The sender never has more on the fly than its largest window and the    *)
(* segment that reaches it: no answer takes snd_una beyond snd_nxt, where  *)
(* the unsigned difference would wrap and close the window for good.       *)
LEMMA InitWindow == Init => WindowKept
<1>. SUFFICES ASSUME Init PROVE WindowKept
  OBVIOUS
<1>1. GetOnTheFly = 0
  BY DEF Init, GetOnTheFly
<1>2. PICK w \in Windows : w \in Nat
  BY FlowAssumption
<1>. QED BY <1>1, <1>2, FlowAssumption DEF WindowKept

UnaNotAhead == snd_una \in Nat /\ snd_nxt \in Nat /\ snd_una <= snd_nxt

LEMMA OnTheFly == FInv => UnaNotAhead
<1>. SUFFICES ASSUME FInv PROVE UnaNotAhead
  OBVIOUS
<1>1. CASE InQpMap
  BY <1>1, Shapes DEF FInv, Fifo, InStep, UnaNotAhead
<1>2. CASE ~InQpMap
  BY <1>2, Shapes, FlowAssumption DEF FInv, Fifo, UnaNotAhead
<1>. QED BY <1>1, <1>2

LEMMA DifferenceBounds ==
  ASSUME NEW a \in Nat, NEW b \in Nat, NEW c \in Nat, NEW d \in Nat, NEW n \in Nat, NEW m \in Nat
  PROVE  /\ d - c <= b - a /\ b - a < n + m => d - c < n + m
         /\ b - a < n /\ d <= b + m /\ c = a => d - c < n + m
         /\ a <= b /\ a <= c /\ (d = b \/ d = c) => d - c <= b - a
  OBVIOUS

LEMMA NextWindow ==
  Orderly /\ FInv /\ UnaNotAhead /\ UnaNotAhead' /\ WindowKept /\ [Next]_vars => WindowKept'
<1>. SUFFICES ASSUME Orderly, FInv, UnaNotAhead, UnaNotAhead', WindowKept, [Next]_vars, 0 \notin Windows
              PROVE  \E w \in Windows : snd_nxt' - snd_una' < w + Mtu
  BY DEF WindowKept, GetOnTheFly, UnaNotAhead
<1>1. GetOnTheFly = snd_nxt - snd_una
  BY DEF GetOnTheFly, UnaNotAhead
<1>2. /\ snd_nxt \in Nat /\ snd_una \in Nat /\ snd_nxt' \in Nat /\ snd_una' \in Nat
      /\ snd_una <= snd_nxt /\ snd_una' <= snd_nxt'
  BY DEF UnaNotAhead
<1>3. PICK v \in Windows : snd_nxt - snd_una < v + Mtu
  BY <1>1 DEF WindowKept
<1>4. v \in Nat /\ Mtu \in Nat
  BY FlowAssumption
<1>5. ASSUME snd_nxt' - snd_una' <= snd_nxt - snd_una PROVE \E w \in Windows : snd_nxt' - snd_una' < w + Mtu
  <2>1. snd_nxt' - snd_una' < v + Mtu
    BY <1>2, <1>3, <1>4, <1>5, DifferenceBounds
  <2>. QED BY <2>1
<1>6. ASSUME NEW w \in Windows, Send(w) PROVE \E u \in Windows : snd_nxt' - snd_una' < u + Mtu
  <2>1. snd_nxt - snd_una < w /\ w \in Nat
    BY <1>1, <1>2, <1>6, FlowAssumption DEF Send, Eligible, IsWinBound
  <2>2. snd_nxt' <= snd_nxt + Mtu /\ snd_una' = snd_una
    <3>1. snd_nxt' = snd_nxt + Smaller(Mtu, GetBytesLeft) /\ snd_una' = snd_una
      BY <1>6 DEF Send, GetNxtPacket
    <3>2. GetBytesLeft \in Int
      BY <1>2, FlowAssumption DEF GetBytesLeft
    <3>3. Smaller(Mtu, GetBytesLeft) \in Int /\ Smaller(Mtu, GetBytesLeft) <= Mtu
      BY <1>4, <3>2 DEF Smaller
    <3>. QED BY <1>2, <1>4, <3>1, <3>3
  <2>3. snd_nxt' - snd_una' < w + Mtu
    BY <1>2, <1>4, <2>1, <2>2, DifferenceBounds
  <2>. QED BY <2>3
<1>7. ASSUME NEW i \in Arriving(toTx), ReceiveAck(i) PROVE snd_nxt' - snd_una' <= snd_nxt - snd_una
  <2>1. snd_nxt' = snd_nxt \/ snd_nxt' = snd_una'
    BY <1>7 DEF ReceiveAck, RecoverQueue
  <2>2. toTx[i].seq \in Nat
    <3>1. i \in 1 .. Len(toTx) /\ toTx[i] \in Answers
      BY <1>7, Shapes DEF Arriving
    <3>. QED BY <3>1 DEF Answers
  <2>3. snd_una' >= snd_una
    <3>1. snd_una' = snd_una \/ snd_una' = Larger(snd_una, toTx[i].seq)
      BY <1>7 DEF Orderly, ReceiveAck, TakeAck, Acknowledge
    <3>. QED BY <1>2, <2>2, <3>1 DEF Larger
  <2>. QED BY <1>2, <2>1, <2>3, DifferenceBounds
<1>8. ASSUME UNCHANGED <<snd_nxt, snd_una>> PROVE snd_nxt' - snd_una' <= snd_nxt - snd_una
  BY <1>1, <1>2, <1>8
<1>. QED BY <1>5, <1>6, <1>7, <1>8
         DEF Next, vars, sender, ClearFinished, EndTimeReached, ReceiveUdp, NackTimerPasses, LoseData, LoseAnswer

THEOREM WindowNotExceeded == ASSUME Orderly PROVE Spec => []WindowKept
<1>1. FInv /\ UnaNotAhead /\ UnaNotAhead' /\ WindowKept /\ [Next]_vars => WindowKept'
  BY NextWindow
<1>. QED BY <1>1, InitWindow, OnTheFly, InStepAlways, PTL DEF Spec

-----------------------------------------------------------------------------
(* RateControl.                                                            *)
Rates == MinRate .. LineRate

LEMMA BoundedIsRate == ASSUME NEW r \in Int PROVE Bounded(r) \in Rates
  BY ControlAssumption DEF Bounded, Smaller, Larger, Rates

LEMMA QuotientIsNat ==
  ASSUME NEW a \in Nat, NEW b \in Nat \ {0} PROVE a \div b \in Nat
  OBVIOUS

LEMMA RemainderIsNat ==
  ASSUME NEW a \in Int, NEW b \in Nat \ {0} PROVE a % b \in Nat
  OBVIOUS

LEMMA ProductIsNat == ASSUME NEW a \in Nat, NEW b \in Nat PROVE a * b \in Nat
  OBVIOUS

LEMMA NewRateIsRate ==
  ASSUME NEW r \in Rates, NEW stage, NEW u \in Utilisations
  PROVE  NewRate(r, stage, u) \in Rates
<1>1. r \in Nat /\ u \in Nat \ {0} /\ One \in Nat /\ RateAI \in Nat
  BY ControlAssumption DEF Rates
<1>2. (r * One) \div u \in Nat
  BY <1>1, ProductIsNat, QuotientIsNat
<1>3. (IF MustDivide(stage, u) THEN (r * One) \div u ELSE r) + RateAI \in Int
  BY <1>1, <1>2
<1>. QED BY <1>3, BoundedIsRate DEF NewRate

LEMMA NewStageIsStage ==
  ASSUME NEW stage \in Nat, NEW u
  PROVE  NewStage(stage, u) \in 0 .. MiThresh
  BY ControlAssumption DEF NewStage, MustDivide

(* The mean of two shares of One, rounded down, is a share of One.         *)
LEMMA MeanOfShares ==
  ASSUME NEW a \in 0 .. One, NEW b \in 0 .. One
  PROVE  ((One - Gain) * a + Gain * b) \div One \in 0 .. One
<1>1. One \in Nat \ {0} /\ Gain \in 0 .. One
  BY ControlAssumption
<1>2. (One - Gain) * a \in 0 .. (One - Gain) * One /\ Gain * b \in 0 .. Gain * One
  BY <1>1
<1>3. (One - Gain) * One + Gain * One = One * One
  BY <1>1
<1>. DEFINE sum == (One - Gain) * a + Gain * b
<1>4. sum \in 0 .. One * One
  BY <1>1, <1>2, <1>3
<1>. HIDE DEF sum
<1>5. sum \div One \in 0 .. One
  BY <1>1, <1>4
<1>. QED BY <1>5 DEF sum

LEMMA FracIsShare ==
  ASSUME NEW n \in Nat, NEW batch \in Nat \ {0}
  PROVE  (One * Smaller(n, batch)) \div batch \in 0 .. One
<1>1. One \in Nat /\ Smaller(n, batch) \in 0 .. batch
  BY ControlAssumption DEF Smaller
<1>2. One * Smaller(n, batch) \in 0 .. One * batch
  BY <1>1
<1>. QED BY <1>1, <1>2

-----------------------------------------------------------------------------
(* What a handler may assume: the flow is typed before and after.          *)
Reads(seq) == ControlTypeOK /\ snd_nxt' \in 0 .. Size /\ seq \in Nat /\ controller' = controller

LEMMA LowestIsOne ==
  ASSUME NEW S \in SUBSET Rates, S # {} PROVE LowestOf(S) \in S
<1>1. S \subseteq Nat
  BY ControlAssumption DEF Rates
<1>2. \E r \in S : \A s \in S : r <= s
  BY <1>1, LeastExists
<1>. QED BY <1>2 DEF LowestOf

LEMMA InSmaller == ASSUME NEW a, NEW b PROVE Smaller(a, b) = a \/ Smaller(a, b) = b
  BY DEF Smaller

LEMMA StageBounds ==
  /\ MiThresh \in Nat /\ TimelyStages = 5
  /\ 0 .. MiThresh \subseteq 0 .. Larger(MiThresh, TimelyStages)
  /\ 0 .. TimelyStages \subseteq 0 .. Larger(MiThresh, TimelyStages)
  BY ControlAssumption DEF TimelyStages, Larger

LEMMA AdvanceKeeps ==
  ASSUME NEW seq, Reads(seq), Advance(seq) PROVE lastUpdateSeq' \in 0 .. Size
  BY FlowAssumption DEF Reads, ControlTypeOK, Advance, Larger

(* The parts of the state that a handler of HPCC, TIMELY or PINT moves.    *)
LEMMA FromParts ==
  ASSUME NEW seq, Reads(seq), controller # "dctcp", UNCHANGED dctcp,
         lastUpdateSeq' \in 0 .. Size, rate' \in Rates, curRate' \in Rates,
         incStage' \in 0 .. Larger(MiThresh, TimelyStages),
         hopState' \in [Hops -> [Rc : Rates, incStage : 0 .. MiThresh]]
  PROVE  ControlTypeOK'
  BY DEF Reads, ControlTypeOK, Rates

LEMMA Parts ==
  ASSUME ControlTypeOK
  PROVE  /\ lastUpdateSeq \in 0 .. Size /\ rate \in Rates /\ curRate \in Rates
         /\ incStage \in 0 .. Larger(MiThresh, TimelyStages) /\ incStage \in Nat
         /\ hopState \in [Hops -> [Rc : Rates, incStage : 0 .. MiThresh]]
  BY DEF ControlTypeOK, Rates

LEMMA UnmovedKeeps ==
  ASSUME NEW seq, Reads(seq), Unmoved, UNCHANGED dctcp PROVE ControlTypeOK'
  BY DEF Reads, ControlTypeOK, Unmoved

LEMMA FirstRoundKeeps ==
  ASSUME NEW seq, Reads(seq), controller # "dctcp", FirstRound, UNCHANGED dctcp
  PROVE  ControlTypeOK'
  BY DEF Reads, ControlTypeOK, FirstRound

LEMMA UpdateRateKeeps ==
  ASSUME ControlTypeOK, NEW full, NEW u \in Utilisations, UpdateRate(full, u)
  PROVE  rate' \in Rates /\ curRate' \in Rates /\ incStage' \in 0 .. Larger(MiThresh, TimelyStages)
<1>1. rate' \in Rates
  BY Parts, NewRateIsRate DEF UpdateRate
<1>2. NewStage(incStage, u) \in 0 .. Larger(MiThresh, TimelyStages)
  BY Parts, NewStageIsStage, StageBounds
<1>. QED BY <1>1, <1>2, Parts DEF UpdateRate

LEMMA UpdateRatePerHopKeeps ==
  ASSUME ControlTypeOK, NEW full, NEW updated, NEW u \in [Hops -> Utilisations],
         UpdateRatePerHop(full, updated, u)
  PROVE  /\ rate' \in Rates /\ curRate' \in Rates
         /\ incStage' \in 0 .. Larger(MiThresh, TimelyStages)
         /\ hopState' \in [Hops -> [Rc : Rates, incStage : 0 .. MiThresh]]
<1>. DEFINE candidate(h) == IF h \in updated THEN NewRate(hopState[h].Rc, hopState[h].incStage, u[h])
                            ELSE hopState[h].Rc
            stage(h) == NewStage(hopState[h].incStage, u[h])
            rates == {LineRate} \cup {candidate(h) : h \in Hops}
<1>1. \A h \in Hops : hopState[h].Rc \in Rates /\ hopState[h].incStage \in Nat /\ u[h] \in Utilisations
  BY Parts
<1>2. \A h \in Hops : candidate(h) \in Rates
  BY <1>1, NewRateIsRate
<1>3. \A h \in Hops : stage(h) \in 0 .. MiThresh
  BY <1>1, NewStageIsStage
<1>4. LineRate \in Rates
  BY ControlAssumption DEF Rates
<1>5. rates \in SUBSET Rates /\ rates # {}
  BY <1>2, <1>4
<1>6. rate' = LowestOf(rates)
  BY DEF UpdateRatePerHop
<1>7. rate' \in Rates
  BY <1>5, <1>6, LowestIsOne
<1>8. \/ curRate' = rate' /\ hopState' = [h \in Hops |-> [Rc |-> candidate(h), incStage |-> stage(h)]]
      \/ UNCHANGED <<curRate, hopState>>
  BY DEF UpdateRatePerHop
<1>9. incStage' = incStage
  BY DEF UpdateRatePerHop
<1>. HIDE DEF candidate, stage
<1>10. [h \in Hops |-> [Rc |-> candidate(h), incStage |-> stage(h)]]
         \in [Hops -> [Rc : Rates, incStage : 0 .. MiThresh]]
  BY <1>2, <1>3
<1>. QED BY <1>7, <1>8, <1>9, <1>10, Parts

LEMMA UpdateRateHpKeeps ==
  ASSUME NEW seq, NEW full, Reads(seq), controller # "dctcp", UpdateRateHp(seq, full), UNCHANGED dctcp
  PROVE  ControlTypeOK'
<1>1. CASE lastUpdateSeq = 0
  BY <1>1, FirstRoundKeeps DEF UpdateRateHp
<1>2. CASE lastUpdateSeq # 0
  <2>1. lastUpdateSeq' \in 0 .. Size
    BY <1>2, AdvanceKeeps, Parts DEF UpdateRateHp, Reads
  <2>2. CASE controller = "hpcc"
    <3>1. PICK u \in Utilisations : UpdateRate(full, u)
      BY <1>2, <2>2 DEF UpdateRateHp
    <3>2. UNCHANGED hopState
      BY <1>2, <2>2 DEF UpdateRateHp
    <3>. QED BY <2>1, <3>1, <3>2, UpdateRateKeeps, FromParts, Parts DEF Reads
  <2>3. CASE controller # "hpcc"
    <3>1. PICK u \in [Hops -> Utilisations], updated \in SUBSET Hops : UpdateRatePerHop(full, updated, u)
      BY <1>2, <2>3 DEF UpdateRateHp
    <3>. QED BY <2>1, <3>1, UpdateRatePerHopKeeps, FromParts DEF Reads
  <2>. QED BY <2>2, <2>3
<1>. QED BY <1>1, <1>2

LEMMA HpKeeps ==
  ASSUME NEW seq, Reads(seq), controller # "dctcp", HandleAckHp(seq) PROVE ControlTypeOK'
  BY UpdateRateHpKeeps, UnmovedKeeps DEF HandleAckHp

LEMMA PintKeeps ==
  ASSUME NEW seq, Reads(seq), controller # "dctcp", HandleAckHpPint(seq) PROVE ControlTypeOK'
<1>1. CASE Unmoved
  BY <1>1, UnmovedKeeps DEF HandleAckHpPint
<1>2. CASE lastUpdateSeq = 0 /\ FirstRound
  BY <1>2, FirstRoundKeeps DEF HandleAckHpPint
<1>3. CASE \E u \in Utilisations : UpdateRate(FullUpdate(seq), u) /\ UNCHANGED hopState
             /\ (Advance(seq) \/ UNCHANGED lastUpdateSeq)
  <2>1. PICK u \in Utilisations : UpdateRate(FullUpdate(seq), u)
    BY <1>3
  <2>2. lastUpdateSeq' \in 0 .. Size
    BY <1>3, AdvanceKeeps, Parts DEF Reads
  <2>. QED BY <1>3, <2>1, <2>2, UpdateRateKeeps, FromParts, Parts DEF Reads, HandleAckHpPint
<1>. QED BY <1>1, <1>2, <1>3 DEF HandleAckHpPint

LEMMA TimelyKeeps ==
  ASSUME NEW seq, Reads(seq), controller # "dctcp", HandleAckTimely(seq) PROVE ControlTypeOK'
<1>1. CASE ~FullUpdate(seq)
  BY <1>1, UnmovedKeeps DEF HandleAckTimely
<1>2. CASE FullUpdate(seq)
  <2>1. lastUpdateSeq' \in 0 .. Size /\ UNCHANGED <<hopState, dctcp>>
    BY <1>2, AdvanceKeeps DEF HandleAckTimely
  <2>2. Increased \in Rates
    BY Parts, ControlAssumption DEF Reads, Increased, Smaller, Rates
  <2>3. \A c \in Factors : Larger(MinRate, (curRate * c) \div One) \in Rates
    <3>1. SUFFICES ASSUME NEW c \in Factors PROVE Larger(MinRate, (curRate * c) \div One) \in Rates
      OBVIOUS
    <3>2. curRate \in Nat /\ curRate <= LineRate /\ c \in 0 .. One /\ One \in Nat \ {0}
      BY Parts, ControlAssumption DEF Reads, Rates
    <3>3. curRate * c \in 0 .. curRate * One
      BY <3>2
    <3>4. (curRate * c) \div One \in 0 .. curRate
      BY <3>2, <3>3
    <3>. QED BY <3>2, <3>4, ControlAssumption DEF Larger, Rates
  <2>4. Smaller(incStage + 1, TimelyStages) \in 0 .. TimelyStages
    BY Parts DEF Reads, Smaller, TimelyStages
  <2>5. \/ UNCHANGED <<rate, curRate, incStage>>
        \/ rate' \in Rates /\ curRate' = rate' /\ incStage' \in 0 .. TimelyStages
    BY <1>2, <2>2, <2>3, <2>4 DEF HandleAckTimely, TimelyStages
  <2>. QED BY <2>1, <2>5, StageBounds, FromParts, Parts DEF Reads
<1>. QED BY <1>1, <1>2

DctcpRecords == [inCwr : BOOLEAN, highSeq : 0 .. Size, ecnCnt : Nat, batch : Nat, alpha : 0 .. One]

LEMMA UpdateAlphaIsRecord ==
  ASSUME NEW seq, Reads(seq), NEW n \in Nat, controller = "dctcp"
  PROVE  UpdateAlpha(seq, n) \in DctcpRecords /\ UpdateAlpha(seq, n).batch > 0
<1>1. /\ dctcp \in DctcpRecords /\ dctcp.alpha \in 0 .. One
      /\ lastUpdateSeq \in Nat /\ (lastUpdateSeq > 0 => dctcp.batch \in Nat \ {0})
  BY DEF Reads, ControlTypeOK, DctcpRecords
<1>2. /\ snd_nxt' \in Nat /\ snd_nxt' - seq \in Int
      /\ Mtu \in Nat \ {0} /\ CountWord \in Nat \ {0}
  BY FlowAssumption DEF Reads
<1>3. /\ snd_nxt' \div Mtu \in Nat
      /\ ((snd_nxt' - seq) % CountWord) \div Mtu \in Nat
  BY <1>2, QuotientIsNat, RemainderIsNat
<1>4. CASE lastUpdateSeq = 0
  <2>. DEFINE batch == snd_nxt' \div Mtu + 1
  <2>1. batch \in Nat \ {0}
    BY <1>3
  <2>2. UpdateAlpha(seq, n) = [dctcp EXCEPT !.ecnCnt = n, !.batch = batch]
    BY <1>4 DEF UpdateAlpha
  <2>. HIDE DEF batch
  <2>3. [dctcp EXCEPT !.ecnCnt = n, !.batch = batch] \in DctcpRecords
    BY <1>1, <2>1 DEF DctcpRecords
  <2>4. [dctcp EXCEPT !.ecnCnt = n, !.batch = batch].batch = batch
    BY <1>1 DEF DctcpRecords
  <2>. QED BY <2>1, <2>2, <2>3, <2>4
<1>5. CASE lastUpdateSeq # 0
  <2>. DEFINE frac == (One * Smaller(n, dctcp.batch)) \div dctcp.batch
              alpha == ((One - Gain) * dctcp.alpha + Gain * frac) \div One
              batch == ((snd_nxt' - seq) % CountWord) \div Mtu + 1
  <2>1. dctcp.batch \in Nat \ {0}
    BY <1>1, <1>5
  <2>2. frac \in 0 .. One
    BY <2>1, FracIsShare
  <2>3. alpha \in 0 .. One
    BY <1>1, <2>2, MeanOfShares
  <2>4. UpdateAlpha(seq, n) = [dctcp EXCEPT !.ecnCnt = 0, !.batch = batch, !.alpha = alpha]
    BY <1>5 DEF UpdateAlpha
  <2>5. batch \in Nat \ {0}
    BY <1>3
  <2>. HIDE DEF frac, alpha, batch
  <2>6. [dctcp EXCEPT !.ecnCnt = 0, !.batch = batch, !.alpha = alpha] \in DctcpRecords
    BY <1>1, <2>3, <2>5 DEF DctcpRecords
  <2>7. [dctcp EXCEPT !.ecnCnt = 0, !.batch = batch, !.alpha = alpha].batch = batch
    BY <1>1 DEF DctcpRecords
  <2>. QED BY <2>4, <2>5, <2>6, <2>7
<1>. QED BY <1>4, <1>5

LEMMA DctcpKeeps ==
  ASSUME NEW seq, Reads(seq), controller = "dctcp", NEW cnp \in BOOLEAN, HandleAckDctcp(seq, cnp)
  PROVE  ControlTypeOK'
<1>. DEFINE ecnCnt == dctcp.ecnCnt + (IF cnp THEN 1 ELSE 0)
            updated == IF FullUpdate(seq) THEN UpdateAlpha(seq, ecnCnt)
                       ELSE [dctcp EXCEPT !.ecnCnt = ecnCnt]
            inCwr == dctcp.inCwr /\ seq <= dctcp.highSeq
            reduces == Reduces(cnp, inCwr)
            reduced == Larger(MinRate, (rate * (2 * One - updated.alpha)) \div (2 * One))
<1>1. dctcp \in DctcpRecords
  BY DEF Reads, ControlTypeOK, DctcpRecords
<1>2. ecnCnt \in Nat
  BY <1>1 DEF DctcpRecords
<1>3. /\ lastUpdateSeq' = IF FullUpdate(seq) THEN snd_nxt' ELSE lastUpdateSeq
      /\ dctcp' = IF reduces THEN [updated EXCEPT !.inCwr = TRUE, !.highSeq = snd_nxt']
                  ELSE [updated EXCEPT !.inCwr = inCwr]
      /\ rate' = IF reduces THEN reduced
                 ELSE IF ~inCwr /\ FullUpdate(seq) THEN Smaller(LineRate, rate + RateAI)
                 ELSE rate
      /\ UNCHANGED <<curRate, incStage, hopState>>
  BY DEF HandleAckDctcp
<1>4. updated \in DctcpRecords
  <2>1. [dctcp EXCEPT !.ecnCnt = ecnCnt] \in DctcpRecords
    BY <1>1, <1>2 DEF DctcpRecords
  <2>. QED BY <1>2, <2>1, UpdateAlphaIsRecord
<1>5. lastUpdateSeq' > 0 => updated.batch > 0
  <2>1. CASE FullUpdate(seq)
    BY <1>2, <2>1, UpdateAlphaIsRecord
  <2>2. CASE ~FullUpdate(seq)
    <3>1. lastUpdateSeq' = lastUpdateSeq /\ updated.batch = dctcp.batch
      BY <1>1, <1>3, <2>2 DEF DctcpRecords
    <3>. QED BY <3>1 DEF Reads, ControlTypeOK
  <2>. QED BY <2>1, <2>2
<1>6. reduced \in Rates
  <2>1. rate \in Nat /\ rate <= LineRate /\ One \in Nat \ {0} /\ updated.alpha \in 0 .. One
    BY <1>4, Parts, ControlAssumption DEF Reads, Rates, DctcpRecords
  <2>. DEFINE keep == 2 * One - updated.alpha
  <2>2. keep \in 0 .. 2 * One
    BY <2>1
  <2>. HIDE DEF keep
  <2>3. rate * keep \in 0 .. rate * (2 * One)
    BY <2>1, <2>2
  <2>4. (rate * keep) \div (2 * One) \in 0 .. rate
    BY <2>1, <2>2, <2>3
  <2>. QED BY <2>1, <2>4, ControlAssumption DEF keep, Larger, Rates
<1>7. Smaller(LineRate, rate + RateAI) \in Rates
  BY Parts, ControlAssumption DEF Reads, Smaller, Rates
<1>8. inCwr \in BOOLEAN
  OBVIOUS
<1>. HIDE DEF updated, inCwr, reduces, reduced
<1>9. dctcp' \in DctcpRecords /\ dctcp'.batch = updated.batch
  BY <1>3, <1>4, <1>8 DEF Reads, DctcpRecords
<1>10. rate' \in Rates
  BY <1>3, <1>6, <1>7, Parts DEF Reads
<1>11. lastUpdateSeq' \in 0 .. Size
  BY <1>3, Parts DEF Reads
<1>. QED BY <1>3, <1>5, <1>9, <1>10, <1>11 DEF Reads, ControlTypeOK, DctcpRecords, Rates

LEMMA HandleAckKeeps ==
  ASSUME NEW seq, Reads(seq), HandleAck(seq) PROVE ControlTypeOK'
  BY HpKeeps, TimelyKeeps, DctcpKeeps, PintKeeps DEF HandleAck

-----------------------------------------------------------------------------
CInv == IInv /\ ControlTypeOK

LEMMA InitCInv == ControlledInit => CInv
<1>. SUFFICES ASSUME ControlledInit PROVE CInv
  OBVIOUS
<1>1. IInv
  BY InitIInv DEF ControlledInit
<1>2. LineRate \in MinRate .. LineRate /\ One \in 0 .. One /\ 0 \in 0 .. Size /\ 0 \in 0 .. MiThresh
  BY ControlAssumption, FlowAssumption
<1>. QED BY <1>1, <1>2, StageBounds DEF CInv, ControlTypeOK, ControlledInit, ControlInit

(* Every step is one of the flow.                                          *)
LEMMA ControlledIsFlow == [ControlledNext]_allVars => [Next]_vars
  BY DEF ControlledNext, allVars, vars, Next, SendPacket, ClearQp, ReceiveAckAndReact, ReceivePacket,
     LosePacket, LoseAck

LEMMA NextCInv == CInv /\ [ControlledNext]_allVars => CInv'
<1>. SUFFICES ASSUME CInv, [ControlledNext]_allVars PROVE CInv'
  OBVIOUS
<1>1. IInv'
  BY NextKeeps, ControlledIsFlow DEF CInv
<1>2. CASE UNCHANGED control
  BY <1>1, <1>2 DEF CInv, ControlTypeOK, control
<1>3. ASSUME NEW i \in Arriving(toTx), ReceiveAckAndReact(i) PROVE ControlTypeOK'
  <2>1. toTx[i].seq \in Nat
    <3>1. i \in 1 .. Len(toTx) /\ toTx \in Seq(Answers)
      BY DEF CInv, IInv, TypeOK, Arriving
    <3>2. toTx[i] \in Answers
      BY <3>1
    <3>. QED BY <3>2, FlowAssumption DEF Answers
  <2>2. Reads(toTx[i].seq)
    BY <1>1, <1>3, <2>1 DEF CInv, IInv, TypeOK, Reads, ReceiveAckAndReact
  <2>. QED BY <1>3, <2>2, HandleAckKeeps, UnmovedKeeps DEF ReceiveAckAndReact
<1>. QED BY <1>1, <1>2, <1>3
     DEF CInv, ControlledNext, allVars, control, SendPacket, ClearQp, ReceivePacket, LosePacket, LoseAck

(* Every controller keeps its rates between the minimum and the line rate, *)
(* for all parameters, losses and feedback.                                *)
THEOREM RatesWithinBounds == ControlledSpec => []ControlTypeOK
<1>1. CInv => ControlTypeOK
  BY DEF CInv
<1>. QED BY <1>1, InitCInv, NextCInv, PTL DEF ControlledSpec

-----------------------------------------------------------------------------
(* One step per round: what the handlers of HPCC and PINT preserve.        *)
Slowest(hs) == LowestOf({LineRate} \cup {hs[h].Rc : h \in Hops})

LEMMA InitStep == ControlInit => OneStepPerRound
<1>. SUFFICES ASSUME ControlInit PROVE OneStepPerRound
  OBVIOUS
<1>1. rate = curRate /\ curRate = LineRate
  BY DEF ControlInit
<1>2. {LineRate} \cup {hopState[h].Rc : h \in Hops} = {LineRate}
  BY DEF ControlInit
<1>3. LineRate \in Rates
  BY ControlAssumption DEF Rates
<1>4. LowestOf({LineRate}) \in {LineRate}
  BY ONLY <1>3, LowestIsOne
<1>. QED BY <1>1, <1>2, <1>4 DEF OneStepPerRound

LEMMA StillKeepsStep ==
  ASSUME OneStepPerRound, UNCHANGED <<controller, rate, curRate, incStage, hopState>>
  PROVE  OneStepPerRound'
<1>1. Slowest(hopState') = Slowest(hopState)
  OBVIOUS
<1>. QED BY <1>1 DEF OneStepPerRound, Slowest

LEMMA UpdateRateIsStep ==
  ASSUME NEW full, NEW u \in Utilisations, UpdateRate(full, u)
  PROVE  rate' = curRate' \/ \E v \in Utilisations : rate' = NewRate(curRate', incStage', v)
  BY DEF UpdateRate

LEMMA PerHopIsStep ==
  ASSUME NEW full, NEW updated, NEW u, UpdateRatePerHop(full, updated, u), curRate = Slowest(hopState)
  PROVE  curRate' = Slowest(hopState')
<1>. DEFINE candidate(h) == IF h \in updated THEN NewRate(hopState[h].Rc, hopState[h].incStage, u[h])
                            ELSE hopState[h].Rc
            stage(h) == NewStage(hopState[h].incStage, u[h])
<1>1. CASE full
  <2>1. /\ curRate' = LowestOf({LineRate} \cup {candidate(h) : h \in Hops})
        /\ hopState' = [h \in Hops |-> [Rc |-> candidate(h), incStage |-> stage(h)]]
    BY <1>1 DEF UpdateRatePerHop
  <2>. HIDE DEF candidate, stage
  <2>2. \A h \in Hops : hopState'[h].Rc = candidate(h)
    BY <2>1
  <2>3. {hopState'[h].Rc : h \in Hops} = {candidate(h) : h \in Hops}
    BY <2>2
  <2>. QED BY <2>1, <2>3 DEF Slowest
<1>2. CASE ~full
  BY <1>2 DEF UpdateRatePerHop
<1>. QED BY <1>1, <1>2

LEMMA UpdateRateHpIsStep ==
  ASSUME NEW seq, NEW full, OneStepPerRound, controller' = controller,
         controller \in {"hpcc", "hpcc_per_hop"}, UpdateRateHp(seq, full)
  PROVE  OneStepPerRound'
<1>1. CASE lastUpdateSeq = 0
  BY <1>1, StillKeepsStep DEF UpdateRateHp, FirstRound
<1>2. CASE lastUpdateSeq # 0 /\ controller = "hpcc"
  <2>1. PICK u \in Utilisations : UpdateRate(full, u)
    BY <1>2 DEF UpdateRateHp
  <2>. QED BY <1>2, <2>1, UpdateRateIsStep DEF OneStepPerRound
<1>3. CASE lastUpdateSeq # 0 /\ controller = "hpcc_per_hop"
  <2>1. PICK u \in [Hops -> Utilisations], updated \in SUBSET Hops : UpdateRatePerHop(full, updated, u)
    BY <1>3 DEF UpdateRateHp
  <2>2. curRate = Slowest(hopState)
    BY <1>3 DEF OneStepPerRound, Slowest
  <2>3. curRate' = Slowest(hopState')
    BY <2>1, <2>2, PerHopIsStep
  <2>. QED BY <1>3, <2>3 DEF OneStepPerRound, Slowest
<1>. QED BY <1>1, <1>2, <1>3

LEMMA HandleAckIsStep ==
  ASSUME NEW seq, OneStepPerRound, controller' = controller, HandleAck(seq)
  PROVE  OneStepPerRound'
<1>1. CASE controller \in {"hpcc", "hpcc_per_hop"} /\ HandleAckHp(seq)
  BY <1>1, UpdateRateHpIsStep, StillKeepsStep DEF HandleAckHp, Unmoved
<1>2. CASE controller = "pint" /\ HandleAckHpPint(seq)
  <2>1. CASE Unmoved \/ FirstRound
    BY <2>1, StillKeepsStep DEF Unmoved, FirstRound
  <2>2. CASE \E u \in Utilisations : UpdateRate(FullUpdate(seq), u)
    BY <1>2, <2>2, UpdateRateIsStep DEF OneStepPerRound
  <2>. QED BY <1>2, <2>1, <2>2 DEF HandleAckHpPint
<1>3. CASE controller \in {"timely", "dctcp"}
  BY <1>3 DEF OneStepPerRound
<1>. QED BY <1>1, <1>2, <1>3 DEF HandleAck

(* However the feedback arrives, fast reactions never build on each other: *)
(* the rate stays one step from that the round started with, and with one  *)
(* rate per hop a round starts from the slowest hop.                       *)
THEOREM StepsDoNotBuildUp == ControlledSpec => []OneStepPerRound
<1>1. ControlledInit => OneStepPerRound
  BY InitStep DEF ControlledInit
<1>2. OneStepPerRound /\ [ControlledNext]_allVars => OneStepPerRound'
  <2>. SUFFICES ASSUME OneStepPerRound, [ControlledNext]_allVars PROVE OneStepPerRound'
    OBVIOUS
  <2>1. CASE UNCHANGED control
    BY <2>1, StillKeepsStep DEF control
  <2>2. ASSUME NEW i \in Arriving(toTx), ReceiveAckAndReact(i) PROVE OneStepPerRound'
    BY <2>2, HandleAckIsStep, StillKeepsStep DEF ReceiveAckAndReact, Unmoved
  <2>. QED BY <2>1, <2>2
       DEF ControlledNext, allVars, control, SendPacket, ClearQp, ReceivePacket, LosePacket, LoseAck
<1>. QED BY <1>1, <1>2, PTL DEF ControlledSpec

-----------------------------------------------------------------------------
(* Rounds, for a flow whose packets stay in order: of the packets o counts *)
(* as old, those on their way to the receiver and the answers on their way *)
(* back are below the mark of the round, where e is what the receiver      *)
(* expects; or what is left of them is beyond a gap and will not be taken. *)
OldUnder(o, mark, e, rx, tx) ==
  /\ o.rx \in 0 .. Len(rx) /\ o.tx \in 0 .. Len(tx)
  /\ Len(tx) > o.tx => o.rx = 0
  /\ \A j \in 1 .. o.tx : tx[j].seq <= mark
  /\ \/ \A i \in 1 .. o.rx : End(rx[i]) <= mark
     \/ e <= mark /\ \A i \in 1 .. o.rx : rx[i].seq > e
Settled(o) == o.rx = 0 /\ o.tx = 0
Counts == [rx : Nat, tx : Nat]

LEMMA OldSend ==
  ASSUME NEW o \in Counts, NEW mark, NEW e, NEW rx, Len(rx) \in Nat, NEW tx,
         NEW t, NEW s, Appended(t, rx, s), OldUnder(o, mark, e, rx, tx)
  PROVE  OldUnder(o, mark, e, t, tx)
  BY DEF OldUnder, Appended, Counts

LEMMA OldReceive ==
  ASSUME NEW o \in Counts, NEW mark \in Nat, NEW e \in Nat, NEW rx, Measured(rx), NEW tx, Len(tx) \in Nat,
         NEW t, Shifted(t, rx), OldUnder(o, mark, e, rx, tx), NEW e2,
         \/ rx[1].seq = e /\ e2 = End(rx[1])
         \/ rx[1].seq > e /\ e2 = e,
         NEW u, u = tx \/ \E a : Appended(u, tx, a) /\ a.seq = e2,
         NEW o2, o2 = IF o.rx = 0 THEN o ELSE [rx |-> o.rx - 1, tx |-> o.tx + Len(u) - Len(tx)]
  PROVE  o2 \in Counts /\ OldUnder(o2, mark, e2, t, u)
<1>1. /\ Len(rx) \in Nat /\ 1 \in 1 .. Len(rx) /\ Len(t) = Len(rx) - 1
      /\ \A j \in 1 .. Len(t) : t[j] = rx[j + 1] /\ j + 1 \in 1 .. Len(rx)
  BY DEF Shifted, Measured
<1>2. \A j \in 1 .. Len(rx) : rx[j].seq \in Nat /\ End(rx[j]) \in Nat /\ rx[j].seq < End(rx[j])
  BY DEF Measured, End
<1>3. /\ Len(u) \in Nat /\ Len(u) \in Len(tx) .. Len(tx) + 1
      /\ \A j \in 1 .. Len(tx) : u[j] = tx[j]
      /\ Len(u) # Len(tx) => u[Len(u)].seq = e2
  BY DEF Appended
<1>4. o.rx \in Nat /\ o.tx \in Nat
  BY DEF Counts
<1>5. CASE o.rx = 0
  <2>1. o2 = o /\ o.tx \in 0 .. Len(tx) /\ \A j \in 1 .. o.tx : tx[j].seq <= mark
    BY <1>5 DEF OldUnder
  <2>2. \A j \in 1 .. o.tx : u[j].seq <= mark
    BY <1>3, <1>4, <2>1
  <2>3. o.rx \in 0 .. Len(t) /\ o.tx \in 0 .. Len(u) /\ \A i \in 1 .. o.rx : End(t[i]) <= mark
    BY <1>1, <1>3, <1>4, <1>5, <2>1
  <2>. QED BY <1>5, <2>1, <2>2, <2>3 DEF OldUnder
<1>6. CASE o.rx # 0
  <2>1. o.tx = Len(tx) /\ o.rx \in 1 .. Len(rx)
    BY <1>1, <1>4, <1>6 DEF OldUnder
  <2>2. o2 = [rx |-> o.rx - 1, tx |-> Len(u)]
    BY <1>3, <1>6, <2>1
  <2>3. o2 \in Counts /\ o2.rx = o.rx - 1 /\ o2.tx = Len(u) /\ o2.rx \in 0 .. Len(t)
    BY <1>1, <1>3, <1>4, <2>1, <2>2 DEF Counts
  <2>4. \A j \in 1 .. o2.rx : j \in 1 .. Len(t) /\ j + 1 \in 1 .. o.rx
    BY <1>1, <1>4, <2>1, <2>3
  <2>5. CASE \A i \in 1 .. o.rx : End(rx[i]) <= mark
    <3>1. \A i \in 1 .. o2.rx : End(t[i]) <= mark
      BY <1>1, <2>4, <2>5
    <3>2. e2 <= mark
      <4>1. End(rx[1]) <= mark /\ End(rx[1]) \in Nat /\ rx[1].seq \in Nat /\ rx[1].seq < End(rx[1])
        BY <1>1, <1>2, <2>1, <2>5
      <4>. QED BY <4>1
    <3>3. \A j \in 1 .. o2.tx : u[j].seq <= mark
      BY <1>3, <2>1, <2>3, <3>2 DEF OldUnder
    <3>. QED BY <1>3, <2>3, <3>1, <3>3 DEF OldUnder
  <2>6. CASE e <= mark /\ \A i \in 1 .. o.rx : rx[i].seq > e
    <3>1. e2 = e
      <4>1. rx[1].seq > e /\ rx[1].seq \in Nat
        BY <1>1, <1>2, <2>1, <2>6
      <4>. QED BY <4>1
    <3>2. \A i \in 1 .. o2.rx : t[i].seq > e2
      BY <1>1, <2>4, <2>6, <3>1
    <3>3. \A j \in 1 .. o2.tx : u[j].seq <= mark
      BY <1>3, <2>1, <2>3, <2>6, <3>1 DEF OldUnder
    <3>. QED BY <1>3, <2>3, <2>6, <3>1, <3>2, <3>3 DEF OldUnder
  <2>. QED BY <2>5, <2>6 DEF OldUnder
<1>. QED BY <1>5, <1>6

LEMMA OldLoseData ==
  ASSUME NEW o \in Counts, NEW mark, NEW e, NEW rx, Len(rx) \in Nat, NEW tx,
         NEW t, Shifted(t, rx), OldUnder(o, mark, e, rx, tx)
  PROVE  OldUnder([o EXCEPT !.rx = Fewer(@)], mark, e, t, tx)
<1>. DEFINE o2 == [o EXCEPT !.rx = Fewer(@)]
<1>1. o2.tx = o.tx /\ o2.rx = Fewer(o.rx) /\ o.rx \in Nat
  BY DEF Counts
<1>. HIDE DEF o2
<1>2. /\ Len(t) = Len(rx) - 1
      /\ \A j \in 1 .. Len(t) : t[j] = rx[j + 1]
  BY DEF Shifted
<1>3. o2.rx \in 0 .. Len(t) /\ (o.rx = 0 => o2.rx = 0)
  BY <1>1, <1>2 DEF Fewer, OldUnder, Shifted
<1>4. \A i \in 1 .. o2.rx : i \in 1 .. Len(t) /\ i + 1 \in 1 .. o.rx
  BY <1>1, <1>2, <1>3 DEF Fewer
<1>5. OldUnder(o2, mark, e, t, tx)
  BY <1>1, <1>2, <1>3, <1>4 DEF OldUnder
<1>. QED BY <1>5 DEF o2

LEMMA OldTake ==
  ASSUME NEW o \in Counts, NEW mark, NEW e, NEW rx, NEW tx, Len(tx) \in Nat,
         NEW u, Shifted(u, tx), OldUnder(o, mark, e, rx, tx)
  PROVE  OldUnder([o EXCEPT !.tx = Fewer(@)], mark, e, rx, u)
<1>. DEFINE o2 == [o EXCEPT !.tx = Fewer(@)]
<1>1. o2.rx = o.rx /\ o2.tx = Fewer(o.tx) /\ o.tx \in Nat
  BY DEF Counts
<1>. HIDE DEF o2
<1>2. /\ Len(tx) > 0 /\ Len(u) = Len(tx) - 1
      /\ \A j \in 1 .. Len(u) : u[j] = tx[j + 1]
  BY DEF Shifted
<1>3. o2.tx \in 0 .. Len(u) /\ (Len(u) > o2.tx => Len(tx) > o.tx)
  BY <1>1, <1>2 DEF Fewer, OldUnder
<1>4. \A i \in 1 .. o2.tx : i \in 1 .. Len(u) /\ i + 1 \in 1 .. o.tx
  BY <1>1, <1>2, <1>3 DEF Fewer
<1>5. OldUnder(o2, mark, e, rx, u)
  BY <1>1, <1>2, <1>3, <1>4 DEF OldUnder
<1>. QED BY <1>5 DEF o2

(* An answer above the mark is of the round: all old ones have arrived.    *)
LEMMA OldAreOver ==
  ASSUME NEW o \in Counts, NEW mark \in Nat, NEW e, NEW rx, NEW tx, Len(tx) \in Nat, Len(tx) > 0,
         OldUnder(o, mark, e, rx, tx), tx[1].seq \in Nat, tx[1].seq > mark
  PROVE  Settled(o)
<1>1. o.tx \in Nat /\ (o.tx > 0 => tx[1].seq <= mark)
  BY DEF OldUnder, Counts
<1>2. o.tx = 0
  BY <1>1
<1>. QED BY <1>2 DEF OldUnder, Settled

(* When a round begins all that is under way is old.                       *)
LEMMA OldFresh ==
  ASSUME NEW una, NEW nxt \in Nat, NEW q, q.expected \in Nat, NEW rx, Measured(rx), NEW tx, Len(tx) \in Nat,
         NEW u, Shifted(u, tx), InStep(una, nxt, q, rx, tx),
         NEW mark \in Nat, q.expected <= mark, tx[1].kind # "nack" => nxt <= mark,
         \A j \in 1 .. Len(u) : u[j].seq <= q.expected /\ u[j].seq \in Nat
  PROVE  OldUnder([rx |-> Len(rx), tx |-> Len(u)], mark, q.expected, rx, u)
<1>1. Len(tx) > 0 /\ 1 \in 1 .. Len(tx) /\ Len(u) \in Nat /\ Len(rx) \in Nat
  BY DEF Shifted, Measured
<1>2. \A j \in 1 .. Len(u) : u[j].seq <= mark
  OBVIOUS
<1>3. \/ \A i \in 1 .. Len(rx) : End(rx[i]) <= mark
      \/ \A i \in 1 .. Len(rx) : rx[i].seq > q.expected
  <2>1. CASE tx[1].kind = "nack"
    BY <1>1, <2>1 DEF InStep, NackIsLast
  <2>2. CASE tx[1].kind # "nack"
    <3>1. \A i \in 1 .. Len(rx) : End(rx[i]) <= nxt /\ End(rx[i]) \in Nat
      BY <1>1 DEF InStep, NothingStale, Measured, End
    <3>. QED BY <2>2, <3>1
  <2>. QED BY <2>1, <2>2
<1>. QED BY <1>1, <1>2, <1>3 DEF OldUnder

-----------------------------------------------------------------------------
(* What the handlers do to the marks.                                      *)
OnlyDctcp == controller # "dctcp" => ~dctcp.inCwr

LEMMA UpdateMark ==
  ASSUME NEW seq, Reads(seq), HandleAck(seq), lastUpdateSeq' # lastUpdateSeq
  PROVE  lastUpdateSeq' \in Nat /\ lastUpdateSeq' >= snd_nxt' /\ (lastUpdateSeq = 0 \/ seq > lastUpdateSeq)
<1>1. snd_nxt' \in Nat /\ lastUpdateSeq \in Nat
  BY Parts, FlowAssumption DEF Reads
<1>2. Advance(seq) => lastUpdateSeq' \in Nat /\ lastUpdateSeq' >= snd_nxt'
  BY <1>1 DEF Advance, Larger
<1>3. FirstRound => lastUpdateSeq' = snd_nxt'
  BY DEF FirstRound
<1>4. \/ lastUpdateSeq = 0 /\ (FirstRound \/ Advance(seq))
      \/ FullUpdate(seq) /\ (Advance(seq) \/ lastUpdateSeq' = snd_nxt')
  BY DEF HandleAck, HandleAckHp, HandleAckHpPint, HandleAckTimely, HandleAckDctcp, UpdateRateHp, Unmoved
<1>. QED BY <1>1, <1>2, <1>3, <1>4 DEF FullUpdate

LEMMA ReductionMark ==
  ASSUME NEW seq, Reads(seq), OnlyDctcp, HandleAck(seq)
  PROVE  /\ controller # "dctcp" => ~dctcp'.inCwr
         /\ Begins("reduction") =>
              /\ dctcp'.inCwr /\ dctcp'.highSeq = snd_nxt'
              /\ ~dctcp.inCwr \/ seq > dctcp.highSeq
         /\ ~Begins("reduction") =>
              IF dctcp'.inCwr THEN dctcp.inCwr /\ dctcp'.highSeq = dctcp.highSeq
              ELSE ~dctcp.inCwr \/ seq > dctcp.highSeq
<1>1. CASE controller # "dctcp"
  <2>1. dctcp' = dctcp /\ ~dctcp.inCwr
    BY <1>1 DEF HandleAck, HandleAckHp, HandleAckHpPint, HandleAckTimely, OnlyDctcp
  <2>. QED BY <1>1, <2>1 DEF Begins
<1>2. CASE controller = "dctcp"
  <2>1. PICK cnp \in BOOLEAN : HandleAckDctcp(seq, cnp)
    BY <1>2 DEF HandleAck
  <2>. DEFINE ecnCnt == dctcp.ecnCnt + (IF cnp THEN 1 ELSE 0)
              updated == IF FullUpdate(seq) THEN UpdateAlpha(seq, ecnCnt)
                         ELSE [dctcp EXCEPT !.ecnCnt = ecnCnt]
              inCwr == dctcp.inCwr /\ seq <= dctcp.highSeq
              reduces == Reduces(cnp, inCwr)
  <2>2. /\ dctcp' = IF reduces THEN [updated EXCEPT !.inCwr = TRUE, !.highSeq = snd_nxt']
                    ELSE [updated EXCEPT !.inCwr = inCwr]
        /\ ~reduces /\ inCwr => rate' = rate
    BY <2>1 DEF HandleAckDctcp
  <2>3. reduces => ~inCwr
    BY DEF Reduces
  <2>4. dctcp \in DctcpRecords /\ rate \in Nat /\ seq \in Nat
    BY Parts, ControlAssumption DEF Reads, ControlTypeOK, DctcpRecords, Rates
  <2>5. updated \in DctcpRecords /\ updated.highSeq = dctcp.highSeq
    <3>1. ecnCnt \in Nat
      BY <2>4 DEF DctcpRecords
    <3>2. /\ [dctcp EXCEPT !.ecnCnt = ecnCnt] \in DctcpRecords
          /\ [dctcp EXCEPT !.ecnCnt = ecnCnt].highSeq = dctcp.highSeq
      BY <2>4, <3>1 DEF DctcpRecords
    <3>3. FullUpdate(seq) => updated \in DctcpRecords
      BY <1>2, <3>1, UpdateAlphaIsRecord
    <3>4. UpdateAlpha(seq, ecnCnt).highSeq = dctcp.highSeq
      BY <2>4 DEF UpdateAlpha, DctcpRecords
    <3>. QED BY <3>2, <3>3, <3>4
  <2>6. ~inCwr => ~dctcp.inCwr \/ seq > dctcp.highSeq
    BY <2>4, FlowAssumption DEF DctcpRecords
  <2>7. inCwr => dctcp.inCwr
    OBVIOUS
  <2>8. inCwr \in BOOLEAN
    OBVIOUS
  <2>. HIDE DEF updated, inCwr, reduces
  <2>9. CASE reduces
    <3>1. dctcp'.inCwr /\ dctcp'.highSeq = snd_nxt'
      BY <2>2, <2>5, <2>9 DEF DctcpRecords
    <3>2. ~dctcp.inCwr \/ seq > dctcp.highSeq
      BY <2>3, <2>6, <2>9
    <3>3. ~Begins("reduction") => dctcp.inCwr /\ dctcp'.highSeq = dctcp.highSeq
      BY <3>1 DEF Begins
    <3>. QED BY <1>2, <3>1, <3>2, <3>3
  <2>10. CASE ~reduces /\ inCwr
    <3>1. dctcp'.inCwr /\ dctcp'.highSeq = dctcp.highSeq /\ dctcp.inCwr /\ rate' = rate
      BY <2>2, <2>5, <2>7, <2>10 DEF DctcpRecords
    <3>2. ~Begins("reduction")
      BY <2>4, <3>1 DEF Begins
    <3>. QED BY <1>2, <3>1, <3>2
  <2>11. CASE ~reduces /\ ~inCwr
    <3>1. ~dctcp'.inCwr
      BY <2>2, <2>5, <2>11 DEF DctcpRecords
    <3>2. ~Begins("reduction")
      BY <3>1 DEF Begins
    <3>. QED BY <1>2, <2>6, <2>11, <3>1, <3>2
  <2>. QED BY <2>9, <2>10, <2>11
<1>. QED BY <1>1, <1>2

-----------------------------------------------------------------------------
(* The marks of the two kinds of round, while the flow is in m_qpMap.      *)
Under(r, mark) == OldUnder(old[r], mark, GetRxQp.expected, toRx, toTx)
Marks ==
  InQpMap =>
    /\ IF lastUpdateSeq = 0 THEN Settled(old["update"]) ELSE Under("update", lastUpdateSeq)
    /\ IF dctcp.inCwr THEN Under("reduction", dctcp.highSeq) ELSE Settled(old["reduction"])
RInv == CInv /\ FInv /\ old \in [Rounds -> Counts] /\ OnlyDctcp /\ Marks

LEMMA MarksAreNat == CInv => lastUpdateSeq \in Nat /\ dctcp.highSeq \in Nat /\ rate \in Nat
  BY FlowAssumption, ControlAssumption DEF CInv, ControlTypeOK

LEMMA InitRInv == Orderly /\ ControlledInit => RInv
<1>. SUFFICES ASSUME Orderly, ControlledInit PROVE RInv
  OBVIOUS
<1>1. CInv /\ FInv
  BY InitCInv, InitFInv DEF ControlledInit
<1>2. old \in [Rounds -> Counts] /\ \A r \in Rounds : Settled(old[r])
  BY DEF ControlledInit, Counts, Settled
<1>. QED BY <1>1, <1>2 DEF RInv, OnlyDctcp, Marks, Rounds, ControlledInit, ControlInit

(* A step that leaves the controller alone keeps what is old old.          *)
LEMMA CarriedMarks ==
  ASSUME RInv, CInv', FInv', UNCHANGED <<control, completions>>, old' \in [Rounds -> Counts],
         \A r \in Rounds : Settled(old[r]) => Settled(old'[r]),
         \A r \in Rounds, mark \in Nat : Under(r, mark) => Under(r, mark)'
  PROVE  RInv'
<1>1. UNCHANGED <<controller, lastUpdateSeq, dctcp>> /\ (InQpMap' => InQpMap)
  BY DEF control, InQpMap
<1>2. lastUpdateSeq \in Nat /\ dctcp.highSeq \in Nat /\ "update" \in Rounds /\ "reduction" \in Rounds
  BY MarksAreNat DEF RInv, Rounds
<1>3. InQpMap => IF lastUpdateSeq = 0 THEN Settled(old'["update"]) ELSE Under("update", lastUpdateSeq)'
  BY <1>1, <1>2 DEF RInv, Marks
<1>4. InQpMap => IF dctcp.inCwr THEN Under("reduction", dctcp.highSeq)' ELSE Settled(old'["reduction"])
  BY <1>1, <1>2 DEF RInv, Marks
<1>5. Marks'
  BY <1>1, <1>3, <1>4 DEF Marks, Under
<1>. QED BY <1>1, <1>5 DEF RInv, OnlyDctcp

LEMMA SendMarks ==
  ASSUME RInv, CInv', FInv', NEW w \in Windows, SendPacket(w) PROVE RInv'
<1>1. UNCHANGED <<control, old, completions, rxQp, toTx>>
  BY DEF SendPacket, Send
<1>2. PICK t : t = toRx'
  OBVIOUS
<1>3. \E s : Appended(t, toRx, s)
  <2>1. PICK s : t = Append(toRx, s)
    BY <1>2 DEF SendPacket, Send, GetNxtPacket
  <2>2. Appended(t, toRx, s)
    BY <2>1, Shapes DEF RInv, Appended
  <2>. QED BY <2>2
<1>4. \A r \in Rounds, mark \in Nat :
        Under(r, mark) => OldUnder(old[r], mark, GetRxQp.expected, t, toTx)
  BY <1>3, OldSend, Shapes DEF RInv, Under
<1>5. \A r \in Rounds, mark \in Nat : Under(r, mark) => Under(r, mark)'
  BY <1>1, <1>2, <1>4 DEF Under, GetRxQp
<1>6. old' \in [Rounds -> Counts] /\ \A r \in Rounds : Settled(old[r]) => Settled(old'[r])
  BY <1>1 DEF RInv
<1>. QED BY <1>1, <1>5, <1>6, CarriedMarks

LEMMA LosePacketMarks ==
  ASSUME RInv, CInv', FInv', LosePacket PROVE RInv'
<1>1. /\ UNCHANGED <<control, completions, rxQp, toTx>> /\ toRx # <<>> /\ toRx' = Tail(toRx)
      /\ old' = [r \in Rounds |-> [old[r] EXCEPT !.rx = Fewer(@)]]
  BY DEF LosePacket, LoseData, sender
<1>2. PICK t : t = toRx'
  OBVIOUS
<1>3. Shifted(t, toRx)
  BY <1>1, <1>2, TailShifted, Shapes DEF RInv
<1>4. \A r \in Rounds, mark \in Nat :
        Under(r, mark) => OldUnder([old[r] EXCEPT !.rx = Fewer(@)], mark, GetRxQp.expected, t, toTx)
  BY <1>3, OldLoseData, Shapes DEF RInv, Under
<1>5. \A r \in Rounds, mark \in Nat : Under(r, mark) => Under(r, mark)'
  BY <1>1, <1>2, <1>4 DEF Under, GetRxQp
<1>6. \A r \in Rounds : /\ [old[r] EXCEPT !.rx = Fewer(@)] \in Counts
                        /\ Settled(old[r]) => Settled([old[r] EXCEPT !.rx = Fewer(@)])
  BY DEF RInv, Counts, Fewer, Settled
<1>7. old' \in [Rounds -> Counts] /\ \A r \in Rounds : Settled(old[r]) => Settled(old'[r])
  BY <1>1, <1>6
<1>. QED BY <1>1, <1>5, <1>7, CarriedMarks

LEMMA TakenCounts ==
  ASSUME RInv, NEW r \in Rounds
  PROVE  /\ [old[r] EXCEPT !.tx = Fewer(@)] \in Counts
         /\ Settled(old[r]) => Settled([old[r] EXCEPT !.tx = Fewer(@)])
  BY DEF RInv, Counts, Fewer, Settled

LEMMA LoseAckMarks ==
  ASSUME RInv, CInv', FInv', LoseAck PROVE RInv'
<1>1. /\ UNCHANGED <<control, completions, rxQp, toRx>> /\ toTx # <<>> /\ toTx' = Tail(toTx)
      /\ old' = [r \in Rounds |-> [old[r] EXCEPT !.tx = Fewer(@)]]
  BY DEF LoseAck, LoseAnswer, sender
<1>2. PICK u : u = toTx'
  OBVIOUS
<1>3. Shifted(u, toTx)
  BY <1>1, <1>2, TailShifted, Shapes DEF RInv
<1>4. \A r \in Rounds, mark \in Nat :
        Under(r, mark) => OldUnder([old[r] EXCEPT !.tx = Fewer(@)], mark, GetRxQp.expected, toRx, u)
  BY <1>3, OldTake, Shapes DEF RInv, Under
<1>5. \A r \in Rounds, mark \in Nat : Under(r, mark) => Under(r, mark)'
  BY <1>1, <1>2, <1>4 DEF Under, GetRxQp
<1>6. old' \in [Rounds -> Counts] /\ \A r \in Rounds : Settled(old[r]) => Settled(old'[r])
  BY <1>1, TakenCounts
<1>. QED BY <1>1, <1>5, <1>6, CarriedMarks

LEMMA ReceivePacketMarks ==
  ASSUME Orderly, RInv, CInv', FInv', NEW i \in Arriving(toRx), ReceivePacket(i) PROVE RInv'
<1>1. ReceiveUdp(i) /\ UNCHANGED <<control, completions>>
  BY DEF ReceivePacket, ReceiveUdp, sender
<1>2. PICK t, u, e : t = toRx' /\ u = toTx' /\ e = GetRxQp'.expected
  OBVIOUS
<1>3. /\ Shifted(t, toRx)
      /\ \/ toRx[1].seq = GetRxQp.expected /\ e = End(toRx[1])
         \/ toRx[1].seq > GetRxQp.expected /\ e = GetRxQp.expected
      /\ u = toTx \/ \E a : Appended(u, toTx, a) /\ a.seq = e
  BY <1>1, <1>2, UdpEffect DEF RInv
<1>. DEFINE now(r) == IF old[r].rx = 0 THEN old[r]
                      ELSE [rx |-> old[r].rx - 1, tx |-> old[r].tx + Len(u) - Len(toTx)]
<1>4. old' = [r \in Rounds |-> now(r)]
  BY <1>2 DEF ReceivePacket
<1>5. ASSUME NEW r \in Rounds, NEW mark \in Nat, Under(r, mark)
      PROVE  OldUnder(now(r), mark, e, t, u)
  <2>1. old[r] \in Counts /\ OldUnder(old[r], mark, GetRxQp.expected, toRx, toTx)
    BY <1>5 DEF RInv, Under
  <2>2. PICK o, o2, e0 : o = old[r] /\ o2 = now(r) /\ e0 = GetRxQp.expected
    OBVIOUS
  <2>3. o \in Counts /\ OldUnder(o, mark, e0, toRx, toTx) /\ e0 \in Nat
    BY <2>1, <2>2, Shapes DEF RInv
  <2>4. Measured(toRx) /\ Len(toTx) \in Nat
    BY Shapes DEF RInv
  <2>5. o2 = IF o.rx = 0 THEN o ELSE [rx |-> o.rx - 1, tx |-> o.tx + Len(u) - Len(toTx)]
    BY <2>2
  <2>6. \/ toRx[1].seq = e0 /\ e = End(toRx[1])
        \/ toRx[1].seq > e0 /\ e = e0
    BY <1>3, <2>2
  <2>7. OldUnder(o2, mark, e, t, u)
    BY ONLY <1>3, <2>3, <2>4, <2>5, <2>6, OldReceive, mark \in Nat
  <2>. QED BY <2>2, <2>7
<1>6. \A r \in Rounds : now(r) \in Counts /\ (Settled(old[r]) => Settled(now(r)))
  <2>. SUFFICES ASSUME NEW r \in Rounds PROVE now(r) \in Counts /\ (Settled(old[r]) => Settled(now(r)))
    OBVIOUS
  <2>1. old[r] \in Counts /\ Len(u) \in Nat /\ Len(toTx) \in Nat /\ Len(u) >= Len(toTx)
    BY <1>3, Shapes DEF RInv, Appended
  <2>. QED BY <2>1 DEF Counts, Settled
<1>. HIDE DEF now
<1>7. \A r \in Rounds, mark \in Nat : Under(r, mark) => Under(r, mark)'
  BY <1>2, <1>4, <1>5 DEF Under
<1>8. old' \in [Rounds -> Counts] /\ \A r \in Rounds : Settled(old[r]) => Settled(old'[r])
  BY <1>4, <1>6
<1>. QED BY <1>1, <1>7, <1>8, CarriedMarks

(* The first answer under way, when its flow is still in m_qpMap.          *)
LEMMA FirstAnswer ==
  ASSUME Orderly, RInv, InQpMap, NEW i \in Arriving(toTx)
  PROVE  /\ i = 1 /\ toTx[1].seq \in Nat /\ toTx[1].seq <= GetRxQp.expected
         /\ \A r \in Rounds, mark \in Nat :
              Under(r, mark) /\ toTx[1].seq > mark => Settled(old[r])
<1>1. i = 1 /\ 1 \in 1 .. Len(toTx)
  BY DEF Orderly, Arriving
<1>2. toTx[1] \in Answers /\ Len(toTx) \in Nat /\ Len(toTx) > 0
  BY <1>1, Shapes DEF RInv
<1>3. toTx[1].seq \in Nat /\ toTx[1].seq <= GetRxQp.expected
  BY <1>1, <1>2 DEF Answers, RInv, FInv, TInv, AnswersBehind, Orderly, Kept
<1>. QED BY <1>1, <1>2, <1>3, OldAreOver DEF RInv, Under

(* Where the handler is called it is with the types it reads.              *)
LEMMA HandlerReads ==
  ASSUME Orderly, RInv, CInv', InQpMap, NEW i \in Arriving(toTx), ReceiveAckAndReact(i)
  PROVE  Reads(toTx[1].seq) /\ HandleAck(toTx[1].seq)
  BY FirstAnswer DEF RInv, CInv, IInv, TypeOK, Reads, ReceiveAckAndReact

LEMMA ReactMarks ==
  ASSUME Orderly, RInv, CInv', FInv', NEW i \in Arriving(toTx), ReceiveAckAndReact(i) PROVE RInv'
<1>. DEFINE fresh == [rx |-> Len(toRx), tx |-> Len(toTx')]
            taken(r) == [old[r] EXCEPT !.tx = Fewer(@)]
<1>1. /\ ReceiveAck(i) /\ controller' = controller
      /\ old' = [r \in Rounds |-> IF Begins(r) THEN fresh ELSE taken(r)]
  BY DEF ReceiveAckAndReact
<1>2. old' \in [Rounds -> Counts]
  <2>1. toTx' \in Seq(Answers) /\ toRx \in Seq(Segments)
    BY DEF RInv, FInv, TInv, IInv, TypeOK
  <2>2. fresh \in Counts
    BY <2>1 DEF Counts
  <2>. QED BY <1>1, <2>2, TakenCounts
<1>3. CASE ~InQpMap
  <2>1. UNCHANGED <<completions, dctcp>>
    BY <1>1, <1>3 DEF ReceiveAckAndReact, ReceiveAck
  <2>. QED BY <1>1, <1>2, <1>3, <2>1 DEF RInv, OnlyDctcp, Marks, InQpMap
<1>4. CASE InQpMap /\ ~InQpMap'
  <2>1. OnlyDctcp'
    BY <1>1, <1>4, HandlerReads, ReductionMark DEF RInv, OnlyDctcp
  <2>. QED BY <1>2, <1>4, <2>1 DEF RInv, Marks
<1>5. CASE InQpMap /\ InQpMap'
  <2>1. PICK u : u = toTx'
    OBVIOUS
  <2>2. i = 1 /\ i \in 1 .. Len(toTx) /\ Shifted(u, toTx) /\ toRx' = toRx
    <3>1. i = 1 /\ i \in 1 .. Len(toTx) /\ toTx' = Remove(toTx, i) /\ toRx' = toRx
      BY <1>1 DEF Orderly, Arriving, ReceiveAck
    <3>. QED BY <2>1, <3>1, RemoveShifted, Shapes DEF RInv
  <2>3. GetRxQp' = GetRxQp
    <3>1. UNCHANGED rxQp
      BY <1>1, <1>5, AckEffect DEF Orderly, RInv, FInv, InQpMap
    <3>. QED BY <3>1 DEF GetRxQp
  <2>4. GetRxQp.expected <= snd_nxt' /\ snd_nxt' \in Nat /\ GetRxQp.expected \in Nat
    BY <1>5, <2>3, Shapes DEF RInv, FInv, Fifo, InStep, TInv, IInv, TypeOK
  <2>5. \A j \in 1 .. Len(u) : u[j].seq <= GetRxQp.expected /\ u[j].seq \in Nat
    <3>1. \A j \in 1 .. Len(u) : u[j].seq <= GetRxQp.expected
      BY <1>5, <2>1, <2>3 DEF FInv, TInv, AnswersBehind, Orderly, Kept
    <3>2. u \in Seq(Answers)
      BY <2>1 DEF FInv, TInv, IInv, TypeOK
    <3>3. \A j \in 1 .. Len(u) : u[j] \in Answers
      BY <3>2
    <3>. QED BY <3>1, <3>3 DEF Answers
  <2>6. toTx[1].kind # "nack" => snd_nxt' = snd_nxt
    BY <1>1, <1>5, <2>2 DEF ReceiveAck, RecoverQueue
  <2>7. ASSUME NEW mark \in Nat, mark >= snd_nxt'
        PROVE  OldUnder(fresh, mark, GetRxQp.expected, toRx, u)
    <3>1. GetRxQp.expected <= mark /\ (toTx[1].kind # "nack" => snd_nxt <= mark)
      BY <2>4, <2>6, <2>7
    <3>2. InStep(snd_una, snd_nxt, GetRxQp, toRx, toTx)
      BY <1>5 DEF RInv, FInv, Fifo
    <3>4. PICK q : q = GetRxQp
      OBVIOUS
    <3>5. /\ q.expected \in Nat /\ Measured(toRx) /\ Len(toTx) \in Nat
          /\ snd_una \in Nat /\ snd_nxt \in Nat
      BY <3>4, Shapes DEF RInv
    <3>6. /\ InStep(snd_una, snd_nxt, q, toRx, toTx) /\ q.expected <= mark
          /\ \A j \in 1 .. Len(u) : u[j].seq <= q.expected /\ u[j].seq \in Nat
      BY <2>5, <3>1, <3>2, <3>4
    <3>3. OldUnder([rx |-> Len(toRx), tx |-> Len(u)], mark, q.expected, toRx, u)
      BY <2>2, <3>1, <3>5, <3>6, OldFresh
    <3>. QED BY <2>1, <3>3, <3>4
  <2>8. ASSUME NEW r \in Rounds, NEW mark \in Nat, Under(r, mark)
        PROVE  OldUnder(taken(r), mark, GetRxQp.expected, toRx, u)
    BY <2>2, <2>8, OldTake, Shapes DEF RInv, Under
  <2>9. \A r \in Rounds : Settled(old[r]) => Settled(taken(r))
    BY TakenCounts
  <2>10. Reads(toTx[1].seq) /\ HandleAck(toTx[1].seq)
    BY <1>5, HandlerReads
  <2>11. /\ toTx[1].seq \in Nat /\ toTx[1].seq <= GetRxQp.expected
         /\ \A r \in Rounds, mark \in Nat : Under(r, mark) /\ toTx[1].seq > mark => Settled(old[r])
    BY <1>5, FirstAnswer
  <2>. HIDE DEF fresh, taken
  <2>12. /\ \A r \in Rounds : Begins(r) => old'[r] = fresh
         /\ \A r \in Rounds : ~Begins(r) => old'[r] = taken(r)
    BY <1>1
  <2>13. lastUpdateSeq \in Nat /\ dctcp.highSeq \in Nat /\ "update" \in Rounds /\ "reduction" \in Rounds
    BY MarksAreNat DEF RInv, Rounds
  <2>14. IF lastUpdateSeq' = 0 THEN Settled(old'["update"])
         ELSE OldUnder(old'["update"], lastUpdateSeq', GetRxQp.expected, toRx, u)
    <3>1. CASE lastUpdateSeq' # lastUpdateSeq
      <4>1. lastUpdateSeq' \in Nat /\ lastUpdateSeq' >= snd_nxt'
            /\ (lastUpdateSeq = 0 \/ toTx[1].seq > lastUpdateSeq)
        BY <2>10, <3>1, UpdateMark
      <4>2. lastUpdateSeq' # 0
        BY <2>4, <2>11, <2>13, <3>1, <4>1
      <4>3. old'["update"] = fresh
        BY <2>12, <2>13, <3>1 DEF Begins
      <4>. QED BY <2>7, <4>1, <4>2, <4>3
    <3>2. CASE lastUpdateSeq' = lastUpdateSeq
      <4>1. old'["update"] = taken("update")
        BY <2>12, <2>13, <3>2 DEF Begins
      <4>. QED BY <1>5, <2>8, <2>9, <2>13, <3>2, <4>1 DEF RInv, Marks
    <3>. QED BY <3>1, <3>2
  <2>15. IF dctcp'.inCwr THEN OldUnder(old'["reduction"], dctcp'.highSeq, GetRxQp.expected, toRx, u)
         ELSE Settled(old'["reduction"])
    <3>1. CASE Begins("reduction")
      <4>1. dctcp'.inCwr /\ dctcp'.highSeq = snd_nxt'
        BY <2>10, <3>1, ReductionMark DEF RInv
      <4>2. OldUnder(fresh, snd_nxt', GetRxQp.expected, toRx, u)
        BY <2>4, <2>7
      <4>3. old'["reduction"] = fresh
        BY <2>12, <2>13, <3>1
      <4>. QED BY <4>1, <4>2, <4>3
    <3>2. CASE ~Begins("reduction")
      <4>1. old'["reduction"] = taken("reduction")
        BY <2>12, <2>13, <3>2
      <4>2. IF dctcp'.inCwr THEN dctcp.inCwr /\ dctcp'.highSeq = dctcp.highSeq
            ELSE ~dctcp.inCwr \/ toTx[1].seq > dctcp.highSeq
        BY <2>10, <3>2, ReductionMark DEF RInv
      <4>3. CASE dctcp'.inCwr
        BY <1>5, <2>8, <2>13, <4>1, <4>2, <4>3 DEF RInv, Marks
      <4>4. CASE ~dctcp'.inCwr
        BY <1>5, <2>9, <2>11, <2>13, <4>1, <4>2, <4>4 DEF RInv, Marks
      <4>. QED BY <4>3, <4>4
    <3>. QED BY <3>1, <3>2
  <2>16. Marks'
    BY <2>1, <2>2, <2>3, <2>14, <2>15 DEF Marks, Under
  <2>17. OnlyDctcp'
    BY <1>1, <2>10, ReductionMark DEF RInv, OnlyDctcp
  <2>. QED BY <1>2, <2>16, <2>17 DEF RInv
<1>. QED BY <1>3, <1>4, <1>5

LEMMA NextRInv == Orderly /\ RInv /\ [ControlledNext]_allVars => RInv'
<1>. SUFFICES ASSUME Orderly, RInv, [ControlledNext]_allVars PROVE RInv'
  OBVIOUS
<1>1. CInv' /\ FInv'
  BY NextCInv, NextFInv, ControlledIsFlow DEF RInv
<1>2. CASE UNCHANGED allVars \/ ClearQp
  BY <1>1, <1>2 DEF RInv, OnlyDctcp, Marks, Under, InQpMap, GetRxQp, allVars, vars, control,
                    ClearQp, ClearFinished
<1>. QED BY <1>1, <1>2, SendMarks, ReactMarks, ReceivePacketMarks, LosePacketMarks, LoseAckMarks
         DEF ControlledNext

(* A controller starts a new round only with an answer to a packet that    *)
(* left after it started the last one, however often the sender went back. *)
THEOREM UpdatesOnce == ASSUME Orderly PROVE ControlledSpec => OneUpdatePerRoundTrip
<1>1. ControlledInit => RInv
  BY InitRInv
<1>2. RInv /\ [ControlledNext]_allVars => RInv'
  BY NextRInv
<1>3. RInv /\ CInv' /\ [ControlledNext]_allVars => [Begins("update") => old["update"].tx = 0]_allVars
  <2>. SUFFICES ASSUME RInv, CInv', [ControlledNext]_allVars, Begins("update") PROVE old["update"].tx = 0
    OBVIOUS
  <2>1. lastUpdateSeq' # lastUpdateSeq
    BY DEF Begins
  <2>2. PICK i \in Arriving(toTx) : ReceiveAckAndReact(i) /\ InQpMap
    BY <2>1 DEF ControlledNext, allVars, control, SendPacket, ClearQp, ReceiveAckAndReact,
                ReceivePacket, LosePacket, LoseAck, Unmoved
  <2>3. lastUpdateSeq = 0 \/ toTx[1].seq > lastUpdateSeq
    BY <2>1, <2>2, HandlerReads, UpdateMark
  <2>4. lastUpdateSeq \in Nat /\ "update" \in Rounds
    BY MarksAreNat DEF RInv, Rounds
  <2>5. Settled(old["update"])
    BY <2>2, <2>3, <2>4, FirstAnswer DEF RInv, Marks
  <2>. QED BY <2>5 DEF Settled
<1>4. RInv => CInv
  BY DEF RInv
<1>. QED BY <1>1, <1>2, <1>3, <1>4, PTL DEF ControlledSpec, OneUpdatePerRoundTrip

(* DCTCP reduces its rate at most once per round trip: a CNP counts only   *)
(* in an answer to a packet that left after the last reduction.            *)
THEOREM ReducesOnce == ASSUME Orderly PROVE ControlledSpec => OneReductionPerRoundTrip
<1>1. ControlledInit => RInv
  BY InitRInv
<1>2. RInv /\ [ControlledNext]_allVars => RInv'
  BY NextRInv
<1>3. RInv /\ CInv' /\ [ControlledNext]_allVars =>
        [controller = "dctcp" /\ Begins("reduction") => old["reduction"].tx = 0]_allVars
  <2>. SUFFICES ASSUME RInv, CInv', [ControlledNext]_allVars, Begins("reduction")
                PROVE  old["reduction"].tx = 0
    OBVIOUS
  <2>1. rate \in Nat /\ dctcp.highSeq \in Nat /\ "reduction" \in Rounds
    BY MarksAreNat DEF RInv, Rounds
  <2>2. ~UNCHANGED <<dctcp, rate>>
    BY <2>1 DEF Begins
  <2>3. PICK i \in Arriving(toTx) : ReceiveAckAndReact(i) /\ InQpMap
    BY <2>2 DEF ControlledNext, allVars, control, SendPacket, ClearQp, ReceiveAckAndReact,
                ReceivePacket, LosePacket, LoseAck, Unmoved
  <2>4. ~dctcp.inCwr \/ toTx[1].seq > dctcp.highSeq
    BY <2>3, HandlerReads, ReductionMark DEF RInv
  <2>5. Settled(old["reduction"])
    BY <2>1, <2>3, <2>4, FirstAnswer DEF RInv, Marks
  <2>. QED BY <2>5 DEF Settled
<1>4. RInv => CInv
  BY DEF RInv
<1>. QED BY <1>1, <1>2, <1>3, <1>4, PTL DEF ControlledSpec, OneReductionPerRoundTrip
=============================================================================
