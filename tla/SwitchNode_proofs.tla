-------------------------- MODULE SwitchNode_proofs --------------------------
(***************************************************************************)
(* The switch drives its MMU as SwitchMmu assumes, so the theorems of      *)
(* SwitchMmu_proofs hold in the switch, and its own state is well typed;   *)
(* and what re-entered calls leave behind between two events: a packet is  *)
(* counted where it waits, no device is left idle with work, the round     *)
(* robin is fair and PFC frames tell the upstream what the MMU believes.   *)
(***************************************************************************)
EXTENDS SwitchNode, SwitchMmu_proofs

(* The MMU's invariant, and the types of the rest of the switch.           *)
NInv == IInv /\ NodeTypeOK

LEMMA NodeInitInv == NodeInit => Init /\ NInv
<1>. SUFFICES ASSUME NodeInit PROVE Init /\ NInv
  OBVIOUS
<1>1. Init /\ IInv
  BY InitEstablishes DEF NodeInit
<1>2. NodeTypeOK
  <2>1. <<>> \in Seq(Pkts) /\ <<>> \in Seq(Frames \cup {Ack}) /\ <<>> \in Seq(Calls)
    OBVIOUS
  <2>2. 0 \in 0 .. QCnt - 1
    BY NodeAssumption
  <2>3. /\ queue \in [Ports \X Queues -> Seq(Pkts)]
        /\ high \in [Ports -> Seq(Frames \cup {Ack})]
        /\ calls \in Seq(Calls)
    BY <2>1 DEF NodeInit
  <2>. QED BY <2>2, <2>3 DEF NodeInit, NodeTypeOK
<1>. QED BY <1>1, <1>2 DEF NInv

-----------------------------------------------------------------------------
(* Sequences.                                                              *)
LEMMA TailType ==
  ASSUME NEW S, NEW s \in Seq(S), s # <<>>
  PROVE  Tail(s) \in Seq(S) /\ Head(s) \in S
  OBVIOUS

LEMMA PrependType ==
  ASSUME NEW S, NEW e \in S, NEW s \in Seq(S)
  PROVE  <<e>> \o s \in Seq(S)
  OBVIOUS

LEMMA AppendType ==
  ASSUME NEW S, NEW e \in S, NEW s \in Seq(S)
  PROVE  Append(s, e) \in Seq(S)
  OBVIOUS

LEMMA ConcatType ==
  ASSUME NEW S, NEW s \in Seq(S), NEW t \in Seq(S)
  PROVE  s \o t \in Seq(S)
  OBVIOUS

-----------------------------------------------------------------------------
(* The head of `calls` carries what its function takes.                    *)
LEMMA CallArg ==
  ASSUME NodeTypeOK, NEW dev, NEW fn, Calling(fn, dev)
  PROVE  /\ Head(calls) \in Calls /\ Tail(calls) \in Seq(Calls)
         /\ dev \in Ports
         /\ fn = "SwitchSend" => Head(calls).arg \in Pkts
         /\ fn = "SendPfc" => Head(calls).arg \in Frames
<1>1. Head(calls) \in Calls /\ Tail(calls) \in Seq(Calls)
  BY TailType DEF NodeTypeOK, Calling
<1>2. Head(calls).fn = fn /\ Head(calls).dev = dev
  BY DEF Calling
<1>. QED BY <1>1, <1>2 DEF Calls

(* PfcDue is at most one call of SendPfc.                                  *)
LEMMA PfcDueType ==
  ASSUME IInv, IInv', NEW inDev \in Ports, NEW q \in Queues
  PROVE  PfcDue(inDev, q) \in Seq(Calls)
<1>1. paused'[<<inDev, q>>] \in BOOLEAN
  BY DEF IInv, Counters
<1>2. Call("SendPfc", inDev, Frame(q, paused'[<<inDev, q>>])) \in Calls
  BY <1>1 DEF Call, Calls, Frame, Frames
<1>. QED BY <1>2 DEF PfcDue

LEMMA TransmitType == \A dev \in Ports : Transmit(dev) \in Calls
  BY DEF Transmit, Call, Calls

(* The packet TransmitData takes from a queue.                             *)
LEMMA TakenPacket ==
  ASSUME NodeTypeOK, NEW dev \in Ports, NEW q \in Queues, TransmitData(dev, q)
  PROVE  /\ Head(queue[<<dev, q>>]) \in Pkts
         /\ Tail(queue[<<dev, q>>]) \in Seq(Pkts)
         /\ Depart(Head(queue[<<dev, q>>]))
<1>1. queue[<<dev, q>>] \in Seq(Pkts) /\ queue[<<dev, q>>] # <<>>
  BY DEF NodeTypeOK, TransmitData, NextQueue, Ready
<1>2. Depart(Head(queue[<<dev, q>>]))
  BY DEF TransmitData, SwitchNotifyDequeue
<1>. QED BY <1>1, <1>2, TailType

-----------------------------------------------------------------------------
(* A step of the switch is a step of the MMU or leaves the MMU alone.      *)
LEMMA NodeNextMmu == NodeTypeOK /\ [NodeNext]_nodeVars => [Next]_vars
<1>. SUFFICES ASSUME NodeTypeOK, [NodeNext]_nodeVars PROVE [Next]_vars
  OBVIOUS
<1>1. CASE UNCHANGED nodeVars
  BY <1>1 DEF nodeVars, vars
<1>2. ASSUME NEW k \in Pkts, NEW inDev \in Ports, NEW outDev \in Ports, NEW q \in Queues,
             NEW psize \in PacketSizes, SwitchReceiveFromDevice(k, inDev, outDev, q, psize)
      PROVE  Next
  <2>1. Admit(k, inDev, outDev, q, psize) \/ Drop(k, inDev, outDev, q, psize)
    BY <1>2 DEF SwitchReceiveFromDevice, SendToDev
  <2>. QED BY <2>1 DEF Next, Arrive
<1>3. ASSUME NEW dev \in Ports, NEW q \in Queues, TransmitData(dev, q)
      PROVE  Next
  BY <1>3, TakenPacket DEF Next
<1>. QED BY <1>1, <1>2, <1>3 DEF NodeNext, mmu, vars, ReceiveHighPrio, RoutesChange, SwitchSend,
         SendPfc, TransmitNothing, TransmitHighPrio, TransmitStart, TransmitComplete, TakeDown,
         ReceivePause, ReceiveResume

LEMMA NodeNextTypes ==
  ASSUME NInv, IInv', NodeNext PROVE NodeTypeOK'
<1>. USE DEF NInv
<1>1. ASSUME NEW k \in Pkts, NEW inDev \in Ports, NEW outDev \in Ports, NEW q \in Queues,
             NEW psize \in PacketSizes, SwitchReceiveFromDevice(k, inDev, outDev, q, psize)
      PROVE  NodeTypeOK'
  <2>1. calls' \in Seq(Calls)
    <3>1. CASE calls' = PfcDue(inDev, q) \o <<Call("SwitchSend", outDev, k)>>
      <4>1. Call("SwitchSend", outDev, k) \in Calls
        BY DEF Call, Calls
      <4>2. <<Call("SwitchSend", outDev, k)>> \in Seq(Calls)
        BY <4>1
      <4>. QED BY <3>1, <4>2, PfcDueType, ConcatType
    <3>2. CASE UNCHANGED calls
      BY <3>2 DEF NodeTypeOK
    <3>. QED BY <1>1, <3>1, <3>2 DEF SwitchReceiveFromDevice, SendToDev
  <2>. QED BY <1>1, <2>1 DEF SwitchReceiveFromDevice, device, NodeTypeOK
<1>2. ASSUME NEW inDev \in Ports, NEW outDev \in Ports, ReceiveHighPrio(inDev, outDev)
      PROVE  NodeTypeOK'
  <2>1. high' \in [Ports -> Seq(Frames \cup {Ack})]
    BY <1>2, AppendType DEF ReceiveHighPrio, NodeTypeOK
  <2>2. calls' \in Seq(Calls)
    BY <1>2, TransmitType DEF ReceiveHighPrio
  <2>. QED BY <1>2, <2>1, <2>2 DEF ReceiveHighPrio, NodeTypeOK
<1>3. CASE RoutesChange
  BY <1>3 DEF RoutesChange, device, NodeTypeOK
<1>4. ASSUME NEW dev \in Ports, SwitchSend(dev) PROVE NodeTypeOK'
  <2>1. Head(calls).arg \in Pkts /\ Tail(calls) \in Seq(Calls)
    BY <1>4, CallArg DEF SwitchSend
  <2>2. queue' \in [Ports \X Queues -> Seq(Pkts)]
    BY <1>4, <2>1, AppendType DEF SwitchSend, NodeTypeOK
  <2>3. calls' \in Seq(Calls)
    BY <1>4, <2>1, TransmitType, PrependType DEF SwitchSend
  <2>. QED BY <1>4, <2>2, <2>3 DEF SwitchSend, NodeTypeOK
<1>5. ASSUME NEW dev \in Ports, SendPfc(dev) PROVE NodeTypeOK'
  <2>1. Head(calls).arg \in Frames /\ Tail(calls) \in Seq(Calls)
    BY <1>5, CallArg DEF SendPfc
  <2>2. high' \in [Ports -> Seq(Frames \cup {Ack})]
    BY <1>5, <2>1, AppendType DEF SendPfc, NodeTypeOK
  <2>3. calls' \in Seq(Calls)
    BY <1>5, <2>1, TransmitType, PrependType DEF SendPfc
  <2>. QED BY <1>5, <2>2, <2>3 DEF SendPfc, NodeTypeOK
<1>6. ASSUME NEW dev \in Ports, TransmitNothing(dev) PROVE NodeTypeOK'
  <2>1. Tail(calls) \in Seq(Calls)
    BY <1>6, CallArg DEF TransmitNothing
  <2>. QED BY <1>6, <2>1 DEF TransmitNothing, device, NodeTypeOK
<1>7. ASSUME NEW dev \in Ports, TransmitHighPrio(dev) PROVE NodeTypeOK'
  <2>1. Tail(calls) \in Seq(Calls)
    BY <1>7, CallArg DEF TransmitHighPrio
  <2>2. high[dev] \in Seq(Frames \cup {Ack}) /\ high[dev] # <<>>
    BY <1>7 DEF TransmitHighPrio, NodeTypeOK
  <2>3. Tail(high[dev]) \in Seq(Frames \cup {Ack}) /\ Head(high[dev]) \in Frames \cup {Ack}
    BY <2>2, TailType
  <2>4. high' \in [Ports -> Seq(Frames \cup {Ack})]
    BY <1>7, <2>3 DEF TransmitHighPrio, NodeTypeOK
  <2>5. Call("TransmitStart", dev, Head(high[dev])) \in Calls
    BY <2>3 DEF Call, Calls
  <2>6. calls' \in Seq(Calls)
    BY <1>7, <2>1, <2>5, PrependType DEF TransmitHighPrio
  <2>. QED BY <1>7, <2>4, <2>6 DEF TransmitHighPrio, NodeTypeOK
<1>8. ASSUME NEW dev \in Ports, TransmitStart(dev) PROVE NodeTypeOK'
  <2>1. Tail(calls) \in Seq(Calls)
    BY <1>8, CallArg DEF TransmitStart
  <2>2. upstream' \in [Ports \X Queues -> BOOLEAN]
    BY <1>8 DEF TransmitStart, Frames, NodeTypeOK
  <2>. QED BY <1>8, <2>1, <2>2 DEF TransmitStart, NodeTypeOK
<1>9. ASSUME NEW dev \in Ports, TransmitComplete(dev) PROVE NodeTypeOK'
  <2>1. calls' \in Seq(Calls)
    BY <1>9, TransmitType DEF TransmitComplete
  <2>. QED BY <1>9, <2>1 DEF TransmitComplete, NodeTypeOK
<1>10. ASSUME NEW dev \in Ports, TakeDown(dev) PROVE NodeTypeOK'
  <2>1. queue' \in [Ports \X Queues -> Seq(Pkts)]
    BY <1>10 DEF TakeDown, NodeTypeOK
  <2>2. held' \in [Ports \X Queues -> BOOLEAN]
    BY <1>10 DEF TakeDown, NodeTypeOK
  <2>3. high' \in [Ports -> Seq(Frames \cup {Ack})]
    BY <1>10 DEF TakeDown, NodeTypeOK
  <2>. QED BY <1>10, <2>1, <2>2, <2>3 DEF TakeDown, NodeTypeOK
<1>11. ASSUME NEW dev \in Ports, NEW q \in Queues, TransmitData(dev, q) PROVE NodeTypeOK'
  <2>. DEFINE k == Head(queue[<<dev, q>>])
  <2>1. k \in Pkts /\ Tail(queue[<<dev, q>>]) \in Seq(Pkts) /\ Depart(k)
    BY <1>11, TakenPacket
  <2>2. resident[k].in \in Ports
    BY <2>1 DEF Depart, IInv, Counters, Charges
  <2>3. Tail(calls) \in Seq(Calls)
    BY <1>11, CallArg DEF TransmitData
  <2>4. Call("TransmitStart", dev, k) \in Calls
    BY <2>1 DEF Call, Calls
  <2>5. calls' = PfcDue(resident[k].in, q) \o <<Call("TransmitStart", dev, k)>> \o Tail(calls)
    BY <1>11 DEF TransmitData
  <2>6. PfcDue(resident[k].in, q) \in Seq(Calls)
    BY <2>2, PfcDueType
  <2>7. calls' \in Seq(Calls)
    <3>. HIDE DEF k
    <3>1. <<Call("TransmitStart", dev, k)>> \in Seq(Calls)
      BY <2>4
    <3>. QED BY <2>3, <2>5, <2>6, <3>1, ConcatType
  <2>8. queue' \in [Ports \X Queues -> Seq(Pkts)] /\ rrlast' \in [Ports -> 0 .. QCnt - 1]
    <3>. DEFINE rest == Tail(queue[<<dev, q>>])
    <3>1. queue' = [queue EXCEPT ![<<dev, q>>] = rest] /\ rrlast' = [rrlast EXCEPT ![dev] = q]
      BY <1>11 DEF TransmitData, Served
    <3>2. rest \in Seq(Pkts) /\ <<dev, q>> \in Ports \X Queues /\ q \in 0 .. QCnt - 1
      BY <2>1, NodeAssumption
    <3>3. queue \in [Ports \X Queues -> Seq(Pkts)] /\ rrlast \in [Ports -> 0 .. QCnt - 1]
      BY DEF NodeTypeOK
    <3>. HIDE DEF rest, k, NInv
    <3>4. queue' \in [Ports \X Queues -> Seq(Pkts)]
      BY <3>1, <3>2, <3>3
    <3>. QED BY <3>1, <3>2, <3>3, <3>4
  <2>9. UNCHANGED <<high, held, busy, linkUp, upstream, rerouted>>
    BY <1>11 DEF TransmitData
  <2>10. /\ high \in [Ports -> Seq(Frames \cup {Ack})]
         /\ held \in [Ports \X Queues -> BOOLEAN] /\ busy \in [Ports -> BOOLEAN]
         /\ linkUp \in [Ports -> BOOLEAN] /\ upstream \in [Ports \X Queues -> BOOLEAN]
         /\ rerouted \in BOOLEAN
    BY DEF NodeTypeOK
  <2>. HIDE DEF NInv
  <2>. QED BY <2>7, <2>8, <2>9, <2>10 DEF NodeTypeOK
<1>12. ASSUME NEW dev \in Ports, NEW q \in Queues, ReceivePause(dev, q) PROVE NodeTypeOK'
  BY <1>12 DEF ReceivePause, NodeTypeOK
<1>13. ASSUME NEW dev \in Ports, NEW q \in Queues, ReceiveResume(dev, q) PROVE NodeTypeOK'
  <2>1. calls' \in Seq(Calls)
    BY <1>13, TransmitType DEF ReceiveResume, Resume
  <2>. QED BY <1>13, <2>1 DEF ReceiveResume, Resume, NodeTypeOK
<1>. QED BY <1>1, <1>2, <1>3, <1>4, <1>5, <1>6, <1>7, <1>8, <1>9, <1>10, <1>11, <1>12, <1>13
         DEF NodeNext

LEMMA NodeStepInv == NInv /\ [NodeNext]_nodeVars => NInv'
<1>. SUFFICES ASSUME NInv, [NodeNext]_nodeVars PROVE NInv'
  OBVIOUS
<1>1. IInv'
  BY NodeNextMmu, StepPreserves DEF NInv
<1>2. CASE UNCHANGED nodeVars
  <2>1. NodeTypeOK'
    BY <1>2 DEF NInv, NodeTypeOK, nodeVars
  <2>. QED BY <1>1, <2>1 DEF NInv
<1>3. CASE NodeNext
  BY <1>1, <1>3, NodeNextTypes DEF NInv
<1>. QED BY <1>2, <1>3

THEOREM NodeInvariance == NodeSpec => []NInv
  BY NodeInitInv, NodeStepInv, PTL DEF NodeSpec

-----------------------------------------------------------------------------
(* The invariant of the running event.                                     *)

(* A call that may be left for later: the transmission of a packet about   *)
(* to start, or a SwitchSend.                                              *)
Below(c) == c.fn = "SwitchSend" \/ (c.fn = "TransmitStart" /\ c.arg \in Pkts)

(* Calls pending, innermost first: a SwitchSend comes last, and only calls *)
(* that may be left for later are not the first.                           *)
Pending(s) ==
  \A i \in 1 .. Len(s) : /\ s[i].fn = "SwitchSend" => i = Len(s)
                         /\ i > 1 => Below(s[i])
SendsOf(s) == {s[i] : i \in {j \in 1 .. Len(s) : s[j].fn = "SwitchSend"}}
DevsOf(s) == {s[i].dev : i \in 1 .. Len(s)}

CallsShape == Pending(calls)

(* A packet that waits is buffered for the queue it waits in, and waits    *)
(* there once.                                                             *)
IsQueuedFor(k, port, q) == k \in Buffered /\ resident[k].out = port /\ resident[k].q = q
Distinct(s) == \A i, j \in 1 .. Len(s) : s[i] = s[j] => i = j
QueuedIsBuffered ==
  \A port \in Ports, q \in Queues :
    /\ \A k \in Waiting(port, q) : IsQueuedFor(k, port, q)
    /\ Distinct(queue[<<port, q>>])

(* A packet about to be queued is buffered for the port, and not queued.   *)
SentIsBuffered ==
  \A c \in SendsOf(calls) :
    /\ IsQueuedFor(c.arg, c.dev, resident[c.arg].q)
    /\ c.arg \notin Waiting(c.dev, resident[c.arg].q)

(* A buffered packet waits or is about to, unless its link is down.        *)
BufferedIsSomewhere ==
  \A k \in Buffered :
    linkUp[resident[k].out] => \/ k \in Waiting(resident[k].out, resident[k].q)
                               \/ \E c \in SendsOf(calls) : c.arg = k

(* A device that no pending call will look at again has nothing to do.     *)
NothingMissed ==
  \A dev \in Ports :
    CanTransmit(dev) /\ dev \notin DevsOf(calls) => high[dev] = <<>> /\ Ready(dev) = {}

(* What port has still to tell its upstream, in the order it will: what is *)
(* about to be transmitted, what waits, what is about to be queued.        *)
FirstCall(s, fn, port) ==
  IF s # <<>> /\ Head(s).fn = fn /\ Head(s).dev = port /\ Head(s).arg \notin Pkts
  THEN <<Head(s).arg>> ELSE <<>>
UnderwayIn(s, waiting, port) ==
  FirstCall(s, "TransmitStart", port) \o waiting \o FirstCall(s, "SendPfc", port)
Underway(port) == UnderwayIn(calls, high[port], port)

(* Packets s say of q the opposite of what they said last, beginning with  *)
(* an upstream that knows `known` and ending with one that knows `told`.   *)
Agree(s, known, told, q) ==
  /\ Told(s, known, q, Len(s)) = {told}
  /\ \A i \in 1 .. Len(s) : s[i].q = q => s[i].pause \notin Told(s, known, q, i - 1)

UpstreamWillAgree ==
  \A port \in Ports, q \in Queues :
    linkUp[port] => Agree(Underway(port), upstream[<<port, q>>], paused[<<port, q>>], q)

QueuesInv == QueuedIsBuffered /\ SentIsBuffered /\ BufferedIsSomewhere

EventInv ==
  /\ NInv
  /\ CallsShape
  /\ QueuesInv
  /\ NothingMissed
  /\ UpstreamWillAgree

-----------------------------------------------------------------------------
(* Lemmas about what a sequence of packets tells an upstream.              *)
Packets == Frames \cup {Ack}

(* With no frame among n packets the upstream knows what it knew, and it   *)
(* knows what the last one says.                                           *)
LEMMA ToldNothing ==
  ASSUME NEW s, NEW q, NEW known, NEW n \in Nat, \A i \in 1 .. n : s[i].q # q
  PROVE  Told(s, known, q, n) = {known}
  BY DEF Told, LatestAbout

LEMMA ToldByLatest ==
  ASSUME NEW s, NEW q, NEW known, NEW n \in Nat, NEW i \in 1 .. n,
         s[i].q = q, \A j \in i + 1 .. n : s[j].q # q
  PROVE  Told(s, known, q, n) = {s[i].pause}
<1>1. LatestAbout(s, q, n) = {i}
  <2>1. i \in LatestAbout(s, q, n)
    BY DEF LatestAbout
  <2>2. ASSUME NEW j \in LatestAbout(s, q, n) PROVE j = i
    <3>1. j \in 1 .. n /\ s[j].q = q /\ \A l \in j + 1 .. n : s[l].q # q
      BY <2>2 DEF LatestAbout
    <3>2. ~(j > i) /\ ~(i > j)
      BY <3>1
    <3>. QED BY <3>1, <3>2
  <2>. QED BY <2>1, <2>2
<1>. QED BY <1>1 DEF Told

(* One of the two is the case.                                             *)
LEMMA AboutOrNot ==
  ASSUME NEW s, NEW q, NEW n \in Nat
  PROVE  \/ \A i \in 1 .. n : s[i].q # q
         \/ \E i \in 1 .. n : s[i].q = q /\ \A j \in i + 1 .. n : s[j].q # q
<1>. DEFINE about == {i \in 1 .. n : s[i].q = q}
<1>1. CASE about = {}
  BY <1>1
<1>2. CASE about # {}
  <2>1. PICK i \in about : \A j \in about : j <= i
    <3>1. about \in SUBSET (1 .. n) /\ about \in SUBSET Nat
      OBVIOUS
    <3>2. IsFiniteSet(1 .. n)
      BY FS_Interval
    <3>3. IsFiniteSet(about)
      BY <3>1, <3>2, FS_Subset
    <3>. HIDE DEF about
    <3>. QED BY <1>2, <3>1, <3>3, LargestExists
  <2>2. \A j \in i + 1 .. n : j \in 1 .. n /\ ~(j <= i)
    OBVIOUS
  <2>. QED BY <2>1, <2>2
<1>. QED BY <1>1, <1>2

(* What n packets tell depends on those packets only.                      *)
LEMMA ToldByFirst ==
  ASSUME NEW s, NEW t, NEW q, NEW known, NEW n \in Nat, \A i \in 1 .. n : s[i] = t[i]
  PROVE  Told(s, known, q, n) = Told(t, known, q, n)
<1>1. CASE \A i \in 1 .. n : s[i].q # q
  <2>1. \A i \in 1 .. n : t[i].q # q
    BY <1>1
  <2>. QED BY <1>1, <2>1, ToldNothing
<1>2. CASE \E i \in 1 .. n : s[i].q = q /\ \A j \in i + 1 .. n : s[j].q # q
  <2>1. PICK i \in 1 .. n : s[i].q = q /\ \A j \in i + 1 .. n : s[j].q # q
    BY <1>2
  <2>2. t[i].q = q /\ t[i].pause = s[i].pause
    BY <2>1
  <2>3. \A j \in i + 1 .. n : t[j].q # q
    BY <2>1
  <2>. QED BY <2>1, <2>2, <2>3, ToldByLatest
<1>4. \/ \A i \in 1 .. n : s[i].q # q
      \/ \E i \in 1 .. n : s[i].q = q /\ \A j \in i + 1 .. n : s[j].q # q
  BY AboutOrNot
<1>. QED BY <1>1, <1>2, <1>4

(* A packet that is not about q tells nothing of it.                       *)
LEMMA ToldByOther ==
  ASSUME NEW s, NEW q, NEW known, NEW n \in Nat, s[n + 1].q # q
  PROVE  Told(s, known, q, n + 1) = Told(s, known, q, n)
<1>1. CASE \A i \in 1 .. n : s[i].q # q
  <2>1. n + 1 \in Nat /\ \A i \in 1 .. n + 1 : s[i].q # q
    BY <1>1
  <2>2. Told(s, known, q, n) = {known}
    BY <1>1, ToldNothing
  <2>3. Told(s, known, q, n + 1) = {known}
    BY <2>1, ToldNothing
  <2>. QED BY <2>2, <2>3
<1>2. CASE \E i \in 1 .. n : s[i].q = q /\ \A j \in i + 1 .. n : s[j].q # q
  <2>1. PICK i \in 1 .. n : s[i].q = q /\ \A j \in i + 1 .. n : s[j].q # q
    BY <1>2
  <2>2. i \in 1 .. n + 1 /\ n + 1 \in Nat /\ \A j \in i + 1 .. n + 1 : s[j].q # q
    BY <2>1
  <2>3. Told(s, known, q, n + 1) = {s[i].pause}
    BY <2>1, <2>2, ToldByLatest
  <2>4. Told(s, known, q, n) = {s[i].pause}
    BY <2>1, ToldByLatest
  <2>. QED BY <2>3, <2>4
<1>4. \/ \A i \in 1 .. n : s[i].q # q
      \/ \E i \in 1 .. n : s[i].q = q /\ \A j \in i + 1 .. n : s[j].q # q
  BY AboutOrNot
<1>. QED BY <1>1, <1>2, <1>4

(* Telling the upstream what the first of the packets says changes nothing *)
(* of what it knows after the others.                                      *)
LEMMA ToldByRest ==
  ASSUME NEW s, NEW t, NEW q, NEW known, NEW then, NEW n \in Nat,
         \A i \in 1 .. n : t[i] = s[i + 1],
         then = IF s[1].q = q THEN s[1].pause ELSE known
  PROVE  Told(s, known, q, n + 1) = Told(t, then, q, n)
<1>1. \A i \in 1 .. n : t[i] = s[i + 1]
  OBVIOUS
<1>2. CASE \A i \in 1 .. n : t[i].q # q
  <2>1. Told(t, then, q, n) = {then}
    BY <1>2, ToldNothing
  <2>2. \A j \in 1 + 1 .. n + 1 : s[j].q # q
    <3>1. ASSUME NEW j \in 1 + 1 .. n + 1 PROVE s[j].q # q
      <4>1. j - 1 \in 1 .. n /\ (j - 1) + 1 = j
        OBVIOUS
      <4>. QED BY <1>1, <1>2, <4>1
    <3>. QED BY <3>1
  <2>3. CASE s[1].q = q
    <3>1. 1 \in 1 .. n + 1 /\ n + 1 \in Nat
      OBVIOUS
    <3>2. Told(s, known, q, n + 1) = {s[1].pause}
      BY <2>2, <2>3, <3>1, ToldByLatest
    <3>. QED BY <2>1, <2>3, <3>2
  <2>4. CASE s[1].q # q
    <3>1. n + 1 \in Nat /\ \A j \in 1 .. n + 1 : s[j].q # q
      BY <2>2, <2>4
    <3>2. Told(s, known, q, n + 1) = {known}
      BY <3>1, ToldNothing
    <3>. QED BY <2>1, <2>4, <3>2
  <2>. QED BY <2>3, <2>4
<1>3. CASE \E i \in 1 .. n : t[i].q = q /\ \A j \in i + 1 .. n : t[j].q # q
  <2>1. PICK i \in 1 .. n : t[i].q = q /\ \A j \in i + 1 .. n : t[j].q # q
    BY <1>3
  <2>2. i + 1 \in 1 .. n + 1 /\ n + 1 \in Nat /\ s[i + 1] = t[i]
    BY <1>1
  <2>3. \A j \in (i + 1) + 1 .. n + 1 : s[j].q # q
    <3>1. ASSUME NEW j \in (i + 1) + 1 .. n + 1 PROVE s[j].q # q
      <4>1. j - 1 \in i + 1 .. n /\ j - 1 \in 1 .. n /\ (j - 1) + 1 = j
        OBVIOUS
      <4>. QED BY <1>1, <2>1, <4>1
    <3>. QED BY <3>1
  <2>4. Told(s, known, q, n + 1) = {t[i].pause}
    BY <2>1, <2>2, <2>3, ToldByLatest
  <2>5. Told(t, then, q, n) = {t[i].pause}
    BY <2>1, ToldByLatest
  <2>. QED BY <2>4, <2>5
<1>4. \/ \A i \in 1 .. n : t[i].q # q
      \/ \E i \in 1 .. n : t[i].q = q /\ \A j \in i + 1 .. n : t[j].q # q
  BY AboutOrNot
<1>. QED BY <1>2, <1>3, <1>4

(* A packet more keeps the agreement, if a frame about q says the opposite *)
(* of what was believed, which is what is believed from now on.            *)
LEMMA AgreeAppend ==
  ASSUME NEW s \in Seq(Packets), NEW f \in Packets, NEW q, NEW known, NEW told, NEW now,
         Agree(s, known, told, q),
         IF f.q = q THEN f.pause = now /\ now # told ELSE now = told
  PROVE  Agree(Append(s, f), known, now, q)
<1>. DEFINE t == Append(s, f)
            n == Len(s)
<1>1. n \in Nat /\ Len(t) = n + 1 /\ t[n + 1] = f /\ \A i \in 1 .. n : s[i] = t[i]
  OBVIOUS
<1>2. Told(s, known, q, n) = {told}
      /\ \A i \in 1 .. n : s[i].q = q => s[i].pause \notin Told(s, known, q, i - 1)
  BY DEF Agree
<1>. HIDE DEF t, n
<1>3. \A m \in 0 .. n : Told(t, known, q, m) = Told(s, known, q, m)
  <2>1. ASSUME NEW m \in 0 .. n PROVE Told(t, known, q, m) = Told(s, known, q, m)
    <3>1. m \in Nat /\ \A i \in 1 .. m : s[i] = t[i]
      BY <1>1
    <3>. QED BY <3>1, ToldByFirst
  <2>. QED BY <2>1
<1>4. Told(t, known, q, n + 1) = {now}
  <2>1. CASE f.q = q
    <3>1. n + 1 \in 1 .. n + 1 /\ n + 1 \in Nat /\ t[n + 1].q = q
      BY <1>1, <2>1
    <3>2. \A j \in (n + 1) + 1 .. n + 1 : t[j].q # q
      BY <1>1
    <3>3. Told(t, known, q, n + 1) = {t[n + 1].pause}
      BY <3>1, <3>2, ToldByLatest
    <3>. QED BY <1>1, <2>1, <3>3
  <2>2. CASE f.q # q
    <3>1. Told(t, known, q, n + 1) = Told(t, known, q, n)
      BY <1>1, <2>2, ToldByOther
    <3>2. n \in 0 .. n
      BY <1>1
    <3>. QED BY <1>2, <1>3, <2>2, <3>1, <3>2
  <2>. QED BY <2>1, <2>2
<1>5. ASSUME NEW i \in 1 .. n + 1, t[i].q = q PROVE t[i].pause \notin Told(t, known, q, i - 1)
  <2>1. CASE i = n + 1
    <3>1. f.q = q /\ t[i].pause # told
      BY <1>1, <1>5, <2>1
    <3>2. i - 1 = n /\ n \in 0 .. n
      BY <1>1, <2>1
    <3>. QED BY <1>2, <1>3, <3>1, <3>2
  <2>2. CASE i # n + 1
    <3>1. i \in 1 .. n /\ i - 1 \in 0 .. n
      BY <1>1, <2>2
    <3>. QED BY <1>1, <1>2, <1>3, <1>5, <3>1
  <2>. QED BY <2>1, <2>2
<1>. QED BY <1>1, <1>4, <1>5 DEF Agree, t

(* The agreement is kept when the first of the packets is transmitted.     *)
LEMMA AgreeRest ==
  ASSUME NEW s, NEW t, NEW n \in Nat, Len(s) = n + 1, Len(t) = n,
         \A i \in 1 .. n : t[i] = s[i + 1],
         NEW q, NEW known, NEW told, NEW then, Agree(s, known, told, q),
         then = IF s[1].q = q THEN s[1].pause ELSE known
  PROVE  Agree(t, then, told, q)
<1>1. \A i \in 1 .. n : t[i] = s[i + 1]
  OBVIOUS
<1>2. \A m \in 0 .. n : Told(s, known, q, m + 1) = Told(t, then, q, m)
  <2>1. ASSUME NEW m \in 0 .. n PROVE Told(s, known, q, m + 1) = Told(t, then, q, m)
    <3>1. m \in Nat /\ \A i \in 1 .. m : t[i] = s[i + 1]
      BY <1>1
    <3>2. then = IF s[1].q = q THEN s[1].pause ELSE known
      OBVIOUS
    <3>. QED BY ONLY <3>1, <3>2, ToldByRest
  <2>. QED BY <2>1
<1>3. Told(s, known, q, n + 1) = {told}
      /\ \A i \in 1 .. n + 1 : s[i].q = q => s[i].pause \notin Told(s, known, q, i - 1)
  BY <1>1 DEF Agree
<1>4. Told(t, then, q, n) = {told}
  <2>1. n \in 0 .. n
    BY <1>1
  <2>. QED BY <1>2, <1>3, <2>1
<1>5. ASSUME NEW i \in 1 .. n, t[i].q = q PROVE t[i].pause \notin Told(t, then, q, i - 1)
  <2>1. i - 1 \in 0 .. n /\ (i - 1) + 1 = i /\ i + 1 \in 1 .. n + 1 /\ (i + 1) - 1 = i
    BY <1>1
  <2>2. Told(s, known, q, i) = Told(t, then, q, i - 1)
    BY <1>2, <2>1
  <2>3. s[i + 1].pause \notin Told(s, known, q, i)
    BY <1>1, <1>3, <1>5, <2>1
  <2>. QED BY <1>1, <2>2, <2>3
<1>. QED BY <1>1, <1>4, <1>5 DEF Agree

LEMMA AgreeTail ==
  ASSUME NEW s \in Seq(Packets), s # <<>>, NEW q, NEW known, NEW told, Agree(s, known, told, q)
  PROVE  Agree(Tail(s), IF s[1].q = q THEN s[1].pause ELSE known, told, q)
<1>. DEFINE t == Tail(s)
            n == Len(s) - 1
            then == IF s[1].q = q THEN s[1].pause ELSE known
<1>1. /\ n \in Nat /\ Len(s) = n + 1 /\ Len(t) = n
      /\ \A i \in 1 .. n : t[i] = s[i + 1]
  OBVIOUS
<1>2. Agree(s, known, told, q) /\ then = IF s[1].q = q THEN s[1].pause ELSE known
  OBVIOUS
<1>. HIDE DEF t, n, then
<1>3. Agree(t, then, told, q)
  BY ONLY <1>1, <1>2, AgreeRest
<1>. QED BY <1>3 DEF t, then

-----------------------------------------------------------------------------
(* Lemmas about the calls pending.                                         *)
AllBelow(s) == \A i \in 1 .. Len(s) : Below(s[i])

LEMMA EmptySeq == ASSUME NEW S, NEW t \in Seq(S), Len(t) = 0 PROVE t = <<>>
  OBVIOUS

(* What is left when the innermost call returns.                           *)
LEMMA AfterReturn ==
  ASSUME NEW s \in Seq(Calls), s # <<>>, Pending(s)
  PROVE  /\ Tail(s) \in Seq(Calls) /\ Pending(Tail(s)) /\ AllBelow(Tail(s))
         /\ Head(s).fn = "SwitchSend" => Tail(s) = <<>>
         /\ Head(s).fn # "SwitchSend" => SendsOf(Tail(s)) = SendsOf(s)
         /\ DevsOf(s) \subseteq DevsOf(Tail(s)) \cup {Head(s).dev}
<1>. DEFINE t == Tail(s)
            n == Len(t)
<1>1. /\ t \in Seq(Calls) /\ n \in Nat /\ Len(s) = n + 1 /\ Head(s) = s[1]
      /\ \A i \in 1 .. n : t[i] = s[i + 1]
  OBVIOUS
<1>2. \A i \in 1 .. n + 1 : /\ s[i].fn = "SwitchSend" => i = n + 1
                            /\ i > 1 => Below(s[i])
  BY <1>1 DEF Pending
<1>3. n = 0 => t = <<>>
  BY <1>1, EmptySeq
<1>. HIDE DEF t
<1>4. Pending(t) /\ AllBelow(t)
  <2>1. ASSUME NEW i \in 1 .. n PROVE /\ t[i].fn = "SwitchSend" => i = n
                                      /\ Below(t[i])
    <3>1. i + 1 \in 1 .. n + 1 /\ i + 1 > 1 /\ t[i] = s[i + 1]
      BY <1>1
    <3>. QED BY <1>1, <1>2, <3>1
  <2>. QED BY <2>1 DEF Pending, AllBelow
<1>5. Head(s).fn = "SwitchSend" => t = <<>>
  BY <1>1, <1>2, <1>3
<1>6. ASSUME Head(s).fn # "SwitchSend" PROVE SendsOf(t) = SendsOf(s)
  <2>1. ASSUME NEW c \in SendsOf(t) PROVE c \in SendsOf(s)
    <3>1. PICK i \in 1 .. n : t[i].fn = "SwitchSend" /\ c = t[i]
      BY <2>1 DEF SendsOf
    <3>2. i + 1 \in 1 .. Len(s) /\ s[i + 1] = t[i]
      BY <1>1
    <3>. QED BY <3>1, <3>2 DEF SendsOf
  <2>2. ASSUME NEW c \in SendsOf(s) PROVE c \in SendsOf(t)
    <3>1. PICK i \in 1 .. n + 1 : s[i].fn = "SwitchSend" /\ c = s[i]
      BY <1>1, <2>2 DEF SendsOf
    <3>2. i # 1
      BY <1>1, <1>6, <3>1
    <3>3. i - 1 \in 1 .. n /\ (i - 1) + 1 = i
      BY <1>1, <3>2
    <3>4. t[i - 1] = s[i]
      BY <1>1, <3>3
    <3>. QED BY <3>1, <3>3, <3>4 DEF SendsOf
  <2>. QED BY <2>1, <2>2
<1>7. DevsOf(s) \subseteq DevsOf(t) \cup {Head(s).dev}
  <2>1. ASSUME NEW i \in 1 .. Len(s) PROVE s[i].dev \in DevsOf(t) \cup {Head(s).dev}
    <3>1. CASE i = 1
      BY <1>1, <3>1
    <3>2. CASE i # 1
      <4>1. i - 1 \in 1 .. n /\ (i - 1) + 1 = i
        BY <1>1, <3>2
      <4>2. t[i - 1] = s[i]
        BY <1>1, <4>1
      <4>. QED BY <4>1, <4>2 DEF DevsOf
    <3>. QED BY <3>1, <3>2
  <2>. QED BY <2>1 DEF DevsOf
<1>. QED BY <1>1, <1>4, <1>5, <1>6, <1>7 DEF t

(* What is pending when a call is made before the others.                  *)
LEMMA AfterCall ==
  ASSUME NEW t \in Seq(Calls), Pending(t), AllBelow(t), NEW c \in Calls, c.fn # "SwitchSend"
  PROVE  /\ <<c>> \o t \in Seq(Calls) /\ Pending(<<c>> \o t)
         /\ <<c>> \o t # <<>> /\ Head(<<c>> \o t) = c
         /\ Below(c) => AllBelow(<<c>> \o t)
         /\ SendsOf(<<c>> \o t) = SendsOf(t)
         /\ DevsOf(<<c>> \o t) = DevsOf(t) \cup {c.dev}
<1>. DEFINE s == <<c>> \o t
            n == Len(t)
<1>1. /\ s \in Seq(Calls) /\ n \in Nat /\ Len(s) = n + 1 /\ s[1] = c /\ s # <<>> /\ Head(s) = c
      /\ \A i \in 2 .. n + 1 : s[i] = t[i - 1]
  OBVIOUS
<1>2. \A i \in 1 .. n : /\ t[i].fn = "SwitchSend" => i = n
                        /\ Below(t[i])
  BY DEF Pending, AllBelow
<1>. HIDE DEF s
<1>3. ASSUME NEW i \in 1 .. n + 1
      PROVE  i = 1 \/ (i - 1 \in 1 .. n /\ s[i] = t[i - 1])
  BY <1>1
<1>4. Pending(s) /\ (Below(c) => AllBelow(s))
  <2>1. ASSUME NEW i \in 1 .. n + 1 PROVE /\ s[i].fn = "SwitchSend" => i = n + 1
                                          /\ i > 1 => Below(s[i])
    <3>1. CASE i = 1
      BY <1>1, <3>1
    <3>2. CASE i # 1
      <4>1. i - 1 \in 1 .. n /\ s[i] = t[i - 1]
        BY <1>3, <3>2
      <4>. QED BY <1>2, <4>1
    <3>. QED BY <3>1, <3>2
  <2>2. ASSUME NEW i \in 1 .. n + 1, Below(c) PROVE Below(s[i])
    BY <1>1, <2>1, <2>2
  <2>. QED BY <1>1, <2>1, <2>2 DEF Pending, AllBelow
<1>5. SendsOf(s) = SendsOf(t)
  <2>1. ASSUME NEW e \in SendsOf(s) PROVE e \in SendsOf(t)
    <3>1. PICK i \in 1 .. n + 1 : s[i].fn = "SwitchSend" /\ e = s[i]
      BY <1>1, <2>1 DEF SendsOf
    <3>2. i - 1 \in 1 .. n /\ s[i] = t[i - 1]
      BY <1>1, <1>3, <3>1
    <3>. QED BY <3>1, <3>2 DEF SendsOf
  <2>2. ASSUME NEW e \in SendsOf(t) PROVE e \in SendsOf(s)
    <3>1. PICK i \in 1 .. n : t[i].fn = "SwitchSend" /\ e = t[i]
      BY <2>2 DEF SendsOf
    <3>2. i + 1 \in 1 .. Len(s) /\ s[i + 1] = t[i]
      <4>1. i + 1 \in 2 .. n + 1 /\ (i + 1) - 1 = i
        BY <1>1
      <4>. QED BY <1>1, <4>1
    <3>. QED BY <3>1, <3>2 DEF SendsOf
  <2>. QED BY <2>1, <2>2
<1>6. DevsOf(s) = DevsOf(t) \cup {c.dev}
  <2>1. ASSUME NEW i \in 1 .. n + 1 PROVE s[i].dev \in DevsOf(t) \cup {c.dev}
    <3>1. CASE i = 1
      BY <1>1, <3>1
    <3>2. CASE i # 1
      BY <1>3, <3>2 DEF DevsOf
    <3>. QED BY <3>1, <3>2
  <2>2. ASSUME NEW i \in 1 .. n PROVE t[i].dev \in DevsOf(s)
    <3>1. i + 1 \in 1 .. Len(s) /\ s[i + 1] = t[i]
      <4>1. i + 1 \in 2 .. n + 1 /\ (i + 1) - 1 = i
        BY <1>1
      <4>. QED BY <1>1, <4>1
    <3>. QED BY <3>1 DEF DevsOf
  <2>3. c.dev \in DevsOf(s)
    <3>1. 1 \in 1 .. Len(s)
      BY <1>1
    <3>. QED BY <1>1, <3>1 DEF DevsOf
  <2>. QED BY <1>1, <2>1, <2>2, <2>3 DEF DevsOf
<1>. QED BY <1>1, <1>4, <1>5, <1>6 DEF s

(* No call pending, one, and calls one after another.                      *)
LEMMA NoCalls ==
  Pending(<<>>) /\ AllBelow(<<>>) /\ SendsOf(<<>>) = {} /\ DevsOf(<<>>) = {}
<1>1. 1 .. Len(<<>>) = {}
  OBVIOUS
<1>. QED BY <1>1 DEF Pending, AllBelow, SendsOf, DevsOf

LEMMA OneCall ==
  ASSUME NEW c \in Calls
  PROVE  /\ <<c>> \in Seq(Calls) /\ Pending(<<c>>) /\ Head(<<c>>) = c /\ <<c>> # <<>>
         /\ Below(c) => AllBelow(<<c>>)
         /\ SendsOf(<<c>>) = IF c.fn = "SwitchSend" THEN {c} ELSE {}
         /\ DevsOf(<<c>>) = {c.dev}
<1>. DEFINE s == <<c>>
<1>1. s \in Seq(Calls) /\ Len(s) = 1 /\ s[1] = c /\ Head(s) = c /\ s # <<>>
  OBVIOUS
<1>. HIDE DEF s
<1>2. 1 .. Len(s) = {1} /\ ~(1 > 1)
  BY <1>1
<1>3. Pending(s) /\ (Below(c) => AllBelow(s)) /\ DevsOf(s) = {c.dev}
  BY <1>1, <1>2 DEF Pending, AllBelow, DevsOf
<1>4. SendsOf(s) = IF c.fn = "SwitchSend" THEN {c} ELSE {}
  BY <1>1, <1>2 DEF SendsOf
<1>. QED BY <1>1, <1>3, <1>4 DEF s

LEMMA Concatenated ==
  ASSUME NEW S, NEW t \in Seq(S), NEW d \in S, NEW c \in S
  PROVE  /\ <<>> \o t = t /\ t \o <<>> = t
         /\ (<<>> \o <<d>>) \o t = <<d>> \o t
         /\ (<<c>> \o <<d>>) \o t = <<c>> \o (<<d>> \o t)
         /\ (<<>> \o t) \o <<c>> = Append(t, c)
  OBVIOUS

(* What a port has still to tell, by the call that is the innermost.       *)
Plain(s) == \/ s = <<>>
            \/ Head(s).fn \in {"SwitchSend", "DequeueAndTransmit"}
            \/ AllBelow(s)

LEMMA PlainUnderway ==
  ASSUME NEW s \in Seq(Calls), Plain(s), NEW h \in Seq(Packets), NEW port
  PROVE  UnderwayIn(s, h, port) = h
<1>1. ASSUME s # <<>> PROVE Below(Head(s)) \/ Head(s).fn \in {"SwitchSend", "DequeueAndTransmit"}
  <2>1. Head(s) = s[1] /\ 1 \in 1 .. Len(s)
    BY <1>1
  <2>. QED BY <1>1, <2>1 DEF Plain, AllBelow
<1>2. FirstCall(s, "TransmitStart", port) = <<>> /\ FirstCall(s, "SendPfc", port) = <<>>
  BY <1>1 DEF FirstCall, Below
<1>3. (<<>> \o h) \o <<>> = h
  OBVIOUS
<1>. QED BY <1>2, <1>3 DEF UnderwayIn

LEMMA PfcUnderway ==
  ASSUME NEW s, s # <<>>, NEW dev, NEW f \in Frames,
         Head(s).fn = "SendPfc", Head(s).dev = dev, Head(s).arg = f,
         NEW h \in Seq(Packets), NEW port
  PROVE  UnderwayIn(s, h, port) = IF port = dev THEN Append(h, f) ELSE h
<1>1. f \notin Pkts /\ f \in Packets
  BY PacketAssumption DEF Packets
<1>2. FirstCall(s, "TransmitStart", port) = <<>>
  BY DEF FirstCall
<1>3. FirstCall(s, "SendPfc", port) = IF port = dev THEN <<f>> ELSE <<>>
  BY <1>1 DEF FirstCall
<1>4. (<<>> \o h) \o <<>> = h /\ (<<>> \o h) \o <<f>> = Append(h, f)
  BY <1>1, Concatenated
<1>. QED BY <1>2, <1>3, <1>4 DEF UnderwayIn

LEMMA StartUnderway ==
  ASSUME NEW s, s # <<>>, Head(s).fn = "TransmitStart",
         Head(s).arg \in Pkts \cup Packets, NEW h \in Seq(Packets), NEW port
  PROVE  UnderwayIn(s, h, port)
           = IF port = Head(s).dev /\ Head(s).arg \notin Pkts THEN <<Head(s).arg>> \o h ELSE h
<1>1. FirstCall(s, "SendPfc", port) = <<>>
  BY DEF FirstCall
<1>2. FirstCall(s, "TransmitStart", port)
        = IF port = Head(s).dev /\ Head(s).arg \notin Pkts THEN <<Head(s).arg>> ELSE <<>>
  BY DEF FirstCall
<1>. DEFINE f == Head(s).arg
<1>3. f \notin Pkts => (<<f>> \o h) \o <<>> = <<f>> \o h
  <2>1. f \notin Pkts => f \in Packets
    OBVIOUS
  <2>. HIDE DEF f
  <2>. QED BY <2>1
<1>4. (<<>> \o h) \o <<>> = h
  OBVIOUS
<1>. HIDE DEF f
<1>. QED BY <1>1, <1>2, <1>3, <1>4 DEF UnderwayIn, f

-----------------------------------------------------------------------------
(* What the steps do to the calls pending.                                 *)

(* The innermost call is replaced by another one of the same device, and   *)
(* the innermost call returns.                                             *)
LEMMA Replaced ==
  ASSUME NodeTypeOK, CallsShape, NEW fn, NEW dev, Calling(fn, dev),
         NEW c \in Calls, c.fn # "SwitchSend", c.dev = dev, calls' = <<c>> \o Tail(calls)
  PROVE  /\ CallsShape' /\ calls' \in Seq(Calls) /\ calls' # <<>> /\ Head(calls') = c
         /\ SendsOf(calls') = IF fn = "SwitchSend" THEN {} ELSE SendsOf(calls)
         /\ DevsOf(calls) \subseteq DevsOf(calls') /\ dev \in DevsOf(calls')
<1>1. calls \in Seq(Calls) /\ calls # <<>> /\ Head(calls).fn = fn /\ Head(calls).dev = dev
      /\ Pending(calls)
  BY DEF NodeTypeOK, Calling, CallsShape
<1>2. /\ Tail(calls) \in Seq(Calls) /\ Pending(Tail(calls)) /\ AllBelow(Tail(calls))
      /\ fn = "SwitchSend" => Tail(calls) = <<>>
      /\ fn # "SwitchSend" => SendsOf(Tail(calls)) = SendsOf(calls)
      /\ DevsOf(calls) \subseteq DevsOf(Tail(calls)) \cup {dev}
  BY <1>1, AfterReturn
<1>3. /\ calls' \in Seq(Calls) /\ Pending(calls') /\ calls' # <<>> /\ Head(calls') = c
      /\ SendsOf(calls') = SendsOf(Tail(calls))
      /\ DevsOf(calls') = DevsOf(Tail(calls)) \cup {dev}
  BY <1>2, AfterCall
<1>4. fn = "SwitchSend" => SendsOf(calls') = {}
  BY <1>2, <1>3, NoCalls
<1>. QED BY <1>2, <1>3, <1>4 DEF CallsShape

LEMMA Returned ==
  ASSUME NodeTypeOK, CallsShape, NEW fn, NEW dev, Calling(fn, dev), fn # "SwitchSend",
         calls' = Tail(calls)
  PROVE  /\ CallsShape' /\ calls' \in Seq(Calls) /\ AllBelow(calls')
         /\ SendsOf(calls') = SendsOf(calls)
         /\ DevsOf(calls) \subseteq DevsOf(calls') \cup {dev}
<1>1. calls \in Seq(Calls) /\ calls # <<>> /\ Head(calls).fn = fn /\ Head(calls).dev = dev
      /\ Pending(calls)
  BY DEF NodeTypeOK, Calling, CallsShape
<1>. QED BY <1>1, AfterReturn DEF CallsShape

(* An event starts the transmitter of a device.                            *)
LEMMA Started ==
  ASSUME Idle, NEW dev \in Ports, calls' = <<Transmit(dev)>>
  PROVE  /\ CallsShape' /\ calls' \in Seq(Calls)
         /\ calls' # <<>> /\ Head(calls').fn = "DequeueAndTransmit"
         /\ SendsOf(calls') = SendsOf(calls)
         /\ DevsOf(calls) \subseteq DevsOf(calls') /\ dev \in DevsOf(calls')
<1>. DEFINE c == Transmit(dev)
<1>1. c \in Calls /\ c.fn = "DequeueAndTransmit" /\ c.dev = dev
  BY TransmitType DEF Transmit, Call
<1>. HIDE DEF c
<1>2. /\ <<c>> \in Seq(Calls) /\ Pending(<<c>>) /\ Head(<<c>>) = c /\ <<c>> # <<>>
      /\ SendsOf(<<c>>) = {} /\ DevsOf(<<c>>) = {dev}
  BY <1>1, OneCall
<1>3. calls' = <<c>> /\ SendsOf(calls) = {} /\ DevsOf(calls) = {}
  BY NoCalls DEF c, Idle
<1>. QED BY <1>1, <1>2, <1>3 DEF CallsShape

(* A packet is admitted: perhaps a PFC frame, then SwitchSend.             *)
LEMMA Arrived ==
  ASSUME NInv, IInv', Idle, NEW k \in Pkts, NEW inDev \in Ports, NEW outDev \in Ports,
         NEW q \in Queues, calls' = PfcDue(inDev, q) \o <<Call("SwitchSend", outDev, k)>>
  PROVE  /\ CallsShape' /\ calls' \in Seq(Calls) /\ calls' # <<>>
         /\ SendsOf(calls') = {Call("SwitchSend", outDev, k)}
         /\ IF paused'[<<inDev, q>>] = paused[<<inDev, q>>]
            THEN Head(calls').fn = "SwitchSend"
            ELSE Head(calls') = Call("SendPfc", inDev, Frame(q, paused'[<<inDev, q>>]))
<1>. DEFINE d == Call("SwitchSend", outDev, k)
            c == Call("SendPfc", inDev, Frame(q, paused'[<<inDev, q>>]))
<1>1. d \in Calls /\ d.fn = "SwitchSend" /\ Below(d)
  BY DEF Call, Calls, Below
<1>2. c \in Calls /\ c.fn = "SendPfc"
  <2>1. paused'[<<inDev, q>>] \in BOOLEAN
    BY DEF IInv, Counters
  <2>. QED BY <2>1 DEF Call, Calls, Frame, Frames
<1>3. calls' = IF paused'[<<inDev, q>>] = paused[<<inDev, q>>] THEN <<>> \o <<d>>
               ELSE <<c>> \o <<d>>
  BY DEF PfcDue
<1>. HIDE DEF c, d
<1>4. /\ <<d>> \in Seq(Calls) /\ Pending(<<d>>) /\ Head(<<d>>) = d /\ <<d>> # <<>>
      /\ AllBelow(<<d>>) /\ SendsOf(<<d>>) = {d} /\ <<>> \o <<d>> = <<d>>
  BY <1>1, OneCall, Concatenated
<1>5. /\ <<c>> \o <<d>> \in Seq(Calls) /\ Pending(<<c>> \o <<d>>) /\ <<c>> \o <<d>> # <<>>
      /\ Head(<<c>> \o <<d>>) = c /\ SendsOf(<<c>> \o <<d>>) = {d}
  BY <1>2, <1>4, AfterCall
<1>6. CASE paused'[<<inDev, q>>] = paused[<<inDev, q>>]
  BY <1>1, <1>3, <1>4, <1>6 DEF CallsShape, d
<1>7. CASE paused'[<<inDev, q>>] # paused[<<inDev, q>>]
  BY <1>3, <1>5, <1>7 DEF CallsShape, c, d
<1>. QED BY <1>6, <1>7

(* A packet leaves: perhaps a PFC frame, then its transmission.            *)
LEMMA Departed ==
  ASSUME NInv, IInv', CallsShape, NEW dev \in Ports, Calling("DequeueAndTransmit", dev),
         NEW k \in Pkts, NEW inDev \in Ports, NEW q \in Queues,
         calls' = PfcDue(inDev, q) \o <<Call("TransmitStart", dev, k)>> \o Tail(calls)
  PROVE  /\ CallsShape' /\ calls' \in Seq(Calls) /\ calls' # <<>>
         /\ SendsOf(calls') = SendsOf(calls)
         /\ DevsOf(calls) \subseteq DevsOf(calls') /\ dev \in DevsOf(calls')
         /\ IF paused'[<<inDev, q>>] = paused[<<inDev, q>>]
            THEN AllBelow(calls')
            ELSE Head(calls') = Call("SendPfc", inDev, Frame(q, paused'[<<inDev, q>>]))
<1>. DEFINE d == Call("TransmitStart", dev, k)
            c == Call("SendPfc", inDev, Frame(q, paused'[<<inDev, q>>]))
            t == Tail(calls)
<1>1. d \in Calls /\ d.fn # "SwitchSend" /\ Below(d) /\ d.dev = dev
  BY DEF Call, Calls, Below
<1>2. c \in Calls /\ c.fn # "SwitchSend"
  <2>1. paused'[<<inDev, q>>] \in BOOLEAN
    BY DEF IInv, Counters
  <2>. QED BY <2>1 DEF Call, Calls, Frame, Frames
<1>3. calls' = IF paused'[<<inDev, q>>] = paused[<<inDev, q>>] THEN (<<>> \o <<d>>) \o t
               ELSE (<<c>> \o <<d>>) \o t
  BY DEF PfcDue
<1>4. /\ t \in Seq(Calls) /\ Pending(t) /\ AllBelow(t) /\ SendsOf(t) = SendsOf(calls)
      /\ DevsOf(calls) \subseteq DevsOf(t) \cup {dev}
  <2>1. calls \in Seq(Calls) /\ calls # <<>> /\ Head(calls).fn # "SwitchSend"
        /\ Head(calls).dev = dev /\ Pending(calls)
    BY DEF NInv, NodeTypeOK, Calling, CallsShape
  <2>. QED BY <2>1, AfterReturn
<1>. HIDE DEF c, d, t
<1>5. (<<>> \o <<d>>) \o t = <<d>> \o t /\ (<<c>> \o <<d>>) \o t = <<c>> \o (<<d>> \o t)
  BY <1>1, <1>2, <1>4, Concatenated
<1>. DEFINE u == <<d>> \o t
            v == <<c>> \o u
<1>6. /\ u \in Seq(Calls) /\ Pending(u) /\ u # <<>> /\ AllBelow(u) /\ SendsOf(u) = SendsOf(t)
      /\ DevsOf(u) = DevsOf(t) \cup {dev}
  BY <1>1, <1>4, AfterCall
<1>7. calls' = IF paused'[<<inDev, q>>] = paused[<<inDev, q>>] THEN u ELSE v
  BY <1>3, <1>5
<1>. HIDE DEF u
<1>8. /\ v \in Seq(Calls) /\ Pending(v) /\ v # <<>> /\ Head(v) = c /\ SendsOf(v) = SendsOf(u)
      /\ DevsOf(u) \subseteq DevsOf(v)
  BY <1>2, <1>6, AfterCall
<1>. HIDE DEF v
<1>9. CASE paused'[<<inDev, q>>] = paused[<<inDev, q>>]
  BY <1>4, <1>6, <1>7, <1>9 DEF CallsShape
<1>10. CASE paused'[<<inDev, q>>] # paused[<<inDev, q>>]
  BY <1>4, <1>6, <1>7, <1>8, <1>10 DEF CallsShape, c
<1>. QED BY <1>9, <1>10

-----------------------------------------------------------------------------
(* The queues hold what the MMU counts.                                    *)
Elements(s) == {s[i] : i \in 1 .. Len(s)}

LEMMA ElementsTail ==
  ASSUME NEW S, NEW s \in Seq(S), s # <<>>, Distinct(s)
  PROVE  /\ Head(s) \in Elements(s)
         /\ Elements(Tail(s)) = Elements(s) \ {Head(s)} /\ Distinct(Tail(s))
<1>. DEFINE t == Tail(s)
            n == Len(t)
<1>1. n \in Nat /\ Len(s) = n + 1 /\ Head(s) = s[1] /\ \A i \in 1 .. n : t[i] = s[i + 1]
  OBVIOUS
<1>. HIDE DEF t
<1>2. \A i, j \in 1 .. n + 1 : s[i] = s[j] => i = j
  BY <1>1 DEF Distinct
<1>3. Distinct(t)
  <2>1. ASSUME NEW i \in 1 .. n, NEW j \in 1 .. n, t[i] = t[j] PROVE i = j
    <3>1. i + 1 \in 1 .. n + 1 /\ j + 1 \in 1 .. n + 1
      BY <1>1
    <3>2. i + 1 = j + 1
      BY <1>1, <1>2, <2>1, <3>1
    <3>. QED BY <1>1, <3>2
  <2>. QED BY <2>1 DEF Distinct
<1>4. ASSUME NEW e \in Elements(t) PROVE e \in Elements(s) \ {Head(s)}
  <2>1. PICK i \in 1 .. n : e = t[i]
    BY <1>4 DEF Elements
  <2>2. i + 1 \in 1 .. n + 1 /\ 1 \in 1 .. n + 1 /\ i + 1 # 1 /\ e = s[i + 1]
    BY <1>1, <2>1
  <2>. QED BY <1>1, <1>2, <2>2 DEF Elements
<1>5. ASSUME NEW e \in Elements(s), e # Head(s) PROVE e \in Elements(t)
  <2>1. PICK i \in 1 .. n + 1 : e = s[i]
    BY <1>1, <1>5 DEF Elements
  <2>2. i - 1 \in 1 .. n /\ (i - 1) + 1 = i
    BY <1>1, <1>5, <2>1
  <2>3. t[i - 1] = e
    BY <1>1, <2>1, <2>2
  <2>. QED BY <2>2, <2>3 DEF Elements
<1>6. Head(s) \in Elements(s)
  <2>1. 1 \in 1 .. Len(s)
    BY <1>1
  <2>. QED BY <1>1, <2>1 DEF Elements
<1>. QED BY <1>3, <1>4, <1>5, <1>6 DEF t

LEMMA ElementsAppend ==
  ASSUME NEW S, NEW s \in Seq(S), NEW e \in S, Distinct(s), e \notin Elements(s)
  PROVE  Elements(Append(s, e)) = Elements(s) \cup {e} /\ Distinct(Append(s, e))
<1>. DEFINE t == Append(s, e)
            n == Len(s)
<1>1. n \in Nat /\ Len(t) = n + 1 /\ t[n + 1] = e /\ \A i \in 1 .. n : t[i] = s[i]
  OBVIOUS
<1>. HIDE DEF t
<1>2. \A i, j \in 1 .. n : s[i] = s[j] => i = j
  BY DEF Distinct
<1>3. \A i \in 1 .. n : s[i] # e
  BY DEF Elements
<1>4. \A i \in 1 .. n + 1 : i \in 1 .. n \/ i = n + 1
  BY <1>1
<1>5. Distinct(t)
  BY <1>1, <1>2, <1>3, <1>4 DEF Distinct
<1>6. ASSUME NEW i \in 1 .. n + 1 PROVE t[i] \in Elements(s) \cup {e}
  BY <1>1, <1>4 DEF Elements
<1>7. ASSUME NEW i \in 1 .. n PROVE s[i] \in Elements(t)
  <2>1. i \in 1 .. Len(t) /\ t[i] = s[i]
    BY <1>1
  <2>. QED BY <2>1 DEF Elements
<1>8. e \in Elements(t)
  <2>1. n + 1 \in 1 .. Len(t)
    BY <1>1
  <2>. QED BY <1>1, <2>1 DEF Elements
<1>9. Elements(t) = Elements(s) \cup {e}
  <2>1. Elements(t) \subseteq Elements(s) \cup {e}
    BY <1>1, <1>6 DEF Elements
  <2>2. Elements(s) \subseteq Elements(t)
    BY <1>7 DEF Elements
  <2>. QED BY <1>8, <2>1, <2>2
<1>. QED BY <1>5, <1>9 DEF t

LEMMA NoElements == Elements(<<>>) = {} /\ Distinct(<<>>)
<1>1. 1 .. Len(<<>>) = {}
  OBVIOUS
<1>. QED BY <1>1 DEF Elements, Distinct

LEMMA WaitingElements == \A port, q : Waiting(port, q) = Elements(queue[<<port, q>>])
  BY DEF Waiting, Elements

LEMMA WaitingNext == \A port, q : Waiting(port, q)' = Elements(queue'[<<port, q>>])
  BY DEF Waiting, Elements

(* What admission and departure do to the packets buffered and to paused.  *)
LEMMA Admitted ==
  ASSUME NInv, NEW k \in Pkts, NEW inDev \in Ports, NEW outDev \in Ports, NEW q \in Queues,
         NEW psize \in PacketSizes, Admit(k, inDev, outDev, q, psize)
  PROVE  /\ k \notin Buffered /\ Buffered' = Buffered \cup {k}
         /\ resident'[k].out = outDev /\ resident'[k].q = q
         /\ \A j \in Pkts \ {k} : resident'[j] = resident[j]
         /\ \A pq \in (Ports \X Queues) \ {<<inDev, q>>} : paused'[pq] = paused[pq]
<1>1. resident \in [Pkts -> Charges \cup {Absent}] /\ paused \in [Ports \X Queues -> BOOLEAN]
  BY DEF NInv, IInv, Counters
<1>. DEFINE charge == [in |-> inDev, out |-> outDev, q |-> q, size |-> psize]
<1>2. charge # Absent
  <2>1. q # 0
    BY NodeAssumption
  <2>. QED BY <2>1 DEF Absent
<1>3. charge.out = outDev /\ charge.q = q
  OBVIOUS
<1>4. resident' = [resident EXCEPT ![k] = charge] /\ k \notin Buffered
  BY DEF Admit
<1>5. paused' = [paused EXCEPT ![<<inDev, q>>] = @ \/ Congested(inDev, q)']
  BY DEF Admit, CheckAndSendPfc
<1>. HIDE DEF charge
<1>6. resident'[k] = charge /\ \A j \in Pkts \ {k} : resident'[j] = resident[j]
  BY <1>1, <1>4
<1>7. Buffered' = Buffered \cup {k}
  BY <1>2, <1>6 DEF Buffered
<1>8. \A pq \in (Ports \X Queues) \ {<<inDev, q>>} : paused'[pq] = paused[pq]
  BY <1>1, <1>5
<1>. QED BY <1>3, <1>4, <1>6, <1>7, <1>8

LEMMA Released ==
  ASSUME NInv, NEW k \in Pkts, Depart(k)
  PROVE  /\ k \in Buffered /\ Buffered' = Buffered \ {k}
         /\ resident[k].in \in Ports /\ resident[k].q \in Queues
         /\ \A j \in Pkts \ {k} : resident'[j] = resident[j]
         /\ \A pq \in (Ports \X Queues) \ {<<resident[k].in, resident[k].q>>} :
              paused'[pq] = paused[pq]
<1>1. resident \in [Pkts -> Charges \cup {Absent}] /\ paused \in [Ports \X Queues -> BOOLEAN]
  BY DEF NInv, IInv, Counters
<1>2. resident[k] # Absent /\ Release(k, resident[k])
  BY DEF Depart
<1>3. resident[k].in \in Ports /\ resident[k].q \in Queues
  BY <1>1, <1>2 DEF Charges
<1>4. resident' = [resident EXCEPT ![k] = Absent]
  BY <1>2 DEF Release
<1>5. \E b : paused' = [paused EXCEPT ![<<resident[k].in, resident[k].q>>] = b]
  BY <1>2 DEF Release, CheckAndSendResume
<1>6. resident'[k] = Absent /\ \A j \in Pkts \ {k} : resident'[j] = resident[j]
  BY <1>1, <1>4
<1>7. Buffered' = Buffered \ {k} /\ k \in Buffered
  BY <1>2, <1>6 DEF Buffered
<1>8. \A pq \in (Ports \X Queues) \ {<<resident[k].in, resident[k].q>>} : paused'[pq] = paused[pq]
  BY <1>1, <1>5
<1>. QED BY <1>3, <1>6, <1>7, <1>8

LEMMA QueuesKept ==
  ASSUME QueuesInv, queue' = queue, resident' = resident, linkUp' = linkUp,
         SendsOf(calls') = SendsOf(calls)
  PROVE  QueuesInv'
<1>1. Buffered' = Buffered /\ \A port, q : Waiting(port, q)' = Waiting(port, q)
  BY DEF Buffered, Waiting
<1>2. \A k, port, q : IsQueuedFor(k, port, q)' = IsQueuedFor(k, port, q)
  BY <1>1 DEF IsQueuedFor
<1>3. QueuedIsBuffered'
  BY <1>1, <1>2 DEF QueuesInv, QueuedIsBuffered
<1>4. SentIsBuffered'
  BY <1>1, <1>2 DEF QueuesInv, SentIsBuffered
<1>5. BufferedIsSomewhere'
  BY <1>1 DEF QueuesInv, BufferedIsSomewhere
<1>. QED BY <1>3, <1>4, <1>5 DEF QueuesInv

LEMMA WaitingIsBuffered ==
  ASSUME NInv, QueuesInv, NEW port \in Ports, NEW q \in Queues
  PROVE  /\ \A j \in Waiting(port, q) : IsQueuedFor(j, port, q) /\ j \in Pkts
         /\ Distinct(queue[<<port, q>>]) /\ queue[<<port, q>>] \in Seq(Pkts)
  BY DEF QueuesInv, QueuedIsBuffered, NInv, NodeTypeOK, IsQueuedFor, Buffered

LEMMA AdmissionKeepsQueues ==
  ASSUME NInv, IInv', QueuesInv, NEW k \in Pkts, NEW inDev \in Ports, NEW outDev \in Ports,
         NEW q \in Queues, NEW psize \in PacketSizes, Idle,
         Admit(k, inDev, outDev, q, psize),
         calls' = PfcDue(inDev, q) \o <<Call("SwitchSend", outDev, k)>>,
         queue' = queue, linkUp' = linkUp
  PROVE  QueuesInv'
<1>1. /\ k \notin Buffered /\ Buffered' = Buffered \cup {k}
      /\ resident'[k].out = outDev /\ resident'[k].q = q
      /\ \A j \in Pkts \ {k} : resident'[j] = resident[j]
  BY Admitted
<1>. DEFINE c == Call("SwitchSend", outDev, k)
<1>2. SendsOf(calls') = {c} /\ c.arg = k /\ c.dev = outDev
  BY Arrived DEF Call
<1>3. SendsOf(calls) = {}
  BY NoCalls DEF Idle
<1>. HIDE DEF c
<1>4. \A port, r : Waiting(port, r)' = Waiting(port, r)
  BY DEF Waiting
<1>5. ASSUME NEW port \in Ports, NEW r \in Queues, NEW j \in Waiting(port, r)
      PROVE  IsQueuedFor(j, port, r)' /\ j # k
  <2>1. IsQueuedFor(j, port, r) /\ j \in Pkts
    BY <1>5, WaitingIsBuffered
  <2>2. j \in Buffered /\ j # k
    BY <1>1, <2>1 DEF IsQueuedFor
  <2>3. resident'[j] = resident[j] /\ j \in Buffered'
    BY <1>1, <2>1, <2>2
  <2>. QED BY <2>1, <2>2, <2>3 DEF IsQueuedFor
<1>6. QueuedIsBuffered'
  BY <1>4, <1>5 DEF QueuesInv, QueuedIsBuffered
<1>7. SentIsBuffered'
  <2>1. k \notin Waiting(outDev, q)
    BY <1>5
  <2>2. IsQueuedFor(k, outDev, q)'
    BY <1>1 DEF IsQueuedFor
  <2>. QED BY <1>1, <1>2, <1>4, <2>1, <2>2 DEF SentIsBuffered
<1>8. BufferedIsSomewhere'
  <2>1. ASSUME NEW j \in Buffered, linkUp[resident[j].out]
        PROVE  j \in Waiting(resident[j].out, resident[j].q) /\ resident'[j] = resident[j]
    <3>1. j \in Pkts \ {k}
      BY <1>1 DEF Buffered
    <3>. QED BY <1>1, <1>3, <2>1, <3>1 DEF QueuesInv, BufferedIsSomewhere
  <2>2. ASSUME NEW j \in Buffered PROVE resident'[j] = resident[j]
    <3>1. j \in Pkts \ {k}
      BY <1>1 DEF Buffered
    <3>. QED BY <1>1, <3>1
  <2>. QED BY <1>1, <1>2, <1>4, <2>1, <2>2 DEF BufferedIsSomewhere
<1>. QED BY <1>6, <1>7, <1>8 DEF QueuesInv

LEMMA SwitchSendKeepsQueues ==
  ASSUME NInv, CallsShape, QueuesInv, NEW dev \in Ports, SwitchSend(dev)
  PROVE  QueuesInv'
<1>. DEFINE c == Head(calls)
            k == c.arg
<1>1. calls \in Seq(Calls) /\ calls # <<>> /\ c.fn = "SwitchSend" /\ c.dev = dev /\ k \in Pkts
  BY CallArg DEF SwitchSend, Calling, NInv, NodeTypeOK
<1>2. SendsOf(calls) = {c}
  <2>1. Len(calls) \in Nat /\ Len(calls) >= 1 /\ c = calls[1]
    BY <1>1
  <2>2. 1 \in 1 .. Len(calls)
    BY <2>1
  <2>3. Len(calls) = 1
    BY <1>1, <2>1, <2>2 DEF CallsShape, Pending
  <2>4. 1 .. Len(calls) = {1}
    BY <2>3
  <2>. HIDE DEF c
  <2>. QED BY <1>1, <2>1, <2>4 DEF SendsOf
<1>3. IsQueuedFor(k, dev, resident[k].q) /\ k \notin Waiting(dev, resident[k].q)
  BY <1>1, <1>2 DEF QueuesInv, SentIsBuffered
<1>4. PICK r \in Queues : r = resident[k].q
  <2>1. resident[k] \in Charges
    BY <1>1, <1>3 DEF IsQueuedFor, Buffered, NInv, IInv, Counters
  <2>. QED BY <2>1 DEF Charges
<1>5. SendsOf(calls') = {}
  <2>1. Calling("SwitchSend", dev) /\ calls' = <<Transmit(dev)>> \o Tail(calls)
    BY DEF SwitchSend
  <2>2. Transmit(dev) \in Calls /\ Transmit(dev).fn # "SwitchSend" /\ Transmit(dev).dev = dev
    BY TransmitType DEF Transmit, Call
  <2>. QED BY <2>1, <2>2, Replaced DEF NInv
<1>6. queue' = [queue EXCEPT ![<<dev, r>>] = Append(@, k)] /\ resident' = resident /\ linkUp' = linkUp
  BY <1>4 DEF SwitchSend, mmu
<1>. HIDE DEF c, k
<1>7. queue \in [Ports \X Queues -> Seq(Pkts)]
  BY DEF NInv, NodeTypeOK
<1>8. /\ queue'[<<dev, r>>] = Append(queue[<<dev, r>>], k)
      /\ \A port \in Ports, q \in Queues :
           ~(port = dev /\ q = r) => queue'[<<port, q>>] = queue[<<port, q>>]
  BY <1>4, <1>6, <1>7
<1>9. Elements(queue'[<<dev, r>>]) = Waiting(dev, r) \cup {k} /\ Distinct(queue'[<<dev, r>>])
  <2>1. Distinct(queue[<<dev, r>>]) /\ queue[<<dev, r>>] \in Seq(Pkts)
    BY <1>4, WaitingIsBuffered
  <2>2. k \notin Elements(queue[<<dev, r>>])
    BY <1>3, <1>4, WaitingElements
  <2>3. Elements(queue'[<<dev, r>>]) = Elements(queue[<<dev, r>>]) \cup {k}
    BY <1>1, <1>8, <2>1, <2>2, ElementsAppend
  <2>4. Distinct(queue'[<<dev, r>>])
    BY <1>1, <1>8, <2>1, <2>2, ElementsAppend
  <2>. QED BY <2>3, <2>4, WaitingElements
<1>10. \A port \in Ports, q \in Queues :
         ~(port = dev /\ q = r) =>
           Elements(queue'[<<port, q>>]) = Waiting(port, q) /\ queue'[<<port, q>>] = queue[<<port, q>>]
  BY <1>8, WaitingElements
<1>11. Buffered' = Buffered /\ \A j, port, q : IsQueuedFor(j, port, q)' = IsQueuedFor(j, port, q)
  BY <1>6 DEF Buffered, IsQueuedFor
<1>12. QueuedIsBuffered'
  <2>1. ASSUME NEW port \in Ports, NEW q \in Queues
        PROVE  /\ \A j \in Elements(queue'[<<port, q>>]) : IsQueuedFor(j, port, q)'
               /\ Distinct(queue'[<<port, q>>])
    <3>1. CASE port = dev /\ q = r
      BY <1>3, <1>4, <1>9, <1>11, <3>1, WaitingIsBuffered
    <3>2. CASE ~(port = dev /\ q = r)
      BY <1>10, <1>11, <3>2, WaitingIsBuffered
    <3>. QED BY <3>1, <3>2
  <2>. QED BY <2>1, WaitingNext DEF QueuedIsBuffered
<1>13. SentIsBuffered'
  BY <1>5 DEF SentIsBuffered
<1>14. BufferedIsSomewhere'
  <2>1. ASSUME NEW j \in Buffered, linkUp[resident[j].out]
        PROVE  j \in Elements(queue'[<<resident[j].out, resident[j].q>>])
    <3>1. resident[j].out \in Ports /\ resident[j].q \in Queues
      BY <2>1 DEF Buffered, NInv, IInv, Counters, Charges
    <3>2. CASE j = k
      BY <1>3, <1>4, <1>9, <3>2 DEF IsQueuedFor
    <3>3. CASE j # k
      <4>1. j \in Waiting(resident[j].out, resident[j].q)
        BY <1>2, <2>1, <3>3 DEF QueuesInv, BufferedIsSomewhere, k
      <4>. QED BY <1>9, <1>10, <3>1, <4>1
    <3>. QED BY <3>2, <3>3
  <2>. QED BY <1>6, <1>11, <2>1, WaitingNext DEF BufferedIsSomewhere
<1>. QED BY <1>12, <1>13, <1>14 DEF QueuesInv

(* The packet TransmitData takes leaves the MMU and its queue at once.     *)
LEMMA TransmitDataFacts ==
  ASSUME NInv, IInv', CallsShape, QueuesInv, NEW dev \in Ports, NEW q \in Queues,
         TransmitData(dev, q), NEW k, k = Head(queue[<<dev, q>>])
  PROVE  /\ k \in Pkts /\ Depart(k) /\ IsQueuedFor(k, dev, q) /\ k \in Waiting(dev, q)
         /\ resident[k].in \in Ports
         /\ calls' = PfcDue(resident[k].in, q) \o <<Call("TransmitStart", dev, k)>> \o Tail(calls)
         /\ Calling("DequeueAndTransmit", dev)
<1>1. k \in Pkts /\ Depart(k)
  BY TakenPacket DEF NInv
<1>2. queue[<<dev, q>>] \in Seq(Pkts) /\ queue[<<dev, q>>] # <<>> /\ Distinct(queue[<<dev, q>>])
  BY WaitingIsBuffered DEF TransmitData, NextQueue, Ready
<1>3. k \in Waiting(dev, q)
  BY <1>2, ElementsTail, WaitingElements
<1>4. IsQueuedFor(k, dev, q)
  BY <1>3, WaitingIsBuffered
<1>5. resident[k].in \in Ports
  BY <1>1, Released
<1>. QED BY <1>1, <1>3, <1>4, <1>5 DEF TransmitData

LEMMA TransmitDataKeepsQueues ==
  ASSUME NInv, IInv', CallsShape, QueuesInv, NEW dev \in Ports, NEW q \in Queues,
         TransmitData(dev, q)
  PROVE  QueuesInv'
<1>. DEFINE k == Head(queue[<<dev, q>>])
<1>1. /\ k \in Pkts /\ Depart(k) /\ IsQueuedFor(k, dev, q) /\ k \in Waiting(dev, q)
      /\ resident[k].in \in Ports
      /\ calls' = PfcDue(resident[k].in, q) \o <<Call("TransmitStart", dev, k)>> \o Tail(calls)
      /\ Calling("DequeueAndTransmit", dev)
  BY TransmitDataFacts
<1>2. SendsOf(calls') = SendsOf(calls)
  BY <1>1, Departed
<1>3. /\ Buffered' = Buffered \ {k}
      /\ \A j \in Pkts \ {k} : resident'[j] = resident[j]
  BY <1>1, Released
<1>4. /\ queue' = [queue EXCEPT ![<<dev, q>>] = Tail(@)] /\ linkUp' = linkUp
      /\ queue[<<dev, q>>] # <<>>
  BY DEF TransmitData, Served, NextQueue, Ready
<1>5. queue \in [Ports \X Queues -> Seq(Pkts)]
  BY DEF NInv, NodeTypeOK
<1>6. Elements(queue'[<<dev, q>>]) = Waiting(dev, q) \ {k} /\ Distinct(queue'[<<dev, q>>])
  <2>1. Distinct(queue[<<dev, q>>]) /\ queue[<<dev, q>>] \in Seq(Pkts)
    BY WaitingIsBuffered
  <2>2. queue'[<<dev, q>>] = Tail(queue[<<dev, q>>])
    BY <1>4, <1>5
  <2>3. /\ Elements(queue'[<<dev, q>>]) = Elements(queue[<<dev, q>>]) \ {k}
        /\ Distinct(queue'[<<dev, q>>])
    BY <1>4, <2>1, <2>2, ElementsTail
  <2>. QED BY <2>3, WaitingElements
<1>7. \A port \in Ports, r \in Queues :
        ~(port = dev /\ r = q) =>
          /\ Elements(queue'[<<port, r>>]) = Waiting(port, r) /\ queue'[<<port, r>>] = queue[<<port, r>>]
          /\ k \notin Waiting(port, r)
  <2>1. ASSUME NEW port \in Ports, NEW r \in Queues, ~(port = dev /\ r = q)
        PROVE  queue'[<<port, r>>] = queue[<<port, r>>] /\ k \notin Waiting(port, r)
    <3>1. queue'[<<port, r>>] = queue[<<port, r>>]
      BY <1>4, <1>5, <2>1
    <3>2. k \in Waiting(port, r) => resident[k].out = port /\ resident[k].q = r
      BY WaitingIsBuffered DEF IsQueuedFor
    <3>3. resident[k].out = dev /\ resident[k].q = q
      BY <1>1 DEF IsQueuedFor
    <3>. QED BY <2>1, <3>1, <3>2, <3>3
  <2>2. ASSUME NEW port \in Ports, NEW r \in Queues, ~(port = dev /\ r = q)
        PROVE  Elements(queue'[<<port, r>>]) = Waiting(port, r)
    BY <2>1, <2>2, WaitingElements
  <2>. QED BY <2>1, <2>2
<1>. HIDE DEF k
<1>8. ASSUME NEW j \in Buffered, j # k
      PROVE  j \in Pkts /\ j \in Buffered' /\ resident'[j] = resident[j]
             /\ \A port, r : IsQueuedFor(j, port, r)' = IsQueuedFor(j, port, r)
  <2>1. j \in Pkts \ {k}
    BY <1>8 DEF Buffered
  <2>2. j \in Buffered' /\ resident'[j] = resident[j]
    BY <1>3, <1>8, <2>1
  <2>. QED BY <2>1, <2>2, <1>8 DEF IsQueuedFor
<1>9. QueuedIsBuffered'
  <2>1. ASSUME NEW port \in Ports, NEW r \in Queues
        PROVE  /\ \A j \in Elements(queue'[<<port, r>>]) : IsQueuedFor(j, port, r)'
               /\ Distinct(queue'[<<port, r>>])
    <3>1. \A j \in Elements(queue'[<<port, r>>]) : j \in Waiting(port, r) /\ j # k
      BY <1>6, <1>7
    <3>2. \A j \in Waiting(port, r) : IsQueuedFor(j, port, r) /\ j \in Buffered
      BY WaitingIsBuffered DEF IsQueuedFor
    <3>3. \A j \in Elements(queue'[<<port, r>>]) : IsQueuedFor(j, port, r)'
      BY <1>8, <3>1, <3>2
    <3>4. Distinct(queue'[<<port, r>>])
      BY <1>6, <1>7, WaitingIsBuffered
    <3>. QED BY <3>3, <3>4
  <2>. QED BY <2>1, WaitingNext DEF QueuedIsBuffered
<1>10. SentIsBuffered'
  <2>1. ASSUME NEW c \in SendsOf(calls)
        PROVE  \E r : /\ r = resident'[c.arg].q /\ IsQueuedFor(c.arg, c.dev, r)'
                      /\ c.arg \notin Elements(queue'[<<c.dev, r>>])
    <3>. DEFINE j == c.arg
    <3>0. PICK r : r = resident[j].q
      OBVIOUS
    <3>1. IsQueuedFor(j, c.dev, r) /\ j \notin Waiting(c.dev, r)
      BY <2>1, <3>0 DEF QueuesInv, SentIsBuffered
    <3>2. j # k
      BY <1>1, <3>1 DEF IsQueuedFor
    <3>3. j \in Buffered
      BY <3>1 DEF IsQueuedFor
    <3>4. c.dev \in Ports /\ r \in Queues
      BY <3>0, <3>1 DEF IsQueuedFor, Buffered, NInv, IInv, Counters, Charges
    <3>5. resident'[j] = resident[j] /\ IsQueuedFor(j, c.dev, r)'
      BY <1>8, <3>1, <3>2, <3>3
    <3>6. j \notin Elements(queue'[<<c.dev, r>>])
      BY <1>6, <1>7, <3>1, <3>4
    <3>. QED BY <3>0, <3>5, <3>6
  <2>. QED BY <1>2, <2>1, WaitingNext DEF SentIsBuffered
<1>11. BufferedIsSomewhere'
  <2>1. ASSUME NEW j \in Buffered, j # k, linkUp[resident[j].out]
        PROVE  \/ j \in Elements(queue'[<<resident[j].out, resident[j].q>>])
               \/ \E c \in SendsOf(calls) : c.arg = j
    <3>1. resident[j].out \in Ports /\ resident[j].q \in Queues
      BY <2>1 DEF Buffered, NInv, IInv, Counters, Charges
    <3>2. \/ j \in Waiting(resident[j].out, resident[j].q)
          \/ \E c \in SendsOf(calls) : c.arg = j
      BY <2>1 DEF QueuesInv, BufferedIsSomewhere
    <3>. QED BY <1>6, <1>7, <2>1, <3>1, <3>2
  <2>. QED BY <1>2, <1>3, <1>4, <1>8, <2>1, WaitingNext DEF BufferedIsSomewhere
<1>. QED BY <1>9, <1>10, <1>11 DEF QueuesInv

LEMMA TakeDownKeepsQueues ==
  ASSUME NInv, QueuesInv, NEW dev \in Ports, TakeDown(dev)
  PROVE  QueuesInv'
<1>1. /\ queue' = [pq \in DOMAIN queue |-> IF pq[1] = dev THEN <<>> ELSE queue[pq]]
      /\ linkUp' = [linkUp EXCEPT ![dev] = FALSE] /\ resident' = resident /\ calls' = calls
      /\ Idle
  BY DEF TakeDown, mmu
<1>2. queue \in [Ports \X Queues -> Seq(Pkts)] /\ linkUp \in [Ports -> BOOLEAN]
  BY DEF NInv, NodeTypeOK
<1>3. SendsOf(calls) = {} /\ SendsOf(calls') = {}
  BY <1>1, NoCalls DEF Idle
<1>4. \A q \in Queues : queue'[<<dev, q>>] = <<>>
  BY <1>1, <1>2
<1>5. \A port \in Ports \ {dev}, q \in Queues : queue'[<<port, q>>] = queue[<<port, q>>]
  BY <1>1, <1>2
<1>6. Buffered' = Buffered /\ \A j, port, q : IsQueuedFor(j, port, q)' = IsQueuedFor(j, port, q)
  BY <1>1 DEF Buffered, IsQueuedFor
<1>7. \A q \in Queues : Elements(queue'[<<dev, q>>]) = {} /\ Distinct(queue'[<<dev, q>>])
  BY <1>4, NoElements
<1>8. \A port \in Ports \ {dev}, q \in Queues : Elements(queue'[<<port, q>>]) = Waiting(port, q)
  BY <1>5, WaitingElements
<1>9. QueuedIsBuffered'
  <2>1. ASSUME NEW port \in Ports, NEW q \in Queues
        PROVE  /\ \A j \in Elements(queue'[<<port, q>>]) : IsQueuedFor(j, port, q)'
               /\ Distinct(queue'[<<port, q>>])
    <3>1. CASE port = dev
      BY <1>7, <3>1
    <3>2. CASE port # dev
      <4>1. Elements(queue'[<<port, q>>]) = Waiting(port, q) /\ queue'[<<port, q>>] = queue[<<port, q>>]
        BY <1>5, <1>8, <3>2
      <4>. QED BY <1>6, <4>1, WaitingIsBuffered
    <3>. QED BY <3>1, <3>2
  <2>. QED BY <2>1, WaitingNext DEF QueuedIsBuffered
<1>10. SentIsBuffered'
  BY <1>3 DEF SentIsBuffered
<1>11. BufferedIsSomewhere'
  <2>1. ASSUME NEW j \in Buffered, linkUp'[resident[j].out]
        PROVE  j \in Elements(queue'[<<resident[j].out, resident[j].q>>])
    <3>1. resident[j].out \in Ports /\ resident[j].q \in Queues
      BY <2>1 DEF Buffered, NInv, IInv, Counters, Charges
    <3>2. resident[j].out # dev /\ linkUp[resident[j].out]
      BY <1>1, <1>2, <2>1, <3>1
    <3>3. j \in Waiting(resident[j].out, resident[j].q)
      BY <1>3, <2>1, <3>2 DEF QueuesInv, BufferedIsSomewhere
    <3>. QED BY <1>8, <3>1, <3>2, <3>3
  <2>. QED BY <1>1, <1>6, <2>1, WaitingNext DEF BufferedIsSomewhere
<1>. QED BY <1>9, <1>10, <1>11 DEF QueuesInv

-----------------------------------------------------------------------------
(* What the upstream will know.                                            *)
LEMMA HighType ==
  ASSUME NodeTypeOK
  PROVE  calls \in Seq(Calls) /\ high \in [Ports -> Seq(Packets)]
         /\ \A port \in Ports : high[port] \in Seq(Packets)
  BY DEF NodeTypeOK, Packets

LEMMA PlainNow ==
  ASSUME NodeTypeOK, Plain(calls) PROVE \A port \in Ports : Underway(port) = high[port]
  BY HighType, PlainUnderway DEF Underway

LEMMA PlainNext ==
  ASSUME NodeTypeOK', Plain(calls')
  PROVE  \A port \in Ports : UnderwayIn(calls', high'[port], port) = high'[port]
<1>1. calls' \in Seq(Calls) /\ \A port \in Ports : high'[port] \in Seq(Packets)
  BY DEF NodeTypeOK, Packets
<1>. QED BY <1>1, PlainUnderway

LEMMA PfcNext ==
  ASSUME NodeTypeOK, calls' # <<>>, Head(calls').fn = "SendPfc", Head(calls').arg \in Frames
  PROVE  \A port \in Ports :
           UnderwayIn(calls', high[port], port)
             = IF port = Head(calls').dev THEN Append(high[port], Head(calls').arg) ELSE high[port]
<1>1. ASSUME NEW port \in Ports
      PROVE  UnderwayIn(calls', high[port], port)
               = IF port = Head(calls').dev THEN Append(high[port], Head(calls').arg) ELSE high[port]
  <2>1. PICK s, h, f, dev : s = calls' /\ h = high[port] /\ f = Head(s).arg /\ dev = Head(s).dev
    OBVIOUS
  <2>2. /\ s # <<>> /\ Head(s).fn = "SendPfc" /\ Head(s).dev = dev
        /\ Head(s).arg = f /\ f \in Frames /\ h \in Seq(Packets)
    BY <2>1, HighType
  <2>3. UnderwayIn(s, h, port) = IF port = dev THEN Append(h, f) ELSE h
    BY ONLY <2>2, PfcUnderway
  <2>. QED BY <2>1, <2>3
<1>. QED BY <1>1

LEMMA FramesKept ==
  ASSUME UpstreamWillAgree, linkUp' = linkUp, upstream' = upstream, paused' = paused,
         \A port \in Ports : UnderwayIn(calls', high'[port], port) = Underway(port)
  PROVE  UpstreamWillAgree'
<1>1. ASSUME NEW port \in Ports, NEW q \in Queues, linkUp'[port]
      PROVE  Agree(UnderwayIn(calls', high'[port], port), upstream'[<<port, q>>],
                   paused'[<<port, q>>], q)
  BY <1>1 DEF UpstreamWillAgree
<1>. QED BY <1>1 DEF UpstreamWillAgree, Underway

(* Where paused changes, the frame that says so joins those under way.     *)
FrameSent(port, q) ==
  \A p \in Ports :
    UnderwayIn(calls', high'[p], p)
      = IF p = port /\ paused'[<<port, q>>] # paused[<<port, q>>]
        THEN Append(Underway(p), Frame(q, paused'[<<port, q>>])) ELSE Underway(p)

LEMMA FrameSentAgrees ==
  ASSUME NInv, IInv', UpstreamWillAgree, linkUp' = linkUp, upstream' = upstream,
         NEW inDev \in Ports, NEW q \in Queues,
         \A pq \in (Ports \X Queues) \ {<<inDev, q>>} : paused'[pq] = paused[pq],
         Underway(inDev) \in Seq(Packets), FrameSent(inDev, q)
  PROVE  UpstreamWillAgree'
<1>. DEFINE now == paused'[<<inDev, q>>]
            f == Frame(q, now)
<1>1. now \in BOOLEAN /\ paused[<<inDev, q>>] \in BOOLEAN
  BY DEF NInv, IInv, Counters
<1>2. f \in Packets /\ f.q = q /\ f.pause = now
  BY <1>1 DEF Packets, Frame, Frames
<1>. HIDE DEF f, now
<1>3. ASSUME NEW port \in Ports, NEW r \in Queues, linkUp[port]
      PROVE  Agree(UnderwayIn(calls', high'[port], port), upstream[<<port, r>>],
                   paused'[<<port, r>>], r)
  <2>1. Agree(Underway(port), upstream[<<port, r>>], paused[<<port, r>>], r)
    BY <1>3 DEF UpstreamWillAgree
  <2>2. ~(port = inDev /\ r = q) => paused'[<<port, r>>] = paused[<<port, r>>]
    <3>1. ~(port = inDev /\ r = q) => <<port, r>> \in (Ports \X Queues) \ {<<inDev, q>>}
      OBVIOUS
    <3>. QED BY <3>1
  <2>3. CASE port = inDev /\ now # paused[<<inDev, q>>]
    <3>1. UnderwayIn(calls', high'[port], port) = Append(Underway(port), f)
      BY <2>3 DEF FrameSent, f, now
    <3>2. IF f.q = r THEN f.pause = paused'[<<port, r>>] /\ paused'[<<port, r>>] # paused[<<port, r>>]
                     ELSE paused'[<<port, r>>] = paused[<<port, r>>]
      BY <1>2, <2>2, <2>3 DEF now
    <3>3. Underway(port) \in Seq(Packets)
      BY <2>3
    <3>. QED BY <1>2, <2>1, <3>1, <3>2, <3>3, AgreeAppend
  <2>4. CASE ~(port = inDev /\ now # paused[<<inDev, q>>])
    <3>1. UnderwayIn(calls', high'[port], port) = Underway(port)
      BY <2>4 DEF FrameSent, now
    <3>2. paused'[<<port, r>>] = paused[<<port, r>>]
      BY <2>2, <2>4 DEF now
    <3>. QED BY <2>1, <3>1, <3>2
  <2>. QED BY <2>3, <2>4
<1>. QED BY <1>3 DEF UpstreamWillAgree, Underway

LEMMA AdmissionAgrees ==
  ASSUME NInv, NInv', UpstreamWillAgree, NEW k \in Pkts, NEW inDev \in Ports,
         NEW outDev \in Ports, NEW q \in Queues, NEW psize \in PacketSizes, Idle,
         Admit(k, inDev, outDev, q, psize),
         calls' = PfcDue(inDev, q) \o <<Call("SwitchSend", outDev, k)>>, UNCHANGED device
  PROVE  UpstreamWillAgree'
<1>1. linkUp' = linkUp /\ upstream' = upstream /\ high' = high
  BY DEF device
<1>2. \A pq \in (Ports \X Queues) \ {<<inDev, q>>} : paused'[pq] = paused[pq]
  BY Admitted
<1>3. \A port \in Ports : Underway(port) = high[port] /\ high[port] \in Seq(Packets)
  BY PlainNow, HighType DEF Plain, Idle, NInv
<1>4. /\ calls' # <<>>
      /\ IF paused'[<<inDev, q>>] = paused[<<inDev, q>>]
         THEN Head(calls').fn = "SwitchSend"
         ELSE Head(calls') = Call("SendPfc", inDev, Frame(q, paused'[<<inDev, q>>]))
  BY Arrived DEF NInv
<1>5. FrameSent(inDev, q)
  <2>1. CASE paused'[<<inDev, q>>] = paused[<<inDev, q>>]
    <3>1. Plain(calls')
      BY <1>4, <2>1 DEF Plain
    <3>2. \A port \in Ports : UnderwayIn(calls', high'[port], port) = high'[port]
      BY <3>1, PlainNext DEF NInv
    <3>. QED BY <1>1, <1>3, <2>1, <3>2 DEF FrameSent
  <2>2. CASE paused'[<<inDev, q>>] # paused[<<inDev, q>>]
    <3>1. Frame(q, paused'[<<inDev, q>>]) \in Frames
      BY DEF NInv, IInv, Counters, Frame, Frames
    <3>2. /\ Head(calls').fn = "SendPfc" /\ Head(calls').dev = inDev
          /\ Head(calls').arg = Frame(q, paused'[<<inDev, q>>])
      BY <1>4, <2>2 DEF Call
    <3>3. \A port \in Ports : UnderwayIn(calls', high[port], port)
            = IF port = inDev THEN Append(high[port], Frame(q, paused'[<<inDev, q>>]))
              ELSE high[port]
      <4>1. calls' # <<>> /\ Head(calls').fn = "SendPfc" /\ Head(calls').arg \in Frames
        BY <1>4, <3>1, <3>2
      <4>. QED BY <3>2, <4>1, PfcNext DEF NInv
    <3>. QED BY <1>1, <1>3, <2>2, <3>2, <3>3 DEF FrameSent
  <2>. QED BY <2>1, <2>2
<1>. QED BY <1>1, <1>2, <1>3, <1>5, FrameSentAgrees DEF NInv

LEMMA DepartureAgrees ==
  ASSUME NInv, NInv', CallsShape, QueuesInv, UpstreamWillAgree,
         NEW dev \in Ports, NEW q \in Queues, TransmitData(dev, q)
  PROVE  UpstreamWillAgree'
<1>. DEFINE k == Head(queue[<<dev, q>>])
<1>1. /\ k \in Pkts /\ Depart(k) /\ IsQueuedFor(k, dev, q) /\ resident[k].in \in Ports
      /\ calls' = PfcDue(resident[k].in, q) \o <<Call("TransmitStart", dev, k)>> \o Tail(calls)
      /\ Calling("DequeueAndTransmit", dev)
  BY TransmitDataFacts DEF NInv
<1>2. linkUp' = linkUp /\ upstream' = upstream /\ high' = high
  BY DEF TransmitData
<1>. HIDE DEF k
<1>3. PICK inDev \in Ports : inDev = resident[k].in
  BY <1>1
<1>4. \A pq \in (Ports \X Queues) \ {<<inDev, q>>} : paused'[pq] = paused[pq]
  <2>1. resident[k].q = q
    BY <1>1 DEF IsQueuedFor
  <2>. QED BY <1>1, <1>3, <2>1, Released
<1>5. \A port \in Ports : Underway(port) = high[port] /\ high[port] \in Seq(Packets)
  BY <1>1, PlainNow, HighType DEF Plain, Calling, NInv
<1>6. /\ calls' # <<>>
      /\ IF paused'[<<inDev, q>>] = paused[<<inDev, q>>]
         THEN AllBelow(calls')
         ELSE Head(calls') = Call("SendPfc", inDev, Frame(q, paused'[<<inDev, q>>]))
  <2>1. calls' = PfcDue(inDev, q) \o <<Call("TransmitStart", dev, k)>> \o Tail(calls)
    BY <1>1, <1>3 DEF PfcDue
  <2>. QED BY <1>1, <2>1, Departed DEF NInv
<1>7. FrameSent(inDev, q)
  <2>1. CASE paused'[<<inDev, q>>] = paused[<<inDev, q>>]
    <3>1. Plain(calls')
      BY <1>6, <2>1 DEF Plain
    <3>2. \A port \in Ports : UnderwayIn(calls', high'[port], port) = high'[port]
      BY <3>1, PlainNext DEF NInv
    <3>. QED BY <1>2, <1>5, <2>1, <3>2 DEF FrameSent
  <2>2. CASE paused'[<<inDev, q>>] # paused[<<inDev, q>>]
    <3>1. Frame(q, paused'[<<inDev, q>>]) \in Frames
      BY DEF NInv, IInv, Counters, Frame, Frames
    <3>2. /\ Head(calls').fn = "SendPfc" /\ Head(calls').dev = inDev
          /\ Head(calls').arg = Frame(q, paused'[<<inDev, q>>])
      BY <1>6, <2>2 DEF Call
    <3>3. \A port \in Ports : UnderwayIn(calls', high[port], port)
            = IF port = inDev THEN Append(high[port], Frame(q, paused'[<<inDev, q>>]))
              ELSE high[port]
      <4>1. calls' # <<>> /\ Head(calls').fn = "SendPfc" /\ Head(calls').arg \in Frames
        BY <1>6, <3>1, <3>2
      <4>. QED BY <3>2, <4>1, PfcNext DEF NInv
    <3>. QED BY <1>2, <1>5, <2>2, <3>2, <3>3 DEF FrameSent
  <2>. QED BY <2>1, <2>2
<1>. QED BY <1>2, <1>4, <1>5, <1>7, FrameSentAgrees DEF NInv

LEMMA HighPrioAgrees ==
  ASSUME NInv, NInv', UpstreamWillAgree, NEW inDev \in Ports, NEW outDev \in Ports,
         ReceiveHighPrio(inDev, outDev)
  PROVE  UpstreamWillAgree'
<1>1. /\ linkUp' = linkUp /\ upstream' = upstream /\ paused' = paused /\ Idle
      /\ high' = [high EXCEPT ![outDev] = Append(@, Ack)] /\ calls' = <<Transmit(outDev)>>
  BY DEF ReceiveHighPrio, mmu
<1>2. \A port \in Ports : Underway(port) = high[port] /\ high[port] \in Seq(Packets)
  BY <1>1, PlainNow, HighType DEF Plain, Idle, NInv
<1>3. \A port \in Ports : UnderwayIn(calls', high'[port], port) = high'[port]
  <2>1. Plain(calls')
    BY <1>1, Started DEF Plain
  <2>. QED BY <2>1, PlainNext DEF NInv
<1>4. \A port \in Ports : high'[port] = IF port = outDev THEN Append(high[port], Ack) ELSE high[port]
  BY <1>1, HighType DEF NInv
<1>5. ASSUME NEW port \in Ports, NEW q \in Queues, linkUp[port]
      PROVE  Agree(high'[port], upstream[<<port, q>>], paused[<<port, q>>], q)
  <2>1. Agree(high[port], upstream[<<port, q>>], paused[<<port, q>>], q)
    BY <1>2, <1>5 DEF UpstreamWillAgree
  <2>2. Ack \in Packets /\ Ack.q # q
    BY NodeAssumption DEF Packets, Ack
  <2>3. Agree(Append(high[port], Ack), upstream[<<port, q>>], paused[<<port, q>>], q)
    BY <1>2, <2>1, <2>2, AgreeAppend
  <2>. QED BY <1>4, <2>1, <2>3
<1>. QED BY <1>1, <1>3, <1>5 DEF UpstreamWillAgree, Underway

LEMMA TransmitStartAgrees ==
  ASSUME NInv, NInv', CallsShape, UpstreamWillAgree, NEW dev \in Ports, TransmitStart(dev)
  PROVE  UpstreamWillAgree'
<1>. DEFINE sent == Head(calls).arg
<1>1. /\ Calling("TransmitStart", dev) /\ calls' = Tail(calls)
      /\ linkUp' = linkUp /\ high' = high /\ paused' = paused
      /\ upstream' = IF sent \in Frames THEN [upstream EXCEPT ![<<dev, sent.q>>] = sent.pause]
                     ELSE upstream
  BY DEF TransmitStart, mmu
<1>2. /\ calls # <<>> /\ Head(calls).fn = "TransmitStart" /\ Head(calls).dev = dev
      /\ sent \in Pkts \cup Packets
  <2>1. Head(calls) \in Calls /\ Head(calls).fn = "TransmitStart"
    BY <1>1, CallArg DEF NInv, Calling
  <2>. QED BY <1>1, <2>1 DEF Calls, Calling, Packets
<1>3. \A port \in Ports : UnderwayIn(calls', high[port], port) = high[port]
  <2>1. Plain(calls')
    BY <1>1, Returned DEF Plain, NInv
  <2>. QED BY <1>1, <2>1, PlainNext DEF NInv
<1>4. \A port \in Ports :
        /\ high[port] \in Seq(Packets)
        /\ Underway(port) = IF port = dev /\ sent \notin Pkts THEN <<sent>> \o high[port]
                            ELSE high[port]
  BY <1>2, HighType, StartUnderway DEF Underway, NInv
<1>5. upstream \in [Ports \X Queues -> BOOLEAN]
  BY DEF NInv, NodeTypeOK
<1>. HIDE DEF sent
<1>6. ASSUME NEW port \in Ports, NEW q \in Queues, linkUp[port]
      PROVE  Agree(high[port], upstream'[<<port, q>>], paused[<<port, q>>], q)
  <2>1. Agree(Underway(port), upstream[<<port, q>>], paused[<<port, q>>], q)
    BY <1>6 DEF UpstreamWillAgree
  <2>2. CASE port = dev /\ sent \notin Pkts
    <3>. DEFINE s == <<sent>> \o high[port]
    <3>1. /\ s \in Seq(Packets) /\ s # <<>> /\ Tail(s) = high[port] /\ s[1] = sent
      <4>1. sent \in Packets /\ high[port] \in Seq(Packets)
        BY <1>2, <1>4, <2>2
      <4>. QED BY <4>1
    <3>2. Agree(s, upstream[<<port, q>>], paused[<<port, q>>], q)
      BY <1>4, <2>1, <2>2
    <3>3. upstream'[<<port, q>>] = IF s[1].q = q THEN s[1].pause ELSE upstream[<<port, q>>]
      <4>1. CASE sent \in Frames
        <5>1. sent.q \in Queues
          BY <4>1 DEF Frames
        <5>2. upstream' = [upstream EXCEPT ![<<dev, sent.q>>] = sent.pause]
          BY <1>1, <4>1
        <5>3. upstream'[<<dev, q>>] = IF sent.q = q THEN sent.pause ELSE upstream[<<dev, q>>]
          BY <1>5, <5>1, <5>2
        <5>. QED BY <2>2, <3>1, <5>3
      <4>2. CASE sent \notin Frames
        <5>1. sent = Ack /\ Ack.q # q
          BY <1>2, <2>2, <4>2, NodeAssumption DEF Packets, Ack
        <5>. QED BY <1>1, <3>1, <4>2, <5>1
      <4>. QED BY <4>1, <4>2
    <3>. HIDE DEF s
    <3>. QED BY <3>1, <3>2, <3>3, AgreeTail
  <2>3. CASE ~(port = dev /\ sent \notin Pkts)
    <3>1. upstream'[<<port, q>>] = upstream[<<port, q>>]
      <4>1. CASE sent \in Pkts
        BY <1>1, <4>1, PacketAssumption
      <4>2. CASE port # dev
        <5>1. sent \in Frames => sent.q \in Queues
          BY DEF Frames
        <5>. QED BY <1>1, <1>5, <4>2, <5>1
      <4>. QED BY <2>3, <4>1, <4>2
    <3>. QED BY <1>4, <2>1, <2>3, <3>1
  <2>. QED BY <2>2, <2>3
<1>. QED BY <1>1, <1>3, <1>6 DEF UpstreamWillAgree, Underway

LEMMA SendPfcAgrees ==
  ASSUME NInv, NInv', CallsShape, UpstreamWillAgree, NEW dev \in Ports, SendPfc(dev)
  PROVE  UpstreamWillAgree'
<1>. DEFINE f == Head(calls).arg
<1>1. /\ Calling("SendPfc", dev) /\ calls' = <<Transmit(dev)>> \o Tail(calls)
      /\ linkUp' = linkUp /\ upstream' = upstream /\ paused' = paused
      /\ high' = [high EXCEPT ![dev] = Append(@, f)]
  BY DEF SendPfc, mmu
<1>2. f \in Frames /\ calls # <<>> /\ Head(calls).fn = "SendPfc" /\ Head(calls).dev = dev
  BY <1>1, CallArg DEF Calling, NInv
<1>3. Plain(calls')
  <2>1. /\ Transmit(dev) \in Calls /\ Transmit(dev).fn = "DequeueAndTransmit"
        /\ Transmit(dev).dev = dev
    BY TransmitType DEF Transmit, Call
  <2>2. Head(calls') = Transmit(dev)
    BY <1>1, <2>1, Replaced DEF NInv
  <2>. QED BY <2>1, <2>2 DEF Plain
<1>4. \A port \in Ports : UnderwayIn(calls', high'[port], port) = high'[port]
  BY <1>3, PlainNext DEF NInv
<1>5. \A port \in Ports : Underway(port) = IF port = dev THEN Append(high[port], f) ELSE high[port]
  BY <1>2, HighType, PfcUnderway DEF Underway, NInv
<1>6. \A port \in Ports : high'[port] = IF port = dev THEN Append(high[port], f) ELSE high[port]
  BY <1>1, HighType DEF NInv
<1>. QED BY <1>1, <1>4, <1>5, <1>6, FramesKept

LEMMA TransmitHighPrioAgrees ==
  ASSUME NInv, NInv', CallsShape, UpstreamWillAgree, NEW dev \in Ports, TransmitHighPrio(dev)
  PROVE  UpstreamWillAgree'
<1>. DEFINE f == Head(high[dev])
            c == Call("TransmitStart", dev, f)
<1>1. /\ Calling("DequeueAndTransmit", dev) /\ calls' = <<c>> \o Tail(calls)
      /\ linkUp' = linkUp /\ upstream' = upstream /\ paused' = paused
      /\ high' = [high EXCEPT ![dev] = Tail(@)] /\ high[dev] # <<>>
  BY DEF TransmitHighPrio, mmu
<1>2. \A port \in Ports : Underway(port) = high[port] /\ high[port] \in Seq(Packets)
  BY <1>1, PlainNow, HighType DEF Plain, Calling, NInv
<1>3. f \in Packets /\ Tail(high[dev]) \in Seq(Packets) /\ <<f>> \o Tail(high[dev]) = high[dev]
  BY <1>1, <1>2
<1>4. f \notin Pkts /\ f \in Pkts \cup Packets
  BY <1>3, PacketAssumption DEF Packets
<1>5. c \in Calls /\ c.fn = "TransmitStart" /\ c.dev = dev /\ c.arg = f
  BY <1>3 DEF Call, Calls, Packets
<1>6. calls' # <<>> /\ Head(calls') = c
  BY <1>1, <1>5, Replaced DEF NInv
<1>7. \A port \in Ports : high'[port] = IF port = dev THEN Tail(high[port]) ELSE high[port]
  BY <1>1, HighType DEF NInv
<1>. HIDE DEF f, c
<1>8. \A port \in Ports : UnderwayIn(calls', high'[port], port)
        = IF port = dev THEN <<f>> \o high'[port] ELSE high'[port]
  <2>1. \A port \in Ports : high'[port] \in Seq(Packets)
    BY <1>2, <1>3, <1>7
  <2>. QED BY <1>4, <1>5, <1>6, <2>1, StartUnderway
<1>9. \A port \in Ports : UnderwayIn(calls', high'[port], port) = Underway(port)
  BY <1>2, <1>3, <1>7, <1>8
<1>. QED BY <1>1, <1>9, FramesKept

LEMMA TakeDownAgrees ==
  ASSUME NInv, NInv', UpstreamWillAgree, NEW dev \in Ports, TakeDown(dev)
  PROVE  UpstreamWillAgree'
<1>1. /\ linkUp' = [linkUp EXCEPT ![dev] = FALSE] /\ high' = [high EXCEPT ![dev] = <<>>]
      /\ upstream' = upstream /\ paused' = paused /\ calls' = calls /\ Idle
  BY DEF TakeDown, mmu
<1>2. ASSUME NEW port \in Ports, NEW q \in Queues, linkUp'[port]
      PROVE  Agree(UnderwayIn(calls', high'[port], port), upstream'[<<port, q>>],
                   paused'[<<port, q>>], q)
  <2>1. port # dev /\ linkUp[port]
    BY <1>1, <1>2 DEF NInv, NodeTypeOK
  <2>2. high'[port] = high[port]
    BY <1>1, <2>1, HighType DEF NInv
  <2>. QED BY <1>1, <2>1, <2>2 DEF UpstreamWillAgree, Underway
<1>. QED BY <1>2 DEF UpstreamWillAgree, Underway

-----------------------------------------------------------------------------
(* Nothing eligible is missed.                                             *)
NothingToDo(dev) == high[dev] = <<>> /\ Ready(dev) = {}

(* A step that concerns one device.                                        *)
LEMMA OthersMissNothing ==
  ASSUME NothingMissed, NEW dev,
         \A d \in Ports \ {dev} :
           /\ high'[d] = high[d] /\ busy'[d] = busy[d] /\ linkUp'[d] = linkUp[d]
           /\ \A q \in Queues : queue'[<<d, q>>] = queue[<<d, q>>] /\ held'[<<d, q>>] = held[<<d, q>>],
         DevsOf(calls) \subseteq DevsOf(calls') \cup {dev},
         dev \in DevsOf(calls') \/ ~CanTransmit(dev)' \/ NothingToDo(dev)'
  PROVE  NothingMissed'
<1>1. ASSUME NEW d \in Ports, linkUp'[d] /\ ~busy'[d], d \notin DevsOf(calls')
      PROVE  NothingToDo(d)'
  <2>1. CASE d = dev
    BY <1>1, <2>1 DEF CanTransmit
  <2>2. CASE d # dev
    <3>1. d \in Ports \ {dev} /\ d \notin DevsOf(calls)
      BY <1>1, <2>2
    <3>2. CanTransmit(d)
      BY <1>1, <3>1 DEF CanTransmit
    <3>3. high[d] = <<>> /\ Ready(d) = {}
      BY <3>1, <3>2 DEF NothingMissed
    <3>. QED BY <3>1, <3>3 DEF NothingToDo, Ready
  <2>. QED BY <2>1, <2>2
<1>. QED BY <1>1 DEF NothingMissed, NothingToDo, CanTransmit

(* A call that replaces another, or starts an event, for the same device.  *)
LEMMA TransmitIsCall ==
  ASSUME NEW dev \in Ports
  PROVE  Transmit(dev) \in Calls /\ Transmit(dev).fn # "SwitchSend" /\ Transmit(dev).dev = dev
  BY TransmitType DEF Transmit, Call

LEMMA NextMissesNothing ==
  ASSUME NInv, NInv', CallsShape, QueuesInv, NothingMissed, NodeNext
  PROVE  NothingMissed'
<1>1. ASSUME NEW k \in Pkts, NEW inDev \in Ports, NEW outDev \in Ports, NEW q \in Queues,
             NEW psize \in PacketSizes, SwitchReceiveFromDevice(k, inDev, outDev, q, psize)
      PROVE  NothingMissed'
  <2>1. Idle /\ UNCHANGED device
    BY <1>1 DEF SwitchReceiveFromDevice
  <2>2. \A dev \in Ports : CanTransmit(dev) => high[dev] = <<>> /\ Ready(dev) = {}
    BY <2>1, NoCalls DEF NothingMissed, Idle
  <2>. QED BY <2>1, <2>2 DEF NothingMissed, CanTransmit, Ready, device
<1>2. ASSUME NEW inDev \in Ports, NEW dev \in Ports, ReceiveHighPrio(inDev, dev)
      PROVE  NothingMissed'
  <2>1. DevsOf(calls) \subseteq DevsOf(calls') /\ dev \in DevsOf(calls')
    BY <1>2, Started DEF ReceiveHighPrio
  <2>2. \A d \in Ports \ {dev} : high'[d] = high[d]
    BY <1>2, HighType DEF ReceiveHighPrio, NInv
  <2>. QED BY <1>2, <2>1, <2>2, OthersMissNothing DEF ReceiveHighPrio
<1>3. CASE RoutesChange
  BY <1>3 DEF RoutesChange, device, NothingMissed, CanTransmit, Ready
<1>4. ASSUME NEW dev \in Ports, SwitchSend(dev) PROVE NothingMissed'
  <2>1. Calling("SwitchSend", dev) /\ calls' = <<Transmit(dev)>> \o Tail(calls)
    BY <1>4 DEF SwitchSend
  <2>2. DevsOf(calls) \subseteq DevsOf(calls') /\ dev \in DevsOf(calls')
    BY <2>1, TransmitIsCall, Replaced DEF NInv
  <2>3. \A d \in Ports \ {dev}, q \in Queues : queue'[<<d, q>>] = queue[<<d, q>>]
    BY <1>4 DEF SwitchSend, NInv, NodeTypeOK
  <2>. QED BY <1>4, <2>2, <2>3, OthersMissNothing DEF SwitchSend
<1>5. ASSUME NEW dev \in Ports, SendPfc(dev) PROVE NothingMissed'
  <2>1. Calling("SendPfc", dev) /\ calls' = <<Transmit(dev)>> \o Tail(calls)
    BY <1>5 DEF SendPfc
  <2>2. DevsOf(calls) \subseteq DevsOf(calls') /\ dev \in DevsOf(calls')
    BY <2>1, TransmitIsCall, Replaced DEF NInv
  <2>3. \A d \in Ports \ {dev} : high'[d] = high[d]
    BY <1>5 DEF SendPfc, NInv, NodeTypeOK
  <2>. QED BY <1>5, <2>2, <2>3, OthersMissNothing DEF SendPfc
<1>6. ASSUME NEW dev \in Ports, TransmitNothing(dev) PROVE NothingMissed'
  <2>1. /\ Calling("DequeueAndTransmit", dev) /\ calls' = Tail(calls) /\ UNCHANGED device
        /\ ~CanTransmit(dev) \/ NothingToDo(dev)
    BY <1>6 DEF TransmitNothing, NothingToDo
  <2>2. DevsOf(calls) \subseteq DevsOf(calls') \cup {dev}
    BY <2>1, Returned DEF NInv
  <2>3. ~CanTransmit(dev)' \/ NothingToDo(dev)'
    BY <2>1 DEF device, CanTransmit, NothingToDo, Ready
  <2>. QED BY <2>1, <2>2, <2>3, OthersMissNothing DEF device
<1>7. ASSUME NEW dev \in Ports, TransmitHighPrio(dev) PROVE NothingMissed'
  <2>. DEFINE c == Call("TransmitStart", dev, Head(high[dev]))
  <2>1. Calling("DequeueAndTransmit", dev) /\ calls' = <<c>> \o Tail(calls)
    BY <1>7 DEF TransmitHighPrio
  <2>2. c \in Calls /\ c.fn # "SwitchSend" /\ c.dev = dev
    <3>1. high[dev] \in Seq(Frames \cup {Ack}) /\ high[dev] # <<>>
      BY <1>7 DEF TransmitHighPrio, NInv, NodeTypeOK
    <3>2. Head(high[dev]) \in Frames \cup {Ack}
      BY <3>1, TailType
    <3>. QED BY <3>2 DEF Call, Calls
  <2>3. DevsOf(calls) \subseteq DevsOf(calls') /\ dev \in DevsOf(calls')
    BY <2>1, <2>2, Replaced DEF NInv
  <2>4. \A d \in Ports \ {dev} : high'[d] = high[d]
    BY <1>7 DEF TransmitHighPrio, NInv, NodeTypeOK
  <2>. QED BY <1>7, <2>3, <2>4, OthersMissNothing DEF TransmitHighPrio
<1>8. ASSUME NEW dev \in Ports, TransmitStart(dev) PROVE NothingMissed'
  <2>1. Calling("TransmitStart", dev) /\ calls' = Tail(calls)
    BY <1>8 DEF TransmitStart
  <2>2. DevsOf(calls) \subseteq DevsOf(calls') \cup {dev}
    BY <2>1, Returned DEF NInv
  <2>3. ~CanTransmit(dev)' /\ \A d \in Ports \ {dev} : busy'[d] = busy[d]
    BY <1>8 DEF TransmitStart, CanTransmit, NInv, NodeTypeOK
  <2>. QED BY <1>8, <2>2, <2>3, OthersMissNothing DEF TransmitStart
<1>9. ASSUME NEW dev \in Ports, TransmitComplete(dev) PROVE NothingMissed'
  <2>1. DevsOf(calls) \subseteq DevsOf(calls') /\ dev \in DevsOf(calls')
    BY <1>9, Started DEF TransmitComplete
  <2>2. \A d \in Ports \ {dev} : busy'[d] = busy[d]
    BY <1>9 DEF TransmitComplete, NInv, NodeTypeOK
  <2>. QED BY <1>9, <2>1, <2>2, OthersMissNothing DEF TransmitComplete
<1>10. ASSUME NEW dev \in Ports, TakeDown(dev) PROVE NothingMissed'
  <2>1. ~CanTransmit(dev)' /\ \A d \in Ports \ {dev} : linkUp'[d] = linkUp[d]
    BY <1>10 DEF TakeDown, CanTransmit, NInv, NodeTypeOK
  <2>2. \A d \in Ports \ {dev} : high'[d] = high[d]
    BY <1>10 DEF TakeDown, NInv, NodeTypeOK
  <2>3. \A d \in Ports \ {dev}, q \in Queues : queue'[<<d, q>>] = queue[<<d, q>>]
    BY <1>10 DEF TakeDown, NInv, NodeTypeOK
  <2>4. \A d \in Ports \ {dev}, q \in Queues : held'[<<d, q>>] = held[<<d, q>>]
    BY <1>10 DEF TakeDown, NInv, NodeTypeOK
  <2>5. busy' = busy /\ DevsOf(calls') = DevsOf(calls)
    BY <1>10 DEF TakeDown
  <2>. QED BY <2>1, <2>2, <2>3, <2>4, <2>5, OthersMissNothing
<1>11. ASSUME NEW dev \in Ports, NEW q \in Queues, TransmitData(dev, q) PROVE NothingMissed'
  <2>. DEFINE k == Head(queue[<<dev, q>>])
  <2>1. /\ k \in Pkts /\ resident[k].in \in Ports /\ Calling("DequeueAndTransmit", dev)
        /\ calls' = PfcDue(resident[k].in, q) \o <<Call("TransmitStart", dev, k)>> \o Tail(calls)
    BY <1>11, TransmitDataFacts DEF NInv
  <2>2. DevsOf(calls) \subseteq DevsOf(calls') /\ dev \in DevsOf(calls')
    BY <2>1, Departed DEF NInv
  <2>3. \A d \in Ports \ {dev}, r \in Queues : queue'[<<d, r>>] = queue[<<d, r>>]
    BY <1>11 DEF TransmitData, Served, NInv, NodeTypeOK
  <2>. QED BY <1>11, <2>2, <2>3, OthersMissNothing DEF TransmitData
<1>12. ASSUME NEW dev \in Ports, NEW q \in Queues, ReceivePause(dev, q) PROVE NothingMissed'
  <2>1. /\ held' = [held EXCEPT ![<<dev, q>>] = TRUE]
        /\ UNCHANGED <<queue, high, busy, linkUp, calls>>
    BY <1>12 DEF ReceivePause
  <2>2. \A d \in Ports, r \in Queues : held[<<d, r>>] => held'[<<d, r>>]
    BY <2>1 DEF NInv, NodeTypeOK
  <2>. QED BY <2>1, <2>2 DEF NothingMissed, CanTransmit, Ready
<1>13. ASSUME NEW dev \in Ports, NEW q \in Queues, ReceiveResume(dev, q) PROVE NothingMissed'
  <2>1. DevsOf(calls) \subseteq DevsOf(calls') /\ dev \in DevsOf(calls')
    BY <1>13, Started DEF ReceiveResume, Resume
  <2>2. \A d \in Ports \ {dev}, r \in Queues : held'[<<d, r>>] = held[<<d, r>>]
    BY <1>13 DEF ReceiveResume, Resume, NInv, NodeTypeOK
  <2>. QED BY <1>13, <2>1, <2>2, OthersMissNothing DEF ReceiveResume, Resume
<1>. QED BY <1>1, <1>2, <1>3, <1>4, <1>5, <1>6, <1>7, <1>8, <1>9, <1>10, <1>11, <1>12, <1>13
         DEF NodeNext

-----------------------------------------------------------------------------
(* The invariant of the running event is one.                              *)
LEMMA EventInit == NodeInit => EventInv
<1>. SUFFICES ASSUME NodeInit PROVE EventInv
  OBVIOUS
<1>1. NInv
  BY NodeInitInv
<1>2. calls = <<>> /\ high = [port \in Ports |-> <<>>] /\ queue = [pq \in Ports \X Queues |-> <<>>]
  BY DEF NodeInit
<1>3. CallsShape /\ SentIsBuffered
  BY <1>2, NoCalls DEF CallsShape, SentIsBuffered
<1>4. QueuedIsBuffered
  <2>1. \A port \in Ports, q \in Queues : queue[<<port, q>>] = <<>>
    BY <1>2
  <2>. QED BY <2>1, NoElements, WaitingElements DEF QueuedIsBuffered
<1>5. BufferedIsSomewhere
  BY DEF NodeInit, Init, Buffered, BufferedIsSomewhere
<1>6. NothingMissed
  <2>1. \A port \in Ports : high[port] = <<>> /\ \A q \in Queues : queue[<<port, q>>] = <<>>
    BY <1>2
  <2>. QED BY <2>1 DEF NothingMissed, Ready
<1>7. UpstreamWillAgree
  <2>1. ASSUME NEW port \in Ports, NEW q \in Queues
        PROVE  Agree(Underway(port), upstream[<<port, q>>], paused[<<port, q>>], q)
    <3>1. Underway(port) = <<>>
      BY <1>1, <1>2, PlainNow DEF Plain, NInv
    <3>2. upstream[<<port, q>>] = paused[<<port, q>>]
      BY DEF NodeInit, Init
    <3>3. Len(<<>>) = 0 /\ 0 \in Nat /\ 1 .. 0 = {}
      OBVIOUS
    <3>4. Told(<<>>, upstream[<<port, q>>], q, 0) = {upstream[<<port, q>>]}
      BY <3>3, ToldNothing
    <3>. QED BY <3>1, <3>2, <3>3, <3>4 DEF Agree
  <2>. QED BY <2>1 DEF UpstreamWillAgree
<1>. QED BY <1>1, <1>3, <1>4, <1>5, <1>6, <1>7 DEF EventInv, QueuesInv

LEMMA EventNext ==
  ASSUME EventInv, NInv', NodeNext
  PROVE  CallsShape' /\ QueuesInv' /\ UpstreamWillAgree'
<1>. USE DEF EventInv
<1>1. ASSUME NEW k \in Pkts, NEW inDev \in Ports, NEW outDev \in Ports, NEW q \in Queues,
             NEW psize \in PacketSizes, SwitchReceiveFromDevice(k, inDev, outDev, q, psize)
      PROVE  CallsShape' /\ QueuesInv' /\ UpstreamWillAgree'
  <2>1. /\ Idle /\ UNCHANGED device
        /\ queue' = queue /\ linkUp' = linkUp /\ upstream' = upstream /\ high' = high
    BY <1>1 DEF SwitchReceiveFromDevice, device
  <2>2. CASE /\ Admit(k, inDev, outDev, q, psize)
             /\ calls' = PfcDue(inDev, q) \o <<Call("SwitchSend", outDev, k)>>
    <3>1. CallsShape'
      BY <2>1, <2>2, Arrived DEF NInv
    <3>2. QueuesInv'
      BY <2>1, <2>2, AdmissionKeepsQueues DEF NInv
    <3>3. UpstreamWillAgree'
      BY <2>1, <2>2, AdmissionAgrees
    <3>. QED BY <3>1, <3>2, <3>3
  <2>3. CASE Drop(k, inDev, outDev, q, psize) /\ UNCHANGED calls
    <3>1. calls' = calls /\ resident' = resident /\ paused' = paused
      BY <2>3 DEF Drop, vars
    <3>2. QueuesInv'
      BY <2>1, <3>1, QueuesKept
    <3>3. UpstreamWillAgree'
      BY <2>1, <3>1, FramesKept DEF Underway
    <3>. QED BY <3>1, <3>2, <3>3 DEF CallsShape
  <2>. QED BY <1>1, <2>2, <2>3 DEF SwitchReceiveFromDevice, SendToDev
<1>2. ASSUME NEW inDev \in Ports, NEW dev \in Ports, ReceiveHighPrio(inDev, dev)
      PROVE  CallsShape' /\ QueuesInv' /\ UpstreamWillAgree'
  <2>1. CallsShape' /\ SendsOf(calls') = SendsOf(calls)
    BY <1>2, Started DEF ReceiveHighPrio
  <2>2. QueuesInv'
    BY <1>2, <2>1, QueuesKept DEF ReceiveHighPrio, mmu
  <2>. QED BY <1>2, <2>1, <2>2, HighPrioAgrees
<1>3. CASE RoutesChange
  <2>1. /\ calls' = calls /\ resident' = resident /\ paused' = paused /\ queue' = queue
        /\ linkUp' = linkUp /\ upstream' = upstream /\ high' = high
    BY <1>3 DEF RoutesChange, mmu, device
  <2>2. QueuesInv'
    BY <2>1, QueuesKept
  <2>3. UpstreamWillAgree'
    BY <2>1, FramesKept DEF Underway
  <2>. QED BY <2>1, <2>2, <2>3 DEF CallsShape
<1>4. ASSUME NEW dev \in Ports, SwitchSend(dev)
      PROVE  CallsShape' /\ QueuesInv' /\ UpstreamWillAgree'
  <2>1. /\ Calling("SwitchSend", dev) /\ calls' = <<Transmit(dev)>> \o Tail(calls)
        /\ paused' = paused /\ linkUp' = linkUp /\ upstream' = upstream /\ high' = high
    BY <1>4 DEF SwitchSend, mmu
  <2>2. CallsShape' /\ Head(calls') = Transmit(dev)
    BY <2>1, TransmitIsCall, Replaced DEF NInv
  <2>3. QueuesInv'
    BY <1>4, SwitchSendKeepsQueues
  <2>4. \A port \in Ports : UnderwayIn(calls', high'[port], port) = high[port]
    BY <2>1, <2>2, PlainNext DEF Plain, Transmit, Call, NInv
  <2>5. \A port \in Ports : Underway(port) = high[port]
    BY <2>1, PlainNow DEF Plain, Calling, NInv
  <2>. QED BY <2>1, <2>2, <2>3, <2>4, <2>5, FramesKept
<1>5. ASSUME NEW dev \in Ports, SendPfc(dev)
      PROVE  CallsShape' /\ QueuesInv' /\ UpstreamWillAgree'
  <2>1. Calling("SendPfc", dev) /\ calls' = <<Transmit(dev)>> \o Tail(calls)
    BY <1>5 DEF SendPfc
  <2>2. CallsShape' /\ SendsOf(calls') = SendsOf(calls)
    BY <2>1, TransmitIsCall, Replaced DEF NInv
  <2>3. QueuesInv'
    BY <1>5, <2>2, QueuesKept DEF SendPfc, mmu
  <2>. QED BY <1>5, <2>2, <2>3, SendPfcAgrees
<1>6. ASSUME NEW dev \in Ports, TransmitNothing(dev)
      PROVE  CallsShape' /\ QueuesInv' /\ UpstreamWillAgree'
  <2>1. /\ Calling("DequeueAndTransmit", dev) /\ calls' = Tail(calls)
        /\ resident' = resident /\ paused' = paused /\ queue' = queue
        /\ linkUp' = linkUp /\ upstream' = upstream /\ high' = high
    BY <1>6 DEF TransmitNothing, mmu, device
  <2>2. CallsShape' /\ SendsOf(calls') = SendsOf(calls) /\ AllBelow(calls')
    BY <2>1, Returned DEF NInv
  <2>3. QueuesInv'
    BY <2>1, <2>2, QueuesKept
  <2>4. \A port \in Ports : UnderwayIn(calls', high'[port], port) = high[port]
    BY <2>1, <2>2, PlainNext DEF Plain, NInv
  <2>5. \A port \in Ports : Underway(port) = high[port]
    BY <2>1, PlainNow DEF Plain, Calling, NInv
  <2>. QED BY <2>1, <2>2, <2>3, <2>4, <2>5, FramesKept
<1>7. ASSUME NEW dev \in Ports, TransmitHighPrio(dev)
      PROVE  CallsShape' /\ QueuesInv' /\ UpstreamWillAgree'
  <2>. DEFINE c == Call("TransmitStart", dev, Head(high[dev]))
  <2>1. Calling("DequeueAndTransmit", dev) /\ calls' = <<c>> \o Tail(calls)
    BY <1>7 DEF TransmitHighPrio
  <2>2. c \in Calls /\ c.fn # "SwitchSend" /\ c.dev = dev
    <3>1. high[dev] \in Seq(Frames \cup {Ack}) /\ high[dev] # <<>>
      BY <1>7 DEF TransmitHighPrio, NInv, NodeTypeOK
    <3>2. Head(high[dev]) \in Frames \cup {Ack}
      BY <3>1, TailType
    <3>. QED BY <3>2 DEF Call, Calls
  <2>3. CallsShape' /\ SendsOf(calls') = SendsOf(calls)
    BY <2>1, <2>2, Replaced DEF NInv
  <2>4. QueuesInv'
    BY <1>7, <2>3, QueuesKept DEF TransmitHighPrio, mmu
  <2>. QED BY <1>7, <2>3, <2>4, TransmitHighPrioAgrees
<1>8. ASSUME NEW dev \in Ports, TransmitStart(dev)
      PROVE  CallsShape' /\ QueuesInv' /\ UpstreamWillAgree'
  <2>1. Calling("TransmitStart", dev) /\ calls' = Tail(calls)
    BY <1>8 DEF TransmitStart
  <2>2. CallsShape' /\ SendsOf(calls') = SendsOf(calls)
    BY <2>1, Returned DEF NInv
  <2>3. QueuesInv'
    BY <1>8, <2>2, QueuesKept DEF TransmitStart, mmu
  <2>. QED BY <1>8, <2>2, <2>3, TransmitStartAgrees
<1>9. ASSUME NEW dev \in Ports, TransmitComplete(dev)
      PROVE  CallsShape' /\ QueuesInv' /\ UpstreamWillAgree'
  <2>1. /\ Idle /\ calls' = <<Transmit(dev)>>
        /\ resident' = resident /\ paused' = paused /\ queue' = queue
        /\ linkUp' = linkUp /\ upstream' = upstream /\ high' = high
    BY <1>9 DEF TransmitComplete, mmu
  <2>2. CallsShape' /\ SendsOf(calls') = SendsOf(calls) /\ Plain(calls')
    BY <2>1, Started DEF Plain
  <2>3. QueuesInv'
    BY <2>1, <2>2, QueuesKept
  <2>4. \A port \in Ports : UnderwayIn(calls', high'[port], port) = high[port]
    BY <2>1, <2>2, PlainNext DEF NInv
  <2>5. \A port \in Ports : Underway(port) = high[port]
    BY <2>1, PlainNow DEF Plain, Idle, NInv
  <2>. QED BY <2>1, <2>2, <2>3, <2>4, <2>5, FramesKept
<1>10. ASSUME NEW dev \in Ports, TakeDown(dev)
       PROVE  CallsShape' /\ QueuesInv' /\ UpstreamWillAgree'
  <2>1. calls' = calls
    BY <1>10 DEF TakeDown
  <2>2. CallsShape'
    BY <2>1 DEF CallsShape
  <2>. QED BY <1>10, <2>2, TakeDownKeepsQueues, TakeDownAgrees
<1>11. ASSUME NEW dev \in Ports, NEW q \in Queues, TransmitData(dev, q)
       PROVE  CallsShape' /\ QueuesInv' /\ UpstreamWillAgree'
  <2>. DEFINE k == Head(queue[<<dev, q>>])
  <2>1. /\ k \in Pkts /\ resident[k].in \in Ports /\ Calling("DequeueAndTransmit", dev)
        /\ calls' = PfcDue(resident[k].in, q) \o <<Call("TransmitStart", dev, k)>> \o Tail(calls)
    BY <1>11, TransmitDataFacts DEF NInv
  <2>2. CallsShape'
    BY <2>1, Departed DEF NInv
  <2>3. QueuesInv'
    BY <1>11, TransmitDataKeepsQueues DEF NInv
  <2>. QED BY <1>11, <2>2, <2>3, DepartureAgrees
<1>12. ASSUME NEW dev \in Ports, NEW q \in Queues, ReceivePause(dev, q)
       PROVE  CallsShape' /\ QueuesInv' /\ UpstreamWillAgree'
  <2>1. /\ calls' = calls /\ resident' = resident /\ paused' = paused /\ queue' = queue
        /\ linkUp' = linkUp /\ upstream' = upstream /\ high' = high
    BY <1>12 DEF ReceivePause, mmu
  <2>2. QueuesInv'
    BY <2>1, QueuesKept
  <2>3. UpstreamWillAgree'
    BY <2>1, FramesKept DEF Underway
  <2>. QED BY <2>1, <2>2, <2>3 DEF CallsShape
<1>13. ASSUME NEW dev \in Ports, NEW q \in Queues, ReceiveResume(dev, q)
       PROVE  CallsShape' /\ QueuesInv' /\ UpstreamWillAgree'
  <2>1. /\ Idle /\ calls' = <<Transmit(dev)>>
        /\ resident' = resident /\ paused' = paused /\ queue' = queue
        /\ linkUp' = linkUp /\ upstream' = upstream /\ high' = high
    BY <1>13 DEF ReceiveResume, Resume, mmu
  <2>2. CallsShape' /\ SendsOf(calls') = SendsOf(calls) /\ Plain(calls')
    BY <2>1, Started DEF Plain
  <2>3. QueuesInv'
    BY <2>1, <2>2, QueuesKept
  <2>4. \A port \in Ports : UnderwayIn(calls', high'[port], port) = high[port]
    BY <2>1, <2>2, PlainNext DEF NInv
  <2>5. \A port \in Ports : Underway(port) = high[port]
    BY <2>1, PlainNow DEF Plain, Idle, NInv
  <2>. QED BY <2>1, <2>2, <2>3, <2>4, <2>5, FramesKept
<1>. QED BY <1>1, <1>2, <1>3, <1>4, <1>5, <1>6, <1>7, <1>8, <1>9, <1>10, <1>11, <1>12, <1>13
         DEF NodeNext

LEMMA EventStep == EventInv /\ [NodeNext]_nodeVars => EventInv'
<1>. SUFFICES ASSUME EventInv, [NodeNext]_nodeVars PROVE EventInv'
  OBVIOUS
<1>1. NInv'
  BY NodeStepInv DEF EventInv
<1>2. CASE NodeNext
  BY <1>1, <1>2, EventNext, NextMissesNothing DEF EventInv, QueuesInv
<1>3. CASE UNCHANGED nodeVars
  <2>1. /\ calls' = calls /\ resident' = resident /\ paused' = paused /\ queue' = queue
        /\ linkUp' = linkUp /\ upstream' = upstream /\ high' = high /\ busy' = busy /\ held' = held
    BY <1>3 DEF nodeVars
  <2>2. QueuesInv'
    BY <2>1, QueuesKept DEF EventInv, QueuesInv
  <2>3. UpstreamWillAgree'
    BY <2>1, FramesKept DEF Underway, EventInv
  <2>4. NothingMissed'
    BY <2>1 DEF EventInv, NothingMissed, CanTransmit, Ready
  <2>5. CallsShape'
    BY <2>1 DEF EventInv, CallsShape
  <2>. QED BY <1>1, <2>2, <2>3, <2>4, <2>5 DEF EventInv, QueuesInv
<1>. QED BY <1>2, <1>3

THEOREM EventInvariance == NodeSpec => []EventInv
  BY EventInit, EventStep, PTL DEF NodeSpec

-----------------------------------------------------------------------------
(* Round robin.                                                            *)
(* The queue served last is the last in turn.                              *)
LEMMA LastInTurn ==
  ASSUME NEW port, NEW q \in Queues, NEW r \in Queues, rrlast[port] = q, r # q
  PROVE  Turn(port, r) < Turn(port, q)
<1>1. /\ QCnt \in Nat \ {0} /\ q \in 1 .. QCnt - 1 /\ r \in 1 .. QCnt - 1
  BY NodeAssumption
<1>2. Turn(port, q) = QCnt - 1
  <2>1. q - q + QCnt - 1 = QCnt - 1 /\ QCnt - 1 \in 0 .. QCnt - 1
    BY <1>1
  <2>. QED BY <1>1, <2>1, SmallModulo DEF Turn
<1>3. CASE r < q
  <2>1. r - q + QCnt - 1 \in 0 .. QCnt - 1 /\ r - q + QCnt - 1 < QCnt - 1
    BY <1>1, <1>3
  <2>. QED BY <1>1, <1>2, <2>1, SmallModulo DEF Turn
<1>4. CASE r > q
  <2>1. r - q + QCnt - 1 \in QCnt .. 2 * QCnt - 1 /\ (r - q + QCnt - 1) - QCnt < QCnt - 1
    BY <1>1, <1>4
  <2>. QED BY <1>1, <1>2, <2>1, OnceAround DEF Turn
<1>. QED BY <1>1, <1>3, <1>4

(* No queue of a port is served twice running while another is ready,      *)
(* however many queues there are and wherever the scan of DoDequeueRR      *)
(* wraps: the queue served last is looked at last.                         *)
THEOREM RoundRobinFair == NodeSpec => RoundRobin
<1>1. ASSUME NEW port \in Ports, NEW q \in Queues, TransmitData(port, q), rrlast[port] = q
      PROVE  Ready(port) = {q}
  <2>1. q \in Ready(port) /\ \A r \in Ready(port) : Turn(port, q) <= Turn(port, r)
    BY <1>1 DEF TransmitData, NextQueue
  <2>2. ASSUME NEW r \in Ready(port), r # q PROVE FALSE
    <3>1. r \in Queues
      BY DEF Ready
    <3>2. Turn(port, r) < Turn(port, q)
      BY <1>1, <2>2, <3>1, LastInTurn
    <3>3. Turn(port, r) \in Int /\ Turn(port, q) \in Int
      <4>1. \A s \in Queues : s - q + QCnt - 1 \in Int
        BY NodeAssumption
      <4>. QED BY <1>1, <3>1, <4>1, NodeAssumption DEF Turn
    <3>. QED BY <2>1, <3>2, <3>3
  <2>. QED BY <2>1, <2>2
<1>2. [\A port \in Ports, q \in Queues :
         TransmitData(port, q) /\ rrlast[port] = q => Ready(port) = {q}]_nodeVars
  BY <1>1
<1>. QED BY <1>2, PTL DEF RoundRobin

-----------------------------------------------------------------------------
(* Between two events every device that could transmit has nothing to      *)
(* transmit, whatever calls re-entered it: no event leaves a packet for    *)
(* which nothing will come.                                                *)
THEOREM NothingLeftIdle == NodeSpec => []NoIdleWithWork
<1>1. EventInv => NoIdleWithWork
  BY NoCalls DEF EventInv, NothingMissed, NoIdleWithWork, Idle
<1>. QED BY <1>1, EventInvariance, PTL

(* Between two events the MMU counts the packets queued, each where it     *)
(* waits, and of the others only those of a link taken down.               *)
THEOREM CountedWhereQueued == NodeSpec => []BufferedIsQueued
<1>1. EventInv => BufferedIsQueued
  <2>. SUFFICES ASSUME EventInv, Idle PROVE BufferedIsQueued
    BY DEF BufferedIsQueued
  <2>1. SendsOf(calls) = {}
    BY NoCalls DEF Idle
  <2>. QED BY <2>1 DEF EventInv, QueuesInv, QueuedIsBuffered, IsQueuedFor,
                       BufferedIsSomewhere, BufferedIsQueued
<1>. QED BY <1>1, EventInvariance, PTL

(* What both say of a device between two events.                           *)
LEMMA AgreesNow ==
  ASSUME EventInv, Idle, NEW port \in Ports, NEW q \in Queues, linkUp[port]
  PROVE  Agree(high[port], upstream[<<port, q>>], paused[<<port, q>>], q)
<1>1. Underway(port) = high[port]
  BY PlainNow DEF Plain, Idle, EventInv, NInv
<1>. QED BY <1>1 DEF EventInv, UpstreamWillAgree

(* Once the frames that wait are sent the upstream knows what the MMU      *)
(* believes, whatever was decided, queued or lost with a link.             *)
THEOREM UpstreamLearns == NodeSpec => []UpstreamWillKnow
<1>1. EventInv => UpstreamWillKnow
  BY AgreesNow DEF UpstreamWillKnow, Agree
<1>. QED BY <1>1, EventInvariance, PTL

(* Pause and resume leave a device in turns: never does the upstream hear  *)
(* the same thing twice running.                                           *)
THEOREM FramesInTurn == NodeSpec => []FramesAlternate
<1>1. EventInv => FramesAlternate
  BY AgreesNow DEF FramesAlternate, Agree
<1>. QED BY <1>1, EventInvariance, PTL

-----------------------------------------------------------------------------
(* The queues, devices and pending calls of a switch are well typed for    *)
(* every number of ports, queues and packets: in particular what a call is *)
(* given is what its function takes.                                       *)
THEOREM NodeTypeCorrect == NodeSpec => []NodeTypeOK
  BY NodeInvariance, PTL DEF NInv

(* The switch changes its MMU by the MMU's own steps, so that what is      *)
(* proved of the MMU holds in the switch.                                  *)
LEMMA NodeUsesMmu == NodeSpec => Spec
<1>1. NodeInit => Init
  BY NodeInitInv
<1>2. NInv /\ [NodeNext]_nodeVars => [Next]_vars
  BY NodeNextMmu DEF NInv
<1>. QED BY <1>1, <1>2, NodeInvariance, PTL DEF NodeSpec, Spec

(* The bounds of the MMU hold in the switch.                               *)
THEOREM NodeMmuSafe ==
  NodeSpec => [](IngressExact /\ PoolNotOverdrawn /\ HeadroomRespected /\ HeadroomOnlyWhenPaused)
  BY NodeUsesMmu, AccountingExact, PoolSafe, HeadroomSafe, PTL
=============================================================================
