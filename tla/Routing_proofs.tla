--------------------------- MODULE Routing_proofs ---------------------------
(***************************************************************************)
(* For all topologies, flows, hashes and numbers of links that go down:    *)
(* every queue pair stays in the group of its NIC, whatever the tables     *)
(* say; the network keeps what PacketNetwork promises, because the tables  *)
(* lead each channel towards its end; and the tables name the shortest     *)
(* ways, all of them.                                                      *)
(***************************************************************************)
EXTENDS Routing, Arithmetic_proofs

(* A flow that has not started is in no group, so that it joins one once.  *)
UnstartedInNone ==
  \A f \in started + 1 .. FlowNum, nic \in Nics : qpGrp[nic][f] = 0

IInv == TypeOK /\ QpAtItsNic /\ UnstartedInNone

(* The inductive invariant holds when the scenario starts.                 *)
LEMMA InitInv == Init => IInv
<1>1. ASSUME Init PROVE TypeOK
  <2>1. FlowNum \in Nat
    BY RoutingAssumption
  <2> QED BY <1>1, <2>1 DEF Init, TypeOK
<1>2. ASSUME Init PROVE QpAtItsNic
  BY <1>2 DEF Init, QpAtItsNic
<1>3. ASSUME Init PROVE UnstartedInNone
  <2>1. FlowNum \in Nat
    BY RoutingAssumption
  <2> QED BY <1>3, <2>1 DEF Init, UnstartedInNone, Flows
<1> QED BY <1>1, <1>2, <1>3 DEF IInv

(* A later index is in range, and what was below the first is below it.    *)
LEMMA LaterStart ==
  \A last \in Nat : \A i \in 1 .. last + 1 : \A k \in 0 .. i - 1 : \A j \in i + 1 .. last + 1 :
    j \in 1 .. last + 1 /\ k \in 0 .. j - 1
OBVIOUS

(* Installing clients leaves the queue pairs alone.                        *)
LEMMA ScheduleInv == IInv /\ ScheduleFlowInputs => IInv'
<1> SUFFICES ASSUME IInv, ScheduleFlowInputs PROVE IInv'
  OBVIOUS
<1>1. FlowNum \in Nat /\ idx \in 1 .. FlowNum + 1 /\ started \in 0 .. idx - 1
  BY RoutingAssumption DEF IInv, TypeOK
<1>2. idx' \in idx + 1 .. FlowNum + 1
  BY DEF ScheduleFlowInputs
<1>3. UNCHANGED <<up, tables, started, qpMap, qpGrp, sent, moved>>
  BY DEF ScheduleFlowInputs, routes
<1>4. idx' \in 1 .. FlowNum + 1 /\ started \in 0 .. idx' - 1
  BY <1>1, <1>2, LaterStart
<1>5. TypeOK'
  BY <1>3, <1>4 DEF IInv, TypeOK
<1>6. QpAtItsNic' /\ UnstartedInNone'
  BY <1>3 DEF IInv, QpAtItsNic, UnstartedInNone, NicOf, Picked
<1> QED BY <1>5, <1>6 DEF IInv

(* A flow that starts joins the group its hash names, if that is a NIC.    *)
LEMMA AddInv == IInv /\ AddQueuePair => IInv'
<1> SUFFICES ASSUME IInv, AddQueuePair PROVE IInv'
  OBVIOUS
<1> DEFINE f == started + 1
<1>1. /\ FlowNum \in Nat /\ idx \in 1 .. FlowNum + 1
      /\ started \in 0 .. idx - 1 /\ qpMap \subseteq 1 .. started
  BY RoutingAssumption DEF IInv, TypeOK
<1>2. qpGrp \in [Nics -> [Flows -> Nat]]
  BY DEF IInv, TypeOK
<1>3. /\ f < idx /\ started' = f /\ qpMap' = qpMap \cup {f}
      /\ qpGrp' = [qpGrp EXCEPT ![NicOf(tables, f)][f] = @ + 1]
      /\ UNCHANGED <<up, tables, idx, sent, moved>>
  BY DEF AddQueuePair, routes
<1>4. f \in 1 .. FlowNum /\ f \in Flows /\ f \notin qpMap /\ f \in started + 1 .. FlowNum
  BY <1>1, <1>3 DEF Flows
<1>5. \A nic \in Nics : qpGrp[nic][f] = 0
  BY <1>4 DEF IInv, UnstartedInNone
<1>6. started' \in 0 .. idx - 1 /\ qpMap' \subseteq 1 .. started'
  BY <1>1, <1>3
<1> HIDE DEF f
<1> DEFINE own == NicOf(tables, f)
<1>7. qpGrp' = [qpGrp EXCEPT ![own][f] = @ + 1]
  BY <1>3
<1> HIDE DEF own
<1>8. qpGrp' \in [Nics -> [Flows -> Nat]]
  <2>1. CASE own \in Nics
    <3>1. [qpGrp[own] EXCEPT ![f] = @ + 1] \in [Flows -> Nat]
      BY <2>1, <1>2, <1>4
    <3> QED BY <3>1, <2>1, <1>2, <1>7
  <2>2. CASE own \notin Nics
    BY <2>2, <1>2, <1>7
  <2> QED BY <2>1, <2>2
<1>9. \A nic \in Nics, g \in Flows :
        qpGrp'[nic][g] = IF nic = own /\ g = f THEN qpGrp[nic][g] + 1 ELSE qpGrp[nic][g]
  BY <1>2, <1>4, <1>7
<1>10. TypeOK'
  BY <1>3, <1>6, <1>8 DEF IInv, TypeOK
<1>11. QpAtItsNic'
  <2> SUFFICES ASSUME NEW g \in qpMap', NEW nic \in Nics
               PROVE  qpGrp'[nic][g] = IF nic = NicOf(tables, g) THEN 1 ELSE 0
    BY <1>3 DEF QpAtItsNic, NicOf, Picked
  <2>1. CASE g = f
    BY <2>1, <1>4, <1>5, <1>9 DEF own
  <2>2. CASE g \in qpMap /\ g # f
    <3>1. g \in Flows
      BY <2>2, <1>1 DEF Flows
    <3>2. qpGrp'[nic][g] = qpGrp[nic][g]
      BY <2>2, <3>1, <1>9
    <3> QED BY <2>2, <3>2 DEF IInv, QpAtItsNic
  <2> QED BY <2>1, <2>2, <1>3
<1>12. UnstartedInNone'
  <2> SUFFICES ASSUME NEW g \in started' + 1 .. FlowNum, NEW nic \in Nics PROVE qpGrp'[nic][g] = 0
    BY DEF UnstartedInNone
  <2>1. g \in started + 1 .. FlowNum /\ g # f /\ g \in Flows
    BY <1>1, <1>3 DEF Flows, f
  <2>2. qpGrp[nic][g] = 0
    BY <2>1 DEF IInv, UnstartedInNone
  <2> QED BY <2>1, <2>2, <1>9
<1> QED BY <1>10, <1>11, <1>12 DEF IInv

(* Groups are filled from m_qpMap by the tables that were just set.        *)
LEMMA DownInv == ASSUME IInv, NEW link, TakeDownLink(link) PROVE IInv'
<1>1. FlowNum \in Nat /\ idx \in 1 .. FlowNum + 1 /\ started \in 0 .. idx - 1 /\ qpMap \subseteq 1 .. started
  BY RoutingAssumption DEF IInv, TypeOK
<1>2. qpGrp' = [nic \in Nics |-> [f \in Flows |->
        IF f \in qpMap /\ NicOf(tables', f) = nic THEN 1 ELSE 0]]
  BY DEF TakeDownLink, RedistributeQp
<1>3. idx' = idx /\ started' = started /\ qpMap' = qpMap /\ sent' = sent /\ moved' = sent /\ up' = up \ {link}
  BY DEF TakeDownLink
<1>4. TypeOK'
  <2>1. qpGrp' \in [Nics -> [Flows -> Nat]]
    BY <1>2
  <2>2. \A c \in Channels : sent[c] \in 0 .. sent[c]
    BY DEF IInv, TypeOK
  <2> QED BY <1>1, <1>3, <2>1, <2>2 DEF IInv, TypeOK
<1>5. QpAtItsNic'
  <2> SUFFICES ASSUME NEW f \in qpMap, NEW nic \in Nics
               PROVE  qpGrp'[nic][f] = IF nic = NicOf(tables', f) THEN 1 ELSE 0
    BY <1>3 DEF QpAtItsNic, NicOf, Picked
  <2>1. f \in Flows
    BY <1>1 DEF Flows
  <2> QED BY <1>2, <2>1
<1>6. UnstartedInNone'
  <2> SUFFICES ASSUME NEW f \in started + 1 .. FlowNum, NEW nic \in Nics PROVE qpGrp'[nic][f] = 0
    BY <1>3 DEF UnstartedInNone
  <2>1. f \notin qpMap /\ f \in Flows
    BY <1>1 DEF Flows
  <2> QED BY <1>2, <2>1
<1> QED BY <1>4, <1>5, <1>6 DEF IInv

(* What leaves the queue pairs and their groups alone keeps the invariant. *)
LEMMA PairsKept ==
  ASSUME IInv, UNCHANGED <<up, tables, idx, started, qpMap, qpGrp>>,
         sent' \in [Channels -> Nat], \A c \in Channels : moved'[c] \in 0 .. sent'[c]
  PROVE  IInv'
<1>1. TypeOK'
  BY DEF IInv, TypeOK
<1>2. QpAtItsNic'
  BY DEF IInv, QpAtItsNic, NicOf, Picked
<1>3. UnstartedInNone'
  BY DEF IInv, UnstartedInNone
<1> QED BY <1>1, <1>2, <1>3 DEF IInv

(* A NIC that sends only counts packets.                                   *)
LEMMA SendInv == ASSUME IInv, NEW nic \in Nics, NEW f \in Flows, Send(nic, f) PROVE IInv'
<1> DEFINE c == <<f, "data">>
<1>1. c \in Channels
  BY DEF Channels
<1>2. /\ sent' = [sent EXCEPT ![c] = @ + 1] /\ moved' = moved
      /\ UNCHANGED <<up, tables, idx, started, qpMap, qpGrp>>
  BY DEF Send, routes, pairs
<1>3. sent \in [Channels -> Nat] /\ \A d \in Channels : moved[d] \in 0 .. sent[d]
  BY DEF IInv, TypeOK
<1> HIDE DEF c
<1>4. sent' \in [Channels -> Nat] /\ \A d \in Channels : moved'[d] \in 0 .. sent'[d]
  BY <1>1, <1>2, <1>3
<1> QED BY <1>2, <1>4, PairsKept

(* Only finished queue pairs leave a group.                                *)
LEMMA ClearInv == ASSUME IInv, NEW nic \in Nics, ClearFinished(nic) PROVE IInv'
<1>1. PICK gone \in SUBSET Finished(nic) :
        qpGrp' = [qpGrp EXCEPT ![nic] = [f \in Flows |-> IF f \in gone THEN 0 ELSE @[f]]]
  BY DEF ClearFinished
<1>2. UNCHANGED <<up, tables, idx, started, qpMap, sent, moved>>
  BY DEF ClearFinished, routes
<1>3. qpGrp \in [Nics -> [Flows -> Nat]] /\ qpMap \subseteq Flows
  <2>1. FlowNum \in Nat
    BY RoutingAssumption
  <2> QED BY <2>1 DEF IInv, TypeOK, Flows
<1>4. \A n \in Nics, f \in Flows : qpGrp'[n][f] = IF n = nic /\ f \in gone THEN 0 ELSE qpGrp[n][f]
  BY <1>1, <1>3
<1>5. \A f \in gone : f \notin qpMap
  BY DEF Finished
<1>6. TypeOK'
  <2>1. qpGrp' \in [Nics -> [Flows -> Nat]]
    BY <1>1, <1>3
  <2> QED BY <1>2, <2>1 DEF IInv, TypeOK
<1>7. QpAtItsNic'
  <2> SUFFICES ASSUME NEW f \in qpMap, NEW n \in Nics
               PROVE  qpGrp'[n][f] = IF n = NicOf(tables, f) THEN 1 ELSE 0
    BY <1>2 DEF QpAtItsNic, NicOf, Picked
  <2>1. qpGrp'[n][f] = qpGrp[n][f]
    BY <1>3, <1>4, <1>5
  <2> QED BY <2>1 DEF IInv, QpAtItsNic
<1>8. UnstartedInNone'
  <2> SUFFICES ASSUME NEW f \in started + 1 .. FlowNum, NEW n \in Nics PROVE qpGrp'[n][f] = 0
    BY <1>2 DEF UnstartedInNone
  <2>1. f \in Flows
    BY RoutingAssumption DEF IInv, TypeOK, Flows
  <2>2. qpGrp[n][f] = 0
    BY DEF IInv, UnstartedInNone
  <2> QED BY <1>4, <2>1, <2>2
<1> QED BY <1>6, <1>7, <1>8 DEF IInv

(* A packet that arrives may be answered, or complete its flow.            *)
LEMMA ReceiveInv == IInv /\ Receive => IInv'
<1> SUFFICES ASSUME IInv, NEW w \in Wires, NEW c \in Channels,
                    ReceiveUdp(w, c) \/ ReceiveAck(w, c) \/ Misled(w, c) \/ SendToDev(w, c)
             PROVE  IInv'
  BY DEF Receive
<1>1. sent \in [Channels -> Nat] /\ \A d \in Channels : moved[d] \in 0 .. sent[d]
  BY DEF IInv, TypeOK
<1>2. CASE ReceiveUdp(w, c)
  <2> DEFINE ack == <<c[1], "ack">>
  <2>1. ack \in Channels
    BY DEF Channels
  <2>2. /\ sent' = [sent EXCEPT ![ack] = @ + 1] \/ sent' = sent
        /\ moved' = moved /\ UNCHANGED <<up, tables, idx, started, qpMap, qpGrp>>
    BY <1>2 DEF ReceiveUdp, routes, pairs
  <2> HIDE DEF ack
  <2>3. sent' \in [Channels -> Nat] /\ \A d \in Channels : moved'[d] \in 0 .. sent'[d]
    BY <1>1, <2>1, <2>2
  <2> QED BY <2>2, <2>3, PairsKept
<1>3. CASE ReceiveAck(w, c)
  <2>1. /\ qpMap' \subseteq qpMap
        /\ UNCHANGED <<up, tables, idx, started, qpGrp, sent, moved>>
    BY <1>3 DEF ReceiveAck, routes
  <2>2. TypeOK'
    BY <2>1 DEF IInv, TypeOK
  <2>3. QpAtItsNic'
    BY <2>1 DEF IInv, QpAtItsNic, NicOf, Picked
  <2>4. UnstartedInNone'
    BY <2>1 DEF IInv, UnstartedInNone
  <2> QED BY <2>2, <2>3, <2>4 DEF IInv
<1>4. CASE Misled(w, c) \/ SendToDev(w, c)
  <2>1. UNCHANGED <<up, tables, idx, started, qpMap, qpGrp, sent, moved>>
    BY <1>4 DEF Misled, SendToDev, routes, pairs
  <2> QED BY <1>1, <2>1, PairsKept
<1> QED BY <1>2, <1>3, <1>4

(* The invariant is inductive.                                             *)
LEMMA StepInv == IInv /\ [Next]_vars => IInv'
<1> SUFFICES ASSUME IInv, [Next]_vars PROVE IInv'
  OBVIOUS
<1>1. CASE ScheduleFlowInputs
  BY <1>1, ScheduleInv
<1>7. CASE AddQueuePair
  BY <1>7, AddInv
<1>2. ASSUME NEW link \in Links, TakeDownLink(link) PROVE IInv'
  BY <1>2, DownInv
<1>3. ASSUME NEW nic \in Nics, NEW f \in Flows, Send(nic, f) PROVE IInv'
  BY <1>3, SendInv
<1>4. ASSUME NEW nic \in Nics, ClearFinished(nic) PROVE IInv'
  BY <1>4, ClearInv
<1>5. CASE Receive
  BY <1>5, ReceiveInv
<1>6. CASE UNCHANGED vars
  <2>1. UNCHANGED <<up, tables, idx, started, qpMap, qpGrp, sent, moved>>
    BY <1>6 DEF vars, routes, pairs
  <2>2. sent \in [Channels -> Nat] /\ \A c \in Channels : moved[c] \in 0 .. sent[c]
    BY DEF IInv, TypeOK
  <2> QED BY <2>1, <2>2, PairsKept
<1> QED BY <1>1, <1>2, <1>3, <1>4, <1>5, <1>6, <1>7 DEF Next

(* RedistributeQp, AddQueuePair and GetNextQindex together: whatever links *)
(* go down and however flows start and finish, a queue pair that is not    *)
(* finished is once in the group of the NIC its hash picks from the        *)
(* current routes, and in no other.                                        *)
THEOREM GroupsFollowRoutes == Spec => []QpAtItsNic
<1>1. IInv => QpAtItsNic
  BY DEF IInv
<1> QED BY <1>1, InitInv, StepInv, PTL DEF Spec

(* Links, flows and counters of packets stay in range: no packet is older  *)
(* than the last change of routes and not yet sent.                        *)
THEOREM RoutingTypeCorrect == Spec => []TypeOK
<1>1. IInv => TypeOK
  BY DEF IInv
<1> QED BY <1>1, InitInv, StepInv, PTL DEF Spec

-----------------------------------------------------------------------------
(* CalculateRoute: the recursive function of its loop exists.              *)
Turn(u, st, k) == Look(u, st, ((k - 1) \div Len(Order)) + 1, Order[((k - 1) % Len(Order)) + 1])
Unfolded(f, u, host, n) == f = [k \in 0 .. n |-> IF k = 0 THEN Start(host) ELSE Turn(u, f[k - 1], k)]

LEMMA SearchExists ==
  ASSUME NEW u, NEW host, NEW n \in Nat PROVE \E f : Unfolded(f, u, host, n)
<1>. DEFINE Bad == {k \in Nat : ~\E f : Unfolded(f, u, host, k)}
<1>1. CASE Bad = {}
  BY <1>1
<1>2. CASE Bad # {}
  <2>1. Bad \in SUBSET Nat
    OBVIOUS
  <2>. HIDE DEF Bad
  <2>2. PICK k \in Bad : \A j \in Bad : k <= j
    BY <1>2, <2>1, LeastExists
  <2>3. CASE k = 0
    <3>. DEFINE f == [j \in 0 .. 0 |-> Start(host)]
    <3>1. f = [j \in 0 .. 0 |-> IF j = 0 THEN Start(host) ELSE Turn(u, f[j - 1], j)]
      OBVIOUS
    <3>2. Unfolded(f, u, host, 0)
      BY <3>1 DEF Unfolded
    <3>. QED BY <2>2, <2>3, <3>2 DEF Bad
  <2>4. CASE k # 0
    <3>1. k \in Nat /\ k - 1 \in Nat /\ k - 1 \notin Bad
      BY <2>1, <2>2, <2>4
    <3>2. PICK f : Unfolded(f, u, host, k - 1)
      BY <3>1 DEF Bad
    <3>. DEFINE g == [j \in 0 .. k |-> IF j = k THEN Turn(u, f[k - 1], k) ELSE f[j]]
    <3>3. ASSUME NEW j \in 0 .. k
          PROVE  g[j] = IF j = 0 THEN Start(host) ELSE Turn(u, g[j - 1], j)
      <4>1. CASE j = k
        <5>1. g[j] = Turn(u, f[k - 1], k) /\ g[k - 1] = f[k - 1]
          BY <3>1, <4>1
        <5>. QED BY <2>4, <4>1, <5>1
      <4>2. CASE j # k
        <5>1. j \in 0 .. k - 1 /\ g[j] = f[j] /\ (j # 0 => g[j - 1] = f[j - 1])
          BY <3>1, <4>2
        <5>2. f[j] = IF j = 0 THEN Start(host) ELSE Turn(u, f[j - 1], j)
          BY <3>2, <5>1 DEF Unfolded
        <5>. QED BY <5>1, <5>2
      <4>. QED BY <4>1, <4>2
    <3>4. g = [j \in 0 .. k |-> IF j = 0 THEN Start(host) ELSE Turn(u, g[j - 1], j)]
      <4>1. g = [j \in 0 .. k |-> g[j]]
        OBVIOUS
      <4>. HIDE DEF g
      <4>. QED BY <3>3, <4>1
    <3>5. Unfolded(g, u, host, k)
      BY <3>4 DEF Unfolded
    <3>. QED BY <2>2, <3>5 DEF Bad
  <2>. QED BY <2>3, <2>4
<1>. QED BY <1>1, <1>2

LEMMA LooksIsNat == Looks \in Nat
<1>1. Cardinality(Nodes) \in Nat
  BY RoutingAssumption, FS_Union, FS_CardinalityType DEF Nodes
<1>2. Len(Order) \in Nat
  BY RoutingAssumption
<1>. QED BY <1>1, <1>2 DEF Looks

LEMMA SearchRuns == ASSUME NEW u, NEW host PROVE Unfolded(Search(u, host), u, host, Looks)
<1>1. \E f : Unfolded(f, u, host, Looks)
  BY LooksIsNat, SearchExists
<1>2. Search(u, host) = CHOOSE f : Unfolded(f, u, host, Looks)
  BY DEF Search, Unfolded, Turn
<1>. QED BY <1>1, <1>2

(* What is known of the search at all times: distances of the nodes seen   *)
(* so far, and for each a next hop one link closer.  The search may only   *)
(* go on from switches and the host.                                       *)
Through(host) == Switches \cup {host}
Searched(u, host, st) ==
  /\ st.q \in Seq(Nodes) /\ st.dis \in [Nodes -> Int] /\ st.nextHop \in [Nodes -> Seq(Nodes)]
  /\ \A j \in 1 .. Len(st.q) : st.q[j] \in Through(host) /\ st.dis[st.q[j]] >= 0
  /\ st.dis[host] = 0
  /\ \A n \in Nodes : \A j \in 1 .. Len(st.nextHop[n]) :
       LET m == st.nextHop[n][j]
       IN  m \in Through(host) /\ {m, n} \in u /\ st.dis[m] >= 0 /\ st.dis[n] = st.dis[m] + 1
  /\ \A n \in Nodes : st.dis[n] >= 0 /\ n # host => st.nextHop[n] # <<>>
  /\ \A n \in Nodes : st.dis[n] >= -1

LEMMA SearchStarts == ASSUME NEW u, NEW host \in Hosts PROVE Searched(u, host, Start(host))
<1>1. host \in Nodes
  BY DEF Nodes
<1>2. /\ Start(host).q = <<host>> /\ <<host>> \in Seq(Nodes) /\ Len(<<host>>) = 1
      /\ Start(host).dis = [n \in Nodes |-> IF n = host THEN 0 ELSE -1]
      /\ Start(host).nextHop = [n \in Nodes |-> <<>>] /\ <<>> \in Seq(Nodes)
  BY <1>1 DEF Start, Unseen
<1>. QED BY <1>1, <1>2 DEF Searched, Through

(* The i-th node of the queue looks at a neighbour: what comes of it.      *)
IsLook(u, host, st, i, next, new) ==
  LET now == st.q[i]
      isNew == st.dis[next] = -1
  IN  /\ now \in Nodes /\ now \in Through(host) /\ {now, next} \in u
      /\ st.dis[now] \in Nat /\ new.dis[now] = st.dis[now]
      /\ isNew \/ st.dis[next] \in Nat
      /\ new.dis \in [Nodes -> Int] /\ new.dis[next] \in Nat
      /\ \A n \in Nodes : new.dis[n] = IF n = next /\ isNew THEN st.dis[now] + 1 ELSE st.dis[n]
      /\ \A n \in Nodes : st.dis[n] >= 0 => new.dis[n] = st.dis[n]
      /\ new.nextHop \in [Nodes -> Seq(Nodes)]
      /\ \A n \in Nodes : new.nextHop[n] = IF n = next /\ new.dis[next] = new.dis[now] + 1
                                            THEN Append(st.nextHop[n], now) ELSE st.nextHop[n]
      /\ new.q \in Seq(Nodes)
      /\ \A a \in 1 .. Len(st.q) : a \in 1 .. Len(new.q) /\ new.q[a] = st.q[a]
      /\ \A a \in 1 .. Len(new.q) :
           \/ a \in 1 .. Len(st.q)
           \/ a = Len(st.q) + 1 /\ new.q[a] = next /\ isNew /\ next \in Switches
      /\ isNew /\ next \in Switches => Len(st.q) + 1 \in 1 .. Len(new.q) /\ new.q[Len(st.q) + 1] = next

LEMMA LookIs ==
  ASSUME NEW u, NEW host \in Hosts, NEW st, Searched(u, host, st), NEW i \in Nat \ {0},
         NEW next \in Nodes, ~(i > Len(st.q) \/ next \notin Neighbours(u, st.q[i]))
  PROVE  IsLook(u, host, st, i, next, Look(u, st, i, next)) /\ i \in 1 .. Len(st.q)
<1>. DEFINE now == st.q[i]
            isNew == st.dis[next] = -1
            dis == IF isNew THEN [st.dis EXCEPT ![next] = st.dis[now] + 1] ELSE st.dis
            q == IF isNew /\ Middle(next) THEN Append(st.q, next) ELSE st.q
            nextHop == IF dis[next] = dis[now] + 1
                       THEN [st.nextHop EXCEPT ![next] = Append(@, now)] ELSE st.nextHop
            new == [q |-> q, dis |-> dis, nextHop |-> nextHop]
<1>1. Look(u, st, i, next) = new
  BY DEF Look, Unseen
<1>2. /\ st.q \in Seq(Nodes) /\ st.dis \in [Nodes -> Int] /\ st.nextHop \in [Nodes -> Seq(Nodes)]
      /\ \A n \in Nodes : st.dis[n] >= -1
      /\ i \in 1 .. Len(st.q) /\ host \in Nodes /\ Len(st.q) \in Nat
  <2>1. st.q \in Seq(Nodes) /\ st.dis \in [Nodes -> Int] /\ st.nextHop \in [Nodes -> Seq(Nodes)]
        /\ \A n \in Nodes : st.dis[n] >= -1
    BY DEF Searched
  <2>2. Len(st.q) \in Nat
    BY <2>1
  <2>3. i \in 1 .. Len(st.q)
    BY <2>2
  <2>. QED BY <2>1, <2>2, <2>3 DEF Nodes
<1>3. now \in Nodes /\ now \in Through(host) /\ st.dis[now] \in Nat /\ {now, next} \in u
  <2>1. now \in Through(host) /\ st.dis[now] >= 0 /\ now \in Nodes
    BY <1>2 DEF Searched
  <2>. QED BY <1>2, <2>1 DEF Neighbours
<1>4. now # next \/ ~isNew
  BY <1>3
<1>. HIDE DEF now
<1>5. /\ dis \in [Nodes -> Int] /\ dis[now] = st.dis[now]
      /\ \A n \in Nodes : dis[n] = IF n = next /\ isNew THEN st.dis[now] + 1 ELSE st.dis[n]
  <2>1. st.dis[now] + 1 \in Int
    BY <1>3
  <2>2. CASE isNew
    <3>1. dis = [st.dis EXCEPT ![next] = st.dis[now] + 1]
      BY <2>2
    <3>. HIDE DEF dis
    <3>2. dis \in [Nodes -> Int]
      BY <1>2, <2>1, <3>1
    <3>3. \A n \in Nodes : dis[n] = IF n = next THEN st.dis[now] + 1 ELSE st.dis[n]
      BY <1>2, <3>1
    <3>. QED BY <1>3, <1>4, <2>2, <3>2, <3>3
  <2>3. CASE ~isNew
    <3>1. dis = st.dis
      BY <2>3
    <3>. QED BY <1>2, <2>3, <3>1
  <2>. QED BY <2>2, <2>3
<1>6. isNew \/ st.dis[next] \in Nat
  BY <1>2
<1>7. \A n \in Nodes : st.dis[n] >= 0 => dis[n] = st.dis[n]
  BY <1>2, <1>5
<1>8. dis[next] \in Nat
  BY <1>3, <1>5, <1>6
<1>. HIDE DEF dis, isNew
<1>9. /\ nextHop \in [Nodes -> Seq(Nodes)]
      /\ \A n \in Nodes : nextHop[n] = IF n = next /\ dis[next] = dis[now] + 1
                                       THEN Append(st.nextHop[n], now) ELSE st.nextHop[n]
  BY <1>2, <1>3
<1>10. /\ q \in Seq(Nodes)
       /\ \A a \in 1 .. Len(st.q) : a \in 1 .. Len(q) /\ q[a] = st.q[a]
       /\ \A a \in 1 .. Len(q) : \/ a \in 1 .. Len(st.q)
                                 \/ a = Len(st.q) + 1 /\ q[a] = next /\ isNew /\ next \in Switches
       /\ isNew /\ next \in Switches => Len(st.q) + 1 \in 1 .. Len(q) /\ q[Len(st.q) + 1] = next
  <2>1. CASE isNew /\ Middle(next)
    <3>1. /\ q = Append(st.q, next) /\ q \in Seq(Nodes) /\ Len(q) = Len(st.q) + 1
          /\ q[Len(st.q) + 1] = next /\ \A a \in 1 .. Len(st.q) : q[a] = st.q[a]
      BY <1>2, <2>1
    <3>. HIDE DEF q
    <3>0. PICK l \in Nat : l = Len(st.q) /\ Len(q) = l + 1
      BY <1>2, <3>1
    <3>2. /\ \A a \in 1 .. Len(q) : a \in 1 .. Len(st.q) \/ a = Len(st.q) + 1
          /\ \A a \in 1 .. Len(st.q) : a \in 1 .. Len(q)
          /\ Len(st.q) + 1 \in 1 .. Len(q)
      BY <3>0
    <3>. QED BY <2>1, <3>1, <3>2 DEF Middle
  <2>2. CASE ~(isNew /\ Middle(next))
    <3>1. q = st.q
      BY <2>2
    <3>. QED BY <1>2, <2>2, <3>1 DEF Middle
  <2>. QED BY <2>1, <2>2
<1>. HIDE DEF q, nextHop
<1>11. new.q = q /\ new.dis = dis /\ new.nextHop = nextHop
  OBVIOUS
<1>. HIDE DEF new
<1>12. IsLook(u, host, st, i, next, new)
  BY <1>3, <1>5, <1>6, <1>7, <1>8, <1>9, <1>10, <1>11 DEF IsLook, now, isNew
<1>. QED BY <1>1, <1>2, <1>12

LEMMA LookKeeps ==
  ASSUME NEW u, NEW host \in Hosts, NEW st, Searched(u, host, st), NEW i \in Nat \ {0},
         NEW next \in Nodes
  PROVE  Searched(u, host, Look(u, st, i, next))
<1>1. CASE i > Len(st.q) \/ next \notin Neighbours(u, st.q[i])
  BY <1>1 DEF Look
<1>2. CASE ~(i > Len(st.q) \/ next \notin Neighbours(u, st.q[i]))
  <2>1. PICK new : new = Look(u, st, i, next)
    OBVIOUS
  <2>. DEFINE now == st.q[i]
              isNew == st.dis[next] = -1
              dis == new.dis
              q == new.q
              nextHop == new.nextHop
  <2>2. /\ IsLook(u, host, st, i, next, new) /\ i \in 1 .. Len(st.q) /\ host \in Nodes
        /\ st.q \in Seq(Nodes) /\ st.dis \in [Nodes -> Int] /\ st.nextHop \in [Nodes -> Seq(Nodes)]
        /\ \A n \in Nodes : st.dis[n] >= -1
    BY <1>2, <2>1, LookIs DEF Searched, Nodes
  <2>3. now \in Nodes /\ now \in Through(host) /\ st.dis[now] \in Nat /\ {now, next} \in u
    BY <2>2 DEF IsLook
  <2>5. /\ dis \in [Nodes -> Int] /\ dis[now] = st.dis[now]
        /\ \A n \in Nodes : dis[n] = IF n = next /\ isNew THEN st.dis[now] + 1 ELSE st.dis[n]
    BY <2>2 DEF IsLook
  <2>7. \A n \in Nodes : st.dis[n] >= 0 => dis[n] = st.dis[n]
    BY <2>2 DEF IsLook
  <2>8. dis[next] \in Nat /\ \A n \in Nodes : n # next => dis[n] = st.dis[n]
    BY <2>2, <2>5 DEF IsLook
  <2>9. /\ nextHop \in [Nodes -> Seq(Nodes)]
        /\ \A n \in Nodes : nextHop[n] = IF n = next /\ dis[next] = dis[now] + 1
                                         THEN Append(st.nextHop[n], now) ELSE st.nextHop[n]
    BY <2>2 DEF IsLook
  <2>10. q \in Seq(Nodes) /\ \A j \in 1 .. Len(q) : q[j] \in Through(host) /\ dis[q[j]] >= 0
    <3>1. \A j \in 1 .. Len(st.q) : st.q[j] \in Nodes /\ st.q[j] \in Through(host) /\ dis[st.q[j]] >= 0
      <4> SUFFICES ASSUME NEW j \in 1 .. Len(st.q)
                   PROVE  st.q[j] \in Nodes /\ st.q[j] \in Through(host) /\ dis[st.q[j]] >= 0
        OBVIOUS
      <4>1. st.q[j] \in Nodes
        BY <2>2
      <4>2. st.q[j] \in Through(host) /\ st.dis[st.q[j]] >= 0
        BY DEF Searched
      <4>. QED BY <2>7, <4>1, <4>2
    <3>2. /\ q \in Seq(Nodes)
          /\ \A j \in 1 .. Len(st.q) : q[j] = st.q[j]
          /\ \A j \in 1 .. Len(q) : j \in 1 .. Len(st.q) \/ (q[j] = next /\ next \in Switches)
      BY <2>2 DEF IsLook
    <3>. QED BY <2>8, <3>1, <3>2 DEF Through
  <2>11. dis[host] = 0
    <3>1. st.dis[host] = 0 /\ host \in Nodes
      BY <2>2 DEF Searched
    <3>. QED BY <2>7, <3>1
  <2>. HIDE DEF dis, q, nextHop, now, isNew
  <2>12. ASSUME NEW n \in Nodes, NEW j \in 1 .. Len(nextHop[n])
         PROVE  LET m == nextHop[n][j]
                IN  m \in Through(host) /\ {m, n} \in u /\ dis[m] >= 0 /\ dis[n] = dis[m] + 1
    <3>1. ASSUME NEW k \in 1 .. Len(st.nextHop[n])
          PROVE  LET m == st.nextHop[n][k]
                 IN  m \in Through(host) /\ {m, n} \in u /\ dis[m] >= 0 /\ dis[n] = dis[m] + 1
      <4>. DEFINE m == st.nextHop[n][k]
      <4>1. m \in Nodes
        BY <2>2
      <4>2. m \in Through(host) /\ {m, n} \in u /\ st.dis[m] >= 0 /\ st.dis[n] = st.dis[m] + 1
        BY DEF Searched
      <4>3. dis[m] = st.dis[m] /\ dis[n] = st.dis[n]
        <5>. HIDE DEF m
        <5>1. st.dis[m] \in Int /\ st.dis[n] \in Int
          BY <2>2, <4>1
        <5>. QED BY <2>7, <4>1, <4>2, <5>1
      <4>. QED BY <4>2, <4>3
    <3>2. CASE nextHop[n] = st.nextHop[n]
      BY <3>1, <3>2
    <3>3. CASE n = next /\ dis[next] = dis[now] + 1 /\ nextHop[n] = Append(st.nextHop[n], now)
      <4>1. st.nextHop[n] \in Seq(Nodes)
        BY <2>2
      <4>2. CASE j \in 1 .. Len(st.nextHop[n])
        <5>1. nextHop[n][j] = st.nextHop[n][j]
          BY <3>3, <4>1, <4>2
        <5>. QED BY <3>1, <4>2, <5>1
      <4>3. CASE j \notin 1 .. Len(st.nextHop[n])
        <5>1. nextHop[n][j] = now
          BY <3>3, <4>1, <4>3
        <5>2. dis[now] >= 0
          BY <2>3, <2>5
        <5>. QED BY <2>3, <3>3, <5>1, <5>2
      <4>. QED BY <4>2, <4>3
    <3>. QED BY <2>9, <3>2, <3>3
  <2>13. ASSUME NEW n \in Nodes, dis[n] >= 0, n # host PROVE nextHop[n] # <<>>
    <3>1. CASE n = next /\ isNew
      <4>1. nextHop[n] = Append(st.nextHop[n], now) /\ st.nextHop[n] \in Seq(Nodes)
        BY <2>2, <2>5, <2>9, <3>1
      <4>. QED BY <4>1
    <3>2. CASE ~(n = next /\ isNew)
      <4>1. st.nextHop[n] # <<>> /\ st.nextHop[n] \in Seq(Nodes)
        BY <2>2, <2>5, <2>13, <3>2 DEF Searched
      <4>. QED BY <2>9, <4>1
    <3>. QED BY <3>1, <3>2
  <2>14. ASSUME NEW n \in Nodes PROVE dis[n] >= -1
    <3>1. CASE n = next
      BY <2>8, <3>1
    <3>2. CASE n # next
      BY <2>2, <2>8, <3>2
    <3>. QED BY <3>1, <3>2
  <2>15. Searched(u, host, new)
    BY <2>5, <2>9, <2>10, <2>11, <2>12, <2>13, <2>14 DEF Searched, q, dis, nextHop
  <2>. QED BY <2>1, <2>15
<1>. QED BY <1>1, <1>2

LEMMA SearchKeeps ==
  ASSUME NEW u, NEW host \in Hosts, NEW k \in 0 .. Looks
  PROVE  Searched(u, host, Search(u, host)[k])
<1>. DEFINE Bad == {j \in 0 .. Looks : ~Searched(u, host, Search(u, host)[j])}
<1>1. CASE Bad = {}
  BY <1>1
<1>2. CASE Bad # {}
  <2>1. Bad \in SUBSET Nat
    BY LooksIsNat
  <2>. HIDE DEF Bad
  <2>2. PICK j \in Bad : \A i \in Bad : j <= i
    BY <1>2, <2>1, LeastExists
  <2>3. j \in 0 .. Looks /\ ~Searched(u, host, Search(u, host)[j])
    BY <2>2 DEF Bad
  <2>4. Search(u, host)[j] = IF j = 0 THEN Start(host) ELSE Turn(u, Search(u, host)[j - 1], j)
    <3>1. PICK s : s = Search(u, host)
      OBVIOUS
    <3>2. Unfolded(s, u, host, Looks)
      BY <3>1, SearchRuns
    <3>3. s[j] = IF j = 0 THEN Start(host) ELSE Turn(u, s[j - 1], j)
      BY <2>3, <3>2 DEF Unfolded
    <3>. QED BY <3>1, <3>3
  <2>5. j # 0
    BY <2>3, <2>4, SearchStarts
  <2>6. j - 1 \in 0 .. Looks /\ j - 1 \notin Bad
    BY <2>1, <2>2, <2>3, <2>5, LooksIsNat
  <2>7. Searched(u, host, Search(u, host)[j - 1])
    BY <2>6 DEF Bad
  <2>8. Len(Order) \in Nat \ {0} /\ Order \in Seq(Nodes)
    <3>1. Order \in Seq(Nodes) /\ Len(Order) \in Nat /\ host \in Nodes
      BY RoutingAssumption DEF Nodes
    <3>2. PICK p \in 1 .. Len(Order) : Order[p] = host
      BY <3>1, RoutingAssumption
    <3>. QED BY <3>1, <3>2
  <2>9. j - 1 \in Int /\ j - 1 \in Nat
    BY <2>6, LooksIsNat
  <2>10. ((j - 1) \div Len(Order)) + 1 \in Nat \ {0} /\ Order[((j - 1) % Len(Order)) + 1] \in Nodes
    <3>. DEFINE a == j - 1
                l == Len(Order)
                d == a \div l
                m == a % l
    <3>1. a \in Int /\ a >= 0 /\ l \in Nat \ {0}
      BY <2>8, <2>9
    <3>2. Order \in [1 .. l -> Nodes]
      BY <2>8
    <3>. HIDE DEF a, l
    <3>3. a = l * d + m /\ d \in Int /\ m \in 0 .. l - 1
      BY <3>1, DivMod
    <3>. HIDE DEF d, m
    <3>4. d >= 0
      <4>1. CASE d <= -1
        <5>1. l * d <= -l
          BY <3>1, <3>3, <4>1
        <5>. QED BY <3>1, <3>3, <5>1
      <4>. QED BY <3>3, <4>1
    <3>5. m + 1 \in 1 .. l
      BY <3>1, <3>3
    <3>6. Order[m + 1] \in Nodes /\ d + 1 \in Nat \ {0}
      BY <3>2, <3>3, <3>4, <3>5
    <3>. QED BY <3>6 DEF a, l, d, m
  <2>. QED BY <2>3, <2>4, <2>5, <2>7, <2>10, LookKeeps DEF Turn
<1>. QED BY <1>1, <1>2

-----------------------------------------------------------------------------
(* What the tables promise a channel: each node hands its packets to a     *)
(* neighbour closer to the destination, which has a route, too, and is a   *)
(* switch unless it is the destination.                                    *)
From(c) == IF c[2] = "data" THEN Src[c[1]] ELSE Dst[c[1]]
Leads(t, c) ==
  /\ HasRoute(t, From(c), c) /\ ~HasRoute(t, To(c), c)
  /\ \A n \in Nodes : HasRoute(t, n, c) =>
       /\ <<n, Picked(t, n, c)>> \in Wires
       /\ Picked(t, n, c) # To(c) => /\ Picked(t, n, c) \in Switches
                                     /\ HasRoute(t, Picked(t, n, c), c)
  /\ \E dis \in [Nodes -> Int] :
       \A n \in Nodes : HasRoute(t, n, c) => dis[Picked(t, n, c)] < dis[n]

(* The wires ahead of a packet on the wire w, that one included: those in  *)
(* every set of wires that has w and that the routes do not leave.         *)
First(t, c) == <<From(c), Picked(t, From(c), c)>>
Onward(t, c, w) == <<w[2], Picked(t, w[2], c)>>
Closed(t, c, W) == \A w \in W : HasRoute(t, w[2], c) => Onward(t, c, w) \in W
Ahead(t, c, w) == {v \in Wires : \A W \in SUBSET Wires : w \in W /\ Closed(t, c, W) => v \in W}

(* The packets of one channel, by wire.  Those sent since routes changed   *)
(* are all on its way, and of any two the older one is further on.         *)
On(flying, c) == [w \in Wires |-> flying[w][c]]
Held(F) == UNION {Numbers(F[w]) : w \in Wires}
Distinct(F) ==
  \A v, w \in Wires : \A i \in 1 .. Len(F[v]), j \in 1 .. Len(F[w]) : F[v][i] = F[w][j] => v = w /\ i = j
OnItsWay(t, c, F, m) ==
  \A w \in Wires : \A i \in 1 .. Len(F[w]) : F[w][i] > m => w \in Ahead(t, c, First(t, c))
OldestFirst(t, c, F, m) ==
  \A v, w \in Wires : \A i \in 1 .. Len(F[v]), j \in 1 .. Len(F[w]) :
    m < F[v][i] /\ F[v][i] < F[w][j] => v \in Ahead(t, c, w) /\ (v = w => i < j)
InTransit(t, c, F, s, m) ==
  /\ F \in [Wires -> Seq(1 .. s)]
  /\ Distinct(F)
  /\ OnItsWay(t, c, F, m)
  /\ OldestFirst(t, c, F, m)

NetInv ==
  /\ fly \in [Wires -> [Channels -> Seq(Nat)]]
  /\ lost \in [Channels -> SUBSET Nat]
  /\ moved \in [Channels -> Nat]
  /\ \A c \in Channels :
       /\ Leads(tables, c)
       /\ InTransit(tables, c, On(fly, c), sent[c], moved[c])

(* The ends of a channel are hosts, and a wire's ends are nodes.           *)
LEMMA ChannelEnds ==
  ASSUME NEW c \in Channels
  PROVE  /\ From(c) \in Hosts /\ To(c) \in Hosts /\ From(c) # To(c)
         /\ From(c) \in Nodes /\ To(c) \in Nodes
         /\ From(c) \notin Switches /\ To(c) \notin Switches
<1>1. c[1] \in Flows /\ c[2] \in {"data", "ack"}
  BY DEF Channels
<1>. QED BY <1>1, RoutingAssumption DEF From, To, Nodes

LEMMA WireEnds == ASSUME NEW w \in Wires PROVE w = <<w[1], w[2]>> /\ w[1] \in Nodes /\ w[2] \in Nodes
  BY DEF Wires

LEMMA AheadOfItself == ASSUME NEW t, NEW c, NEW w \in Wires PROVE w \in Ahead(t, c, w)
  BY DEF Ahead

(* The way goes on from every wire ahead.                                  *)
LEMMA AheadGoesOn ==
  ASSUME NEW t, NEW c, Leads(t, c), NEW w \in Wires, NEW v \in Ahead(t, c, w), HasRoute(t, v[2], c)
  PROVE  Onward(t, c, v) \in Ahead(t, c, w) /\ Onward(t, c, v) \in Wires
<1>1. v \in Wires /\ Onward(t, c, v) \in Wires
  BY WireEnds DEF Ahead, Leads, Onward
<1>2. ASSUME NEW W \in SUBSET Wires, w \in W, Closed(t, c, W) PROVE Onward(t, c, v) \in W
  <2>1. v \in W
    BY <1>2 DEF Ahead
  <2>. QED BY <1>2, <2>1 DEF Closed
<1>. QED BY <1>1, <1>2 DEF Ahead

(* What is further on than w is ahead of the wire after w.                 *)
LEMMA AheadOfNext ==
  ASSUME NEW t, NEW c, Leads(t, c), NEW w \in Wires, NEW v \in Ahead(t, c, w), v # w
  PROVE  HasRoute(t, w[2], c) /\ Onward(t, c, w) \in Wires /\ v \in Ahead(t, c, Onward(t, c, w))
<1>1. HasRoute(t, w[2], c)
  <2>1. SUFFICES ASSUME ~HasRoute(t, w[2], c) PROVE FALSE
    OBVIOUS
  <2>2. {w} \in SUBSET Wires /\ Closed(t, c, {w})
    BY <2>1 DEF Closed
  <2>. QED BY <2>2 DEF Ahead
<1>. DEFINE x == Onward(t, c, w)
            W == {w} \cup Ahead(t, c, x)
<1>2. x \in Wires
  BY <1>1, WireEnds DEF Leads, Onward
<1>. HIDE DEF x
<1>3. W \in SUBSET Wires
  BY DEF Ahead
<1>4. ASSUME NEW y \in W, HasRoute(t, y[2], c) PROVE Onward(t, c, y) \in W
  <2>1. CASE y = w
    BY <1>2, <2>1, AheadOfItself DEF x
  <2>2. CASE y \in Ahead(t, c, x)
    BY <1>2, <1>4, <2>2, AheadGoesOn
  <2>. QED BY <2>1, <2>2
<1>5. v \in W
  <2>. HIDE DEF W
  <2>1. Closed(t, c, W)
    BY <1>4 DEF Closed
  <2>2. w \in W
    BY DEF W
  <2>. QED BY <1>3, <2>1, <2>2 DEF Ahead
<1>. QED BY <1>1, <1>2, <1>5 DEF x

(* No way comes back.                                                      *)
LEMMA NotAheadAgain ==
  ASSUME NEW t, NEW c, Leads(t, c), NEW w \in Wires, HasRoute(t, w[2], c)
  PROVE  w \notin Ahead(t, c, Onward(t, c, w))
<1>1. PICK dis \in [Nodes -> Int] :
        \A n \in Nodes : HasRoute(t, n, c) => dis[Picked(t, n, c)] < dis[n]
  BY DEF Leads
<1>. DEFINE W == {v \in Wires : dis[v[2]] < dis[w[2]]}
<1>2. ASSUME NEW v \in Wires, HasRoute(t, v[2], c)
      PROVE  /\ Onward(t, c, v) \in Wires
             /\ dis[Onward(t, c, v)[2]] < dis[v[2]]
             /\ dis[v[2]] \in Int /\ dis[Onward(t, c, v)[2]] \in Int
  <2>1. v[2] \in Nodes
    BY WireEnds
  <2>2. Onward(t, c, v) \in Wires /\ Onward(t, c, v)[2] = Picked(t, v[2], c)
    BY <1>2, <2>1 DEF Leads, Onward
  <2>3. Picked(t, v[2], c) \in Nodes
    BY <2>2, WireEnds
  <2>. QED BY <1>1, <1>2, <2>1, <2>2, <2>3
<1>3. Onward(t, c, w) \in W
  BY <1>2
<1>4. ASSUME NEW v \in W, HasRoute(t, v[2], c) PROVE Onward(t, c, v) \in W
  <2>1. v \in Wires /\ dis[v[2]] < dis[w[2]] /\ w[2] \in Nodes /\ dis[w[2]] \in Int
    BY WireEnds
  <2>2. /\ Onward(t, c, v) \in Wires
        /\ dis[Onward(t, c, v)[2]] < dis[v[2]]
        /\ dis[v[2]] \in Int /\ dis[Onward(t, c, v)[2]] \in Int
    BY <1>2, <1>4, <2>1
  <2>. QED BY <2>1, <2>2
<1>5. w \notin W /\ W \in SUBSET Wires
  <2>1. dis[w[2]] \in Int
    BY WireEnds
  <2>. QED BY <2>1
<1>. HIDE DEF W
<1>6. Closed(t, c, W)
  BY <1>4 DEF Closed
<1>. QED BY <1>3, <1>5, <1>6 DEF Ahead

(* Every wire of the way leads to the destination or to a switch that can  *)
(* send the packet on.                                                     *)
LEMMA WayIsRouted ==
  ASSUME NEW c \in Channels, NEW t, Leads(t, c), NEW w \in Ahead(t, c, First(t, c))
  PROVE  /\ First(t, c) \in Wires
         /\ w[2] = To(c) \/ (w[2] \in Switches /\ HasRoute(t, w[2], c))
<1>. DEFINE W == {v \in Wires : v[2] = To(c) \/ (v[2] \in Switches /\ HasRoute(t, v[2], c))}
<1>1. First(t, c) \in Wires /\ First(t, c) \in W
  BY ChannelEnds DEF Leads, First
<1>2. ASSUME NEW v \in W, HasRoute(t, v[2], c) PROVE Onward(t, c, v) \in W
  <2>1. v[2] \in Nodes
    BY WireEnds
  <2>. QED BY <1>2, <2>1 DEF Leads, Onward
<1>3. W \in SUBSET Wires /\ Closed(t, c, W)
  BY <1>2 DEF Closed
<1>4. w \in W
  <2>. HIDE DEF W
  <2>. QED BY <1>1, <1>3 DEF Ahead
<1>. QED BY <1>1, <1>4

-----------------------------------------------------------------------------
(* One channel's packets, when one is taken off a wire or put on one.      *)
Took(F, w) == [F EXCEPT ![w] = Tail(@)]
Puts(F, w, p) == [F EXCEPT ![w] = Append(@, p)]
Shift(v, w) == IF v = w THEN 1 ELSE 0

LEMMA SeqWider == ASSUME NEW S, NEW T, S \subseteq T, NEW q \in Seq(S) PROVE q \in Seq(T)
<1>1. Len(q) \in Nat /\ q \in [1 .. Len(q) -> S]
  OBVIOUS
<1>2. q \in [1 .. Len(q) -> T]
  BY <1>1
<1>. QED BY <1>1, <1>2

LEMMA HeldIs ==
  ASSUME NEW F PROVE \A p : p \in Held(F) <=> \E w \in Wires : \E i \in 1 .. Len(F[w]) : F[w][i] = p
BY DEF Held, Numbers

LEMMA TookEntries ==
  ASSUME NEW S, NEW F \in [Wires -> Seq(S)], NEW w \in Wires, F[w] # <<>>
  PROVE  /\ Took(F, w) \in [Wires -> Seq(S)]
         /\ Head(F[w]) = F[w][1] /\ 1 \in 1 .. Len(F[w])
         /\ \A v \in Wires : \A i \in 1 .. Len(Took(F, w)[v]) :
              /\ i + Shift(v, w) \in 1 .. Len(F[v])
              /\ Took(F, w)[v][i] = F[v][i + Shift(v, w)]
         /\ \A v \in Wires : \A i \in 1 .. Len(F[v]) :
              (v = w /\ i = 1) \/ (/\ i - Shift(v, w) \in 1 .. Len(Took(F, w)[v])
                                   /\ Took(F, w)[v][i - Shift(v, w)] = F[v][i])
<1>1. F[w] \in Seq(S) /\ F[w] # <<>> /\ Len(F[w]) \in Nat \ {0}
  OBVIOUS
<1>2. /\ Tail(F[w]) \in Seq(S) /\ Len(Tail(F[w])) = Len(F[w]) - 1 /\ Head(F[w]) = F[w][1]
      /\ \A i \in 1 .. Len(F[w]) - 1 : Tail(F[w])[i] = F[w][i + 1]
  BY <1>1
<1>3. Took(F, w) \in [Wires -> Seq(S)]
      /\ \A v \in Wires : Took(F, w)[v] = IF v = w THEN Tail(F[w]) ELSE F[v]
  BY <1>2 DEF Took
<1>4. ASSUME NEW v \in Wires, NEW i \in 1 .. Len(Took(F, w)[v])
      PROVE  i + Shift(v, w) \in 1 .. Len(F[v]) /\ Took(F, w)[v][i] = F[v][i + Shift(v, w)]
  <2>1. CASE v = w
    <3>1. Took(F, w)[v] = Tail(F[w])
      BY <1>3, <2>1
    <3>2. i \in 1 .. Len(F[w]) - 1
      BY <1>2, <3>1
    <3>3. i + 1 \in 1 .. Len(F[w])
      BY <1>1, <3>2
    <3>. QED BY <1>2, <2>1, <3>1, <3>2, <3>3 DEF Shift
  <2>2. CASE v # w
    <3>1. Took(F, w)[v] = F[v] /\ Len(F[v]) \in Nat
      BY <1>3, <2>2
    <3>. QED BY <2>2, <3>1 DEF Shift
  <2>. QED BY <2>1, <2>2
<1>5. ASSUME NEW v \in Wires, NEW i \in 1 .. Len(F[v]), ~(v = w /\ i = 1)
      PROVE  /\ i - Shift(v, w) \in 1 .. Len(Took(F, w)[v])
             /\ Took(F, w)[v][i - Shift(v, w)] = F[v][i]
  <2>1. CASE v = w
    <3>1. Took(F, w)[v] = Tail(F[w])
      BY <1>3, <2>1
    <3>2. i \in 1 .. Len(F[w]) /\ i # 1 /\ i \in Int
      BY <1>5, <2>1
    <3>3. i - 1 \in 1 .. Len(F[w]) - 1 /\ (i - 1) + 1 = i
      BY <1>1, <3>2
    <3>. QED BY <1>2, <2>1, <3>1, <3>3 DEF Shift
  <2>2. CASE v # w
    <3>1. Took(F, w)[v] = F[v] /\ Len(F[v]) \in Nat
      BY <1>3, <2>2
    <3>. QED BY <2>2, <3>1 DEF Shift
  <2>. QED BY <2>1, <2>2
<1>. QED BY <1>1, <1>2, <1>3, <1>4, <1>5

HasPut(F, S, w, p, G) ==
  /\ G \in [Wires -> Seq(S)]
  /\ \A v \in Wires : \A i \in 1 .. Len(G[v]) :
       \/ v = w /\ i = Len(F[w]) + 1 /\ G[v][i] = p
       \/ i \in 1 .. Len(F[v]) /\ G[v][i] = F[v][i]
  /\ \A v \in Wires : \A i \in 1 .. Len(F[v]) : i \in 1 .. Len(G[v]) /\ G[v][i] = F[v][i]
  /\ Len(F[w]) + 1 \in 1 .. Len(G[w]) /\ G[w][Len(F[w]) + 1] = p

LEMMA PutsEntries ==
  ASSUME NEW S, NEW F \in [Wires -> Seq(S)], NEW w \in Wires, NEW p \in S
  PROVE  HasPut(F, S, w, p, Puts(F, w, p))
<1>1. F[w] \in Seq(S) /\ Len(F[w]) \in Nat
  OBVIOUS
<1>. DEFINE a == Append(F[w], p)
<1>2. /\ a \in Seq(S) /\ Len(a) = Len(F[w]) + 1 /\ a[Len(F[w]) + 1] = p
      /\ \A i \in 1 .. Len(F[w]) : a[i] = F[w][i]
  BY <1>1
<1>3. Puts(F, w, p) \in [Wires -> Seq(S)]
      /\ \A v \in Wires : Puts(F, w, p)[v] = IF v = w THEN a ELSE F[v]
  BY <1>2 DEF Puts
<1>. HIDE DEF a
<1>4. ASSUME NEW v \in Wires, NEW i \in 1 .. Len(Puts(F, w, p)[v])
      PROVE  \/ v = w /\ i = Len(F[w]) + 1 /\ Puts(F, w, p)[v][i] = p
             \/ i \in 1 .. Len(F[v]) /\ Puts(F, w, p)[v][i] = F[v][i]
  <2>1. CASE v = w
    <3>1. i \in 1 .. Len(F[w]) + 1 /\ i \in Int
      BY <1>2, <1>3, <2>1
    <3>2. i = Len(F[w]) + 1 \/ i \in 1 .. Len(F[w])
      BY <1>1, <3>1
    <3>. QED BY <1>2, <1>3, <2>1, <3>2
  <2>2. CASE v # w
    BY <1>3, <2>2
  <2>. QED BY <2>1, <2>2
<1>5. ASSUME NEW v \in Wires, NEW i \in 1 .. Len(F[v])
      PROVE  i \in 1 .. Len(Puts(F, w, p)[v]) /\ Puts(F, w, p)[v][i] = F[v][i]
  <2>1. CASE v = w
    <3>1. i \in 1 .. Len(F[w]) + 1
      BY <1>1, <2>1
    <3>. QED BY <1>2, <1>3, <2>1, <3>1
  <2>2. CASE v # w
    BY <1>3, <2>2
  <2>. QED BY <2>1, <2>2
<1>6. Len(F[w]) + 1 \in 1 .. Len(F[w]) + 1
  BY <1>1
<1>. QED BY <1>2, <1>3, <1>4, <1>5, <1>6 DEF HasPut

(* What a packet on its way may be: any but the others.                    *)
LEMMA TookKeeps ==
  ASSUME NEW t, NEW c, NEW F, NEW s \in Nat, NEW m \in Nat, InTransit(t, c, F, s, m),
         NEW w \in Wires, F[w] # <<>>
  PROVE  /\ InTransit(t, c, Took(F, w), s, m)
         /\ Head(F[w]) \in Held(F) /\ Head(F[w]) \in 1 .. s
         /\ \A q : q \in Held(Took(F, w)) <=> q \in Held(F) /\ q # Head(F[w])
<1>. DEFINE G == Took(F, w)
            p == Head(F[w])
            S == 1 .. s
<1>1. F \in [Wires -> Seq(S)]
  BY DEF InTransit
<1>. HIDE DEF S
<1>2. /\ G \in [Wires -> Seq(S)]
      /\ p = F[w][1] /\ 1 \in 1 .. Len(F[w])
      /\ \A v \in Wires : \A i \in 1 .. Len(G[v]) :
           i + Shift(v, w) \in 1 .. Len(F[v]) /\ G[v][i] = F[v][i + Shift(v, w)]
      /\ \A v \in Wires : \A i \in 1 .. Len(F[v]) :
           (v = w /\ i = 1) \/ (i - Shift(v, w) \in 1 .. Len(G[v]) /\ G[v][i - Shift(v, w)] = F[v][i])
  BY <1>1, TookEntries
<1>3. \A v \in Wires : Shift(v, w) \in Int /\ (v # w => Shift(v, w) = 0) /\ (v = w => Shift(v, w) = 1)
  BY DEF Shift
<1>. HIDE DEF G, p
<1>4. Distinct(G)
  <2> SUFFICES ASSUME NEW v \in Wires, NEW u \in Wires, NEW i \in 1 .. Len(G[v]), NEW j \in 1 .. Len(G[u]),
                      G[v][i] = G[u][j]
               PROVE  v = u /\ i = j
    BY DEF Distinct
  <2>1. PICK a \in 1 .. Len(F[v]) : a = i + Shift(v, w) /\ G[v][i] = F[v][a]
    BY <1>2
  <2>3. PICK b \in 1 .. Len(F[u]) : b = j + Shift(u, w) /\ G[u][j] = F[u][b]
    BY <1>2
  <2>4. v = u /\ a = b
    <3>1. F[v][a] = F[u][b]
      BY <2>1, <2>3
    <3>. QED BY <3>1 DEF InTransit, Distinct
  <2>2. i \in Int /\ j \in Int
    OBVIOUS
  <2>. QED BY <1>3, <2>1, <2>2, <2>3, <2>4
<1>5. OnItsWay(t, c, G, m)
  BY <1>2 DEF InTransit, OnItsWay
<1>6. OldestFirst(t, c, G, m)
  <2> SUFFICES ASSUME NEW v \in Wires, NEW u \in Wires, NEW i \in 1 .. Len(G[v]), NEW j \in 1 .. Len(G[u]),
                      m < G[v][i], G[v][i] < G[u][j]
               PROVE  v \in Ahead(t, c, u) /\ (v = u => i < j)
    BY DEF OldestFirst
  <2>1. PICK a \in 1 .. Len(F[v]) : a = i + Shift(v, w) /\ G[v][i] = F[v][a]
    BY <1>2
  <2>3. PICK b \in 1 .. Len(F[u]) : b = j + Shift(u, w) /\ G[u][j] = F[u][b]
    BY <1>2
  <2>4. v \in Ahead(t, c, u) /\ (v = u => a < b)
    BY <2>1, <2>3 DEF InTransit, OldestFirst
  <2>2. i \in Int /\ j \in Int
    OBVIOUS
  <2>. QED BY <1>3, <2>1, <2>2, <2>3, <2>4
<1>7. p \in Held(F) /\ p \in 1 .. s
  <2>1. F[w] \in [1 .. Len(F[w]) -> S]
    BY <1>1
  <2>2. p \in 1 .. s
    BY <1>2, <2>1 DEF S
  <2>. QED BY <1>2, <2>2, HeldIs
<1>8. ASSUME NEW q PROVE q \in Held(G) <=> q \in Held(F) /\ q # p
  <2>1. ASSUME q \in Held(G) PROVE q \in Held(F) /\ q # p
    <3>1. PICK v \in Wires : \E i \in 1 .. Len(G[v]) : G[v][i] = q
      BY <2>1, HeldIs
    <3>2. PICK i \in 1 .. Len(G[v]) : G[v][i] = q
      BY <3>1
    <3>3. i + Shift(v, w) \in 1 .. Len(F[v]) /\ F[v][i + Shift(v, w)] = q
      BY <1>2, <3>2
    <3>4. q # p
      <4>1. SUFFICES ASSUME q = p PROVE FALSE
        OBVIOUS
      <4>2. v = w /\ i + Shift(v, w) = 1
        BY <1>2, <3>3, <4>1 DEF InTransit, Distinct
      <4>3. i >= 1 /\ i \in Int
        OBVIOUS
      <4>. QED BY <1>3, <4>2, <4>3
    <3>. QED BY <3>3, <3>4, HeldIs
  <2>2. ASSUME q \in Held(F), q # p PROVE q \in Held(G)
    <3>1. PICK v \in Wires : \E i \in 1 .. Len(F[v]) : F[v][i] = q
      BY <2>2, HeldIs
    <3>2. PICK i \in 1 .. Len(F[v]) : F[v][i] = q
      BY <3>1
    <3>3. i - Shift(v, w) \in 1 .. Len(G[v]) /\ G[v][i - Shift(v, w)] = q
      BY <1>2, <2>2, <3>2
    <3>. QED BY <3>3, HeldIs
  <2>. QED BY <2>1, <2>2
<1>. QED BY <1>2, <1>4, <1>5, <1>6, <1>7, <1>8 DEF InTransit, G, p, S

LEMMA PutsHeld ==
  ASSUME NEW S, NEW F \in [Wires -> Seq(S)], NEW w \in Wires, NEW p \in S, NEW q
  PROVE  q \in Held(Puts(F, w, p)) <=> q \in Held(F) \/ q = p
<1>. DEFINE G == Puts(F, w, p)
<1>1. HasPut(F, S, w, p, G)
  BY PutsEntries
<1>. HIDE DEF G
<1>2. ASSUME q \in Held(G) PROVE q \in Held(F) \/ q = p
  <2>1. PICK v \in Wires : \E i \in 1 .. Len(G[v]) : G[v][i] = q
    BY <1>2, HeldIs
  <2>2. PICK i \in 1 .. Len(G[v]) : G[v][i] = q
    BY <2>1
  <2>. QED BY <1>1, <2>2, HeldIs DEF HasPut
<1>3. ASSUME q \in Held(F) PROVE q \in Held(G)
  <2>1. PICK v \in Wires : \E i \in 1 .. Len(F[v]) : F[v][i] = q
    BY <1>3, HeldIs
  <2>2. PICK i \in 1 .. Len(F[v]) : F[v][i] = q
    BY <2>1
  <2>. QED BY <1>1, <2>2, HeldIs DEF HasPut
<1>4. p \in Held(G)
  BY <1>1, HeldIs DEF HasPut
<1>. QED BY <1>2, <1>3, <1>4 DEF G

LEMMA PutsKeeps ==
  ASSUME NEW t, NEW c, NEW F, NEW s \in Nat, NEW m \in Nat, InTransit(t, c, F, s, m),
         NEW r \in Nat, s <= r, NEW x \in Wires, NEW p \in 1 .. r, p \notin Held(F),
         p > m => x \in Ahead(t, c, First(t, c)),
         \A v \in Wires : \A i \in 1 .. Len(F[v]) :
           /\ m < F[v][i] /\ F[v][i] < p => v \in Ahead(t, c, x)
           /\ m < p /\ p < F[v][i] => x \in Ahead(t, c, v) /\ v # x
  PROVE  InTransit(t, c, Puts(F, x, p), r, m)
<1>. DEFINE G == Puts(F, x, p)
            l == Len(F[x])
            S == 1 .. r
<1>1. F \in [Wires -> Seq(S)] /\ F[x] \in Seq(S) /\ l \in Nat /\ p \in S
  <2>1. 1 .. s \subseteq S
    OBVIOUS
  <2>2. F \in [Wires -> Seq(1 .. s)]
    BY DEF InTransit
  <2>3. \A v \in Wires : F[v] \in Seq(S)
    BY <2>1, <2>2
  <2>. QED BY <2>2, <2>3
<1>. HIDE DEF S
<1>2. /\ G \in [Wires -> Seq(S)]
      /\ \A v \in Wires : \A i \in 1 .. Len(G[v]) :
           \/ v = x /\ i = l + 1 /\ G[v][i] = p
           \/ i \in 1 .. Len(F[v]) /\ G[v][i] = F[v][i]
      /\ \A v \in Wires : \A i \in 1 .. Len(F[v]) : i \in 1 .. Len(G[v]) /\ G[v][i] = F[v][i]
      /\ l + 1 \in 1 .. Len(G[x]) /\ G[x][l + 1] = p
  <2>1. HasPut(F, S, x, p, G)
    BY <1>1, PutsEntries
  <2>. HIDE DEF G, S
  <2>. QED BY <2>1 DEF HasPut, l
<1>. HIDE DEF G, l
<1>3. \A v \in Wires : \A i \in 1 .. Len(F[v]) : F[v][i] # p
  BY HeldIs
<1>4. Distinct(G)
  <2> SUFFICES ASSUME NEW v \in Wires, NEW u \in Wires, NEW i \in 1 .. Len(G[v]), NEW j \in 1 .. Len(G[u]),
                      G[v][i] = G[u][j]
               PROVE  v = u /\ i = j
    BY DEF Distinct
  <2>1. CASE v = x /\ i = l + 1 /\ G[v][i] = p
    BY <1>2, <1>3, <2>1
  <2>2. CASE i \in 1 .. Len(F[v]) /\ G[v][i] = F[v][i]
    <3>1. j \in 1 .. Len(F[u]) /\ G[u][j] = F[u][j]
      <4>1. F[v][i] # p
        BY <1>3, <2>2
      <4>2. G[u][j] # p
        BY <2>2, <4>1
      <4>. QED BY <1>2, <4>2
    <3>2. F[v][i] = F[u][j]
      BY <2>2, <3>1
    <3>3. Distinct(F)
      BY DEF InTransit
    <3>. HIDE DEF l
    <3>. QED BY <2>2, <3>1, <3>2, <3>3 DEF Distinct
  <2>. QED BY <1>2, <2>1, <2>2
<1>5. OnItsWay(t, c, G, m)
  BY <1>2 DEF InTransit, OnItsWay
<1>6. OldestFirst(t, c, G, m)
  <2> SUFFICES ASSUME NEW v \in Wires, NEW u \in Wires, NEW i \in 1 .. Len(G[v]), NEW j \in 1 .. Len(G[u]),
                      m < G[v][i], G[v][i] < G[u][j]
               PROVE  v \in Ahead(t, c, u) /\ (v = u => i < j)
    BY DEF OldestFirst
  <2>1. CASE v = x /\ i = l + 1 /\ G[v][i] = p
    <3>1. j \in 1 .. Len(F[u]) /\ G[u][j] = F[u][j]
      <4>1. G[u][j] # p
        BY <2>1
      <4>. QED BY <1>2, <4>1
    <3>. QED BY <2>1, <3>1
  <2>2. CASE i \in 1 .. Len(F[v]) /\ G[v][i] = F[v][i]
    <3>1. CASE u = x /\ j = l + 1 /\ G[u][j] = p
      <4>1. v \in Ahead(t, c, u)
        BY <2>2, <3>1
      <4>2. v = u => i \in 1 .. l
        BY <2>2, <3>1 DEF l
      <4>. QED BY <1>1, <3>1, <4>1, <4>2
    <3>2. CASE j \in 1 .. Len(F[u]) /\ G[u][j] = F[u][j]
      BY <2>2, <3>2 DEF InTransit, OldestFirst
    <3>. QED BY <1>2, <3>1, <3>2
  <2>. QED BY <1>2, <2>1, <2>2
<1>. QED BY <1>2, <1>4, <1>5, <1>6 DEF InTransit, G, S

-----------------------------------------------------------------------------
(* What the steps do to one channel.                                       *)

(* All that is older than the first packet of a wire is further on.        *)
LEMMA OlderAhead ==
  ASSUME NEW t, NEW c, NEW F, NEW s \in Nat, NEW m \in Nat, InTransit(t, c, F, s, m),
         NEW w \in Wires, F[w] # <<>>,
         NEW v \in Wires, NEW i \in 1 .. Len(F[v]), m < F[v][i], F[v][i] < Head(F[w])
  PROVE  v \in Ahead(t, c, w) /\ v # w
<1>1. F[w] \in Seq(1 .. s)
  BY DEF InTransit
<1>2. Head(F[w]) = F[w][1] /\ 1 \in 1 .. Len(F[w])
  BY <1>1
<1>3. v \in Ahead(t, c, w) /\ (v = w => i < 1)
  BY <1>2 DEF InTransit, OldestFirst
<1>4. i >= 1 /\ i \in Int
  OBVIOUS
<1>. QED BY <1>3, <1>4

(* SendToDev: the first packet of a wire goes to the end of the next one.  *)
LEMMA ForwardKeeps ==
  ASSUME NEW t, NEW c \in Channels, Leads(t, c), NEW F, NEW s \in Nat, NEW m \in Nat, InTransit(t, c, F, s, m),
         NEW w \in Wires, F[w] # <<>>, HasRoute(t, w[2], c)
  PROVE  /\ InTransit(t, c, Puts(Took(F, w), Onward(t, c, w), Head(F[w])), s, m)
         /\ Held(Puts(Took(F, w), Onward(t, c, w), Head(F[w]))) = Held(F)
<1>0. /\ InTransit(t, c, Took(F, w), s, m)
      /\ Head(F[w]) \in Held(F) /\ Head(F[w]) \in 1 .. s
      /\ Held(Took(F, w)) = Held(F) \ {Head(F[w])}
  <2>1. InTransit(t, c, Took(F, w), s, m)
    BY TookKeeps
  <2>2. Head(F[w]) \in Held(F) /\ Head(F[w]) \in 1 .. s
    BY TookKeeps
  <2>3. \A q : q \in Held(Took(F, w)) <=> q \in Held(F) /\ q # Head(F[w])
    BY TookKeeps
  <2>. QED BY <2>1, <2>2, <2>3
<1>. DEFINE G == Took(F, w)
            p == Head(F[w])
            x == Onward(t, c, w)
            S == 1 .. s
<1>1. InTransit(t, c, G, s, m) /\ p \in Held(F) /\ p \in 1 .. s /\ Held(G) = Held(F) \ {p}
  BY <1>0
<1>2. x \in Wires /\ x \in Ahead(t, c, w)
  BY AheadOfItself, AheadGoesOn
<1>3. F \in [Wires -> Seq(S)]
  BY DEF InTransit
<1>. HIDE DEF S
<1>4. /\ p = F[w][1] /\ 1 \in 1 .. Len(F[w])
      /\ \A v \in Wires : \A i \in 1 .. Len(G[v]) :
           i + Shift(v, w) \in 1 .. Len(F[v]) /\ G[v][i] = F[v][i + Shift(v, w)]
  BY <1>3, TookEntries
<1>. HIDE DEF G, p, x
<1>5. ASSUME p > m PROVE x \in Ahead(t, c, First(t, c))
  <2>1. w \in Ahead(t, c, First(t, c))
    BY <1>4, <1>5 DEF InTransit, OnItsWay
  <2>2. First(t, c) \in Wires
    BY ChannelEnds DEF Leads, First
  <2>. QED BY <2>1, <2>2, AheadGoesOn DEF x
<1>6. ASSUME NEW v \in Wires, NEW i \in 1 .. Len(G[v])
      PROVE  /\ m < G[v][i] /\ G[v][i] < p => v \in Ahead(t, c, x)
             /\ m < p /\ p < G[v][i] => x \in Ahead(t, c, v) /\ v # x
  <2>1. PICK a \in 1 .. Len(F[v]) : G[v][i] = F[v][a]
    BY <1>4
  <2>2. ASSUME m < G[v][i], G[v][i] < p PROVE v \in Ahead(t, c, x)
    <3>1. v \in Ahead(t, c, w) /\ v # w
      BY <2>1, <2>2, OlderAhead DEF p
    <3>. QED BY <3>1, AheadOfNext DEF x
  <2>3. ASSUME m < p, p < G[v][i] PROVE x \in Ahead(t, c, v) /\ v # x
    <3>1. m < F[w][1] /\ F[w][1] < F[v][a]
      BY <1>4, <2>1, <2>3
    <3>2. w \in Ahead(t, c, v)
      BY <1>4, <3>1 DEF InTransit, OldestFirst
    <3>3. x \in Ahead(t, c, v)
      BY <3>2, AheadGoesOn DEF x
    <3>4. v # x
      BY <3>2, NotAheadAgain DEF x
    <3>. QED BY <3>3, <3>4
  <2>. QED BY <2>2, <2>3
<1>7. InTransit(t, c, Puts(G, x, p), s, m) /\ Held(Puts(G, x, p)) = Held(G) \cup {p}
  <2>1. PICK r \in Nat : r = s
    OBVIOUS
  <2>2. p \in 1 .. r /\ p \notin Held(G) /\ s <= r
    BY <1>1, <2>1
  <2>3. InTransit(t, c, Puts(G, x, p), r, m) /\ Held(Puts(G, x, p)) = Held(G) \cup {p}
    <3>1. InTransit(t, c, Puts(G, x, p), r, m)
      BY <1>1, <1>2, <1>5, <1>6, <2>2, PutsKeeps
    <3>2. \A q : q \in Held(Puts(G, x, p)) <=> q \in Held(G) \/ q = p
      <4>1. PICK T : T = 1 .. s
        OBVIOUS
      <4>2. G \in [Wires -> Seq(T)] /\ p \in T
        BY <1>1, <4>1 DEF InTransit
      <4>. QED BY <1>2, <4>2, PutsHeld
    <3>. QED BY <3>1, <3>2
  <2>. QED BY <2>1, <2>3
<1>. QED BY <1>1, <1>7 DEF G, p, x

(* A packet is sent.                                                       *)
LEMMA EmitKeeps ==
  ASSUME NEW t, NEW c \in Channels, Leads(t, c), NEW F, NEW s \in Nat, NEW m \in 0 .. s,
         InTransit(t, c, F, s, m)
  PROVE  /\ First(t, c) \in Wires
         /\ InTransit(t, c, Puts(F, First(t, c), s + 1), s + 1, m)
         /\ \A q : q \in Held(Puts(F, First(t, c), s + 1)) <=> q \in Held(F) \/ q = s + 1
<1>. DEFINE x == First(t, c)
            p == s + 1
<1>1. x \in Wires
  BY ChannelEnds DEF Leads, First
<1>2. x \in Ahead(t, c, x)
  BY <1>1, AheadOfItself
<1>3. ASSUME NEW v \in Wires, NEW i \in 1 .. Len(F[v]) PROVE F[v][i] \in 1 .. s
  <2>1. F[v] \in [1 .. Len(F[v]) -> 1 .. s]
    BY DEF InTransit
  <2>. QED BY <2>1
<1>4. p \notin Held(F)
  <2>1. SUFFICES ASSUME p \in Held(F) PROVE FALSE
    OBVIOUS
  <2>2. PICK v \in Wires : \E i \in 1 .. Len(F[v]) : F[v][i] = p
    BY <2>1, HeldIs
  <2>3. p \in 1 .. s
    BY <1>3, <2>2
  <2>. QED BY <2>3
<1>5. m \in Nat /\ p \in Nat /\ s <= p /\ p \in 1 .. p
  OBVIOUS
<1>6. ASSUME NEW v \in Wires, NEW i \in 1 .. Len(F[v])
      PROVE  /\ m < F[v][i] /\ F[v][i] < p => v \in Ahead(t, c, x)
             /\ m < p /\ p < F[v][i] => x \in Ahead(t, c, v) /\ v # x
  <2>1. ~(p < F[v][i])
    BY <1>3
  <2>2. m < F[v][i] => v \in Ahead(t, c, x)
    BY <1>3 DEF InTransit, OnItsWay
  <2>. QED BY <2>1, <2>2
<1>. HIDE DEF x, p
<1>7. InTransit(t, c, Puts(F, x, p), p, m)
  BY <1>1, <1>2, <1>4, <1>5, <1>6, PutsKeeps DEF x
<1>8. \A q : q \in Held(Puts(F, x, p)) <=> q \in Held(F) \/ q = p
  <2>1. F \in [Wires -> Seq(Nat)] /\ p \in Nat
    <3>1. PICK S \in SUBSET Nat : S = 1 .. s
      OBVIOUS
    <3>2. F \in [Wires -> Seq(S)]
      BY <3>1 DEF InTransit
    <3>3. \A v \in Wires : F[v] \in Seq(Nat)
      BY <3>1, <3>2, SeqWider
    <3>. QED BY <1>5, <3>2, <3>3
  <2>. QED BY <1>1, <2>1, PutsHeld
<1>. QED BY <1>1, <1>7, <1>8 DEF x, p

(* A packet that arrives after the last change of routes is the oldest.    *)
LEMMA OldestArrives ==
  ASSUME NEW t, NEW c, Leads(t, c), NEW F, NEW s \in Nat, NEW m \in Nat, InTransit(t, c, F, s, m),
         NEW w \in Wires, F[w] # <<>>, w[2] = To(c), Head(F[w]) > m, NEW q \in Held(F), q > m
  PROVE  Head(F[w]) <= q
<1>1. SUFFICES ASSUME ~(Head(F[w]) <= q) PROVE FALSE
  OBVIOUS
<1>2. PICK v \in Wires : \E i \in 1 .. Len(F[v]) : F[v][i] = q
  BY HeldIs
<1>3. PICK i \in 1 .. Len(F[v]) : F[v][i] = q
  BY <1>2
<1>4. Head(F[w]) \in 1 .. s
  BY TookKeeps
<1>5. F[v] \in [1 .. Len(F[v]) -> 1 .. s]
  BY DEF InTransit
<1>6. q \in 1 .. s
  BY <1>3, <1>5
<1>7. m < F[v][i] /\ F[v][i] < Head(F[w])
  BY <1>1, <1>3, <1>4, <1>6
<1>8. v \in Ahead(t, c, w) /\ v # w
  BY <1>7, OlderAhead
<1>9. HasRoute(t, To(c), c)
  BY <1>8, AheadOfNext
<1>. QED BY <1>9 DEF Leads

(* Only packets sent before the last change of routes are lost.            *)
LEMMA OnlyMovedLost ==
  ASSUME NEW t, NEW c \in Channels, Leads(t, c), NEW F, NEW s \in Nat, NEW m \in Nat,
         InTransit(t, c, F, s, m), NEW w \in Wires, F[w] # <<>>, w[2] # To(c),
         w[2] \in Hosts \/ ~HasRoute(t, w[2], c)
  PROVE  Head(F[w]) <= m
<1>1. SUFFICES ASSUME ~(Head(F[w]) <= m) PROVE FALSE
  OBVIOUS
<1>2. Head(F[w]) \in 1 .. s
  BY TookKeeps
<1>3. Head(F[w]) = F[w][1] /\ 1 \in 1 .. Len(F[w])
  <2>1. F[w] \in Seq(1 .. s)
    BY DEF InTransit
  <2>. QED BY <2>1
<1>4. F[w][1] > m
  BY <1>1, <1>2, <1>3
<1>5. w \in Ahead(t, c, First(t, c))
  BY <1>3, <1>4 DEF InTransit, OnItsWay
<1>. QED BY <1>5, WayIsRouted, RoutingAssumption

(* TakeDownLink empties some wires, and what is left is no longer ordered. *)
Cut(u, c, F, s, Dead, G) ==
  /\ InTransit(u, c, G, s, s)
  /\ Held(G) \subseteq Held(F)
  /\ UNION {Numbers(F[w]) : w \in Dead} = Held(F) \ Held(G)

LEMMA RerouteKeeps ==
  ASSUME NEW t, NEW u, NEW c, NEW F, NEW s \in Nat, NEW m \in Nat, InTransit(t, c, F, s, m),
         NEW Dead \in SUBSET Wires, NEW G, G = [w \in Wires |-> IF w \in Dead THEN <<>> ELSE F[w]]
  PROVE  Cut(u, c, F, s, Dead, G)
<1>1. F \in [Wires -> Seq(1 .. s)] /\ Distinct(F)
  BY DEF InTransit
<1>2. G \in [Wires -> Seq(1 .. s)]
  <2>1. <<>> \in Seq(1 .. s)
    OBVIOUS
  <2>. QED BY <1>1, <2>1
<1>3. \A w \in Wires : \A i \in 1 .. Len(G[w]) : w \notin Dead /\ G[w] = F[w]
  <2>1. ASSUME NEW w \in Dead, NEW i \in 1 .. Len(G[w]) PROVE FALSE
    <3>1. G[w] = <<>> /\ Len(<<>>) = 0
      OBVIOUS
    <3>. QED BY <3>1
  <2>. QED BY <2>1
<1>4. \A w \in Wires : w \notin Dead => G[w] = F[w]
  OBVIOUS
<1>5. Distinct(G)
  <2> SUFFICES ASSUME NEW v \in Wires, NEW w \in Wires, NEW i \in 1 .. Len(G[v]), NEW j \in 1 .. Len(G[w]),
                      G[v][i] = G[w][j]
               PROVE  v = w /\ i = j
    BY DEF Distinct
  <2>1. G[v] = F[v] /\ G[w] = F[w]
    BY <1>3
  <2>. QED BY <1>1, <2>1 DEF Distinct
<1>6. \A w \in Wires : \A i \in 1 .. Len(G[w]) : ~(G[w][i] > s)
  <2> SUFFICES ASSUME NEW w \in Wires, NEW i \in 1 .. Len(G[w]) PROVE ~(G[w][i] > s)
    OBVIOUS
  <2>1. G[w] \in [1 .. Len(G[w]) -> 1 .. s]
    BY <1>2
  <2>2. G[w][i] \in 1 .. s
    BY <2>1
  <2>. QED BY <2>2
<1>7. OnItsWay(u, c, G, s) /\ OldestFirst(u, c, G, s)
  BY <1>6 DEF OnItsWay, OldestFirst
<1>8. Held(G) \subseteq Held(F)
  BY <1>3 DEF Held, Numbers
<1>9. ASSUME NEW q PROVE q \in UNION {Numbers(F[w]) : w \in Dead} <=> q \in Held(F) /\ q \notin Held(G)
  <2>1. ASSUME q \in UNION {Numbers(F[w]) : w \in Dead} PROVE q \in Held(F) /\ q \notin Held(G)
    <3>1. PICK w \in Dead : q \in Numbers(F[w])
      BY <2>1
    <3>2. PICK i \in 1 .. Len(F[w]) : F[w][i] = q
      BY <3>1 DEF Numbers
    <3>3. ASSUME q \in Held(G) PROVE FALSE
      <4>1. PICK v \in Wires : \E j \in 1 .. Len(G[v]) : G[v][j] = q
        BY <3>3, HeldIs
      <4>2. PICK j \in 1 .. Len(G[v]) : G[v][j] = q
        BY <4>1
      <4>3. v \notin Dead /\ j \in 1 .. Len(F[v]) /\ F[v][j] = q
        BY <1>3, <4>2
      <4>4. v = w
        BY <1>1, <3>2, <4>3 DEF Distinct
      <4>. QED BY <4>3, <4>4
    <3>. QED BY <3>2, <3>3, HeldIs
  <2>2. ASSUME q \in Held(F), q \notin Held(G) PROVE q \in UNION {Numbers(F[w]) : w \in Dead}
    <3>1. PICK w \in Wires : q \in Numbers(F[w])
      BY <2>2 DEF Held
    <3>2. w \in Dead
      BY <1>4, <2>2, <3>1 DEF Held
    <3>. QED BY <3>1, <3>2
  <2>. QED BY <2>1, <2>2
<1>. QED BY <1>2, <1>5, <1>7, <1>8, <1>9 DEF InTransit, Cut

-----------------------------------------------------------------------------
(* The tables that CalculateRoute fills lead every channel to its end.     *)
Calculated(t, u) == \A n \in Nodes, host \in Hosts : t[n][host] = CalculateRoute(u, host)[n]

LEMMA PickedIsHop ==
  ASSUME NEW n \in Nodes, NEW c \in Channels, NEW t, t[n][To(c)] \in Seq(Nodes), HasRoute(t, n, c)
  PROVE  \E j \in 1 .. Len(t[n][To(c)]) : Picked(t, n, c) = t[n][To(c)][j]
<1>. DEFINE hops == t[n][To(c)]
            l == Len(hops)
            h == Hash[n][c]
            r == h % l
<1>1. l \in Nat \ {0}
  BY DEF HasRoute
<1>2. h \in Int
  BY RoutingAssumption
<1>. HIDE DEF l, h
<1>3. r \in 0 .. l - 1
  BY <1>1, <1>2, DivMod
<1>. HIDE DEF r
<1>4. r + 1 \in 1 .. l
  BY <1>1, <1>3
<1>5. Picked(t, n, c) = hops[r + 1]
  BY DEF Picked, r, l, h
<1>. QED BY <1>4, <1>5 DEF l

LEMMA RoutesLead ==
  ASSUME NEW u \in SUBSET Links, NEW t, Calculated(t, u), Alive(t), NEW c \in Channels
  PROVE  Leads(t, c)
<1>. DEFINE host == To(c)
            st == Search(u, host)[Looks]
<1>1. host \in Hosts /\ From(c) \in Hosts /\ From(c) # host /\ host \in Nodes
  BY ChannelEnds
<1>2. \A n \in Nodes : t[n][host] = st.nextHop[n]
  BY <1>1 DEF Calculated, CalculateRoute
<1>3. Searched(u, host, st)
  <2>1. Looks \in 0 .. Looks
    BY LooksIsNat
  <2>. QED BY <1>1, <2>1, SearchKeeps
<1>. HIDE DEF st
<1>4. ASSUME NEW n \in Nodes, HasRoute(t, n, c)
      PROVE  LET m == Picked(t, n, c)
             IN  /\ m \in Nodes /\ m \in Through(host) /\ {m, n} \in u
                 /\ st.dis[m] >= 0 /\ st.dis[n] = st.dis[m] + 1
  <2>1. t[n][host] = st.nextHop[n] /\ st.nextHop[n] \in Seq(Nodes)
    BY <1>2, <1>3 DEF Searched
  <2>2. PICK j \in 1 .. Len(t[n][host]) : Picked(t, n, c) = t[n][host][j]
    BY <1>4, <2>1, PickedIsHop
  <2>3. j \in 1 .. Len(st.nextHop[n]) /\ Picked(t, n, c) = st.nextHop[n][j] /\ st.nextHop[n][j] \in Nodes
    BY <2>1, <2>2
  <2>. QED BY <1>3, <2>3 DEF Searched
<1>5. HasRoute(t, From(c), c)
  BY <1>1 DEF Alive, HasRoute
<1>6. ~HasRoute(t, host, c)
  <2>1. SUFFICES ASSUME HasRoute(t, host, c) PROVE FALSE
    OBVIOUS
  <2>2. st.dis[host] = 0 /\ st.dis \in [Nodes -> Int]
    BY <1>3 DEF Searched
  <2>3. /\ Picked(t, host, c) \in Nodes /\ st.dis[Picked(t, host, c)] >= 0
        /\ st.dis[host] = st.dis[Picked(t, host, c)] + 1
    BY <1>1, <1>4, <2>1
  <2>. QED BY <2>2, <2>3
<1>7. ASSUME NEW n \in Nodes, HasRoute(t, n, c)
      PROVE  /\ <<n, Picked(t, n, c)>> \in Wires
             /\ Picked(t, n, c) # host => /\ Picked(t, n, c) \in Switches
                                          /\ HasRoute(t, Picked(t, n, c), c)
             /\ st.dis[Picked(t, n, c)] < st.dis[n]
  <2>. DEFINE m == Picked(t, n, c)
  <2>1. /\ m \in Nodes /\ m \in Through(host) /\ {m, n} \in u
        /\ st.dis[m] >= 0 /\ st.dis[n] = st.dis[m] + 1
    BY <1>4, <1>7
  <2>. HIDE DEF m
  <2>2. <<n, m>> \in Wires
    <3>1. {n, m} = {m, n}
      OBVIOUS
    <3>. QED BY <2>1, <3>1 DEF Wires
  <2>3. ASSUME m # host PROVE m \in Switches /\ HasRoute(t, m, c)
    <3>1. m \in Switches
      BY <2>1, <2>3 DEF Through
    <3>2. st.nextHop[m] # <<>>
      BY <1>3, <2>1, <2>3 DEF Searched
    <3>3. t[m][To(c)] = st.nextHop[m]
      BY <1>2, <2>1
    <3>. QED BY <3>1, <3>2, <3>3 DEF HasRoute
  <2>4. st.dis[m] < st.dis[n]
    <3>1. st.dis[m] \in Int
      BY <1>3, <2>1 DEF Searched
    <3>. QED BY <2>1, <3>1
  <2>. QED BY <2>2, <2>3, <2>4 DEF m
<1>8. \E dis \in [Nodes -> Int] :
        \A n \in Nodes : HasRoute(t, n, c) => dis[Picked(t, n, c)] < dis[n]
  <2>1. st.dis \in [Nodes -> Int]
    BY <1>3 DEF Searched
  <2>. QED BY <1>7, <2>1
<1>. QED BY <1>5, <1>6, <1>7, <1>8 DEF Leads

(* SetRoutingEntries when the scenario starts, and over cleared tables.    *)
LEMMA FirstCalculated == Calculated(FirstTables, Links)
BY DEF Calculated, FirstTables

LEMMA ReroutedCalculated == ASSUME NEW u PROVE Calculated(Rerouted(u), u)
<1> SUFFICES ASSUME NEW n \in Nodes, NEW host \in Hosts
             PROVE  Rerouted(u)[n][host] = CalculateRoute(u, host)[n]
  BY DEF Calculated
<1>1. Rerouted(u)[n][host] = <<>> \o CalculateRoute(u, host)[n]
  BY DEF Rerouted, ClearTable
<1>2. CalculateRoute(u, host)[n] \in Seq(Nodes)
  <2>1. Looks \in 0 .. Looks
    BY LooksIsNat
  <2>2. Searched(u, host, Search(u, host)[Looks])
    BY <2>1, SearchKeeps
  <2>. QED BY <2>2 DEF CalculateRoute, Searched
<1>3. \A q \in Seq(Nodes) : <<>> \o q = q
  OBVIOUS
<1>. QED BY <1>1, <1>2, <1>3

-----------------------------------------------------------------------------
(* What a step does to the packets of one channel, and what it is there.   *)
LEMMA UnderwayIs == ASSUME NEW c \in Channels PROVE Underway[c] = Held(On(fly, c))
BY DEF Underway, Held, On, Numbers

LEMMA UnderwayIsNext == ASSUME NEW c \in Channels PROVE Underway'[c] = Held(On(fly', c))
BY DEF Underway, Held, On, Numbers

Going(c) ==
  /\ InTransit(tables, c, On(fly', c), sent'[c], moved[c])
  /\ Network!Send(c) \/ Network!Arrive(c) \/ Network!Lose(c) \/ Network!Rest(c)

LEMMA RestStep ==
  ASSUME NetInv, NEW c \in Channels, On(fly', c) = On(fly, c), sent'[c] = sent[c], lost'[c] = lost[c]
  PROVE  Going(c)
<1>1. Network!Rest(c)
  BY UnderwayIs, UnderwayIsNext DEF Network!Rest
<1>. QED BY <1>1 DEF Going, NetInv

LEMMA ForwardStep ==
  ASSUME NetInv, TypeOK, NEW c \in Channels, NEW w \in Wires, On(fly, c)[w] # <<>>,
         HasRoute(tables, w[2], c),
         On(fly', c) = Puts(Took(On(fly, c), w), Onward(tables, c, w), Head(On(fly, c)[w])),
         sent'[c] = sent[c], lost'[c] = lost[c]
  PROVE  Going(c)
<1>1. /\ Leads(tables, c) /\ InTransit(tables, c, On(fly, c), sent[c], moved[c])
      /\ sent[c] \in Nat /\ moved[c] \in Nat
  BY DEF NetInv, TypeOK
<1>2. /\ InTransit(tables, c, On(fly', c), sent[c], moved[c])
      /\ Held(On(fly', c)) = Held(On(fly, c))
  BY <1>1, ForwardKeeps
<1>3. Network!Rest(c)
  BY <1>2, UnderwayIs, UnderwayIsNext DEF Network!Rest
<1>. QED BY <1>2, <1>3 DEF Going

LEMMA EmitStep ==
  ASSUME NetInv, TypeOK, NEW c \in Channels,
         On(fly', c) = Puts(On(fly, c), First(tables, c), sent[c] + 1),
         sent'[c] = sent[c] + 1, lost'[c] = lost[c]
  PROVE  Going(c)
<1>1. /\ Leads(tables, c) /\ InTransit(tables, c, On(fly, c), sent[c], moved[c])
      /\ sent[c] \in Nat /\ moved[c] \in 0 .. sent[c]
  BY DEF NetInv, TypeOK
<1>2. /\ InTransit(tables, c, On(fly', c), sent'[c], moved[c])
      /\ Held(On(fly', c)) = Held(On(fly, c)) \cup {sent'[c]}
  <2>1. PICK F, s, x : F = On(fly, c) /\ s = sent[c] /\ x = First(tables, c)
    OBVIOUS
  <2>2. InTransit(tables, c, Puts(F, x, s + 1), s + 1, moved[c])
    BY <1>1, <2>1, EmitKeeps
  <2>3. \A q : q \in Held(Puts(F, x, s + 1)) <=> q \in Held(F) \/ q = s + 1
    BY <1>1, <2>1, EmitKeeps
  <2>. QED BY <2>1, <2>2, <2>3
<1>3. Network!Send(c)
  BY <1>2, UnderwayIs, UnderwayIsNext DEF Network!Send
<1>. QED BY <1>2, <1>3 DEF Going

LEMMA ArriveStep ==
  ASSUME NetInv, TypeOK, NEW c \in Channels, NEW w \in Wires, On(fly, c)[w] # <<>>, w[2] = To(c),
         On(fly', c) = Took(On(fly, c), w), sent'[c] = sent[c], lost'[c] = lost[c]
  PROVE  Going(c)
<1>. DEFINE F == On(fly, c)
            p == Head(F[w])
<1>1. /\ Leads(tables, c) /\ InTransit(tables, c, F, sent[c], moved[c])
      /\ sent[c] \in Nat /\ moved[c] \in Nat
  BY DEF NetInv, TypeOK
<1>. HIDE DEF F
<1>2. /\ InTransit(tables, c, On(fly', c), sent[c], moved[c])
      /\ p \in Held(F)
      /\ \A q : q \in Held(On(fly', c)) <=> q \in Held(F) /\ q # p
  <2>0. F[w] # <<>> /\ On(fly', c) = Took(F, w)
    BY DEF F
  <2>1. InTransit(tables, c, Took(F, w), sent[c], moved[c])
    BY <1>1, <2>0, TookKeeps
  <2>2. p \in Held(F)
    BY <1>1, <2>0, TookKeeps
  <2>3. \A q : q \in Held(Took(F, w)) <=> q \in Held(F) /\ q # Head(F[w])
    BY <1>1, <2>0, TookKeeps
  <2>. QED BY <2>0, <2>1, <2>2, <2>3
<1>3. p > moved[c] => \A q \in Held(F) : q > moved[c] => p <= q
  BY <1>1, OldestArrives DEF F
<1>. HIDE DEF p
<1>4. Held(On(fly', c)) = Held(F) \ {p}
  BY <1>2
<1>5. Network!Arrive(c)
  BY <1>2, <1>3, <1>4, UnderwayIs, UnderwayIsNext DEF Network!Arrive, Network!Settled, F
<1>. QED BY <1>2, <1>5 DEF Going

LEMMA LoseStep ==
  ASSUME NetInv, TypeOK, NEW c \in Channels, NEW w \in Wires, On(fly, c)[w] # <<>>, w[2] # To(c),
         w[2] \in Hosts \/ ~HasRoute(tables, w[2], c),
         On(fly', c) = Took(On(fly, c), w), sent'[c] = sent[c],
         lost'[c] = lost[c] \cup {Head(On(fly, c)[w])}
  PROVE  Going(c)
<1>. DEFINE F == On(fly, c)
            p == Head(F[w])
<1>1. /\ Leads(tables, c) /\ InTransit(tables, c, F, sent[c], moved[c])
      /\ sent[c] \in Nat /\ moved[c] \in Nat
  BY DEF NetInv, TypeOK
<1>0. F[w] # <<>> /\ On(fly', c) = Took(F, w) /\ lost'[c] = lost[c] \cup {p}
  OBVIOUS
<1>. HIDE DEF F
<1>2. InTransit(tables, c, On(fly', c), sent[c], moved[c])
  <2>1. InTransit(tables, c, Took(F, w), sent[c], moved[c])
    BY <1>0, <1>1, TookKeeps
  <2>. QED BY <1>0, <2>1
<1>3. p \in Held(F)
  BY <1>0, <1>1, TookKeeps
<1>4. \A q : q \in Held(Took(F, w)) <=> q \in Held(F) /\ q # Head(F[w])
  BY <1>0, <1>1, TookKeeps
<1>5. p <= moved[c]
  BY <1>0, <1>1, OnlyMovedLost
<1>6. Held(On(fly', c)) = Held(F) \ {p}
  BY <1>0, <1>4
<1>. HIDE DEF p
<1>7. Network!Lose(c)
  BY <1>0, <1>3, <1>5, <1>6, UnderwayIs, UnderwayIsNext DEF Network!Lose, F
<1>. QED BY <1>2, <1>7 DEF Going

(* What a Put and a Taken do to the wires as one channel sees them.        *)
PutOn(fl, x, c, p, G) ==
  /\ G \in [Wires -> [Channels -> Seq(Nat)]]
  /\ On(G, c) = Puts(On(fl, c), x, p)
  /\ \A d \in Channels : d # c => On(G, d) = On(fl, d)

LEMMA OnPut ==
  ASSUME NEW fl \in [Wires -> [Channels -> Seq(Nat)]], NEW x \in Wires, NEW c \in Channels, NEW p \in Nat
  PROVE  PutOn(fl, x, c, p, Put(fl, x, c, p))
<1>. DEFINE G == Put(fl, x, c, p)
<1>1. fl[x] \in [Channels -> Seq(Nat)] /\ Append(fl[x][c], p) \in Seq(Nat)
  OBVIOUS
<1>2. /\ G \in [Wires -> [Channels -> Seq(Nat)]]
      /\ \A w \in Wires, d \in Channels :
           G[w][d] = IF w = x /\ d = c THEN Append(fl[w][d], p) ELSE fl[w][d]
  <2>1. [fl[x] EXCEPT ![c] = Append(@, p)] \in [Channels -> Seq(Nat)]
    BY <1>1
  <2>. QED BY <1>1, <2>1 DEF Put
<1>. HIDE DEF G
<1>3. On(G, c) = Puts(On(fl, c), x, p)
  BY <1>2 DEF On, Puts
<1>4. \A d \in Channels : d # c => On(G, d) = On(fl, d)
  BY <1>2 DEF On
<1>. QED BY <1>2, <1>3, <1>4 DEF G, PutOn

LEMMA OnTaken ==
  ASSUME NetInv, NEW x \in Wires, NEW c \in Channels, fly[x][c] # <<>>
  PROVE  /\ Taken(x, c) \in [Wires -> [Channels -> Seq(Nat)]]
         /\ On(Taken(x, c), c) = Took(On(fly, c), x)
         /\ \A d \in Channels : d # c => On(Taken(x, c), d) = On(fly, d)
         /\ On(fly, c)[x] = fly[x][c] /\ On(fly, c)[x] # <<>>
         /\ Head(fly[x][c]) \in Nat
<1>. DEFINE G == Taken(x, c)
<1>0. fly \in [Wires -> [Channels -> Seq(Nat)]]
  BY DEF NetInv
<1>1. fly[x] \in [Channels -> Seq(Nat)] /\ Tail(fly[x][c]) \in Seq(Nat) /\ Head(fly[x][c]) \in Nat
  BY <1>0
<1>2. /\ G \in [Wires -> [Channels -> Seq(Nat)]]
      /\ \A w \in Wires, d \in Channels :
           G[w][d] = IF w = x /\ d = c THEN Tail(fly[w][d]) ELSE fly[w][d]
  <2>1. [fly[x] EXCEPT ![c] = Tail(@)] \in [Channels -> Seq(Nat)]
    BY <1>1
  <2>. QED BY <1>0, <1>1, <2>1 DEF Taken
<1>. HIDE DEF G
<1>3. On(G, c) = Took(On(fly, c), x)
  BY <1>2 DEF On, Took
<1>4. \A d \in Channels : d # c => On(G, d) = On(fly, d)
  BY <1>2 DEF On
<1>5. On(fly, c)[x] = fly[x][c]
  BY DEF On
<1>. QED BY <1>1, <1>2, <1>3, <1>4, <1>5 DEF G

-----------------------------------------------------------------------------
(* Every step of the scenario is one of the packet network.                *)
LEMMA TrafficStep ==
  ASSUME NetInv, UNCHANGED <<tables, moved>>,
         fly' \in [Wires -> [Channels -> Seq(Nat)]], lost' \in [Channels -> SUBSET Nat],
         \A c \in Channels : Going(c)
  PROVE  NetInv' /\ Network!Next
<1>1. ASSUME NEW c \in Channels
      PROVE  Leads(tables', c) /\ InTransit(tables', c, On(fly', c), sent'[c], moved'[c])
  BY DEF NetInv, Going
<1>2. moved' \in [Channels -> Nat]
  BY DEF NetInv
<1>3. NetInv'
  BY <1>1, <1>2 DEF NetInv
<1>4. Network!Traffic
  BY DEF Going, Network!Traffic
<1>. QED BY <1>3, <1>4 DEF Network!Next

(* What moves no packet is a step in which every channel rests.            *)
LEMMA QuietStep ==
  ASSUME NetInv, UNCHANGED <<tables, fly, sent, moved, lost>>
  PROVE  NetInv' /\ Network!Next
<1>1. ASSUME NEW c \in Channels PROVE Going(c)
  BY RestStep
<1>2. fly' \in [Wires -> [Channels -> Seq(Nat)]] /\ lost' \in [Channels -> SUBSET Nat]
  BY DEF NetInv
<1>. QED BY <1>1, <1>2, TrafficStep

LEMMA SendStep ==
  ASSUME IInv, NetInv, NEW nic \in Nics, NEW f \in Flows, Send(nic, f)
  PROVE  NetInv' /\ Network!Next
<1>. DEFINE c == <<f, "data">>
<1>1. c \in Channels /\ c[1] = f /\ c[2] = "data"
  BY DEF Channels
<1>2. nic = First(tables, c) /\ nic \in Wires
  <2>1. qpGrp[nic][f] > 0 /\ f \in qpMap
    BY DEF Send
  <2>2. nic = NicOf(tables, f)
    BY <2>1 DEF IInv, QpAtItsNic
  <2>. QED BY <1>1, <2>2 DEF NicOf, First, From, Nics
<1>3. /\ sent' = [sent EXCEPT ![c] = @ + 1] /\ fly' = Put(fly, nic, c, sent[c] + 1)
      /\ UNCHANGED <<tables, moved, lost>>
  BY DEF Send, routes
<1>4. sent \in [Channels -> Nat] /\ TypeOK
  BY DEF IInv, TypeOK
<1>. HIDE DEF c
<1>5. /\ fly' \in [Wires -> [Channels -> Seq(Nat)]]
      /\ On(fly', c) = Puts(On(fly, c), nic, sent[c] + 1)
      /\ \A d \in Channels : d # c => On(fly', d) = On(fly, d)
  <2>1. fly \in [Wires -> [Channels -> Seq(Nat)]] /\ sent[c] + 1 \in Nat
    BY <1>1, <1>4 DEF NetInv
  <2>2. PutOn(fly, nic, c, sent[c] + 1, fly')
    BY <1>1, <1>2, <1>3, <2>1, OnPut
  <2>. QED BY <2>2 DEF PutOn
<1>6. ASSUME NEW d \in Channels PROVE Going(d)
  <2>1. CASE d = c
    <3>1. sent'[c] = sent[c] + 1
      BY <1>1, <1>3, <1>4
    <3>2. Going(c)
      BY <1>1, <1>2, <1>3, <1>4, <1>5, <3>1, EmitStep
    <3>. QED BY <2>1, <3>2
  <2>2. CASE d # c
    <3>1. sent'[d] = sent[d]
      BY <1>3, <1>4, <2>2
    <3>. QED BY <1>3, <1>5, <2>2, <3>1, RestStep
  <2>. QED BY <2>1, <2>2
<1>7. lost' \in [Channels -> SUBSET Nat]
  BY <1>3 DEF NetInv
<1>. QED BY <1>3, <1>5, <1>6, <1>7, TrafficStep

LEMMA UdpStep ==
  ASSUME IInv, NetInv, NEW w \in Wires, NEW c \in Channels, fly[w][c] # <<>>, ReceiveUdp(w, c)
  PROVE  NetInv' /\ Network!Next
<1>. DEFINE ack == <<c[1], "ack">>
            G == Taken(w, c)
<1>1. /\ ack \in Channels /\ ack # c /\ w[2] = To(c)
      /\ <<w[2], Picked(tables, w[2], ack)>> = First(tables, ack)
  BY DEF ReceiveUdp, Channels, First, From, To
<1>2. UNCHANGED <<tables, moved, lost>> /\ sent \in [Channels -> Nat] /\ TypeOK
  BY DEF ReceiveUdp, routes, IInv, TypeOK
<1>3. /\ G \in [Wires -> [Channels -> Seq(Nat)]]
      /\ On(G, c) = Took(On(fly, c), w)
      /\ \A d \in Channels : d # c => On(G, d) = On(fly, d)
      /\ On(fly, c)[w] # <<>>
  BY OnTaken
<1>4. lost' \in [Channels -> SUBSET Nat]
  BY <1>2 DEF NetInv
<1>5. CASE sent' = [sent EXCEPT ![ack] = @ + 1]
           /\ fly' = Put(G, <<w[2], Picked(tables, w[2], ack)>>, ack, sent'[ack])
  <2>. DEFINE x == First(tables, ack)
  <2>1. x \in Wires /\ sent'[ack] = sent[ack] + 1 /\ sent[ack] + 1 \in Nat /\ fly' = Put(G, x, ack, sent[ack] + 1)
        /\ \A d \in Channels : d # ack => sent'[d] = sent[d]
    <3>1. Leads(tables, ack)
      BY <1>1 DEF NetInv
    <3>2. x \in Wires
      BY <1>1, <3>1, ChannelEnds DEF Leads, First
    <3>3. sent'[ack] = sent[ack] + 1 /\ sent[ack] + 1 \in Nat /\ \A d \in Channels : d # ack => sent'[d] = sent[d]
      BY <1>1, <1>2, <1>5
    <3>. QED BY <1>1, <1>5, <3>2, <3>3
  <2>. HIDE DEF G, ack, x
  <2>2. /\ fly' \in [Wires -> [Channels -> Seq(Nat)]]
        /\ On(fly', ack) = Puts(On(G, ack), x, sent[ack] + 1)
        /\ \A d \in Channels : d # ack => On(fly', d) = On(G, d)
    <3>1. PutOn(G, x, ack, sent[ack] + 1, fly')
      BY <1>1, <1>3, <2>1, OnPut
    <3>. QED BY <3>1 DEF PutOn
  <2>3. ASSUME NEW d \in Channels PROVE Going(d)
    <3>1. CASE d = ack
      <4>1. On(fly', ack) = Puts(On(fly, ack), First(tables, ack), sent[ack] + 1)
        BY <1>1, <1>3, <2>2 DEF x
      <4>2. Going(ack)
        BY <1>1, <1>2, <2>1, <4>1, EmitStep
      <4>. QED BY <3>1, <4>2
    <3>2. CASE d = c
      <4>1. On(fly', c) = Took(On(fly, c), w) /\ sent'[c] = sent[c] /\ lost'[c] = lost[c]
        BY <1>1, <1>2, <1>3, <2>1, <2>2
      <4>2. Going(c)
        BY <1>1, <1>2, <1>3, <4>1, ArriveStep
      <4>. QED BY <3>2, <4>2
    <3>3. CASE d # ack /\ d # c
      <4>1. On(fly', d) = On(fly, d) /\ sent'[d] = sent[d] /\ lost'[d] = lost[d]
        BY <1>2, <1>3, <2>1, <2>2, <3>3
      <4>. QED BY <4>1, RestStep
    <3>. QED BY <3>1, <3>2, <3>3
  <2>. QED BY <1>2, <1>4, <2>2, <2>3, TrafficStep
<1>6. CASE fly' = G /\ UNCHANGED sent
  <2>. HIDE DEF G, ack
  <2>1. ASSUME NEW d \in Channels PROVE Going(d)
    <3>1. CASE d = c
      <4>1. On(fly', c) = Took(On(fly, c), w) /\ sent'[c] = sent[c] /\ lost'[c] = lost[c]
        BY <1>2, <1>3, <1>6
      <4>2. Going(c)
        BY <1>1, <1>2, <1>3, <4>1, ArriveStep
      <4>. QED BY <3>1, <4>2
    <3>2. CASE d # c
      <4>1. On(fly', d) = On(fly, d) /\ sent'[d] = sent[d] /\ lost'[d] = lost[d]
        BY <1>2, <1>3, <1>6, <3>2
      <4>. QED BY <4>1, RestStep
    <3>. QED BY <3>1, <3>2
  <2>. QED BY <1>2, <1>3, <1>4, <1>6, <2>1, TrafficStep
<1>7. \/ /\ sent' = [sent EXCEPT ![ack] = @ + 1]
         /\ fly' = Put(G, <<w[2], Picked(tables, w[2], ack)>>, ack, sent'[ack])
      \/ fly' = G /\ UNCHANGED sent
  BY DEF ReceiveUdp
<1>. QED BY <1>5, <1>6, <1>7

LEMMA AckStep ==
  ASSUME IInv, NetInv, NEW w \in Wires, NEW c \in Channels, fly[w][c] # <<>>, ReceiveAck(w, c)
  PROVE  NetInv' /\ Network!Next
<1>1. /\ w[2] = To(c) /\ fly' = Taken(w, c) /\ UNCHANGED <<tables, sent, moved, lost>> /\ TypeOK
  BY DEF ReceiveAck, routes, IInv
<1>2. /\ fly' \in [Wires -> [Channels -> Seq(Nat)]]
      /\ On(fly', c) = Took(On(fly, c), w)
      /\ \A d \in Channels : d # c => On(fly', d) = On(fly, d)
      /\ On(fly, c)[w] # <<>>
  BY <1>1, OnTaken
<1>3. ASSUME NEW d \in Channels PROVE Going(d)
  <2>1. CASE d = c
    <3>1. Going(c)
      BY <1>1, <1>2, ArriveStep
    <3>. QED BY <2>1, <3>1
  <2>2. CASE d # c
    BY <1>1, <1>2, <2>2, RestStep
  <2>. QED BY <2>1, <2>2
<1>4. lost' \in [Channels -> SUBSET Nat]
  BY <1>1 DEF NetInv
<1>. QED BY <1>1, <1>2, <1>3, <1>4, TrafficStep

(* A packet that is not forwarded, by a host or by a switch.               *)
LEMMA LossStep ==
  ASSUME IInv, NetInv, NEW w \in Wires, NEW c \in Channels, fly[w][c] # <<>>, w[2] # To(c),
         w[2] \in Hosts \/ ~HasRoute(tables, w[2], c), fly' = Taken(w, c),
         lost' = [lost EXCEPT ![c] = @ \cup {Head(fly[w][c])}], UNCHANGED <<tables, sent, moved>>
  PROVE  NetInv' /\ Network!Next
<1>1. TypeOK /\ lost \in [Channels -> SUBSET Nat]
  BY DEF IInv, NetInv
<1>2. /\ fly' \in [Wires -> [Channels -> Seq(Nat)]]
      /\ On(fly', c) = Took(On(fly, c), w)
      /\ \A d \in Channels : d # c => On(fly', d) = On(fly, d)
      /\ On(fly, c)[w] = fly[w][c] /\ On(fly, c)[w] # <<>> /\ Head(fly[w][c]) \in Nat
  BY OnTaken
<1>3. /\ lost' \in [Channels -> SUBSET Nat] /\ lost'[c] = lost[c] \cup {Head(On(fly, c)[w])}
      /\ \A d \in Channels : d # c => lost'[d] = lost[d]
  BY <1>1, <1>2
<1>4. ASSUME NEW d \in Channels PROVE Going(d)
  <2>1. CASE d = c
    <3>1. Going(c)
      BY <1>1, <1>2, <1>3, LoseStep
    <3>. QED BY <2>1, <3>1
  <2>2. CASE d # c
    BY <1>2, <1>3, <2>2, RestStep
  <2>. QED BY <2>1, <2>2
<1>. QED BY <1>2, <1>3, <1>4, TrafficStep

LEMMA SwitchStep ==
  ASSUME IInv, NetInv, NEW w \in Wires, NEW c \in Channels, fly[w][c] # <<>>, SendToDev(w, c)
  PROVE  NetInv' /\ Network!Next
<1>1. w[2] \in Switches /\ w[2] # To(c) /\ UNCHANGED <<tables, sent, moved>> /\ TypeOK
  BY ChannelEnds DEF SendToDev, routes, pairs, IInv
<1>2. CASE HasRoute(tables, w[2], c)
  <2>. DEFINE G == Taken(w, c)
              x == Onward(tables, c, w)
              p == Head(fly[w][c])
  <2>1. fly' = Put(G, x, c, p) /\ lost' = lost
    BY <1>2 DEF SendToDev, Onward
  <2>2. /\ G \in [Wires -> [Channels -> Seq(Nat)]]
        /\ On(G, c) = Took(On(fly, c), w)
        /\ \A d \in Channels : d # c => On(G, d) = On(fly, d)
        /\ On(fly, c)[w] = fly[w][c] /\ On(fly, c)[w] # <<>> /\ p \in Nat
    BY OnTaken
  <2>3. x \in Wires
    BY <1>2, WireEnds DEF NetInv, Leads, Onward
  <2>. HIDE DEF G, x, p
  <2>4. /\ fly' \in [Wires -> [Channels -> Seq(Nat)]]
        /\ On(fly', c) = Puts(Took(On(fly, c), w), x, p)
        /\ \A d \in Channels : d # c => On(fly', d) = On(fly, d)
    <3>1. PutOn(G, x, c, p, fly')
      BY <2>1, <2>2, <2>3, OnPut
    <3>. QED BY <2>2, <3>1 DEF PutOn
  <2>5. ASSUME NEW d \in Channels PROVE Going(d)
    <3>1. CASE d = c
      <4>1. On(fly', c) = Puts(Took(On(fly, c), w), Onward(tables, c, w), Head(On(fly, c)[w]))
        BY <2>2, <2>4 DEF x, p
      <4>2. Going(c)
        BY <1>1, <1>2, <2>1, <2>2, <4>1, ForwardStep
      <4>. QED BY <3>1, <4>2
    <3>2. CASE d # c
      BY <1>1, <2>1, <2>4, <3>2, RestStep
    <3>. QED BY <3>1, <3>2
  <2>6. lost' \in [Channels -> SUBSET Nat]
    BY <2>1 DEF NetInv
  <2>. QED BY <1>1, <2>4, <2>5, <2>6, TrafficStep
<1>3. CASE ~HasRoute(tables, w[2], c)
  <2>1. fly' = Taken(w, c) /\ lost' = [lost EXCEPT ![c] = @ \cup {Head(fly[w][c])}]
    BY <1>3 DEF SendToDev
  <2>. QED BY <1>1, <1>3, <2>1, LossStep
<1>. QED BY <1>2, <1>3

LEMMA ReceiveStep ==
  ASSUME IInv, NetInv, Receive PROVE NetInv' /\ Network!Next
<1>1. PICK w \in Wires, c \in Channels :
        fly[w][c] # <<>> /\ (ReceiveUdp(w, c) \/ ReceiveAck(w, c) \/ Misled(w, c) \/ SendToDev(w, c))
  BY DEF Receive
<1>2. CASE ReceiveUdp(w, c)
  BY <1>1, <1>2, UdpStep
<1>3. CASE ReceiveAck(w, c)
  BY <1>1, <1>3, AckStep
<1>4. CASE Misled(w, c)
  <2>1. /\ w[2] \in Hosts /\ w[2] # To(c) /\ fly' = Taken(w, c)
        /\ lost' = [lost EXCEPT ![c] = @ \cup {Head(fly[w][c])}] /\ UNCHANGED <<tables, sent, moved>>
    BY <1>4 DEF Misled, routes
  <2>. QED BY <1>1, <2>1, LossStep
<1>5. CASE SendToDev(w, c)
  BY <1>1, <1>5, SwitchStep
<1>. QED BY <1>1, <1>2, <1>3, <1>4, <1>5

LEMMA DownStep ==
  ASSUME IInv, NetInv, NEW link \in Links, TakeDownLink(link) PROVE NetInv' /\ Network!Next
<1>. DEFINE Dead == {w \in Wires : {w[1], w[2]} = link}
<1>1. /\ up' = up \ {link} /\ tables' = Rerouted(up') /\ Alive(tables')
      /\ fly' = [w \in Wires |-> IF {w[1], w[2]} = link THEN [c \in Channels |-> <<>>] ELSE fly[w]]
      /\ lost' = [c \in Channels |-> lost[c] \cup UNION {Numbers(fly[w][c]) : w \in Dead}]
      /\ moved' = sent /\ sent' = sent
  BY DEF TakeDownLink
<1>2. /\ fly \in [Wires -> [Channels -> Seq(Nat)]] /\ lost \in [Channels -> SUBSET Nat]
      /\ sent \in [Channels -> Nat] /\ up' \in SUBSET Links
  BY <1>1 DEF NetInv, IInv, TypeOK
<1>3. fly' \in [Wires -> [Channels -> Seq(Nat)]]
  <2>1. [c \in Channels |-> <<>>] \in [Channels -> Seq(Nat)]
    OBVIOUS
  <2>. QED BY <1>1, <1>2, <2>1
<1>4. lost' \in [Channels -> SUBSET Nat]
  <2>1. ASSUME NEW c \in Channels, NEW w \in Wires PROVE Numbers(fly[w][c]) \subseteq Nat
    <3>1. fly[w][c] \in [1 .. Len(fly[w][c]) -> Nat]
      BY <1>2
    <3>. QED BY <3>1 DEF Numbers
  <2>. QED BY <1>1, <1>2, <2>1
<1>5. ASSUME NEW c \in Channels PROVE Leads(tables', c)
  <2>1. PICK u : u = up'
    OBVIOUS
  <2>2. Calculated(Rerouted(u), u)
    BY ReroutedCalculated
  <2>3. Calculated(tables', u) /\ Alive(tables') /\ u \in SUBSET Links
    BY <1>1, <1>2, <2>1, <2>2
  <2>. QED BY <2>3, RoutesLead
<1>6. ASSUME NEW c \in Channels
      PROVE  /\ InTransit(tables', c, On(fly', c), sent[c], sent[c])
             /\ Underway'[c] \subseteq Underway[c]
             /\ lost'[c] = lost[c] \cup (Underway[c] \ Underway'[c])
  <2>. DEFINE F == On(fly, c)
              G == [w \in Wires |-> IF w \in Dead THEN <<>> ELSE F[w]]
  <2>1. On(fly', c) = G
    BY <1>1 DEF On
  <2>2. InTransit(tables, c, F, sent[c], moved[c]) /\ sent[c] \in Nat /\ moved[c] \in Nat /\ Dead \in SUBSET Wires
    BY <1>2 DEF NetInv
  <2>3. UNION {Numbers(fly[w][c]) : w \in Dead} = UNION {Numbers(F[w]) : w \in Dead}
    BY DEF On
  <2>. HIDE DEF Dead, F
  <2>4. /\ InTransit(tables', c, G, sent[c], sent[c])
        /\ Held(G) \subseteq Held(F)
        /\ UNION {Numbers(F[w]) : w \in Dead} = Held(F) \ Held(G)
    <3>1. PICK s \in Nat, m \in Nat, u \in {tables'} : s = sent[c] /\ m = moved[c] /\ u = tables'
      BY <2>2
    <3>2. InTransit(tables, c, F, s, m)
      BY <2>2, <3>1
    <3>3. PICK H : H = G
      OBVIOUS
    <3>4. Cut(u, c, F, s, Dead, H)
      BY <2>2, <3>2, <3>3, RerouteKeeps
    <3>. HIDE DEF G
    <3>. QED BY <3>1, <3>3, <3>4 DEF Cut
  <2>. HIDE DEF G
  <2>5. Underway[c] = Held(F) /\ Underway'[c] = Held(G)
    BY <2>1, UnderwayIs, UnderwayIsNext DEF F
  <2>6. lost'[c] = lost[c] \cup UNION {Numbers(F[w]) : w \in Dead}
    BY <1>1, <2>3
  <2>. QED BY <2>1, <2>4, <2>5, <2>6
<1>7. Network!Reroute
  BY <1>1, <1>6 DEF Network!Reroute
<1>8. NetInv'
  <2>1. moved' \in [Channels -> Nat]
    BY <1>1, <1>2
  <2>2. ASSUME NEW c \in Channels
        PROVE  Leads(tables', c) /\ InTransit(tables', c, On(fly', c), sent'[c], moved'[c])
    BY <1>1, <1>5, <1>6
  <2>. QED BY <1>3, <1>4, <2>1, <2>2 DEF NetInv
<1>. QED BY <1>7, <1>8 DEF Network!Next

LEMMA NetStep ==
  ASSUME IInv, NetInv, [Next]_vars PROVE NetInv' /\ Network!Next
<1>1. CASE ScheduleFlowInputs \/ AddQueuePair \/ UNCHANGED vars \/ \E nic \in Nics : ClearFinished(nic)
  <2>1. UNCHANGED <<tables, fly, sent, moved, lost>>
    BY <1>1 DEF ScheduleFlowInputs, AddQueuePair, ClearFinished, vars, routes, pairs
  <2>. QED BY <2>1, QuietStep
<1>2. ASSUME NEW link \in Links, TakeDownLink(link) PROVE NetInv' /\ Network!Next
  BY <1>2, DownStep
<1>3. ASSUME NEW nic \in Nics, NEW f \in Flows, Send(nic, f) PROVE NetInv' /\ Network!Next
  BY <1>3, SendStep
<1>4. CASE Receive
  BY <1>4, ReceiveStep
<1>. QED BY <1>1, <1>2, <1>3, <1>4 DEF Next

LEMMA NetInit == ASSUME Init PROVE NetInv /\ Network!Init
<1>1. /\ fly = [w \in Wires |-> [c \in Channels |-> <<>>]] /\ sent = [c \in Channels |-> 0]
      /\ moved = [c \in Channels |-> 0] /\ lost = [c \in Channels |-> {}] /\ tables = FirstTables
  BY DEF Init
<1>2. ASSUME NEW c \in Channels
      PROVE  Leads(tables, c) /\ InTransit(tables, c, On(fly, c), sent[c], moved[c])
  <2>1. Leads(tables, c)
    BY <1>1, ConnectedAssumption, FirstCalculated, RoutesLead
  <2>2. \A w \in Wires : On(fly, c)[w] = <<>> /\ Len(On(fly, c)[w]) = 0
    BY <1>1 DEF On
  <2>3. On(fly, c) \in [Wires -> Seq(1 .. sent[c])]
    BY <1>1 DEF On
  <2>. QED BY <2>1, <2>2, <2>3 DEF InTransit, Distinct, OnItsWay, OldestFirst
<1>3. NetInv
  BY <1>1, <1>2 DEF NetInv
<1>4. Underway = [c \in Channels |-> {}]
  BY <1>1 DEF Underway, Numbers
<1>. QED BY <1>1, <1>3, <1>4 DEF Network!Init

(* SwitchNode::GetOutDev, GetNicIdxOfQp and CalculateRoute together: from  *)
(* one change of the routes to the next, every channel keeps to one way,   *)
(* none of its packets overtakes another or is lost on it, and it ends at  *)
(* the right host.                                                         *)
THEOREM PacketsInOrder == Spec => ImplementsNetwork
<1>1. IInv /\ NetInv /\ [Next]_vars => NetInv' /\ [Network!Next]_Network!vars
  BY NetStep
<1>2. Init => NetInv /\ Network!Init
  BY NetInit
<1>. QED BY <1>1, <1>2, InitInv, StepInv, PTL DEF Spec, ImplementsNetwork, Network!Spec

-----------------------------------------------------------------------------
(* CalculateRoute finds all shortest ways.                                 *)

(* The a-th node of the queue has looked at the b-th of all nodes when k   *)
(* turns are over.                                                         *)
Done(a, b, k) == (a - 1) * Len(Order) + b <= k

LEMMA TurnPlace ==
  ASSUME NEW k \in Nat, NEW l \in Nat \ {0}
  PROVE  \E i \in Nat \ {0}, j \in 1 .. l :
           i = (k \div l) + 1 /\ j = (k % l) + 1 /\ (i - 1) * l + j = k + 1
<1>. DEFINE d == k \div l
            m == k % l
<1>1. k = l * d + m /\ d \in Int /\ m \in 0 .. l - 1
  <2>1. k \in Int
    OBVIOUS
  <2>. QED BY <2>1, DivMod
<1>. HIDE DEF d, m
<1>2. d >= 0
  <2>1. CASE d <= -1
    <3>1. l * d <= -l
      BY <1>1, <2>1
    <3>. QED BY <1>1, <3>1
  <2>. QED BY <1>1, <2>1
<1>3. d + 1 \in Nat \ {0} /\ m + 1 \in 1 .. l /\ ((d + 1) - 1) * l + (m + 1) = k + 1
  <2>1. ((d + 1) - 1) * l = l * d
    BY <1>1
  <2>2. m + 1 \in 1 .. l /\ d + 1 \in Nat \ {0}
    BY <1>1, <1>2
  <2>. QED BY <1>1, <2>1, <2>2
<1>. QED BY <1>3 DEF d, m

(* The pairs of places are in the order of the turns.                      *)
LEMMA SameTurn ==
  ASSUME NEW l \in Nat \ {0}, NEW a \in Nat \ {0}, NEW i \in Nat \ {0}, NEW b \in 1 .. l, NEW j \in 1 .. l
  PROVE  /\ (a - 1) * l + b = (i - 1) * l + j => a = i /\ b = j
         /\ a > i => (a - 1) * l + b > (i - 1) * l + j
         /\ a < i => (a - 1) * l + b < (i - 1) * l + j
         /\ (a - 1) * l + b \in Nat
<1>. DEFINE x == (a - 1) * l
            y == (i - 1) * l
<1>1. x \in Int /\ y \in Int /\ x >= 0
  OBVIOUS
<1>2. ASSUME a > i PROVE x >= y + l
  <2>1. PICK e \in Nat : a = i + 1 + e
    <3>1. a - i - 1 \in Nat /\ a = i + 1 + (a - i - 1)
      BY <1>2
    <3>. QED BY <3>1
  <2>2. x = y + l + e * l /\ e * l >= 0
    BY <2>1
  <2>. HIDE DEF x, y
  <2>. QED BY <1>1, <2>2
<1>3. ASSUME a < i PROVE y >= x + l
  <2>1. PICK e \in Nat : i = a + 1 + e
    <3>1. i - a - 1 \in Nat /\ i = a + 1 + (i - a - 1)
      BY <1>3
    <3>. QED BY <3>1
  <2>2. y = x + l + e * l /\ e * l >= 0
    BY <2>1
  <2>. HIDE DEF x, y
  <2>. QED BY <1>1, <2>2
<1>. HIDE DEF x, y
<1>4. a > i => x + b > y + j
  BY <1>1, <1>2
<1>5. a < i => x + b < y + j
  BY <1>1, <1>3
<1>6. x + b = y + j => a = i /\ b = j
  <2>1. ASSUME x + b = y + j PROVE a = i
    BY <1>1, <1>4, <1>5, <2>1
  <2>2. a = i => x = y
    BY DEF x, y
  <2>. QED BY <1>1, <2>1, <2>2
<1>7. x + b \in Nat
  BY <1>1
<1>. QED BY <1>4, <1>5, <1>6, <1>7 DEF x, y

(* A node of the queue that has looked at its neighbour n: n is seen, at   *)
(* most one link further, and if it is one link further it goes by here.   *)
LookedAt(u, st, m, n) ==
  {m, n} \in u => /\ 0 <= st.dis[n] /\ st.dis[n] <= st.dis[m] + 1
                  /\ st.dis[n] = st.dis[m] + 1 => m \in Numbers(st.nextHop[n])

(* The queue after k turns: it begins with the host, holds each node seen  *)
(* that may be gone through once, by distance, and nothing seen is more    *)
(* than one link further than a node that is not done.                     *)
Queued(host, st, k) ==
  /\ 1 \in 1 .. Len(st.q) /\ st.q[1] = host
  /\ \A a, b \in 1 .. Len(st.q) : st.q[a] = st.q[b] => a = b
  /\ \A m \in Through(host) : st.dis[m] >= 0 => \E a \in 1 .. Len(st.q) : st.q[a] = m
  /\ \A a, b \in 1 .. Len(st.q) : a <= b => st.dis[st.q[a]] <= st.dis[st.q[b]]
  /\ \A n \in Nodes, a \in 1 .. Len(st.q) :
       ~Done(a, Len(Order), k) => st.dis[n] <= st.dis[st.q[a]] + 1

(* What the turns so far have left, once each.                             *)
Found(u, st, k) ==
  /\ \A a \in 1 .. Len(st.q), b \in 1 .. Len(Order) :
       Done(a, b, k) => LookedAt(u, st, st.q[a], Order[b])
  /\ \A a \in 1 .. Len(st.q), b \in 1 .. Len(Order) :
       st.q[a] \in Numbers(st.nextHop[Order[b]]) => Done(a, b, k)
  /\ \A n \in Nodes : \A x, y \in 1 .. Len(st.nextHop[n]) :
       st.nextHop[n][x] = st.nextHop[n][y] => x = y

LEMMA OrderIs ==
  ASSUME Nodes # {}
  PROVE  /\ Len(Order) \in Nat \ {0} /\ Order \in [1 .. Len(Order) -> Nodes]
         /\ \A n \in Nodes : \E b \in 1 .. Len(Order) : Order[b] = n
         /\ \A b, j \in 1 .. Len(Order) : Order[b] = Order[j] => b = j
<1>1. /\ Order \in Seq(Nodes) /\ Len(Order) \in Nat
      /\ Nodes \subseteq {Order[i] : i \in 1 .. Len(Order)}
  BY RoutingAssumption
<1>4. \A b, j \in 1 .. Len(Order) : Order[b] = Order[j] => b = j
  BY RoutingAssumption
<1>2. PICK n : n \in Nodes
  OBVIOUS
<1>3. PICK b \in 1 .. Len(Order) : Order[b] = n
  BY <1>1, <1>2
<1>. QED BY <1>1, <1>3, <1>4

LEMMA FoundStarts ==
  ASSUME NEW u, NEW host \in Hosts PROVE Queued(host, Start(host), 0) /\ Found(u, Start(host), 0)
<1>1. host \in Nodes
  BY DEF Nodes
<1>2. PICK st : st = Start(host)
  OBVIOUS
<1>3. /\ st.q = <<host>> /\ Len(st.q) = 1 /\ st.q[1] = host
      /\ st.dis = [n \in Nodes |-> IF n = host THEN 0 ELSE -1]
      /\ \A n \in Nodes : st.nextHop[n] = <<>> /\ Len(st.nextHop[n]) = 0
  BY <1>1, <1>2 DEF Start, Unseen
<1>4. Len(Order) \in Nat \ {0} /\ Order \in [1 .. Len(Order) -> Nodes]
  BY <1>1, OrderIs
<1>5. ASSUME NEW b \in 1 .. Len(Order) PROVE ~Done(1, b, 0)
  <2>1. (1 - 1) * Len(Order) = 0
    BY <1>4
  <2>. QED BY <1>4, <2>1 DEF Done
<1>6. \A a \in 1 .. Len(st.q) : a = 1
  BY <1>3
<1>7. Queued(host, st, 0)
  <2>1. \A m \in Through(host) : m \in Nodes /\ (st.dis[m] >= 0 => m = host)
    BY <1>1, <1>3 DEF Through, Nodes
  <2>2. 1 \in 1 .. Len(st.q)
    BY <1>3
  <2>3. \A n \in Nodes : st.dis[n] <= st.dis[host] + 1
    BY <1>1, <1>3
  <2>4. st.dis[host] <= st.dis[host]
    BY <1>1, <1>3
  <2>. QED BY <1>3, <1>6, <2>1, <2>2, <2>3, <2>4 DEF Queued
<1>8. Found(u, st, 0)
  <2>1. \A b \in 1 .. Len(Order) : Numbers(st.nextHop[Order[b]]) = {}
    BY <1>3, <1>4 DEF Numbers
  <2>. QED BY <1>3, <1>5, <1>6, <2>1 DEF Found
<1>. QED BY <1>2, <1>7, <1>8

(* The turn k + 1, in which the i-th of the queue looks at the j-th node.  *)
LEMMA TurnsInOrder ==
  ASSUME Nodes # {}, NEW k \in Nat, NEW i \in Nat \ {0}, NEW j \in 1 .. Len(Order),
         (i - 1) * Len(Order) + j = k + 1, NEW a \in Nat \ {0}
  PROVE  /\ \A b \in 1 .. Len(Order) : Done(a, b, k + 1) <=> Done(a, b, k) \/ (a = i /\ b = j)
         /\ ~Done(i, j, k) /\ ~Done(i, Len(Order), k)
         /\ a < i => Done(a, Len(Order), k)
         /\ a > i => \A b \in 1 .. Len(Order) : ~Done(a, b, k + 1)
<1>. DEFINE l == Len(Order)
<1>1. l \in Nat \ {0} /\ l \in 1 .. l
  BY OrderIs
<1>. HIDE DEF l
<1>2. ASSUME NEW b \in 1 .. l
      PROVE  /\ (a - 1) * l + b = (i - 1) * l + j => a = i /\ b = j
             /\ a > i => (a - 1) * l + b > (i - 1) * l + j
             /\ a < i => (a - 1) * l + b < (i - 1) * l + j
             /\ (a - 1) * l + b \in Nat
  <2>1. j \in 1 .. l
    BY DEF l
  <2>. QED BY <1>1, <2>1, SameTurn
<1>3. (i - 1) * l + j = k + 1
  BY DEF l
<1>4. ASSUME NEW b \in 1 .. l
      PROVE  /\ Done(a, b, k + 1) <=> Done(a, b, k) \/ (a = i /\ b = j)
             /\ a > i => ~Done(a, b, k + 1)
             /\ a < i => Done(a, b, k)
  <2>1. PICK y \in Nat : y = (a - 1) * l + b
    BY <1>2
  <2>2. (y = k + 1 => a = i /\ b = j) /\ (a = i /\ b = j => y = k + 1)
    BY <1>2, <1>3, <2>1
  <2>3. (a > i => y > k + 1) /\ (a < i => y < k + 1)
    BY <1>2, <1>3, <2>1
  <2>4. (Done(a, b, k + 1) <=> y <= k + 1) /\ (Done(a, b, k) <=> y <= k)
    BY <2>1 DEF Done, l
  <2>. QED BY <2>2, <2>3, <2>4
<1>5. ~Done(i, j, k) /\ ~Done(i, l, k)
  <2>1. PICK z \in Nat : z = (i - 1) * l
    BY <1>1
  <2>2. z + j = k + 1 /\ j \in 1 .. l
    BY <1>3, <2>1 DEF l
  <2>3. ~(z + j <= k) /\ ~(z + l <= k)
    BY <1>1, <2>1, <2>2
  <2>. QED BY <2>1, <2>3 DEF Done, l
<1>. QED BY <1>1, <1>4, <1>5 DEF l

(* A turn that finds no node to look at.                                   *)
LEMMA IdleTurn ==
  ASSUME NEW u, NEW host \in Hosts, NEW st, Searched(u, host, st), NEW k \in Nat,
         Queued(host, st, k), Found(u, st, k), NEW i \in Nat \ {0}, NEW j \in 1 .. Len(Order),
         (i - 1) * Len(Order) + j = k + 1, i > Len(st.q) \/ Order[j] \notin Neighbours(u, st.q[i])
  PROVE  Queued(host, st, k + 1) /\ Found(u, st, k + 1)
<1>1. Nodes # {}
  BY DEF Nodes
<1>2. Order[j] \in Nodes /\ Len(Order) \in 1 .. Len(Order)
  BY <1>1, OrderIs
<1>3. ASSUME NEW a \in 1 .. Len(st.q), NEW b \in 1 .. Len(Order)
      PROVE  Done(a, b, k + 1) <=> Done(a, b, k) \/ (a = i /\ b = j)
  <2>1. a \in Nat \ {0}
    OBVIOUS
  <2>. QED BY <1>1, <2>1, TurnsInOrder
<1>4. ASSUME NEW a \in 1 .. Len(st.q), a = i PROVE {st.q[a], Order[j]} \notin u
  <2>1. Len(st.q) \in Nat
    BY DEF Searched
  <2>2. ~(i > Len(st.q))
    BY <1>4, <2>1
  <2>. QED BY <1>2, <1>4, <2>2 DEF Neighbours
<1>5. Queued(host, st, k + 1)
  <2>1. ASSUME NEW n \in Nodes, NEW a \in 1 .. Len(st.q), ~Done(a, Len(Order), k + 1)
        PROVE  st.dis[n] <= st.dis[st.q[a]] + 1
    <3>1. ~Done(a, Len(Order), k)
      BY <1>2, <1>3, <2>1
    <3>. QED BY <3>1 DEF Queued
  <2>. QED BY <2>1 DEF Queued
<1>6. Found(u, st, k + 1)
  <2>1. ASSUME NEW a \in 1 .. Len(st.q), NEW b \in 1 .. Len(Order), Done(a, b, k + 1)
        PROVE  LookedAt(u, st, st.q[a], Order[b])
    <3>1. CASE Done(a, b, k)
      BY <3>1 DEF Found
    <3>2. CASE a = i /\ b = j
      BY <1>4, <3>2 DEF LookedAt
    <3>. QED BY <1>3, <2>1, <3>1, <3>2
  <2>2. ASSUME NEW a \in 1 .. Len(st.q), NEW b \in 1 .. Len(Order), st.q[a] \in Numbers(st.nextHop[Order[b]])
        PROVE  Done(a, b, k + 1)
    BY <1>3, <2>2 DEF Found
  <2>. QED BY <2>1, <2>2 DEF Found
<1>. QED BY <1>5, <1>6

LEMMA BusyTurn ==
  ASSUME NEW u, NEW host \in Hosts, NEW st, Searched(u, host, st), NEW k \in Nat,
         Queued(host, st, k), Found(u, st, k), NEW i \in 1 .. Len(st.q), NEW j \in 1 .. Len(Order),
         (i - 1) * Len(Order) + j = k + 1, NEW new, IsLook(u, host, st, i, Order[j], new)
  PROVE  Queued(host, new, k + 1) /\ Found(u, new, k + 1)
<1>. DEFINE now == st.q[i]
            next == Order[j]
            l == Len(Order)
            size == Len(st.q)
<1>1. Nodes # {} /\ host \in Nodes
  BY DEF Nodes
<1>2. /\ l \in Nat \ {0} /\ l \in 1 .. l
      /\ \A b \in 1 .. l : Order[b] \in Nodes
      /\ \A b \in 1 .. l : Order[b] = next => b = j
  BY <1>1, OrderIs
<1>3. /\ size \in Nat /\ i \in Nat \ {0} /\ st.dis \in [Nodes -> Int]
      /\ st.nextHop \in [Nodes -> Seq(Nodes)] /\ now \in Nodes
      /\ \A a \in 1 .. size : st.q[a] \in Nodes /\ st.dis[st.q[a]] \in Nat
  <2>1. st.q \in Seq(Nodes) /\ st.dis \in [Nodes -> Int] /\ st.nextHop \in [Nodes -> Seq(Nodes)]
        /\ \A a \in 1 .. size : st.dis[st.q[a]] >= 0
    BY DEF Searched
  <2>2. ASSUME NEW a \in 1 .. size PROVE st.q[a] \in Nodes /\ st.dis[st.q[a]] \in Nat
    <3>1. st.q[a] \in Nodes
      BY <2>1
    <3>2. st.dis[st.q[a]] \in Int /\ st.dis[st.q[a]] >= 0
      BY <2>1, <3>1
    <3>. QED BY <3>1, <3>2
  <2>3. size \in Nat
    BY <2>1
  <2>4. now \in Nodes
    BY <2>2
  <2>. HIDE DEF now, size
  <2>5. i \in Nat \ {0}
    OBVIOUS
  <2>. QED BY <2>1, <2>2, <2>3, <2>4, <2>5
<1>4. ASSUME NEW a \in Nat \ {0}
      PROVE  /\ \A b \in 1 .. l : Done(a, b, k + 1) <=> Done(a, b, k) \/ (a = i /\ b = j)
             /\ ~Done(i, j, k) /\ ~Done(i, l, k)
             /\ a < i => Done(a, l, k)
             /\ a > i => \A b \in 1 .. l : ~Done(a, b, k + 1)
  BY <1>1, <1>3, TurnsInOrder
<1>5. /\ {now, next} \in u /\ st.dis[now] \in Nat /\ new.dis[now] = st.dis[now]
      /\ st.dis[next] = -1 \/ st.dis[next] \in Nat
      /\ new.dis \in [Nodes -> Int] /\ new.dis[next] \in Nat
      /\ \A n \in Nodes : new.dis[n] = IF n = next /\ st.dis[next] = -1 THEN st.dis[now] + 1 ELSE st.dis[n]
      /\ \A n \in Nodes : st.dis[n] >= 0 => new.dis[n] = st.dis[n]
  BY DEF IsLook
<1>6. /\ \A n \in Nodes : new.nextHop[n] = IF n = next /\ new.dis[next] = new.dis[now] + 1
                                           THEN Append(st.nextHop[n], now) ELSE st.nextHop[n]
      /\ \A a \in 1 .. size : a \in 1 .. Len(new.q) /\ new.q[a] = st.q[a]
      /\ \A a \in 1 .. Len(new.q) :
           \/ a \in 1 .. size
           \/ a = size + 1 /\ new.q[a] = next /\ st.dis[next] = -1 /\ next \in Switches
      /\ st.dis[next] = -1 /\ next \in Switches => size + 1 \in 1 .. Len(new.q) /\ new.q[size + 1] = next
  BY DEF IsLook
<1>7. next \in Nodes /\ j \in 1 .. l
  BY <1>2
<1>8. \A n \in Nodes : st.dis[n] <= st.dis[now] + 1
  <2>1. ~Done(i, l, k)
    BY <1>3, <1>4
  <2>. QED BY <2>1 DEF Queued
<1>9. size + 1 \in Nat \ {0} /\ size + 1 > i
  BY <1>3
<1>. HIDE DEF now, next, l, size
<1>10. ASSUME NEW a \in 1 .. size PROVE new.q[a] = st.q[a] /\ new.dis[st.q[a]] = st.dis[st.q[a]]
  <2>1. new.q[a] = st.q[a]
    BY <1>6
  <2>2. PICK m \in Nodes : m = st.q[a] /\ st.dis[m] \in Nat
    BY <1>3
  <2>3. st.dis[m] >= 0
    BY <2>2
  <2>4. new.dis[m] = st.dis[m]
    BY <1>5, <2>3
  <2>. QED BY <2>1, <2>2, <2>4
<1>11. Queued(host, new, k + 1)
  <2>1. 1 \in 1 .. Len(new.q) /\ new.q[1] = host
    BY <1>6 DEF Queued, size
  <2>2. ASSUME NEW a \in 1 .. Len(new.q), NEW b \in 1 .. Len(new.q), new.q[a] = new.q[b] PROVE a = b
    <3>1. CASE a \in 1 .. size /\ b \in 1 .. size
      BY <1>10, <2>2, <3>1 DEF Queued, size
    <3>2. ASSUME NEW c \in 1 .. size, new.q[c] = next, st.dis[next] = -1 PROVE FALSE
      <4>1. st.dis[next] \in Nat
        BY <1>3, <1>10, <3>2
      <4>. QED BY <3>2, <4>1
    <3>. QED BY <1>6, <2>2, <3>1, <3>2
  <2>3. ASSUME NEW m \in Through(host), new.dis[m] >= 0 PROVE \E a \in 1 .. Len(new.q) : new.q[a] = m
    <3>0. m \in Nodes
      BY <1>1 DEF Through, Nodes
    <3>1. CASE st.dis[m] >= 0
      <4>1. PICK a \in 1 .. size : st.q[a] = m
        BY <3>1 DEF Queued, size
      <4>. QED BY <1>6, <4>1
    <3>2. CASE ~(st.dis[m] >= 0)
      <4>1. m = next /\ st.dis[next] = -1
        BY <1>5, <2>3, <3>0, <3>2
      <4>2. st.dis[host] = 0
        BY DEF Searched
      <4>3. m \in Switches
        BY <3>2, <4>2 DEF Through
      <4>. QED BY <1>6, <4>1, <4>3
    <3>. QED BY <3>1, <3>2
  <2>4. ASSUME NEW a \in 1 .. Len(new.q), NEW b \in 1 .. Len(new.q), a <= b
        PROVE  new.dis[new.q[a]] <= new.dis[new.q[b]]
    <3>1. CASE a \in 1 .. size /\ b \in 1 .. size
      <4>1. st.dis[st.q[a]] <= st.dis[st.q[b]]
        BY <2>4, <3>1 DEF Queued, size
      <4>. QED BY <1>10, <3>1, <4>1
    <3>2. CASE a \in 1 .. size /\ b = size + 1 /\ new.q[b] = next /\ st.dis[next] = -1
      <4>1. new.dis[next] = st.dis[now] + 1
        BY <1>5, <1>7, <3>2
      <4>2. st.dis[st.q[a]] <= st.dis[now] + 1
        BY <1>3, <1>8, <3>2
      <4>. QED BY <1>10, <3>2, <4>1, <4>2
    <3>3. CASE a = size + 1 /\ b = size + 1
      <4>0. a \notin 1 .. size
        BY <1>3, <3>3
      <4>1. new.dis[new.q[a]] \in Nat
        BY <1>5, <1>6, <4>0
      <4>. QED BY <3>3, <4>1
    <3>4. ~(a = size + 1 /\ b \in 1 .. size)
      BY <1>3, <2>4
    <3>. QED BY <1>6, <3>1, <3>2, <3>3, <3>4
  <2>5. ASSUME NEW n \in Nodes, NEW a \in 1 .. Len(new.q), ~Done(a, l, k + 1)
        PROVE  new.dis[n] <= new.dis[new.q[a]] + 1
    <3>1. st.dis[n] \in Int /\ new.dis[n] \in Int /\ st.dis[now] \in Nat
      BY <1>3, <1>5
    <3>2. CASE a \in 1 .. size
      <4>0. a \in Nat \ {0}
        BY <3>2
      <4>1. a \in Nat \ {0} /\ st.dis[st.q[a]] \in Nat
        BY <1>3, <3>2, <4>0
      <4>2. ~Done(a, l, k)
        BY <1>2, <1>4, <2>5, <4>1
      <4>3. st.dis[n] <= st.dis[st.q[a]] + 1
        BY <3>2, <4>2 DEF Queued, size, l
      <4>4. i <= a
        BY <1>3, <1>4, <4>1, <4>2
      <4>5. st.dis[now] <= st.dis[st.q[a]]
        BY <3>2, <4>4 DEF Queued, size, now
      <4>6. new.dis[n] = st.dis[n] \/ new.dis[n] = st.dis[now] + 1
        BY <1>5
      <4>7. new.dis[new.q[a]] = st.dis[st.q[a]]
        BY <1>10, <3>2
      <4>8. PICK d \in Int, e \in Int, f \in Nat, g \in Nat :
              d = st.dis[n] /\ e = new.dis[n] /\ f = st.dis[now] /\ g = st.dis[st.q[a]]
        BY <3>1, <4>1
      <4>9. d <= g + 1 /\ f <= g /\ (e = d \/ e = f + 1)
        BY <4>3, <4>5, <4>6, <4>8
      <4>10. e <= g + 1
        BY <4>9
      <4>. QED BY <4>7, <4>8, <4>10
    <3>3. CASE a = size + 1 /\ new.q[a] = next /\ st.dis[next] = -1
      <4>1. new.dis[next] = st.dis[now] + 1
        BY <1>5, <1>7, <3>3
      <4>2. new.dis[n] <= st.dis[now] + 1
        <5>1. new.dis[n] = st.dis[n] \/ new.dis[n] = st.dis[now] + 1
          BY <1>5
        <5>2. st.dis[n] <= st.dis[now] + 1
          BY <1>8
        <5>. QED BY <3>1, <5>1, <5>2
      <4>. QED BY <3>1, <3>3, <4>1, <4>2
    <3>. QED BY <1>6, <3>2, <3>3
  <2>. QED BY <2>1, <2>2, <2>3, <2>4, <2>5 DEF Queued, l
<1>12. ASSUME NEW n \in Nodes
       PROVE  /\ st.nextHop[n] \in Seq(Nodes) /\ new.nextHop[n] \in Seq(Nodes)
              /\ \A x \in 1 .. Len(new.nextHop[n]) :
                   \/ x \in 1 .. Len(st.nextHop[n]) /\ new.nextHop[n][x] = st.nextHop[n][x]
                   \/ x = Len(st.nextHop[n]) + 1 /\ n = next /\ new.nextHop[n][x] = now
              /\ \A x \in 1 .. Len(st.nextHop[n]) :
                   x \in 1 .. Len(new.nextHop[n]) /\ new.nextHop[n][x] = st.nextHop[n][x]
              /\ n = next /\ new.dis[next] = new.dis[now] + 1 =>
                   /\ Len(st.nextHop[n]) + 1 \in 1 .. Len(new.nextHop[n])
                   /\ new.nextHop[n][Len(st.nextHop[n]) + 1] = now
  <2>. DEFINE s == st.nextHop[n]
              r == new.nextHop[n]
  <2>1. s \in Seq(Nodes) /\ Len(s) \in Nat
    BY <1>3
  <2>. HIDE DEF s, r
  <2>2. CASE n = next /\ new.dis[next] = new.dis[now] + 1
    <3>1. r = Append(s, now)
      BY <1>6, <2>2 DEF s, r
    <3>2. /\ r \in Seq(Nodes) /\ Len(r) = Len(s) + 1 /\ r[Len(s) + 1] = now
          /\ \A x \in 1 .. Len(s) : r[x] = s[x]
      BY <1>3, <2>1, <3>1
    <3>3. PICK z \in Nat : z = Len(s) /\ Len(r) = z + 1
      BY <2>1, <3>2
    <3>4. /\ \A x \in 1 .. Len(r) : x \in 1 .. Len(s) \/ x = Len(s) + 1
          /\ \A x \in 1 .. Len(s) : x \in 1 .. Len(r)
          /\ Len(s) + 1 \in 1 .. Len(r)
      BY <3>3
    <3>. QED BY <2>1, <2>2, <3>2, <3>4 DEF s, r
  <2>3. CASE ~(n = next /\ new.dis[next] = new.dis[now] + 1)
    <3>1. r = s
      BY <1>6, <2>3 DEF s, r
    <3>. QED BY <2>1, <2>3, <3>1 DEF s, r
  <2>. QED BY <2>2, <2>3
<1>13. \A x \in 1 .. Len(st.nextHop[next]) : st.nextHop[next][x] # now
  <2> SUFFICES ASSUME NEW x \in 1 .. Len(st.nextHop[next]), st.nextHop[next][x] = now PROVE FALSE
    OBVIOUS
  <2>1. now \in Numbers(st.nextHop[next])
    BY DEF Numbers
  <2>2. Done(i, j, k)
    BY <2>1 DEF Found, now, next
  <2>. QED BY <1>3, <1>4, <2>2
<1>14. ASSUME NEW a \in 1 .. Len(new.q), NEW b \in 1 .. l, Done(a, b, k + 1)
       PROVE  LookedAt(u, new, new.q[a], Order[b])
  <2>0. Order[b] \in Nodes
    BY <1>2
  <2>1. a \in 1 .. size
    <3>1. a = size + 1 => ~Done(a, b, k + 1)
      BY <1>4, <1>9
    <3>. QED BY <1>6, <1>14, <3>1
  <2>2. new.q[a] = st.q[a] /\ new.dis[st.q[a]] = st.dis[st.q[a]] /\ a \in Nat \ {0}
    BY <1>3, <1>10, <2>1
  <2>3. CASE Done(a, b, k)
    <3> SUFFICES ASSUME {st.q[a], Order[b]} \in u
                 PROVE  LookedAt(u, new, st.q[a], Order[b])
      BY <2>2 DEF LookedAt
    <3>1. LookedAt(u, st, st.q[a], Order[b])
      BY <2>1, <2>3 DEF Found, l, size
    <3>2. /\ 0 <= st.dis[Order[b]] /\ st.dis[Order[b]] <= st.dis[st.q[a]] + 1
          /\ st.dis[Order[b]] = st.dis[st.q[a]] + 1 => st.q[a] \in Numbers(st.nextHop[Order[b]])
      BY <3>1 DEF LookedAt
    <3>3. new.dis[Order[b]] = st.dis[Order[b]]
      <4>1. st.dis[Order[b]] >= 0
        BY <1>3, <2>0, <3>2
      <4>. QED BY <1>5, <2>0, <4>1
    <3>4. Numbers(st.nextHop[Order[b]]) \subseteq Numbers(new.nextHop[Order[b]])
      <4>1. PICK s, r : s = st.nextHop[Order[b]] /\ r = new.nextHop[Order[b]]
        OBVIOUS
      <4>2. \A x \in 1 .. Len(s) : x \in 1 .. Len(r) /\ r[x] = s[x]
        BY <1>12, <2>0, <4>1
      <4>3. Numbers(s) \subseteq Numbers(r)
        BY <4>2 DEF Numbers
      <4>. QED BY <4>1, <4>3
    <3>. QED BY <2>2, <3>2, <3>3, <3>4 DEF LookedAt
  <2>4. CASE a = i /\ b = j
    <3>1. st.q[a] = now /\ Order[b] = next
      BY <2>4 DEF now, next
    <3>2. 0 <= new.dis[next] /\ new.dis[next] <= new.dis[now] + 1
      <4>1. new.dis[next] = st.dis[next] \/ new.dis[next] = st.dis[now] + 1
        BY <1>5, <1>7
      <4>2. st.dis[next] <= st.dis[now] + 1
        BY <1>7, <1>8
      <4>. QED BY <1>5, <4>1, <4>2
    <3>3. new.dis[next] = new.dis[now] + 1 => now \in Numbers(new.nextHop[next])
      BY <1>7, <1>12 DEF Numbers
    <3>. QED BY <2>2, <3>1, <3>2, <3>3 DEF LookedAt
  <2>. QED BY <1>4, <1>14, <2>2, <2>3, <2>4
<1>15. ASSUME NEW a \in 1 .. Len(new.q), NEW b \in 1 .. l, new.q[a] \in Numbers(new.nextHop[Order[b]])
       PROVE  Done(a, b, k + 1)
  <2>0. Order[b] \in Nodes
    BY <1>2
  <2>1. PICK x \in 1 .. Len(new.nextHop[Order[b]]) : new.nextHop[Order[b]][x] = new.q[a]
    BY <1>15 DEF Numbers
  <2>2. \/ x \in 1 .. Len(st.nextHop[Order[b]]) /\ st.nextHop[Order[b]][x] = new.q[a]
        \/ Order[b] = next /\ new.q[a] = now
    BY <1>12, <2>0, <2>1
  <2>3. st.dis[new.q[a]] >= 0
    <3>1. CASE x \in 1 .. Len(st.nextHop[Order[b]]) /\ st.nextHop[Order[b]][x] = new.q[a]
      BY <2>0, <3>1 DEF Searched
    <3>2. CASE new.q[a] = now
      BY <1>5, <3>2
    <3>. QED BY <2>2, <3>1, <3>2
  <2>4. a \in 1 .. size
    <3>1. ~(new.q[a] = next /\ st.dis[next] = -1)
      BY <2>3
    <3>. QED BY <1>6, <3>1
  <2>8. a \in Nat \ {0}
    BY <2>4
  <2>5. new.q[a] = st.q[a] /\ a \in Nat \ {0}
    BY <1>10, <2>4, <2>8
  <2>6. CASE x \in 1 .. Len(st.nextHop[Order[b]]) /\ st.nextHop[Order[b]][x] = new.q[a]
    <3>1. st.q[a] \in Numbers(st.nextHop[Order[b]])
      BY <2>5, <2>6 DEF Numbers
    <3>2. Done(a, b, k)
      BY <2>4, <3>1 DEF Found, l, size
    <3>. QED BY <1>4, <2>5, <3>2
  <2>7. CASE Order[b] = next /\ new.q[a] = now
    <3>1. a = i
      BY <2>4, <2>5, <2>7 DEF Queued, now, size
    <3>2. b = j
      BY <1>2, <2>7
    <3>. QED BY <1>4, <2>5, <3>1, <3>2
  <2>. QED BY <2>2, <2>6, <2>7
<1>16. ASSUME NEW n \in Nodes, NEW x \in 1 .. Len(new.nextHop[n]), NEW y \in 1 .. Len(new.nextHop[n]),
              new.nextHop[n][x] = new.nextHop[n][y]
       PROVE  x = y
  <2>1. PICK s, r : s = st.nextHop[n] /\ r = new.nextHop[n]
    OBVIOUS
  <2>2. \A z, v \in 1 .. Len(s) : s[z] = s[v] => z = v
    BY <2>1 DEF Found
  <2>3. /\ x \in 1 .. Len(r) /\ y \in 1 .. Len(r) /\ r[x] = r[y]
        /\ \A z \in 1 .. Len(r) : \/ z \in 1 .. Len(s) /\ r[z] = s[z]
                                  \/ z = Len(s) + 1 /\ n = next /\ r[z] = now
    BY <1>12, <1>16, <2>1
  <2>4. n = next => \A z \in 1 .. Len(s) : s[z] # now
    BY <1>13, <2>1
  <2>. QED BY <2>2, <2>3, <2>4
<1>17. Found(u, new, k + 1)
  BY <1>14, <1>15, <1>16 DEF Found, l
<1>. QED BY <1>11, <1>17

LEMMA SearchFinds ==
  ASSUME NEW u, NEW host \in Hosts, NEW k \in 0 .. Looks
  PROVE  Queued(host, Search(u, host)[k], k) /\ Found(u, Search(u, host)[k], k)
<1>. DEFINE Good(s, g) == Queued(host, s, g) /\ Found(u, s, g)
            Bad == {g \in 0 .. Looks : ~Good(Search(u, host)[g], g)}
<1>1. CASE Bad = {}
  BY <1>1
<1>2. CASE Bad # {}
  <2>1. Bad \in SUBSET Nat /\ Nodes # {}
    BY LooksIsNat DEF Nodes
  <2>. HIDE DEF Bad
  <2>2. PICK g \in Bad : \A h \in Bad : g <= h
    BY <1>2, <2>1, LeastExists
  <2>3. g \in 0 .. Looks /\ ~Good(Search(u, host)[g], g)
    BY <2>2 DEF Bad
  <2>. HIDE DEF Good
  <2>4. Search(u, host)[g] = IF g = 0 THEN Start(host) ELSE Turn(u, Search(u, host)[g - 1], g)
    <3>1. PICK s : s = Search(u, host)
      OBVIOUS
    <3>2. Unfolded(s, u, host, Looks)
      BY <3>1, SearchRuns
    <3>3. s[g] = IF g = 0 THEN Start(host) ELSE Turn(u, s[g - 1], g)
      BY <2>3, <3>2 DEF Unfolded
    <3>. QED BY <3>1, <3>3
  <2>5. g # 0
    BY <2>3, <2>4, FoundStarts DEF Good
  <2>6. g - 1 \in 0 .. Looks /\ g - 1 \notin Bad
    BY <2>1, <2>2, <2>3, <2>5, LooksIsNat
  <2>7. PICK h \in Nat : h = g - 1 /\ g = h + 1 /\ h \in 0 .. Looks
    BY <2>3, <2>6, LooksIsNat
  <2>8. PICK st : st = Search(u, host)[h]
    OBVIOUS
  <2>9. Good(st, h) /\ Searched(u, host, st)
    BY <2>6, <2>7, <2>8, SearchKeeps DEF Bad
  <2>10. Len(Order) \in Nat \ {0} /\ \A b \in 1 .. Len(Order) : Order[b] \in Nodes
    BY <2>1, OrderIs
  <2>11. PICK i \in Nat \ {0}, j \in 1 .. Len(Order) :
           i = (h \div Len(Order)) + 1 /\ j = (h % Len(Order)) + 1 /\ (i - 1) * Len(Order) + j = h + 1
    BY <2>10, TurnPlace
  <2>12. Search(u, host)[g] = Look(u, st, i, Order[j])
    BY <2>4, <2>5, <2>7, <2>8, <2>11 DEF Turn
  <2>13. Order[j] \in Nodes
    BY <2>10
  <2>14. CASE i > Len(st.q) \/ Order[j] \notin Neighbours(u, st.q[i])
    <3>1. Look(u, st, i, Order[j]) = st
      BY <2>14 DEF Look
    <3>2. Queued(host, st, h + 1) /\ Found(u, st, h + 1)
      BY <2>9, <2>11, <2>14, IdleTurn DEF Good
    <3>. QED BY <2>3, <2>7, <2>12, <3>1, <3>2 DEF Good
  <2>15. CASE ~(i > Len(st.q) \/ Order[j] \notin Neighbours(u, st.q[i]))
    <3>1. PICK new : new = Look(u, st, i, Order[j])
      OBVIOUS
    <3>2. IsLook(u, host, st, i, Order[j], new) /\ i \in 1 .. Len(st.q)
      BY <2>9, <2>13, <2>15, <3>1, LookIs
    <3>3. Queued(host, new, h + 1) /\ Found(u, new, h + 1)
      BY <2>9, <2>11, <3>2, BusyTurn DEF Good
    <3>. QED BY <2>3, <2>7, <2>12, <3>1, <3>3 DEF Good
  <2>. QED BY <2>14, <2>15
<1>. QED BY <1>1, <1>2

(* After the last turn every node of the queue has looked at every node.   *)
Ended(u, host, st) ==
  /\ Searched(u, host, st)
  /\ \A m \in Through(host), n \in Nodes : st.dis[m] >= 0 => LookedAt(u, st, m, n)
  /\ \A n \in Nodes : \A x, y \in 1 .. Len(st.nextHop[n]) :
       st.nextHop[n][x] = st.nextHop[n][y] => x = y

LEMMA SearchEnds ==
  ASSUME NEW u, NEW host \in Hosts PROVE Ended(u, host, Search(u, host)[Looks])
<1>. DEFINE l == Len(Order)
            N == Cardinality(Nodes)
<1>1. PICK st : st = Search(u, host)[Looks]
  OBVIOUS
<1>2. Searched(u, host, st) /\ Queued(host, st, Looks) /\ Found(u, st, Looks)
  BY <1>1, LooksIsNat, SearchKeeps, SearchFinds
<1>3. /\ Nodes # {} /\ l \in Nat \ {0} /\ \A n \in Nodes : \E b \in 1 .. l : Order[b] = n
  <2>1. Nodes # {}
    BY DEF Nodes
  <2>. QED BY <2>1, OrderIs
<1>4. IsFiniteSet(Nodes) /\ N \in Nat
  BY RoutingAssumption, FS_Union, FS_CardinalityType DEF Nodes
<1>5. Len(st.q) \in Nat /\ Len(st.q) <= N
  <2>1. st.q \in Seq(Nodes)
    BY <1>2 DEF Searched
  <2>2. PICK z \in Nat : z = Len(st.q)
    BY <2>1
  <2>3. st.q \in [1 .. z -> Nodes]
    BY <2>1, <2>2
  <2>4. \A a, b \in 1 .. z : st.q[a] = st.q[b] => a = b
    BY <1>2, <2>2 DEF Queued
  <2>5. st.q \in Injection(1 .. z, Nodes)
    BY <2>3, <2>4 DEF Injection, IsInjective
  <2>6. Cardinality(1 .. z) <= N
    BY <1>4, <2>5, FS_Injection
  <2>7. Cardinality(1 .. z) = z
    BY FS_Interval
  <2>. QED BY <2>2, <2>6, <2>7
<1>6. ASSUME NEW a \in 1 .. Len(st.q), NEW b \in 1 .. l PROVE Done(a, b, Looks)
  <2>. HIDE DEF l, N
  <2>1. a \in Nat \ {0} /\ a <= N
    BY <1>4, <1>5
  <2>2. N - a \in Nat /\ N = (a - 1) + 1 + (N - a)
    BY <1>4, <2>1
  <2>3. PICK e \in Nat : e = N - a
    BY <2>2
  <2>4. PICK d \in Nat : d = a - 1
    BY <2>1
  <2>5. N = d + 1 + e
    BY <2>2, <2>3, <2>4
  <2>6. N * l = d * l + l + e * l /\ e * l >= 0 /\ d * l \in Int /\ e * l \in Int
    BY <1>3, <2>5
  <2>7. d * l + b <= N * l
    <3>1. PICK x \in Int, y \in Int, z \in Int : x = d * l /\ y = e * l /\ z = N * l
      BY <2>6, <1>3, <1>4
    <3>2. z = x + l + y /\ y >= 0
      BY <2>6, <3>1
    <3>3. b \in 1 .. l
      OBVIOUS
    <3>4. x + b <= z
      BY <1>3, <3>2, <3>3
    <3>. QED BY <3>1, <3>4
  <2>. QED BY <2>4, <2>7 DEF Done, Looks, N, l
<1>7. ASSUME NEW m \in Through(host), NEW n \in Nodes, st.dis[m] >= 0 PROVE LookedAt(u, st, m, n)
  <2>1. PICK a \in 1 .. Len(st.q) : st.q[a] = m
    BY <1>2, <1>7 DEF Queued
  <2>2. PICK b \in 1 .. l : Order[b] = n
    BY <1>3
  <2>3. Done(a, b, Looks)
    BY <1>6
  <2>. QED BY <1>2, <2>1, <2>2, <2>3 DEF Found
<1>8. Ended(u, host, st)
  BY <1>2, <1>7 DEF Ended, Found
<1>. QED BY <1>1, <1>8

(* Distances of nodes that have a way to the host, from switch to switch.  *)
Reach(u, host, dis) ==
  /\ dis \in [Nodes -> Int] /\ dis[host] = 0 /\ \A n \in Nodes : dis[n] >= -1
  /\ \A n \in Nodes : dis[n] >= 0 /\ n # host =>
       \E m \in Through(host) : {m, n} \in u /\ dis[m] >= 0 /\ dis[n] = dis[m] + 1
  /\ \A m \in Through(host), n \in Nodes :
       dis[m] >= 0 /\ {m, n} \in u => 0 <= dis[n] /\ dis[n] <= dis[m] + 1

LEMMA ThroughNodes == ASSUME NEW host \in Hosts PROVE host \in Nodes /\ \A m \in Through(host) : m \in Nodes
  BY DEF Through, Nodes

LEMMA EndedReaches ==
  ASSUME NEW u, NEW host \in Hosts, NEW st, Ended(u, host, st) PROVE Reach(u, host, st.dis)
<1>1. /\ st.dis \in [Nodes -> Int] /\ st.dis[host] = 0 /\ \A n \in Nodes : st.dis[n] >= -1
      /\ st.nextHop \in [Nodes -> Seq(Nodes)]
  BY DEF Ended, Searched
<1>2. ASSUME NEW n \in Nodes, st.dis[n] >= 0, n # host
      PROVE  \E m \in Through(host) : {m, n} \in u /\ st.dis[m] >= 0 /\ st.dis[n] = st.dis[m] + 1
  <2>1. st.nextHop[n] # <<>> /\ st.nextHop[n] \in Seq(Nodes)
    BY <1>1, <1>2 DEF Ended, Searched
  <2>2. 1 \in 1 .. Len(st.nextHop[n])
    BY <2>1
  <2>. QED BY <2>2 DEF Ended, Searched
<1>3. ASSUME NEW m \in Through(host), NEW n \in Nodes, st.dis[m] >= 0, {m, n} \in u
      PROVE  0 <= st.dis[n] /\ st.dis[n] <= st.dis[m] + 1
  BY <1>3 DEF Ended, LookedAt
<1>. QED BY <1>1, <1>2, <1>3 DEF Reach

(* The nodes at most k links away, of which within is the list.            *)
Upto(dis, k) == {n \in Nodes : 0 <= dis[n] /\ dis[n] <= k}
Grown(u, host, near) ==
  near \cup {n \in Nodes : \E m \in near \cap (Switches \cup {host}) : {m, n} \in u}

LEMMA UptoStarts == ASSUME NEW u, NEW host \in Hosts, NEW dis, Reach(u, host, dis) PROVE Upto(dis, 0) = {host}
<1>1. host \in Upto(dis, 0)
  BY ThroughNodes DEF Reach, Upto
<1>2. ASSUME NEW n \in Upto(dis, 0) PROVE n = host
  <2>1. n \in Nodes /\ dis[n] = 0
    BY DEF Reach, Upto
  <2>2. SUFFICES ASSUME n # host PROVE FALSE
    OBVIOUS
  <2>3. PICK m \in Through(host) : dis[m] >= 0 /\ dis[n] = dis[m] + 1
    <3>1. dis[n] >= 0
      BY <2>1
    <3>. QED BY <2>1, <2>2, <3>1 DEF Reach
  <2>4. dis[m] \in Int
    BY ThroughNodes DEF Reach
  <2>. QED BY <2>1, <2>3, <2>4
<1>. QED BY <1>1, <1>2

LEMMA UptoGrows ==
  ASSUME NEW u, NEW host \in Hosts, NEW dis, Reach(u, host, dis), NEW k \in Nat
  PROVE  Upto(dis, k + 1) = Grown(u, host, Upto(dis, k))
<1>1. ASSUME NEW n \in Upto(dis, k + 1) PROVE n \in Grown(u, host, Upto(dis, k))
  <2>1. n \in Nodes /\ dis[n] \in Int /\ 0 <= dis[n] /\ dis[n] <= k + 1
    BY DEF Upto, Reach
  <2>2. CASE dis[n] <= k
    BY <2>1, <2>2 DEF Grown, Upto
  <2>3. CASE ~(dis[n] <= k)
    <3>1. dis[n] = k + 1
      BY <2>1, <2>3
    <3>2. n # host
      BY <3>1 DEF Reach
    <3>3. PICK m \in Through(host) : {m, n} \in u /\ dis[m] >= 0 /\ dis[n] = dis[m] + 1
      BY <2>1, <3>2 DEF Reach
    <3>4. m \in Nodes /\ dis[m] \in Int
      BY ThroughNodes DEF Reach
    <3>5. m \in Upto(dis, k)
      BY <3>1, <3>3, <3>4 DEF Upto
    <3>. QED BY <2>1, <3>3, <3>5 DEF Grown, Through
  <2>. QED BY <2>2, <2>3
<1>2. ASSUME NEW n \in Grown(u, host, Upto(dis, k)) PROVE n \in Upto(dis, k + 1)
  <2>1. CASE n \in Upto(dis, k)
    <3>1. n \in Nodes /\ dis[n] \in Int /\ 0 <= dis[n] /\ dis[n] <= k
      BY <2>1 DEF Upto, Reach
    <3>2. dis[n] <= k + 1
      BY <3>1
    <3>. QED BY <3>1, <3>2 DEF Upto
  <2>2. CASE n \notin Upto(dis, k)
    <3>1. PICK m \in Upto(dis, k) : m \in Through(host) /\ {m, n} \in u /\ n \in Nodes
      BY <2>2 DEF Grown, Through
    <3>2. dis[m] \in Int /\ dis[m] >= 0 /\ dis[m] <= k /\ dis[n] \in Int
      BY <3>1 DEF Upto, Reach
    <3>3. 0 <= dis[n] /\ dis[n] <= dis[m] + 1
      BY <3>1, <3>2 DEF Reach
    <3>4. dis[n] <= k + 1
      BY <3>2, <3>3
    <3>. QED BY <3>1, <3>3, <3>4 DEF Upto
  <2>. QED BY <2>1, <2>2
<1>. QED BY <1>1, <1>2

(* No way is longer than there are nodes: it has one of each distance.     *)
LEMMA ReachIsShort ==
  ASSUME NEW u, NEW host \in Hosts, NEW dis, Reach(u, host, dis), NEW n \in Nodes, dis[n] >= 0
  PROVE  dis[n] \in Nat /\ dis[n] <= Far - 1 /\ Far \in Nat
<1>1. IsFiniteSet(Nodes) /\ Far \in Nat
  BY RoutingAssumption, FS_Union, FS_CardinalityType DEF Nodes, Far
<1>2. PICK z \in Nat : z = dis[n]
  BY DEF Reach
<1>. DEFINE Bad == {e \in 0 .. z : ~\E m \in Nodes : dis[m] = z - e}
<1>3. Bad = {}
  <2> SUFFICES ASSUME Bad # {} PROVE FALSE
    OBVIOUS
  <2>1. Bad \in SUBSET Nat
    OBVIOUS
  <2>. HIDE DEF Bad
  <2>2. PICK e \in Bad : \A f \in Bad : e <= f
    BY <2>1, LeastExists
  <2>3. e \in 0 .. z /\ ~\E m \in Nodes : dis[m] = z - e
    BY <2>2 DEF Bad
  <2>4. e # 0
    BY <1>2, <2>3
  <2>5. e - 1 \in 0 .. z /\ e - 1 \notin Bad
    BY <2>1, <2>2, <2>3, <2>4
  <2>6. PICK x \in Nodes : dis[x] = z - (e - 1)
    BY <2>5 DEF Bad
  <2>7. dis[x] >= 1 /\ dis[x] = z - e + 1
    BY <2>3, <2>4, <2>6
  <2>8. x # host
    BY <2>7 DEF Reach
  <2>9. dis[x] >= 0
    BY <2>3, <2>7
  <2>10. PICK m \in Through(host) : dis[m] >= 0 /\ dis[x] = dis[m] + 1
    BY <2>8, <2>9 DEF Reach
  <2>11. m \in Nodes /\ dis[m] \in Int
    BY ThroughNodes DEF Reach
  <2>12. dis[m] = z - e
    BY <2>3, <2>7, <2>10, <2>11
  <2>. QED BY <2>3, <2>11, <2>12
<1>. DEFINE at == [d \in 0 .. z |-> CHOOSE m \in Nodes : dis[m] = d]
<1>4. ASSUME NEW d \in 0 .. z PROVE at[d] \in Nodes /\ dis[at[d]] = d
  <2>1. z - d \in 0 .. z /\ z - (z - d) = d
    OBVIOUS
  <2>2. z - d \notin Bad
    BY <1>3
  <2>3. \E m \in Nodes : dis[m] = d
    BY <2>1, <2>2
  <2>. QED BY <2>3
<1>5. at \in [0 .. z -> Nodes]
  BY <1>4
<1>. HIDE DEF at
<1>6. at \in Injection(0 .. z, Nodes)
  <2>1. \A c, d \in 0 .. z : at[c] = at[d] => c = d
    BY <1>4
  <2>. QED BY <1>5, <2>1 DEF Injection, IsInjective
<1>7. Cardinality(0 .. z) <= Far
  BY <1>1, <1>6, FS_Injection DEF Far
<1>8. Cardinality(0 .. z) = z + 1
  <2>1. 0 \in Int /\ z \in Int /\ ~(0 > z)
    OBVIOUS
  <2>2. Cardinality(0 .. z) = z - 0 + 1
    BY <2>1, FS_Interval
  <2>. QED BY <2>2
<1>. QED BY <1>1, <1>2, <1>7, <1>8

(* The recursive function of Distances lists them.                         *)
Listed(f, u, host) == f = [k \in 0 .. Far |-> IF k = 0 THEN {host} ELSE Grown(u, host, f[k - 1])]

LEMMA ListedOnce ==
  ASSUME NEW u, NEW host \in Hosts, NEW dis, Reach(u, host, dis), NEW f, Listed(f, u, host),
         NEW k \in 0 .. Far
  PROVE  f[k] = Upto(dis, k)
<1>. DEFINE Bad == {g \in 0 .. Far : f[g] # Upto(dis, g)}
<1>1. CASE Bad = {}
  BY <1>1
<1>2. CASE Bad # {}
  <2>1. Bad \in SUBSET Nat
    OBVIOUS
  <2>. HIDE DEF Bad
  <2>2. PICK g \in Bad : \A h \in Bad : g <= h
    BY <1>2, <2>1, LeastExists
  <2>3. g \in 0 .. Far /\ g \in Nat /\ f[g] # Upto(dis, g)
    BY <2>2 DEF Bad
  <2>4. f[g] = IF g = 0 THEN {host} ELSE Grown(u, host, f[g - 1])
    BY <2>3 DEF Listed
  <2>5. g # 0
    BY <2>3, <2>4, UptoStarts
  <2>6. g - 1 \in 0 .. Far /\ g - 1 \in Nat /\ g - 1 \notin Bad
    <3>1. Far \in Nat
      BY RoutingAssumption, FS_Union, FS_CardinalityType DEF Nodes, Far
    <3>2. g - 1 \in 0 .. Far /\ g - 1 \in Nat /\ ~(g <= g - 1)
      BY <2>3, <2>5, <3>1
    <3>. QED BY <2>2, <3>2
  <2>7. f[g - 1] = Upto(dis, g - 1)
    BY <2>6 DEF Bad
  <2>8. Upto(dis, (g - 1) + 1) = Grown(u, host, Upto(dis, g - 1))
    BY <2>6, UptoGrows
  <2>9. (g - 1) + 1 = g
    BY <2>3
  <2>. QED BY <2>3, <2>4, <2>5, <2>7, <2>8, <2>9
<1>. QED BY <1>1, <1>2

LEMMA ListedExists ==
  ASSUME NEW u, NEW host \in Hosts, NEW dis, Reach(u, host, dis) PROVE \E f : Listed(f, u, host)
<1>. DEFINE f == [k \in 0 .. Far |-> Upto(dis, k)]
<1>0. Far \in Nat
  BY RoutingAssumption, FS_Union, FS_CardinalityType DEF Nodes, Far
<1>1. ASSUME NEW k \in 0 .. Far
      PROVE  f[k] = IF k = 0 THEN {host} ELSE Grown(u, host, f[k - 1])
  <2>1. CASE k = 0
    <3>1. f[k] = Upto(dis, 0)
      BY <2>1
    <3>. QED BY <2>1, <3>1, UptoStarts
  <2>2. CASE k # 0
    <3>1. k - 1 \in Nat /\ k - 1 \in 0 .. Far /\ (k - 1) + 1 = k
      BY <1>0, <2>2
    <3>2. f[k] = Upto(dis, k) /\ f[k - 1] = Upto(dis, k - 1)
      BY <3>1
    <3>3. Upto(dis, (k - 1) + 1) = Grown(u, host, Upto(dis, k - 1))
      BY <3>1, UptoGrows
    <3>. QED BY <2>2, <3>1, <3>2, <3>3
  <2>. QED BY <2>1, <2>2
<1>2. f = [k \in 0 .. Far |-> f[k]]
  OBVIOUS
<1>. HIDE DEF f
<1>3. f = [k \in 0 .. Far |-> IF k = 0 THEN {host} ELSE Grown(u, host, f[k - 1])]
  BY <1>1, <1>2
<1>. QED BY <1>3 DEF Listed

(* So Distances pairs each node with its distance, or with Far.            *)
FarOr(dis, n) == IF dis[n] >= 0 THEN dis[n] ELSE Far

LEMMA DistancesAre ==
  ASSUME NEW u, NEW host \in Hosts, NEW dis, Reach(u, host, dis)
  PROVE  Distances(u, host) = {<<n, FarOr(dis, n)>> : n \in Nodes}
<1>1. PICK f : f = CHOOSE g : Listed(g, u, host)
  OBVIOUS
<1>2. Listed(f, u, host)
  BY <1>1, ListedExists
<1>3. Distances(u, host) = {<<n, Cardinality({k \in 0 .. Far - 1 : n \notin f[k]})>> : n \in Nodes}
  BY <1>1 DEF Distances, Listed, Grown
<1>0. Far \in Nat
  BY RoutingAssumption, FS_Union, FS_CardinalityType DEF Nodes, Far
<1>4. ASSUME NEW n \in Nodes PROVE Cardinality({k \in 0 .. Far - 1 : n \notin f[k]}) = FarOr(dis, n)
  <2>1. ASSUME NEW k \in 0 .. Far - 1 PROVE n \notin f[k] <=> ~(0 <= dis[n] /\ dis[n] <= k)
    <3>1. k \in 0 .. Far
      BY <1>0
    <3>2. f[k] = Upto(dis, k)
      BY <1>2, <3>1, ListedOnce
    <3>. QED BY <3>2 DEF Upto
  <2>2. dis[n] \in Int
    BY DEF Reach
  <2>3. CASE dis[n] >= 0
    <3>1. PICK z \in Nat : z = dis[n] /\ z <= Far - 1
      BY <2>3, ReachIsShort
    <3>2. ASSUME NEW k PROVE k \in {e \in 0 .. Far - 1 : n \notin f[e]} <=> k \in 0 .. z - 1
      BY <1>0, <2>1, <3>1
    <3>3. {e \in 0 .. Far - 1 : n \notin f[e]} = 0 .. z - 1
      BY <3>2
    <3>4. Cardinality(0 .. z - 1) = z
      <4>1. 0 \in Int /\ z - 1 \in Int /\ (0 > z - 1 => z = 0) /\ (z - 1) - 0 + 1 = z
        BY <3>1
      <4>2. Cardinality(0 .. z - 1) = IF 0 > z - 1 THEN 0 ELSE (z - 1) - 0 + 1
        BY <4>1, FS_Interval
      <4>. QED BY <4>1, <4>2
    <3>. QED BY <2>3, <3>1, <3>3, <3>4 DEF FarOr
  <2>4. CASE ~(dis[n] >= 0)
    <3>2. ASSUME NEW k PROVE k \in {e \in 0 .. Far - 1 : n \notin f[e]} <=> k \in 0 .. Far - 1
      BY <2>1, <2>2, <2>4
    <3>3. {e \in 0 .. Far - 1 : n \notin f[e]} = 0 .. Far - 1
      BY <3>2
    <3>4. Cardinality(0 .. Far - 1) = Far
      <4>1. 0 \in Int /\ Far - 1 \in Int /\ (0 > Far - 1 => Far = 0) /\ (Far - 1) - 0 + 1 = Far
        BY <1>0
      <4>2. Cardinality(0 .. Far - 1) = IF 0 > Far - 1 THEN 0 ELSE (Far - 1) - 0 + 1
        BY <4>1, FS_Interval
      <4>. QED BY <4>1, <4>2
    <3>. QED BY <2>4, <3>3, <3>4 DEF FarOr
  <2>. QED BY <2>3, <2>4
<1>. QED BY <1>3, <1>4

(* What RoutesAreShortest says of the next hops of one node to one host.   *)
Nearer(distances, m, n) == \E k \in 0 .. Far - 1 : {<<m, k>>, <<n, k + 1>>} \subseteq distances

LEMMA NearerIs ==
  ASSUME NEW u, NEW host \in Hosts, NEW dis, Reach(u, host, dis), NEW m \in Nodes, NEW n \in Nodes
  PROVE  Nearer(Distances(u, host), m, n) <=>
           FarOr(dis, m) <= Far - 1 /\ FarOr(dis, n) = FarOr(dis, m) + 1
<1>1. \A x, k : <<x, k>> \in Distances(u, host) <=> x \in Nodes /\ k = FarOr(dis, x)
  BY DistancesAre
<1>2. Nearer(Distances(u, host), m, n) <=>
        \E k \in 0 .. Far - 1 : k = FarOr(dis, m) /\ k + 1 = FarOr(dis, n)
  BY <1>1 DEF Nearer
<1>3. FarOr(dis, m) \in Nat /\ Far \in Nat
  <2>1. Far \in Nat
    BY RoutingAssumption, FS_Union, FS_CardinalityType DEF Nodes, Far
  <2>2. dis[m] \in Int
    BY DEF Reach
  <2>. QED BY <2>1, <2>2 DEF FarOr
<1>. QED BY <1>2, <1>3

(* The next hops that the search leaves are those one link nearer.         *)
LEMMA HopsAreNearer ==
  ASSUME NEW u, NEW host \in Hosts, NEW st, Ended(u, host, st), NEW n \in Nodes, NEW m
  PROVE  m \in Numbers(st.nextHop[n]) <=>
           m \in Through(host) \cap Neighbours(u, n) /\ Nearer(Distances(u, host), m, n)
<1>. DEFINE dis == st.dis
<1>1. Reach(u, host, dis)
  BY EndedReaches
<1>2. {m, n} = {n, m}
  OBVIOUS
<1>3. dis[n] \in Int /\ Far \in Nat
  <2>1. Far \in Nat
    BY RoutingAssumption, FS_Union, FS_CardinalityType DEF Nodes, Far
  <2>. QED BY <1>1, <2>1 DEF Reach
<1>4. ASSUME m \in Numbers(st.nextHop[n])
      PROVE  m \in Through(host) \cap Neighbours(u, n) /\ Nearer(Distances(u, host), m, n)
  <2>1. PICK j \in 1 .. Len(st.nextHop[n]) : m = st.nextHop[n][j]
    BY <1>4 DEF Numbers
  <2>2. m \in Through(host) /\ {m, n} \in u /\ dis[m] >= 0 /\ dis[n] = dis[m] + 1
    BY <2>1 DEF Ended, Searched
  <2>3. m \in Nodes /\ dis[m] \in Nat /\ dis[m] <= Far - 1
    <3>1. m \in Nodes
      BY <2>2, ThroughNodes
    <3>. HIDE DEF dis
    <3>. QED BY <1>1, <2>2, <3>1, ReachIsShort
  <2>. HIDE DEF dis
  <2>4. FarOr(dis, m) = dis[m] /\ FarOr(dis, n) = dis[n]
    BY <2>2, <2>3 DEF FarOr
  <2>5. Nearer(Distances(u, host), m, n)
    BY <1>1, <2>2, <2>3, <2>4, NearerIs
  <2>. QED BY <1>2, <2>2, <2>3, <2>5 DEF Neighbours
<1>5. ASSUME m \in Through(host) \cap Neighbours(u, n), Nearer(Distances(u, host), m, n)
      PROVE  m \in Numbers(st.nextHop[n])
  <2>1. m \in Nodes /\ m \in Through(host) /\ {m, n} \in u
    BY <1>2, <1>5, ThroughNodes DEF Neighbours
  <2>. HIDE DEF dis
  <2>2. FarOr(dis, m) <= Far - 1 /\ FarOr(dis, n) = FarOr(dis, m) + 1
    BY <1>1, <1>5, <2>1, NearerIs
  <2>3. dis[m] >= 0 /\ dis[m] \in Int
    BY <1>1, <1>3, <2>1, <2>2 DEF FarOr, Reach
  <2>4. 0 <= dis[n]
    BY <1>1, <2>1, <2>3 DEF Reach
  <2>5. dis[n] = dis[m] + 1
    BY <1>3, <2>2, <2>3, <2>4 DEF FarOr
  <2>6. LookedAt(u, st, m, n)
    BY <2>1, <2>3 DEF Ended, dis
  <2>. QED BY <2>1, <2>5, <2>6 DEF LookedAt, dis
<1>. QED BY <1>4, <1>5

(* A sequence that repeats nothing is as long as the set of what it holds. *)
LEMMA NothingTwice ==
  ASSUME NEW S, NEW s \in Seq(S), \A x, y \in 1 .. Len(s) : s[x] = s[y] => x = y
  PROVE  Len(s) = Cardinality(Numbers(s))
<1>1. PICK z \in Nat : z = Len(s)
  OBVIOUS
<1>2. s \in Surjection(1 .. z, Numbers(s)) /\ s \in Injection(1 .. z, Numbers(s))
  <2>1. s \in [1 .. z -> Numbers(s)]
    <3>1. s = [i \in 1 .. z |-> s[i]]
      BY <1>1
    <3>2. \A i \in 1 .. z : s[i] \in Numbers(s)
      BY <1>1 DEF Numbers
    <3>. QED BY <3>1, <3>2
  <2>2. \A e \in Numbers(s) : \E i \in 1 .. z : s[i] = e
    BY <1>1 DEF Numbers
  <2>3. \A x, y \in 1 .. z : s[x] = s[y] => x = y
    BY <1>1
  <2>. QED BY <2>1, <2>2, <2>3 DEF Surjection, Injection, IsInjective
<1>3. IsFiniteSet(1 .. z) /\ Cardinality(1 .. z) = z
  BY FS_Interval
<1>4. Cardinality(Numbers(s)) = Cardinality(1 .. z)
  BY <1>2, <1>3, FS_Surjection
<1>. QED BY <1>1, <1>3, <1>4

LEMMA CalculatedAreShortest == Calculated(tables, up) => RoutesAreShortest
<1> SUFFICES ASSUME Calculated(tables, up), NEW host \in Hosts, NEW n \in Nodes
             PROVE  /\ Len(tables[n][host]) = Cardinality(Numbers(tables[n][host]))
                    /\ Numbers(tables[n][host]) =
                         {m \in (Switches \cup {host}) \cap Neighbours(up, n) :
                            Nearer(Distances(up, host), m, n)}
  BY DEF RoutesAreShortest, Nearer
<1>1. PICK st : st = Search(up, host)[Looks]
  OBVIOUS
<1>2. Ended(up, host, st)
  BY <1>1, SearchEnds
<1>3. tables[n][host] = st.nextHop[n]
  BY <1>1 DEF Calculated, CalculateRoute
<1>4. Len(st.nextHop[n]) = Cardinality(Numbers(st.nextHop[n]))
  <2>1. st.nextHop[n] \in Seq(Nodes)
    BY <1>2 DEF Ended, Searched
  <2>2. \A x, y \in 1 .. Len(st.nextHop[n]) : st.nextHop[n][x] = st.nextHop[n][y] => x = y
    BY <1>2 DEF Ended
  <2>. QED BY <2>1, <2>2, NothingTwice
<1>5. \A m : m \in Numbers(st.nextHop[n]) <=>
               m \in Through(host) \cap Neighbours(up, n) /\ Nearer(Distances(up, host), m, n)
  BY <1>2, HopsAreNearer
<1>. QED BY <1>3, <1>4, <1>5 DEF Through

(* CalculateRoute and SetRoutingEntries: whatever links go down and in     *)
(* whatever order, the tables of every node name just the neighbours one   *)
(* link closer to each host over the links that are up, each once, and     *)
(* none of them is another host.                                           *)
THEOREM TablesShortest == Spec => []RoutesAreShortest
<1>. DEFINE Inv == Calculated(tables, up)
<1>1. Init => Inv
  BY FirstCalculated DEF Init
<1>2. ASSUME Inv, [Next]_vars PROVE Inv'
  <2>1. ASSUME NEW link \in Links, TakeDownLink(link) PROVE Inv'
    <3>1. tables' = Rerouted(up') /\ Calculated(Rerouted(up'), up')
      BY <2>1, ReroutedCalculated DEF TakeDownLink
    <3>. QED BY <3>1
  <2>2. CASE UNCHANGED routes
    BY <1>2, <2>2 DEF routes, Calculated
  <2>3. ASSUME NEW w \in Wires, NEW c \in Channels,
               ReceiveUdp(w, c) \/ ReceiveAck(w, c) \/ Misled(w, c) \/ SendToDev(w, c)
        PROVE  UNCHANGED routes
    BY <2>3 DEF ReceiveUdp, ReceiveAck, Misled, SendToDev
  <2>4. ASSUME NEW nic \in Nics, NEW f \in Flows, Send(nic, f) PROVE UNCHANGED routes
    BY <2>4 DEF Send
  <2>5. ASSUME NEW nic \in Nics, ClearFinished(nic) PROVE UNCHANGED routes
    BY <2>5 DEF ClearFinished
  <2>6. ScheduleFlowInputs \/ AddQueuePair \/ UNCHANGED vars => UNCHANGED routes
    BY DEF ScheduleFlowInputs, AddQueuePair, vars
  <2>. QED BY <1>2, <2>1, <2>2, <2>3, <2>4, <2>5, <2>6 DEF Next, Receive
<1>3. Inv => RoutesAreShortest
  BY CalculatedAreShortest
<1>. HIDE DEF Inv
<1>. QED BY <1>1, <1>2, <1>3, PTL DEF Spec
=============================================================================
