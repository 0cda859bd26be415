------------------------------- MODULE Routing -------------------------------
(***************************************************************************)
(* The scenario's network: the routes computed when it starts and again    *)
(* when a link is taken down, the flows it starts, the tables of switches  *)
(* and of RdmaHw, and which NIC of a host sends a queue pair.              *)
(*                                                                         *)
(* Packets only carry their place in a channel, which is one flow's data   *)
(* or its ACKs.  A channel keeps to one queue of each port, so that its    *)
(* packets stay in order on a link while those of two channels may not.    *)
(* How much a port or a switch can take is in SwitchNode, what the ends    *)
(* make of the packets in GoBackN, when a NIC sends in RdmaNic.            *)
(***************************************************************************)
EXTENDS Integers, Sequences, FiniteSets

CONSTANTS
  Hosts, Switches,
  Order,        \* all nodes, in the order nbr2if holds the neighbours of a node
  Links,        \* the links of the topology, each the set of its two nodes
  FlowNum,      \* flow_num
  Src, Dst,     \* the ends of each flow
  StartTime,    \* when each flow starts
  Packets,      \* bound: the data packets a flow sends, again or not
  Hash,         \* Hash[node][channel]: EcmpHash of a switch, GetHash of a host
  MaxDowns      \* bound: links that are taken down

Nodes == Hosts \cup Switches
Flows == 1 .. FlowNum
Channels == Flows \X {"data", "ack"}
Wires == {w \in Nodes \X Nodes : {w[1], w[2]} \in Links}
Nics == {w \in Wires : w[1] \in Hosts}

ASSUME RoutingAssumption ==
  /\ IsFiniteSet(Hosts) /\ IsFiniteSet(Switches) /\ Hosts \cap Switches = {}
  /\ Order \in Seq(Nodes) /\ Nodes \subseteq {Order[i] : i \in 1 .. Len(Order)}
  /\ \A i, j \in 1 .. Len(Order) : Order[i] = Order[j] => i = j
  /\ \A link \in Links : \E a, b \in Nodes : a # b /\ link = {a, b}
  /\ FlowNum \in Nat
  /\ Src \in [Flows -> Hosts] /\ Dst \in [Flows -> Hosts]
  /\ \A f \in Flows : Src[f] # Dst[f]
  /\ StartTime \in [Flows -> Nat]
  /\ \A f, g \in Flows : f <= g => StartTime[f] <= StartTime[g]
  /\ Packets \in [Flows -> Nat]
  /\ Hash \in [Nodes -> [Channels -> Nat]]
  /\ MaxDowns \in Nat

VARIABLES
  up,       \* the links that are up
  tables,   \* m_rtTable of every node: the next hops towards each host
  idx,      \* flow_input.idx, from 1: the next flow to install
  started,  \* flows whose RdmaClient has run StartApplication
  qpMap,    \* m_qpMap of all hosts
  qpGrp,    \* qpGrp of every NIC: how often each queue pair is in it
  fly,      \* the packets of each channel in the queues for and on each wire
  sent,     \* packets sent in each channel
  moved,    \* packets sent in each channel when routes changed last
  lost      \* packets that did not arrive

routes == <<up, tables>>
pairs == <<idx, started, qpMap, qpGrp>>
vars == <<routes, pairs, fly, sent, moved, lost>>

-----------------------------------------------------------------------------
(* CalculateRoute.                                                         *)
Unseen == -1
Neighbours(u, n) == {m \in Nodes : {n, m} \in u}

(* Faulty variant: a host, too, is searched beyond.                        *)
Middle_Any(n) == TRUE

(* What a path may go through.                                             *)
Middle(n) == n \in Switches

(* The i-th node of the queue looks at the node next.                      *)
Look(u, st, i, next) ==
  LET now == st.q[i]
      isNew == st.dis[next] = Unseen
      dis == IF isNew THEN [st.dis EXCEPT ![next] = st.dis[now] + 1] ELSE st.dis
  IN  IF i > Len(st.q) \/ next \notin Neighbours(u, now) THEN st
      ELSE [q |-> IF isNew /\ Middle(next) THEN Append(st.q, next) ELSE st.q,
            dis |-> dis,
            nextHop |-> IF dis[next] = dis[now] + 1
                        THEN [st.nextHop EXCEPT ![next] = Append(@, now)] ELSE st.nextHop]

(* The two loops as one: the nodes of the queue look at all nodes in turn. *)
Looks == Cardinality(Nodes) * Len(Order)
Start(host) == [q |-> <<host>>,
                dis |-> [n \in Nodes |-> IF n = host THEN 0 ELSE Unseen],
                nextHop |-> [n \in Nodes |-> <<>>]]
Search(u, host) ==
  LET search[k \in 0 .. Looks] ==
        IF k = 0 THEN Start(host)
        ELSE Look(u, search[k - 1], ((k - 1) \div Len(Order)) + 1, Order[((k - 1) % Len(Order)) + 1])
  IN  search

CalculateRoute(u, host) == Search(u, host)[Looks].nextHop

(* Faulty variant: the old entries stay.                                   *)
ClearTable_Not(table) == table

ClearTable(table) == [host \in Hosts |-> <<>>]

(* CalculateRoutes, and SetRoutingEntries over the tables as cleared.      *)
Rerouted(u) ==
  LET nextHop == [host \in Hosts |-> CalculateRoute(u, host)]
  IN  [n \in Nodes |-> [host \in Hosts |->
          ClearTable(tables[n])[host] \o nextHop[host][n]]]

FirstTables ==
  LET nextHop == [host \in Hosts |-> CalculateRoute(Links, host)]
  IN  [n \in Nodes |-> [host \in Hosts |-> nextHop[host][n]]]

(* Every host reaches every other: "We assume at least one NIC is alive".  *)
Alive(table) == \A h, g \in Hosts : h # g => table[h][g] # <<>>

ASSUME ConnectedAssumption == Alive(FirstTables)

-----------------------------------------------------------------------------
To(c) == IF c[2] = "data" THEN Dst[c[1]] ELSE Src[c[1]]

(* Faulty variant: packets take turns.                                     *)
Picked_PerPacket(table, n, c) == table[n][To(c)][(sent[c] % Len(table[n][To(c)])) + 1]

(* GetOutDev, GetNicIdxOfQp and GetNicIdxOfRxQp: the next hop of a channel. *)
Picked(table, n, c) == table[n][To(c)][(Hash[n][c] % Len(table[n][To(c)])) + 1]
HasRoute(table, n, c) == table[n][To(c)] # <<>>

NicOf(table, f) == <<Src[f], Picked(table, Src[f], <<f, "data">>)>>

-----------------------------------------------------------------------------
(* The scenario.                                                           *)
Init ==
  /\ up = Links
  /\ tables = FirstTables
  /\ idx = 1
  /\ started = 0
  /\ qpMap = {}
  /\ qpGrp = [nic \in Nics |-> [f \in Flows |-> 0]]
  /\ fly = [w \in Wires |-> [c \in Channels |-> <<>>]]
  /\ sent = [c \in Channels |-> 0]
  /\ moved = [c \in Channels |-> 0]
  /\ lost = [c \in Channels |-> {}]

(* An RdmaClient is installed for each flow of the time that has come;     *)
(* those of an earlier time have started.                                  *)
ScheduleFlowInputs ==
  /\ started = idx - 1
  /\ \E next \in idx + 1 .. FlowNum + 1 :
       /\ \A f \in idx .. next - 1 : StartTime[f] = StartTime[idx]
       /\ next <= FlowNum => StartTime[next] # StartTime[idx]
       /\ idx' = next
  /\ UNCHANGED <<routes, started, qpMap, qpGrp, fly, sent, moved, lost>>

(* An event of its own for each client, in the order they were installed.  *)
AddQueuePair ==
  LET f == started + 1
  IN  /\ f < idx
      /\ started' = f
      /\ qpMap' = qpMap \cup {f}
      /\ qpGrp' = [qpGrp EXCEPT ![NicOf(tables, f)][f] = @ + 1]
      /\ UNCHANGED <<routes, idx, fly, sent, moved, lost>>

(* Faulty variant: what is in the groups stays there.                      *)
RedistributeQp_NoClear(table) ==
  [nic \in Nics |-> [f \in Flows |->
     qpGrp[nic][f] + IF f \in qpMap /\ NicOf(table, f) = nic THEN 1 ELSE 0]]

(* RedistributeQp of every host.                                           *)
RedistributeQp(table) ==
  [nic \in Nics |-> [f \in Flows |-> IF f \in qpMap /\ NicOf(table, f) = nic THEN 1 ELSE 0]]

Numbers(s) == {s[i] : i \in 1 .. Len(s)}

(* The queues of both ends are emptied, and what is on the wire is dropped *)
(* by a Receive that finds the link down.                                  *)
TakeDownLink(link) ==
  /\ link \in up
  /\ Cardinality(Links \ up) < MaxDowns
  /\ up' = up \ {link}
  /\ tables' = Rerouted(up')
  /\ Alive(tables')
  /\ qpGrp' = RedistributeQp(tables')
  /\ fly' = [w \in Wires |-> IF {w[1], w[2]} = link THEN [c \in Channels |-> <<>>] ELSE fly[w]]
  /\ lost' = [c \in Channels |-> lost[c] \cup
                UNION {Numbers(fly[w][c]) : w \in {v \in Wires : {v[1], v[2]} = link}}]
  /\ moved' = sent
  /\ UNCHANGED <<idx, started, qpMap, sent>>

-----------------------------------------------------------------------------
(* Hosts.                                                                  *)
Put(wires, w, c, n) == [wires EXCEPT ![w][c] = Append(@, n)]

(* DequeueAndTransmit of a NIC takes a segment of a queue pair in its group. *)
Send(nic, f) ==
  LET c == <<f, "data">>
  IN  /\ {nic[1], nic[2]} \in up
      /\ qpGrp[nic][f] > 0 /\ f \in qpMap
      /\ sent[c] < Packets[f]
      /\ sent' = [sent EXCEPT ![c] = @ + 1]
      /\ fly' = Put(fly, nic, c, sent[c] + 1)
      /\ UNCHANGED <<routes, pairs, moved, lost>>

(* GetNextQindex takes queue pairs that are finished off the group.        *)
Finished(nic) == {f \in Flows : qpGrp[nic][f] > 0 /\ f \notin qpMap}

ClearFinished(nic) ==
  /\ \E gone \in SUBSET Finished(nic) :
       /\ gone # {}
       /\ qpGrp' = [qpGrp EXCEPT ![nic] = [f \in Flows |-> IF f \in gone THEN 0 ELSE @[f]]]
  /\ UNCHANGED <<routes, idx, started, qpMap, fly, sent, moved, lost>>

Taken(w, c) == [fly EXCEPT ![w][c] = Tail(@)]

(* ReceiveUdp: the segment is answered, or there is nothing to say.        *)
ReceiveUdp(w, c) ==
  LET ack == <<c[1], "ack">>
      nic == <<w[2], Picked(tables, w[2], ack)>>
  IN  /\ c[2] = "data" /\ w[2] = To(c)
      /\ \/ /\ sent' = [sent EXCEPT ![ack] = @ + 1]
            /\ fly' = Put(Taken(w, c), nic, ack, sent'[ack])
         \/ /\ fly' = Taken(w, c)
            /\ UNCHANGED sent
      /\ UNCHANGED <<routes, pairs, moved, lost>>

(* ReceiveAck: the ACK may be the one that completes the flow.             *)
ReceiveAck(w, c) ==
  /\ c[2] = "ack" /\ w[2] = To(c)
  /\ fly' = Taken(w, c)
  /\ qpMap' \in {qpMap, qpMap \ {c[1]}}
  /\ UNCHANGED <<routes, idx, started, qpGrp, sent, moved, lost>>

(* A host that is not the destination takes the packet for its own.        *)
Misled(w, c) ==
  /\ w[2] \in Hosts /\ w[2] # To(c)
  /\ fly' = Taken(w, c)
  /\ lost' = [lost EXCEPT ![c] = @ \cup {Head(fly[w][c])}]
  /\ UNCHANGED <<routes, pairs, sent, moved>>

-----------------------------------------------------------------------------
(* Switches: SendToDev with the device GetOutDev names, or a drop.         *)
SendToDev(w, c) ==
  LET n == w[2]
      p == Head(fly[w][c])
  IN  /\ n \in Switches
      /\ IF HasRoute(tables, n, c)
           THEN /\ fly' = Put(Taken(w, c), <<n, Picked(tables, n, c)>>, c, p)
                /\ UNCHANGED lost
           ELSE /\ fly' = Taken(w, c)
                /\ lost' = [lost EXCEPT ![c] = @ \cup {p}]
      /\ UNCHANGED <<routes, pairs, sent, moved>>

Receive ==
  \E w \in Wires, c \in Channels :
    /\ fly[w][c] # <<>> /\ {w[1], w[2]} \in up
    /\ ReceiveUdp(w, c) \/ ReceiveAck(w, c) \/ Misled(w, c) \/ SendToDev(w, c)

Next ==
  \/ ScheduleFlowInputs
  \/ AddQueuePair
  \/ \E link \in Links : TakeDownLink(link)
  \/ \E nic \in Nics :
       \/ \E f \in Flows : Send(nic, f)
       \/ ClearFinished(nic)
  \/ Receive

Spec == Init /\ [][Next]_vars

(* QbbChannel schedules a Receive for all that is transmitted, and no PAUSE *)
(* lasts for ever.                                                         *)
FairSpec == Spec /\ WF_vars(Receive)

-----------------------------------------------------------------------------
TypeOK ==
  /\ up \subseteq Links
  /\ idx \in 1 .. FlowNum + 1
  /\ started \in 0 .. idx - 1
  /\ qpMap \subseteq 1 .. started
  /\ qpGrp \in [Nics -> [Flows -> Nat]]
  /\ sent \in [Channels -> Nat]
  /\ \A c \in Channels : moved[c] \in 0 .. sent[c]

(* Each node with its distance from a host, by way of switches; Far if     *)
(* there is no such way.                                                   *)
Far == Cardinality(Nodes)
Distances(u, host) ==
  LET within[k \in 0 .. Far] ==
        IF k = 0 THEN {host}
        ELSE LET near == within[k - 1]
             IN  near \cup {n \in Nodes : \E m \in near \cap (Switches \cup {host}) : {m, n} \in u}
  IN  {<<n, Cardinality({k \in 0 .. Far - 1 : n \notin within[k]})>> : n \in Nodes}

(* CalculateRoute searches a graph in which links go down one after the    *)
(* other.  A table names each neighbour one link closer to the host, by    *)
(* way of switches and over links that are up, once, and no other: so      *)
(* routes have no loop, no host in the middle and no dead link.            *)
RoutesAreShortest ==
  \A host \in Hosts :
    LET distances == Distances(up, host)
        Closer(m, n) == \E k \in 0 .. Far - 1 : {<<m, k>>, <<n, k + 1>>} \subseteq distances
    IN  \A n \in Nodes :
          LET hops == tables[n][host]
          IN  /\ Len(hops) = Cardinality(Numbers(hops))
              /\ Numbers(hops) = {m \in (Switches \cup {host}) \cap Neighbours(up, n) : Closer(m, n)}

(* Groups are emptied and filled anew in mid-flight, while queue pairs     *)
(* start and finish.  One that is not finished is in the group of the NIC  *)
(* its ACKs will trigger, once, and in no other.                           *)
QpAtItsNic ==
  \A f \in qpMap, nic \in Nics :
    qpGrp[nic][f] = IF nic = NicOf(tables, f) THEN 1 ELSE 0

Underway == [c \in Channels |-> UNION {Numbers(fly[w][c]) : w \in Wires}]

Network == INSTANCE PacketNetwork WITH underway <- Underway

(* Packets of a flow that are sent after the last change of routes all     *)
(* arrive, in order, at the right host, although every node picks among    *)
(* several next hops.                                                      *)
ImplementsNetwork == Network!Spec

(* No packet circles for ever: each arrives or is lost, whatever links go  *)
(* down under way.                                                         *)
Arrives ==
  \A c \in Channels : \A n \in 1 .. Packets[c[1]] :
    n \in Underway[c] ~> n \notin Underway[c]
=============================================================================
