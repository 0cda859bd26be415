---------------------------- MODULE PacketNetwork ----------------------------
(***************************************************************************)
(* What the sender and receiver of a queue pair rely on: packets that one  *)
(* end sends arrive at the other in the order they were sent, unless the   *)
(* routes change while they are under way; then those already under way    *)
(* may be lost or arrive in any order.                                     *)
(***************************************************************************)
EXTENDS Integers

CONSTANT Channels   \* what travels one way between the ends of a queue pair

VARIABLES
  sent,      \* packets sent so far; they are numbered
  moved,     \* those numbered up to moved were sent before routes changed
  underway,  \* the packets that have neither arrived nor been lost
  lost

vars == <<sent, moved, underway, lost>>

Init ==
  /\ sent = [c \in Channels |-> 0]
  /\ moved = [c \in Channels |-> 0]
  /\ underway = [c \in Channels |-> {}]
  /\ lost = [c \in Channels |-> {}]

Send(c) ==
  /\ sent'[c] = sent[c] + 1
  /\ underway'[c] = underway[c] \cup {sent'[c]}
  /\ lost'[c] = lost[c]

Settled(c) == {n \in underway[c] : n > moved[c]}

(* The oldest packet arrives, or one that was under way when routes changed. *)
Arrive(c) ==
  /\ \E n \in underway[c] :
       /\ n > moved[c] => \A m \in Settled(c) : n <= m
       /\ underway'[c] = underway[c] \ {n}
  /\ sent'[c] = sent[c] /\ lost'[c] = lost[c]

Lose(c) ==
  /\ \E n \in underway[c] :
       /\ n <= moved[c]
       /\ underway'[c] = underway[c] \ {n}
       /\ lost'[c] = lost[c] \cup {n}
  /\ sent'[c] = sent[c]

Rest(c) ==
  sent'[c] = sent[c] /\ underway'[c] = underway[c] /\ lost'[c] = lost[c]

(* A packet that arrives may be answered at once on another channel.       *)
Traffic ==
  /\ \A c \in Channels : Send(c) \/ Arrive(c) \/ Lose(c) \/ Rest(c)
  /\ moved' = moved

Reroute ==
  /\ moved' = sent /\ sent' = sent
  /\ \A c \in Channels :
       /\ underway'[c] \subseteq underway[c]
       /\ lost'[c] = lost[c] \cup (underway[c] \ underway'[c])

Next == Traffic \/ Reroute

Spec == Init /\ [][Next]_vars
=============================================================================
