----------------------------- MODULE MCRouting -----------------------------
(* Two hosts with two links each and four switches between them: four       *)
(* paths of the same length.                                                *)
EXTENDS Routing

CONSTANTS A, B, s1, s2, s3, s4

MCOrder == <<A, B, s1, s2, s3, s4>>
MCLinks ==
  {{A, s1}, {A, s2}, {B, s3}, {B, s4}, {s1, s3}, {s1, s4}, {s2, s3}, {s2, s4}}
MCSrc == <<A, B>>
MCDst == <<B, A>>
MCStartTime == <<1, 2>>
MCPackets == <<2, 0>>
MCHash == [n \in Nodes |-> [c \in Channels |->
             IF n \in {A, s3} THEN c[1] ELSE IF c[2] = "ack" THEN 1 ELSE 0]]
=============================================================================
