---------------------------- MODULE MCSwitchNode ----------------------------
(* Instances of SwitchNode for TLC.                                        *)
EXTENDS SwitchNode, TLC

CONSTANTS p1, p2, k1, k2

MCHeadroom == p1 :> 2 @@ p2 :> 1
MCPfcShare == p1 :> 2 @@ p2 :> 1

MCSymmetry == Permutations(Pkts)
=============================================================================
