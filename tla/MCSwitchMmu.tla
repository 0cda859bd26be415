----------------------------- MODULE MCSwitchMmu -----------------------------
(* Instances of SwitchMmu for TLC.                                         *)
EXTENDS SwitchMmu, TLC

CONSTANTS p1, p2, k1, k2, k3, k4, k5

(* One port with ample headroom and a halved threshold, one with little    *)
(* headroom and the whole of the pool for a threshold.                     *)
MCHeadroom == p1 :> 3 @@ p2 :> 2
MCPfcShare == p1 :> 2 @@ p2 :> 1

(* A single port with the whole of the pool for a threshold.               *)
MCOneHeadroom == p1 :> 3
MCOneShare == p1 :> 1

MCSymmetry == Permutations(Pkts)
=============================================================================
