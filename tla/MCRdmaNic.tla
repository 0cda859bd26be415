------------------------------ MODULE MCRdmaNic ------------------------------
(* Instances of RdmaNic for TLC.                                           *)
EXTENDS RdmaNic, TLC

CONSTANTS q1, q2, q3

(* Two flows of a priority of their own, a third in the ACKs' priority.    *)
MCPg == q1 :> 1 @@ q2 :> 1 @@ q3 :> 3
MCSize == q1 :> 1 @@ q2 :> 2 @@ q3 :> 1

(* m_var_win: half the rate, half the window.                              *)
MCWin == 1 :> 2 @@ 2 :> 1
=============================================================================
