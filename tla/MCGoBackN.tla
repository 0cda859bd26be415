------------------------------ MODULE MCGoBackN ------------------------------
(* Instances of GoBackN for TLC.                                           *)
EXTENDS GoBackN

AnyPacket == Kinds
OnlyData == {"data"}
=============================================================================
