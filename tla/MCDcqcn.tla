------------------------------- MODULE MCDcqcn -------------------------------
(* Instance of Dcqcn for TLC.                                              *)
EXTENDS Dcqcn
=============================================================================
