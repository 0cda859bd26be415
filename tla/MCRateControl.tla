--------------------------- MODULE MCRateControl ---------------------------
(* Every controller over a flow of six segments in a window of three, of   *)
(* which the network loses any two packets.                                *)
EXTENDS RateControl
AnyController == {"hpcc", "hpcc_per_hop", "timely", "dctcp", "pint"}
AnyPacket == Kinds
=============================================================================
