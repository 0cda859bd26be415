--------------------------- MODULE MCGoBackNModes ---------------------------
(* Three flows that GoBackN models under different constants, one of which *)
(* a behaviour picks:                                                      *)
(*   lossy    a moving window, any three packets lost; its constants are   *)
(*            those of the configuration                                   *)
(*   go_back  a fixed window, one segment but the last or one ACK but the  *)
(*            final is lost; the last segment is short, the ACK interval   *)
(*            longer than a segment and shorter than the flow              *)
(*   to_zero  back-to-zero, three chunks of two segments, one segment      *)
(*            lost, an ACK interval of more than one chunk                 *)
EXTENDS GoBackN

VARIABLE mode

AnyPacket == Kinds

GoBack == INSTANCE GoBackN WITH
  Size <- 9, Mtu <- 2, Chunk <- 4, AckInterval <- 5, BackToZero <- FALSE, Windows <- {6},
  SeqWord <- 64, CountWord <- 1024, HasEndTime <- FALSE, SlowNetwork <- FALSE,
  Reroutes <- FALSE, Losable <- {"data", "ack"}, MaxLosses <- 1, InFlight <- 4

ToZero == INSTANCE GoBackN WITH
  Size <- 12, Mtu <- 2, Chunk <- 4, AckInterval <- 7, BackToZero <- TRUE, Windows <- {6},
  SeqWord <- 64, CountWord <- 1024, HasEndTime <- FALSE, SlowNetwork <- FALSE,
  Reroutes <- FALSE, Losable <- {"data"}, MaxLosses <- 1, InFlight <- 4

modeVars == <<mode, vars>>

AnyInit ==
  \/ mode = "go_back" /\ GoBack!Init
  \/ mode = "to_zero" /\ ToZero!Init
  \/ mode = "lossy" /\ Init

AnyNext ==
  \/ mode = "go_back" /\ GoBack!Next /\ UNCHANGED mode
  \/ mode = "to_zero" /\ ToZero!Next /\ UNCHANGED mode
  \/ mode = "lossy" /\ Next /\ UNCHANGED mode

(* The fairness of GoBackN for the two flows that are to complete.         *)
Sends ==
  \/ mode = "go_back" /\ GoBack!Send(6) /\ UNCHANGED mode
  \/ mode = "to_zero" /\ ToZero!Send(6) /\ UNCHANGED mode
HearsAnswer ==
  \/ mode = "go_back" /\ (\E i \in GoBack!Arriving(toTx) : GoBack!ReceiveAck(i)) /\ UNCHANGED mode
  \/ mode = "to_zero" /\ (\E i \in ToZero!Arriving(toTx) : ToZero!ReceiveAck(i)) /\ UNCHANGED mode
HearsData ==
  \/ mode = "go_back" /\ (\E i \in GoBack!Arriving(toRx) : GoBack!ReceiveUdp(i)) /\ UNCHANGED mode
  \/ mode = "to_zero" /\ (\E i \in ToZero!Arriving(toRx) : ToZero!ReceiveUdp(i)) /\ UNCHANGED mode

AnySpec ==
  /\ AnyInit /\ [][AnyNext]_modeVars
  /\ WF_modeVars(Sends) /\ WF_modeVars(HearsAnswer) /\ WF_modeVars(HearsData)

-----------------------------------------------------------------------------
(* Each flow is a ReliableTransfer: in order, without a gap, with the      *)
(* sender behind the receiver, finished once; with back-to-zero, by whole  *)
(* chunks.                                                                 *)
EachTransfers ==
  /\ Transfer!Init
  /\ [][/\ mode = "lossy" => Transfer!Next \/ UNCHANGED Transfer!vars
        /\ mode = "go_back" => GoBack!Transfer!Next \/ UNCHANGED GoBack!Transfer!vars
        /\ mode = "to_zero" => ToZero!Transfer!Next \/ UNCHANGED ToZero!Transfer!vars]_modeVars

(* After a loss the code recovers from, the flow completes, going back    *)
(* or to zero.                                                             *)
Recovers == mode # "lossy" => Completes
=============================================================================
