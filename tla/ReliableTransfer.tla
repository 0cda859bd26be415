-------------------------- MODULE ReliableTransfer --------------------------
(***************************************************************************)
(* What a queue pair promises: the Size bytes of a flow are delivered in   *)
(* order and piece by piece, the sender learns of bytes only after they    *)
(* were delivered, and the flow is finished once, when the sender knows    *)
(* that all were.                                                          *)
(***************************************************************************)
EXTENDS Integers

CONSTANTS
  Size,   \* bytes in the flow
  Piece   \* bytes that one packet can deliver

VARIABLES
  delivered,   \* bytes the receiver has got, without a gap
  acked,       \* bytes the sender knows to be delivered
  finished     \* the sender has reported the flow finished

vars == <<delivered, acked, finished>>

Init == delivered = 0 /\ acked = 0 /\ finished = FALSE

(* A packet delivers no more than it holds: nothing is skipped.            *)
Deliver ==
  /\ delivered' \in delivered + 1 .. Size
  /\ delivered' - delivered <= Piece
  /\ UNCHANGED <<acked, finished>>

(* The acknowledgement that covers the last byte finishes the flow.        *)
Confirm ==
  /\ ~finished
  /\ acked' \in acked + 1 .. delivered
  /\ finished' = (acked' = Size)
  /\ UNCHANGED delivered

Next == Deliver \/ Confirm

Spec == Init /\ [][Next]_vars
=============================================================================
