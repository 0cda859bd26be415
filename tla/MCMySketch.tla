----------------------------- MODULE MCMySketch -----------------------------
(* Three flows in two rows of two columns: the first two share a column of *)
(* the first row, the last two one of the second.                          *)
EXTENDS MySketch
CONSTANTS f1, f2, f3
MCHash == (f1 :> [i \in Rows |-> "left"]) @@ (f2 :> [i \in Rows |-> IF i = 0 THEN "left" ELSE "right"])
            @@ (f3 :> [i \in Rows |-> "right"])
MCColumns == {"left", "right"}
=============================================================================
