------------------------------ MODULE ByteSums ------------------------------
(***************************************************************************)
(* The sum of a function into the naturals, defined by counting units: f   *)
(* contributes f[d] distinct units for each d in its domain.  It is the    *)
(* sum the fold of the community module Functions computes, in a form      *)
(* whose laws follow from those of Cardinality, without induction.         *)
(***************************************************************************)
EXTENDS Integers, FiniteSets

Units(f) == UNION { {d} \X (1 .. f[d]) : d \in DOMAIN f }

SumOf(f) == Cardinality(Units(f))
=============================================================================
