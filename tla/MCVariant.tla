----------------------------- MODULE MCVariant ------------------------------
(***************************************************************************)
(* An instance of Variant for TLC: three variants of two alternatives.     *)
(***************************************************************************)
EXTENDS Variant, TLC

Symmetric == Permutations(Variants) \cup Permutations(Values)
=============================================================================
