----------------------------- MODULE MCObserve ------------------------------
(* Observe for TLC: the scalars' values are interchangeable.                *)
EXTENDS Observe, TLC

Symmetry == Permutations(Value)
=============================================================================
