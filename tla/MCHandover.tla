----------------------------- MODULE MCHandover -----------------------------
(* Handover for TLC.                                                        *)
EXTENDS Handover, TLC

HSymmetry == Permutations(Call) \cup Permutations(Action) \cup Permutations(Response)
               \cup Permutations(Sup)
=============================================================================
