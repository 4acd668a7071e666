------------------------------ MODULE MCMemory ------------------------------
(* MemoryStore for TLC.                                                     *)
EXTENDS MemoryStore, TLC

CONSTANTS a1, a2, p1, p2

\* Two processes of one agent.
Shared == (p1 :> a1) @@ (p2 :> a1)

Symmetry == Permutations(Fact)
=============================================================================
