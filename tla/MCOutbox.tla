------------------------------ MODULE MCOutbox ------------------------------
(* Outbox for TLC: calls, actions and responses are interchangeable.        *)
EXTENDS Outbox, TLC

Symmetry == Permutations(Call) \cup Permutations(Action) \cup Permutations(Response)
=============================================================================
