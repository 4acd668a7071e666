------------------------------ MODULE MCLease -------------------------------
(* Lease for TLC: the processes and the inodes are interchangeable.         *)
EXTENDS Lease, TLC

Symmetry == Permutations(Proc) \cup Permutations(Inode)
=============================================================================
