---------------------------- MODULE MCApprovals ----------------------------
(* Approvals for TLC: the constants are given by the .cfg files.            *)
EXTENDS Approvals, TLC

Symmetry == Permutations(Requests) \cup Permutations(Actions)
=============================================================================
