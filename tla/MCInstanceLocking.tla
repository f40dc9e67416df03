------------------------- MODULE MCInstanceLocking ---------------------------
(* Small instances of InstanceLocking for TLC. *)
EXTENDS InstanceLocking, TLC

Symmetry == Permutations(Clients)
=============================================================================
