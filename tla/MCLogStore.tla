------------------------------ MODULE MCLogStore ------------------------------
(* Instances of LogStore for TLC. *)
EXTENDS LogStore, TLC

RotatorSymmetry == Permutations(Rotators)
=============================================================================
