------------------------------ MODULE MCEngine ------------------------------
(* Small instances of the call router for TLC. *)
EXTENDS Engine, TLC

CallSymmetry == Permutations(Calls)
=============================================================================
