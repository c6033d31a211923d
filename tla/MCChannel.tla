----------------------------- MODULE MCChannel ------------------------------
(* Small instances of the streaming channel for TLC. *)
EXTENDS Channel, TLC
=============================================================================
