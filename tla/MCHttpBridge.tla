---------------------------- MODULE MCHttpBridge ----------------------------
(* Small instances of the HTTP bridge for TLC. *)
EXTENDS HttpBridge, TLC
=============================================================================
