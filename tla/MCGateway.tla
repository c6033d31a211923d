----------------------------- MODULE MCGateway ------------------------------
(* Small instances of the gateway for TLC. *)
EXTENDS Gateway, TLC

CONSTANTS groq, together, paid

MCProviders == {groq, together, paid}
MCFree == {groq, together}
MCChains == {<<>>, <<groq, paid, together>>}
MCLimits == {[p \in MCProviders |-> IF p = groq THEN n ELSE 1] : n \in {1, 2}}
=============================================================================
