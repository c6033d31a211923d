----------------------------- MODULE MCServices -----------------------------
(* Small instances of the services that share no state with the engine or  *)
(* with each other, checked in one run: each behaviour picks one of them   *)
(* and takes its steps only, so their state spaces add up.                 *)
EXTENDS Vault, AgentClient, Brain, Distributor, RateLimiter, TierCache, Discovery,
        Orchestrate, TLC

CONSTANTS na, nb, nc, nd, wa, wb, wc, groq, together, custom

MCStages == <<<<na, nb, nc>>, <<nd>>>>
MCCapable == (na :> {wa, wb, wc}) @@ (nb :> {wa, wc}) @@ (nc :> {wb}) @@ (nd :> {wa})
MCKnown == <<groq, together>>
MCReviewScores == {-3, 6, 12}

VARIABLE service    \* which of them runs

servicesVars ==
  <<vaultVars, clientVars, brainVars, distVars, limiterVars, tierVars, discoveryVars, orchVars>>

Services == {"vault", "client", "brain", "distributor", "limiter", "tiers", "discovery",
             "orchestrate"}

MCInit ==
  /\ service \in Services
  /\ VaultInit /\ ClientInit /\ BrainInit /\ DistInit
  /\ LimiterInit /\ TierInit /\ DiscoveryInit /\ OrchInit

MCNext ==
  /\ UNCHANGED service
  /\ \/ /\ service = "vault" /\ VaultNext
        /\ UNCHANGED <<clientVars, brainVars, distVars, limiterVars, tierVars, discoveryVars, orchVars>>
     \/ /\ service = "client" /\ ClientNext
        /\ UNCHANGED <<vaultVars, brainVars, distVars, limiterVars, tierVars, discoveryVars, orchVars>>
     \/ /\ service = "brain" /\ BrainNext
        /\ UNCHANGED <<vaultVars, clientVars, distVars, limiterVars, tierVars, discoveryVars, orchVars>>
     \/ /\ service = "distributor" /\ DistNext
        /\ UNCHANGED <<vaultVars, clientVars, brainVars, limiterVars, tierVars, discoveryVars, orchVars>>
     \/ /\ service = "limiter" /\ LimiterNext
        /\ UNCHANGED <<vaultVars, clientVars, brainVars, distVars, tierVars, discoveryVars, orchVars>>
     \/ /\ service = "tiers" /\ TierNext
        /\ UNCHANGED <<vaultVars, clientVars, brainVars, distVars, limiterVars, discoveryVars, orchVars>>
     \/ /\ service = "discovery" /\ DiscoveryNext
        /\ UNCHANGED <<vaultVars, clientVars, brainVars, distVars, limiterVars, tierVars, orchVars>>
     \/ /\ service = "orchestrate" /\ OrchNext
        /\ UNCHANGED <<vaultVars, clientVars, brainVars, distVars, limiterVars, tierVars, discoveryVars>>

MCSpec == MCInit /\ [][MCNext]_<<servicesVars, service>>

(* What the services' variables hold: keys and passwords of the vault      *)
(* (tui/tui/src/db.py), the client's attempts (aigency_sdk/client.py), the *)
(* brain's threads (workers/brain/src), the orchestrator's counts    *)
(* (workers/engram/src/orchestrate.ts).                                    *)
ServicesTypeOK == VaultTypeOK /\ ClientTypeOK /\ BrainTypeOK /\ OrchTypeOK
=============================================================================
