----------------------------- MODULE TierCache ------------------------------
(***************************************************************************)
(* The gateway's cache of provider tiers                                   *)
(* (workers/gateway/src/zero-cost/tier_config_cache.ts): callers probe on  *)
(* a miss or when an entry is stale, one probe for all of them; a timer    *)
(* refreshes the known providers one after the other, and its runs may     *)
(* overlap. A promise that resolves and the code that awaits it are two    *)
(* steps: other continuations run in between. Time is only whether an      *)
(* entry is still fresh.                                                   *)
(***************************************************************************)
EXTENDS Naturals, Sequences

CONSTANTS
  Known,        \* knownProviders, in their order
  Unknown,      \* providers without a probe URL
  Refreshes,    \* runs of refreshAll that may overlap
  MaxProbes     \* bound on the probes of a provider that a model may run at once

Tiered == {Known[i] : i \in DOMAIN Known} \cup Unknown

ASSUME TierAssumption == Known \in Seq(Tiered)

VARIABLES
  cache,        \* [provider -> its entry, or Miss]
  inFlight,     \* the providers in the Map of that name
  probing,      \* [provider -> probes started by callers and not settled]
  settled,      \* the providers whose caller has still to run its finally
  refresh       \* [Refreshes -> the run's place in knownProviders and its state]

tierVars == <<cache, inFlight, probing, settled, refresh>>

Tier == {"free", "paid", "unknown"}
Entry(tier, fresh) == [tier |-> tier, fresh |-> fresh]
Miss == Entry("none", FALSE)
IdleRun == [at |-> 0, state |-> "idle", result |-> Miss]

TierInit ==
  /\ cache = [p \in Tiered |-> Miss]
  /\ inFlight = {} /\ settled = {}
  /\ probing = [p \in Tiered |-> 0]
  /\ refresh = [r \in Refreshes |-> IdleRun]

MutHit(p) == FALSE
Hit(p) == p \in inFlight

(* getProviderTier with a stale or missing entry: fetchOrWait joins the    *)
(* probe under way or starts one and enters it. A fresh entry is answered. *)
getProviderTier(p) ==
  /\ ~cache[p].fresh
  /\ ~Hit(p)
  /\ probing[p] < MaxProbes
  /\ inFlight' = inFlight \cup {p}
  /\ probing' = [probing EXCEPT ![p] = @ + 1]
  /\ UNCHANGED <<cache, settled, refresh>>

(* What doProbe returns and what it writes, once its probe has answered    *)
(* with a tier, or with "unknown" for a failure or without a URL.          *)
Result(p, tier) ==
  IF tier # "unknown" THEN Entry(tier, TRUE)
  ELSE IF cache[p] # Miss THEN cache[p] ELSE Entry("unknown", TRUE)

(* A failure cached over what was known. *)
MutCached(p, tier) == [cache EXCEPT ![p] = Entry(tier, TRUE)]

Cached(p, tier) == IF tier = "unknown" THEN cache ELSE [cache EXCEPT ![p] = Entry(tier, TRUE)]

Answers(p, tier) == p \in Unknown => tier = "unknown"

doProbe(p, tier) ==
  /\ probing[p] > 0
  /\ Answers(p, tier)
  /\ cache' = Cached(p, tier)
  /\ probing' = [probing EXCEPT ![p] = @ - 1]
  /\ settled' = settled \cup {p}
  /\ UNCHANGED <<inFlight, refresh>>

(* fetchOrWait's finally, a later step: the entry leaves inFlight. *)
Finally(p) ==
  /\ p \in settled
  /\ settled' = settled \ {p}
  /\ inFlight' = inFlight \ {p}
  /\ UNCHANGED <<cache, probing, refresh>>

Expires(p) ==
  /\ cache[p].fresh
  /\ cache' = [cache EXCEPT ![p].fresh = FALSE]
  /\ UNCHANGED <<inFlight, probing, settled, refresh>>

Proceeds(r, k) ==
  refresh' = [refresh EXCEPT ![r] =
                IF k > Len(Known) THEN IdleRun
                ELSE [at |-> k, state |-> "probing", result |-> Miss]]

(* The timer starts a run: it calls doProbe itself, past inFlight. *)
TimerFires(r) ==
  /\ refresh[r].state = "idle"
  /\ Proceeds(r, 1)
  /\ UNCHANGED <<cache, inFlight, probing, settled>>

RefreshProbed(r, tier) ==
  /\ refresh[r].state = "probing"
  /\ LET p == Known[refresh[r].at]
     IN  /\ cache' = Cached(p, tier)
         /\ refresh' = [refresh EXCEPT ![r].state = "returning", ![r].result = Result(p, tier)]
  /\ UNCHANGED <<inFlight, probing, settled>>

(* refreshAll goes on with what doProbe returned and caches it, whatever   *)
(* the cache holds by now.                                                 *)
RefreshCaches(r) ==
  /\ refresh[r].state = "returning"
  /\ cache' = [cache EXCEPT ![Known[refresh[r].at]] = refresh[r].result]
  /\ Proceeds(r, refresh[r].at + 1)
  /\ UNCHANGED <<inFlight, probing, settled>>

TierNext ==
  \/ \E p \in Tiered :
       \/ getProviderTier(p)
       \/ \E tier \in Tier : doProbe(p, tier)
       \/ Finally(p)
       \/ Expires(p)
  \/ \E r \in Refreshes :
       \/ TimerFires(r)
       \/ \E tier \in Tier : RefreshProbed(r, tier)
       \/ RefreshCaches(r)

TierSpec == TierInit /\ [][TierNext]_tierVars
-----------------------------------------------------------------------------
(* Callers share one probe per provider, until its result has been handed  *)
(* out, whatever the refresh does meanwhile (tier_config_cache.ts:84-86,   *)
(* 130-144).                                                               *)
CallersShareProbe ==
  \A p \in Tiered :
    /\ probing[p] <= 1
    /\ p \in inFlight <=> (probing[p] = 1 \/ p \in settled)
    /\ ~(probing[p] = 1 /\ p \in settled)

(* A failing probe never costs a known tier: it is replaced only by a tier *)
(* that was probed, or, in the one gap there is, by a refresh whose probe  *)
(* failed when nothing was cached and whose await has not resumed yet      *)
(* (tier_config_cache.ts:172-175, 201, 224-225).                           *)
KnownTierIsKept ==
  [][\A p \in Tiered :
       (cache[p].tier \in {"free", "paid"} /\ cache'[p].tier \notin {"free", "paid"}) =>
         \E r \in Refreshes :
           /\ refresh[r].state = "returning" /\ Known[refresh[r].at] = p
           /\ refresh[r].result.tier = "unknown"]_tierVars
=============================================================================
