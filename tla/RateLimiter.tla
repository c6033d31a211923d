---------------------------- MODULE RateLimiter -----------------------------
(***************************************************************************)
(* The gateway's token buckets (workers/gateway/src/rate-limiter.ts), one  *)
(* per key, at most maxKeys of them. Tokens are counted in 1 / windowMs of *)
(* a token, so that refilling is exact: capacity units accrue per          *)
(* millisecond. Time is what Date.now() says: it may also step back.       *)
(***************************************************************************)
EXTENDS Naturals, Sequences

CONSTANTS Keys, capacity, windowMs, maxKeys,
  MaxNow      \* bound on the clock

ASSUME LimiterAssumption ==
  {capacity, windowMs, maxKeys} \subseteq Nat \ {0} /\ MaxNow \in Nat

VARIABLES
  buckets,    \* [key -> bucket] for the keys that have one
  order,      \* the keys of the Map in order of insertion
  now,
  granted,    \* [key -> requests allowed since its bucket was made]
  madeAt      \* [key -> when that was]

limiterVars == <<buckets, order, now, granted, madeAt>>

Token == windowMs
Full == capacity * Token
Smaller(a, b) == IF a < b THEN a ELSE b

LimiterInit ==
  /\ buckets = [k \in {} |-> 0] /\ order = <<>> /\ now = 0
  /\ granted = [k \in Keys |-> 0] /\ madeAt = [k \in Keys |-> 0]

(* A refill that does not move the time of the last one. *)
MutRefill(b) ==
  IF now <= b.lastRefillMs THEN b
  ELSE [b EXCEPT !.tokens = Smaller(Full, b.tokens + (now - b.lastRefillMs) * capacity)]

refill(b) ==
  IF now <= b.lastRefillMs THEN b
  ELSE [tokens |-> Smaller(Full, b.tokens + (now - b.lastRefillMs) * capacity),
        lastRefillMs |-> now]

(* evictIfNeeded: the key inserted first goes, with its bucket. *)
Kept(keys) == IF Len(keys) > maxKeys THEN Tail(keys) ELSE keys

consume(key) ==
  LET isNew == key \notin DOMAIN buckets
      bucket == IF isNew THEN [tokens |-> Full, lastRefillMs |-> now] ELSE refill(buckets[key])
      allowed == bucket.tokens >= Token
      keys == IF isNew THEN Kept(Append(order, key)) ELSE order
  IN  /\ order' = keys
      /\ buckets' = [k \in {keys[i] : i \in DOMAIN keys} |->
                       IF k # key THEN buckets[k]
                       ELSE IF allowed THEN [bucket EXCEPT !.tokens = @ - Token]
                       ELSE bucket]
      /\ granted' = [granted EXCEPT ![key] = (IF isNew THEN 0 ELSE @) + (IF allowed THEN 1 ELSE 0)]
      /\ madeAt' = IF isNew THEN [madeAt EXCEPT ![key] = now] ELSE madeAt
      /\ UNCHANGED now

(* Map.delete; a key without a bucket changes nothing. *)
Place(key) == CHOOSE i \in DOMAIN order : order[i] = key

reset(key) ==
  /\ key \in DOMAIN buckets
  /\ order' = SubSeq(order, 1, Place(key) - 1) \o SubSeq(order, Place(key) + 1, Len(order))
  /\ buckets' = [k \in DOMAIN buckets \ {key} |-> buckets[k]]
  /\ UNCHANGED <<now, granted, madeAt>>

(* Without a key: Map.clear. *)
resetAll ==
  /\ order' = <<>>
  /\ buckets' = [k \in {} |-> 0]
  /\ UNCHANGED <<now, granted, madeAt>>

ClockReads(t) == now' = t /\ UNCHANGED <<buckets, order, granted, madeAt>>

LimiterNext ==
  \/ \E k \in Keys : consume(k) \/ reset(k)
  \/ resetAll
  \/ \E t \in 0 .. MaxNow : ClockReads(t)

LimiterSpec == LimiterInit /\ [][LimiterNext]_limiterVars
-----------------------------------------------------------------------------
(* A key is never allowed more than a full bucket plus what has accrued    *)
(* since its bucket was made, even if the clock steps back and on again;   *)
(* only losing the bucket (eviction, reset) gives it a full one again, and *)
(* there are never more than maxKeys (rate-limiter.ts:44-99).              *)
GrantsAreBounded ==
  /\ Len(order) <= maxKeys
  /\ DOMAIN buckets = {order[i] : i \in DOMAIN order}
  /\ \A k \in DOMAIN buckets :
       /\ buckets[k].tokens <= Full
       /\ buckets[k].lastRefillMs >= madeAt[k]
       /\ granted[k] * Token + buckets[k].tokens
            <= Full + (buckets[k].lastRefillMs - madeAt[k]) * capacity
=============================================================================
