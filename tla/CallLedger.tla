----------------------------- MODULE CallLedger -----------------------------
(***************************************************************************)
(* What the engine promises about the calls it makes on behalf of trigger()*)
(* and of HTTP requests, whatever the workers do: a call is issued at most *)
(* once, is answered for at most once, and the totals on /metrics move     *)
(* only when a call is issued or ends, by one.  A call whose worker has    *)
(* changed its name may end uncounted.                                     *)
(***************************************************************************)
EXTENDS Naturals

CONSTANTS Calls

VARIABLES
  fresh,      \* calls never issued
  inFlight,   \* calls issued and not ended
  issued, failed, timedOut   \* the totals

ledgerVars == <<fresh, inFlight, issued, failed, timedOut>>

LedgerInit ==
  /\ fresh = Calls
  /\ inFlight = {}
  /\ issued = 0 /\ failed = 0 /\ timedOut = 0

Issue(c) ==
  /\ c \in fresh
  /\ fresh' = fresh \ {c}
  /\ inFlight' = inFlight \cup {c}
  /\ issued' = issued + 1
  /\ UNCHANGED <<failed, timedOut>>

(* The worker's socket is not open: the call fails as it is issued.        *)
Refuse(c) ==
  /\ c \in fresh
  /\ fresh' = fresh \ {c}
  /\ issued' = issued + 1
  /\ failed' = failed + 1
  /\ UNCHANGED <<inFlight, timedOut>>

(* A request that ends before any worker is called.                        *)
Drop(c) ==
  /\ c \in fresh
  /\ fresh' = fresh \ {c}
  /\ UNCHANGED <<inFlight, issued, failed, timedOut>>

End(c) ==
  /\ c \in inFlight
  /\ inFlight' = inFlight \ {c}
  /\ \/ UNCHANGED <<failed, timedOut>>
     \/ failed' = failed + 1 /\ timedOut' \in {timedOut, timedOut + 1}
  /\ UNCHANGED <<fresh, issued>>

LedgerNext == \E c \in Calls : Issue(c) \/ Refuse(c) \/ Drop(c) \/ End(c)

LedgerSpec == LedgerInit /\ [][LedgerNext]_ledgerVars
=============================================================================
