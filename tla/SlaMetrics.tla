----------------------------- MODULE SlaMetrics -----------------------------
(***************************************************************************)
(* The SLA counters of the III engine (recordInvocationStart and           *)
(* recordInvocationEnd in iii-engine/src/engine.ts) as operators on a      *)
(* record.  Latencies (totals, extremes, histogram) are abstracted away.   *)
(*                                                                         *)
(* The per-function entries are keyed by `${functionId}@${workerName}'.    *)
(* The end of a call looks its entry up again, under the name the worker   *)
(* has by then, and returns without counting when there is none.           *)
(***************************************************************************)
EXTENDS Naturals

CONSTANTS Keys   \* the pairs <<function id, worker name>>

Entry == [known : BOOLEAN, calls : Nat, errors : Nat, timeouts : Nat]

Sla == [totalCalls : Nat, totalErrors : Nat, totalTimeouts : Nat,
        entries : [Keys -> Entry]]

NoEntry == [known |-> FALSE, calls |-> 0, errors |-> 0, timeouts |-> 0]

ZeroSla == [totalCalls |-> 0, totalErrors |-> 0, totalTimeouts |-> 0,
            entries |-> [k \in Keys |-> NoEntry]]

One(b) == IF b THEN 1 ELSE 0

Opened(e) ==
  [known |-> TRUE, calls |-> e.calls, errors |-> e.errors,
   timeouts |-> e.timeouts]

RecordStart(sla, k) ==
  [totalCalls    |-> sla.totalCalls + 1,
   totalErrors   |-> sla.totalErrors,
   totalTimeouts |-> sla.totalTimeouts,
   entries       |-> [sla.entries EXCEPT ![k] = Opened(@)]]

(* how is "ok", "error" or "timeout"; a timeout is an error too.           *)
MutIsError(how) == how = "error"

IsError(how) == how # "ok"

EntryAfter(e, how) ==
  [known    |-> TRUE,
   calls    |-> e.calls + 1,
   errors   |-> e.errors + One(IsError(how)),
   timeouts |-> e.timeouts + One(how = "timeout")]

RecordEnd(sla, k, how) ==
  IF ~sla.entries[k].known THEN sla
  ELSE [totalCalls    |-> sla.totalCalls,
        totalErrors   |-> sla.totalErrors + One(IsError(how)),
        totalTimeouts |-> sla.totalTimeouts + One(how = "timeout"),
        entries       |-> [sla.entries EXCEPT ![k] = EntryAfter(@, how)]]
=============================================================================
