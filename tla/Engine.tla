------------------------------- MODULE Engine -------------------------------
(***************************************************************************)
(* The III engine's call router (iii-engine/src/engine.ts): calls the      *)
(* engine makes itself (trigger() and HTTP requests, kept in the map       *)
(* `pending' with a timer each), calls it forwards between workers (kept   *)
(* in `workerInvocations', without a timer), the answers, and shutdown.    *)
(*                                                                         *)
(* The engine is one Node process: a handler runs to completion and is one *)
(* action; sockets, timers and requests interleave between handlers.       *)
(***************************************************************************)
EXTENDS Registry, FiniteSets

CONSTANTS
  Calls,           \* invocation ids (random UUIDs, never reused)
  ChatFn,          \* the function of path /v1/chat/completions
  DefaultHttpFn    \* "gateway::http"

ASSUME FnAssumption == {ChatFn, DefaultHttpFn} \subseteq Functions

Metrics == INSTANCE SlaMetrics WITH Keys <- Functions \X (WorkerId \cup Names)

VARIABLES
  phase,               \* "running", "draining" (shutdown waits) or "exited"
  call,                \* who called what, and where it was sent
  outcome,             \* how far each call has got, as its caller sees it
  pending,             \* keys of the map `pending'
  timers,              \* calls whose invocation timer is armed
  workerInvocations,   \* keys of the map `workerInvocations'
  inbox,               \* inbox[w]: calls w has received and not answered
  sla,                 \* the metrics
  renamedInFlight      \* history: a worker changed its name during a call

callVars ==
  <<call, outcome, pending, timers, workerInvocations, inbox, sla>>

vars == <<registryVars, callVars, phase, renamedInFlight>>

Open == {"routing", "connecting", "waiting"}
Settled == {"ok", "error", "timeout", "notConnected", "notFound",
            "unavailable", "channelError", "undelivered"}

(* caller = NoWorker for the engine's own calls.                           *)
Call == [caller : WorkerId \cup {NoWorker}, target : WorkerId \cup {NoWorker},
         fn : Functions]

EngineCalls == {c \in Calls : call[c].caller = NoWorker}

TypeOK ==
  /\ RegistryTypeOK
  /\ phase \in {"running", "draining", "exited"}
  /\ call \in [Calls -> Call]
  /\ outcome \in [Calls -> {"idle"} \cup Open \cup Settled]
  /\ pending \in SUBSET Calls
  /\ timers \in SUBSET Calls
  /\ workerInvocations \in SUBSET Calls
  /\ inbox \in [WorkerId -> SUBSET Calls]
  /\ sla \in Metrics!Sla
  /\ renamedInFlight \in BOOLEAN

Init ==
  /\ RegistryInit
  /\ phase = "running"
  /\ call = [c \in Calls |->
               [caller |-> NoWorker, target |-> NoWorker, fn |-> ChatFn]]
  /\ outcome = [c \in Calls |-> "idle"]
  /\ pending = {} /\ timers = {} /\ workerInvocations = {}
  /\ inbox = [w \in WorkerId |-> {}]
  /\ sla = Metrics!ZeroSla
  /\ renamedInFlight = FALSE

-----------------------------------------------------------------------------
(* Connections and registrations.                                          *)

(* New connections are accepted until shutdown closes the server.          *)
WorkerConnects ==
  /\ phase = "running"
  /\ Connect
  /\ UNCHANGED <<callVars, phase, renamedInFlight>>

WorkerRegistration(w) ==
  /\ phase # "exited"
  /\ RegistryMessage(w)
  /\ renamedInFlight' = (renamedInFlight \/
       (name'[w] # name[w] /\ \E c \in pending : call[c].target = w))
  /\ UNCHANGED <<callVars, phase>>

ConnectionDrops(w) ==
  /\ phase # "exited"
  /\ SocketCloses(w)
  /\ UNCHANGED <<callVars, phase, renamedInFlight>>

(* What was in the worker's hands can no longer be answered; the engine's  *)
(* own tables are not touched.                                             *)
ConnectionClosed(w) ==
  /\ phase # "exited"
  /\ OnClose(w)
  /\ inbox' = [inbox EXCEPT ![w] = {}]
  /\ UNCHANGED <<call, outcome, pending, timers, workerInvocations, sla,
                 phase, renamedInFlight>>

-----------------------------------------------------------------------------
(* Calls of the engine itself.                                             *)

CallTo(w, f) == [caller |-> NoWorker, target |-> w, fn |-> f]

MetricKey(f, w) == <<f, name[w]>>

MutSendInvocation(c, w, f) ==
  /\ call' = [call EXCEPT ![c] = CallTo(w, f)]
  /\ LET started == Metrics!RecordStart(sla, MetricKey(f, w)) IN
     IF ws[w] = "open"
     THEN /\ pending' = pending \cup {c}
          /\ inbox' = [inbox EXCEPT ![w] = @ \cup {c}]
          /\ outcome' = [outcome EXCEPT ![c] = "waiting"]
          /\ sla' = started
     ELSE /\ outcome' = [outcome EXCEPT ![c] = "notConnected"]
          /\ sla' = Metrics!RecordEnd(started, MetricKey(f, w), "error")
          /\ UNCHANGED <<pending, inbox>>
  /\ UNCHANGED <<workerInvocations, timers>>

(* sendInvocation: the call is recorded and its timer armed before the     *)
(* socket is looked at; if it is not open all that is undone at once.      *)
SendInvocation(c, w, f) ==
  /\ call' = [call EXCEPT ![c] = CallTo(w, f)]
  /\ LET started == Metrics!RecordStart(sla, MetricKey(f, w)) IN
     IF ws[w] = "open"
     THEN /\ pending' = pending \cup {c}
          /\ timers' = timers \cup {c}
          /\ inbox' = [inbox EXCEPT ![w] = @ \cup {c}]
          /\ outcome' = [outcome EXCEPT ![c] = "waiting"]
          /\ sla' = started
     ELSE /\ outcome' = [outcome EXCEPT ![c] = "notConnected"]
          /\ sla' = Metrics!RecordEnd(started, MetricKey(f, w), "error")
          /\ UNCHANGED <<pending, timers, inbox>>
  /\ UNCHANGED workerInvocations

Finish(c, how) ==
  /\ outcome' = [outcome EXCEPT ![c] = how]
  /\ UNCHANGED <<call, pending, timers, workerInvocations, inbox, sla>>

(* trigger(): throws once shutting down, before any state is touched.      *)
Trigger(c, f) ==
  /\ phase = "running"
  /\ outcome[c] = "idle"
  /\ IF Owners(f) = {} THEN Finish(c, "notFound")
                       ELSE SendInvocation(c, First(Owners(f)), f)
  /\ UNCHANGED <<registryVars, phase, renamedInFlight>>

(* An HTTP request that is routed to a worker.  The worker is read when    *)
(* the request arrives, the function when its body has been read, and the  *)
(* call is made when the engine's reader socket on the response channel    *)
(* has opened: each may be stale by the next step.                         *)
HttpArrives(c) ==
  /\ phase # "exited"
  /\ outcome[c] = "idle"
  /\ IF phase = "draining" \/ httpTriggerWorker = NoWorker
     THEN Finish(c, "unavailable")
     ELSE /\ call' = [call EXCEPT ![c] = CallTo(httpTriggerWorker, @.fn)]
          /\ outcome' = [outcome EXCEPT ![c] = "routing"]
          /\ UNCHANGED <<pending, timers, workerInvocations, inbox, sla>>
  /\ UNCHANGED <<registryVars, phase, renamedInFlight>>

HttpFunctions ==
  {ChatFn} \cup (IF HttpWorkers = {} THEN {DefaultHttpFn}
                                     ELSE httpTriggers[First(HttpWorkers)])

HttpBodyRead(c) ==
  /\ phase # "exited"
  /\ outcome[c] = "routing"
  /\ \E f \in HttpFunctions : call' = [call EXCEPT ![c] = CallTo(@.target, f)]
  /\ outcome' = [outcome EXCEPT ![c] = "connecting"]
  /\ UNCHANGED <<pending, timers, workerInvocations, inbox, sla, registryVars,
                 phase, renamedInFlight>>

HttpReaderOpens(c) ==
  /\ phase # "exited"
  /\ outcome[c] = "connecting"
  /\ SendInvocation(c, call[c].target, call[c].fn)
  /\ UNCHANGED <<registryVars, phase, renamedInFlight>>

HttpReaderFails(c) ==
  /\ phase # "exited"
  /\ outcome[c] = "connecting"
  /\ Finish(c, "channelError")
  /\ UNCHANGED <<registryVars, phase, renamedInFlight>>

-----------------------------------------------------------------------------
(* Calls forwarded from one worker to another.                             *)

(* ws.send on a socket that is not open drops the message silently.        *)
WorkerInvokes(c, w, f) ==
  /\ phase # "exited"
  /\ ws[w] = "open"
  /\ outcome[c] = "idle"
  /\ LET others == OtherOwners(f, w) IN
     IF others = {}
     THEN /\ call' = [call EXCEPT ![c] =
                        [caller |-> w, target |-> NoWorker, fn |-> f]]
          /\ outcome' = [outcome EXCEPT ![c] = "notFound"]
          /\ UNCHANGED <<workerInvocations, inbox>>
     ELSE LET t == First(others) IN
          /\ call' = [call EXCEPT ![c] = [caller |-> w, target |-> t, fn |-> f]]
          /\ outcome' = [outcome EXCEPT ![c] = "waiting"]
          /\ workerInvocations' = workerInvocations \cup {c}
          /\ inbox' = IF ws[t] = "open" THEN [inbox EXCEPT ![t] = @ \cup {c}]
                                        ELSE inbox
  /\ UNCHANGED <<pending, timers, sla, registryVars, phase, renamedInFlight>>

-----------------------------------------------------------------------------
(* Answers and timeouts.                                                   *)

(* The name is read again at the end of the call.                          *)
EndCall(c, how) ==
  /\ pending' = pending \ {c}
  /\ outcome' = [outcome EXCEPT ![c] = how]
  /\ sla' = Metrics!RecordEnd(sla, MetricKey(call[c].fn, call[c].target), how)

(* handleInvocationResult: how is "ok" or "error".  The table of forwarded *)
(* calls is looked at first; the answer to a call that has ended is logged *)
(* and ignored.                                                            *)
PassOn(c, how) ==
  /\ c \in workerInvocations
  /\ workerInvocations' = workerInvocations \ {c}
  /\ outcome' = [outcome EXCEPT ![c] =
       IF ws[call[c].caller] = "open" THEN how ELSE "undelivered"]
  /\ UNCHANGED <<pending, timers, sla>>

MutAccept(c, how) ==
  /\ c \in pending \ workerInvocations
  /\ outcome' = [outcome EXCEPT ![c] = how]
  /\ sla' = Metrics!RecordEnd(sla, MetricKey(call[c].fn, call[c].target), how)
  /\ UNCHANGED <<pending, timers, workerInvocations>>

Accept(c, how) ==
  /\ c \in pending \ workerInvocations
  /\ timers' = timers \ {c}
  /\ EndCall(c, how)
  /\ UNCHANGED workerInvocations

Ignore(c) ==
  /\ c \notin pending \cup workerInvocations
  /\ UNCHANGED <<outcome, pending, timers, workerInvocations, sla>>

InvocationResult(w, c, how) ==
  /\ phase # "exited"
  /\ ws[w] = "open"
  /\ c \in inbox[w]
  /\ inbox' = [inbox EXCEPT ![w] = @ \ {c}]
  /\ PassOn(c, how) \/ Accept(c, how) \/ Ignore(c)
  /\ UNCHANGED <<call, registryVars, phase, renamedInFlight>>

(* The timer fires; pending.delete tells it whether the call is still on.  *)
MutTimeoutKeepsPending(c) ==
  /\ phase # "exited"
  /\ c \in timers
  /\ timers' = timers \ {c}
  /\ outcome' = [outcome EXCEPT ![c] = "timeout"]
  /\ sla' = Metrics!RecordEnd(sla, MetricKey(call[c].fn, call[c].target), "timeout")
  /\ UNCHANGED <<pending, call, workerInvocations, inbox, registryVars, phase,
                 renamedInFlight>>

Timeout(c) ==
  /\ phase # "exited"
  /\ c \in timers
  /\ timers' = timers \ {c}
  /\ IF c \in pending THEN EndCall(c, "timeout")
                      ELSE UNCHANGED <<pending, outcome, sla>>
  /\ UNCHANGED <<call, workerInvocations, inbox, registryVars, phase,
                 renamedInFlight>>

-----------------------------------------------------------------------------
(* Shutdown (SIGTERM or SIGINT), which ends in process.exit(0).            *)

CloseEverything ==
  /\ ws' = [w \in WorkerId |-> IF w \in workers /\ ws[w] = "open"
                               THEN "closing" ELSE ws[w]]
  /\ workers' = {}
  /\ phase' = "exited"
  /\ UNCHANGED <<nextWorker, name, functions, httpTriggers, httpTriggerWorker,
                 messages>>

(* Only the engine's own pending calls make shutdown wait.                 *)
Shutdown ==
  /\ phase = "running"
  /\ IF pending = {} THEN CloseEverything
                     ELSE phase' = "draining" /\ UNCHANGED registryVars
  /\ UNCHANGED <<callVars, renamedInFlight>>

(* The wait is a fixed time, min(timeout, 5000): it ends with calls still  *)
(* pending, and does not end early when they are all done.                 *)
DrainTimeIsUp ==
  /\ phase = "draining"
  /\ CloseEverything
  /\ UNCHANGED <<callVars, renamedInFlight>>

-----------------------------------------------------------------------------
Next ==
  \/ WorkerConnects
  \/ \E w \in WorkerId : \/ WorkerRegistration(w)
                         \/ ConnectionDrops(w)
                         \/ ConnectionClosed(w)
  \/ \E c \in Calls : \/ \E f \in Functions : Trigger(c, f)
                      \/ HttpArrives(c)
                      \/ HttpBodyRead(c)
                      \/ HttpReaderOpens(c)
                      \/ HttpReaderFails(c)
                      \/ Timeout(c)
  \/ \E c \in Calls, w \in WorkerId :
       \/ \E f \in Functions : WorkerInvokes(c, w, f)
       \/ \E how \in {"ok", "error"} : InvocationResult(w, c, how)
  \/ Shutdown
  \/ DrainTimeIsUp

Spec == Init /\ [][Next]_vars

(***************************************************************************)
(* Timers fire, a started HTTP request is read and its local socket opens  *)
(* or fails, and the shutdown wait ends.  Nothing is assumed of workers:   *)
(* they may stay silent or keep their connection for ever.                 *)
(***************************************************************************)
Fairness ==
  /\ \A c \in Calls : /\ WF_vars(Timeout(c))
                      /\ WF_vars(HttpBodyRead(c))
                      /\ WF_vars(HttpReaderOpens(c) \/ HttpReaderFails(c))
  /\ WF_vars(DrainTimeIsUp)

FairSpec == Spec /\ Fairness

-----------------------------------------------------------------------------
(* Properties.                                                             *)

(***************************************************************************)
(* The engine's tables agree with each other and with the fate of every    *)
(* call: the map `pending' holds exactly the engine's own calls that have  *)
(* no answer yet, each with a live timer; `workerInvocations' holds exactly*)
(* the forwarded calls whose caller is still owed an answer; and a worker  *)
(* only ever holds calls that were sent to it.  Answers, timeouts, closing *)
(* sockets and shutdown in any order must keep all three true.             *)
(***************************************************************************)
PendingIsUnanswered ==
  /\ pending = {c \in EngineCalls : outcome[c] = "waiting"}
  /\ timers = pending

ForwardedIsUnanswered ==
  workerInvocations = {c \in Calls \ EngineCalls : outcome[c] = "waiting"}

InboxWasSent ==
  \A w \in WorkerId : \A c \in inbox[w] :
    /\ call[c].target = w
    /\ outcome[c] \notin {"idle", "routing", "connecting"}

(* Only forwarded calls have a caller, and a call that is being routed or   *)
(* awaits its answer has a target.                                         *)
CallShape ==
  \A c \in Calls :
    /\ outcome[c] \in {"idle", "routing", "connecting"}
         => call[c].caller = NoWorker
    /\ outcome[c] \in Open => call[c].target \in WorkerId

EngineInv ==
  /\ TypeOK
  /\ CallShape
  /\ PendingIsUnanswered
  /\ ForwardedIsUnanswered
  /\ InboxWasSent

(***************************************************************************)
(* /metrics against the truth.  As long as no worker has changed its name  *)
(* during a call, the totals are the number of calls made, of those that   *)
(* failed and of those that timed out, and the per-function entries add up *)
(* to the calls that have ended.  A rename may lose the end of a call (its *)
(* entry is looked up under the new name) but never counts one twice, so   *)
(* the error rate derived from the totals stays at or below 100%.          *)
(***************************************************************************)
With(states) == Cardinality({c \in EngineCalls : outcome[c] \in states})

(* The sum of the values of a function, one pair for each unit of it.      *)
Units(count) == UNION {{k} \X (1 .. count[k]) : k \in DOMAIN count}
SumOf(count) == Cardinality(Units(count))

MetricKeys == Functions \X (WorkerId \cup Names)
CallsOf(s) == [k \in MetricKeys |-> s.entries[k].calls]
ErrorsOf(s) == [k \in MetricKeys |-> s.entries[k].errors]
TimeoutsOf(s) == [k \in MetricKeys |-> s.entries[k].timeouts]

SlaAgreesWithOutcomes ==
  LET ended == With({"ok", "error", "timeout", "notConnected"})
      failed == With({"error", "timeout", "notConnected"})
  IN  /\ sla.totalCalls = ended + Cardinality(pending)
      /\ sla.totalErrors = SumOf(ErrorsOf(sla))
      /\ sla.totalTimeouts = SumOf(TimeoutsOf(sla))
      /\ SumOf(CallsOf(sla)) <= ended
      /\ sla.totalErrors <= failed
      /\ ~renamedInFlight =>
           /\ SumOf(CallsOf(sla)) = ended
           /\ sla.totalErrors = failed
           /\ sla.totalTimeouts = With({"timeout"})

(***************************************************************************)
(* While the engine runs, the worker it remembers for HTTP requests is     *)
(* connected: /ready never answers 200 on the strength of a dead worker.   *)
(***************************************************************************)
HttpWorkerIsConnected ==
  phase # "exited" => httpTriggerWorker \in workers \cup {NoWorker}

(***************************************************************************)
(* The ledger the call router implements.                                  *)
(***************************************************************************)
Fresh == {c \in Calls : outcome[c] \in {"idle", "routing", "connecting"}}

Ledger == INSTANCE CallLedger WITH
  fresh <- Fresh,
  inFlight <- pending,
  issued <- sla.totalCalls,
  failed <- sla.totalErrors,
  timedOut <- sla.totalTimeouts

ImplementsLedger == Ledger!LedgerSpec

(***************************************************************************)
(* Every call the engine makes itself gets an answer, an error or a        *)
(* timeout even if the worker never answers or its socket dies, unless the *)
(* engine exits first.                                                     *)
(***************************************************************************)
EngineCallsSettle ==
  \A c \in Calls :
    (outcome[c] \in Open /\ call[c].caller = NoWorker)
      ~> (outcome[c] \in Settled \/ phase = "exited")

(***************************************************************************)
(* README.md of the engine: /ready "returns 200 if at least one HTTP       *)
(* trigger worker is connected".                                           *)
(***************************************************************************)
ReadyWhenHttpWorkerConnected ==
  phase = "running" /\ HttpWorkers # {} => httpTriggerWorker # NoWorker

(***************************************************************************)
(* protocol.md: on SIGTERM the engine "Waits for in-flight invocations to  *)
(* complete (with timeout)": it never exits at once with calls in flight.  *)
(***************************************************************************)
ShutdownWaitsForInFlight ==
  [][phase = "running" /\ phase' = "exited"
       => \A c \in Calls : outcome[c] # "waiting"]_vars
=============================================================================
