---------------------------- MODULE EngineProofs ----------------------------
(***************************************************************************)
(* Proofs about the call router, for any number of connections, calls,     *)
(* functions and names.  EngineInv is inductive as it stands: CallShape is *)
(* there because the routing steps of an HTTP request carry the target of  *)
(* the call from one handler to the next.  SlaInv, for the metrics, counts *)
(* the pending calls and keeps their entries present, which the equation   *)
(* between the counters and the outcomes does not say by itself.           *)
(***************************************************************************)
EXTENDS Engine, FiniteSetTheorems, WellFoundedInduction, TLAPS

-----------------------------------------------------------------------------
(* The first worker of a nonempty set is a member of it: what the routing  *)
(* loops of engine.ts return is a connected worker.                        *)
LEMMA FirstIsMember ==
  ASSUME NEW S \in SUBSET WorkerId, S # {}
  PROVE  First(S) \in S
<1>1. S \subseteq Nat
  BY BoundsAssumption DEF WorkerId
<1>2. PICK w \in S : \A v \in S : ~ (<<v, w>> \in OpToRel(<, Nat))
  BY <1>1, NatLessThanWellFounded, WFMin, Zenon
<1>3. ASSUME NEW v \in S
      PROVE  w <= v
  <2>1. ~ (v < w)
    BY <1>1, <1>2 DEF OpToRel
  <2>2. QED
    BY <2>1, <1>1
<1>4. QED
  BY <1>3 DEF First

-----------------------------------------------------------------------------
(* The metrics record: both operators keep its type, a start counts one    *)
(* call, and an end counts at most one error and at most one timeout.      *)

(* recordInvocationStart counts one call, no error, and leaves an entry    *)
(* for its key.                                                            *)
LEMMA StartCountsACall ==
  ASSUME NEW s \in Metrics!Sla, NEW k \in MetricKeys
  PROVE  LET t == Metrics!RecordStart(s, k) IN
         /\ t \in Metrics!Sla
         /\ t.totalCalls = s.totalCalls + 1
         /\ t.totalErrors = s.totalErrors
         /\ t.totalTimeouts = s.totalTimeouts
         /\ t.entries[k].known
<1>1. Metrics!Opened(s.entries[k]) \in Metrics!Entry
  BY DEF Metrics!Opened, Metrics!Sla, Metrics!Entry, MetricKeys
<1>2. QED
  BY <1>1 DEF Metrics!RecordStart, Metrics!Opened, Metrics!Sla, MetricKeys

(* recordInvocationEnd keeps the record well formed and moves the totals   *)
(* of errors and of timeouts by at most one, never timeouts alone.         *)
LEMMA EndCountsAtMostOne ==
  ASSUME NEW s \in Metrics!Sla, NEW k \in MetricKeys, NEW how
  PROVE  LET t == Metrics!RecordEnd(s, k, how) IN
         /\ t \in Metrics!Sla
         /\ t.totalCalls = s.totalCalls
         /\ \/ /\ t.totalErrors = s.totalErrors
               /\ t.totalTimeouts = s.totalTimeouts
            \/ /\ t.totalErrors = s.totalErrors + 1
               /\ t.totalTimeouts \in {s.totalTimeouts, s.totalTimeouts + 1}
         /\ s.entries[k].known /\ how = "error"
              => /\ t.totalErrors = s.totalErrors + 1
                 /\ t.totalTimeouts = s.totalTimeouts
<1>1. CASE ~ s.entries[k].known
  BY <1>1 DEF Metrics!RecordEnd
<1>2. CASE s.entries[k].known
  <2>1. /\ Metrics!One(Metrics!IsError(how)) \in {0, 1}
        /\ Metrics!One(how = "timeout") \in {0, 1}
        /\ how = "timeout" => Metrics!One(Metrics!IsError(how)) = 1
        /\ how # "timeout" => Metrics!One(how = "timeout") = 0
        /\ how = "error" => Metrics!One(Metrics!IsError(how)) = 1
    BY DEF Metrics!One, Metrics!IsError
  <2>2. Metrics!EntryAfter(s.entries[k], how) \in Metrics!Entry
    BY <2>1 DEF Metrics!EntryAfter, Metrics!Sla, Metrics!Entry, MetricKeys
  <2>3. QED
    BY <1>2, <2>1, <2>2 DEF Metrics!RecordEnd, Metrics!Sla, MetricKeys
<1>3. QED
  BY <1>1, <1>2

(* The key under which a call is counted is one the metrics have.          *)
LEMMA MetricKeyType ==
  ASSUME RegistryTypeOK, NEW f \in Functions, NEW w \in WorkerId
  PROVE  MetricKey(f, w) \in MetricKeys
BY DEF MetricKey, MetricKeys, RegistryTypeOK

-----------------------------------------------------------------------------
(* The registry keeps its type, and a step of the registry that leaves the *)
(* calls alone keeps the invariant.                                        *)

(* No registration message and no connection event takes the registry out  *)
(* of its type.                                                            *)
LEMMA RegistryKeepsType ==
  ASSUME RegistryTypeOK,
         \/ Connect
         \/ \E w \in WorkerId : SocketCloses(w) \/ OnClose(w) \/ RegistryMessage(w)
  PROVE  RegistryTypeOK'
<1>1. CASE Connect
  BY <1>1, BoundsAssumption DEF RegistryTypeOK, Connect, WorkerId, SocketState
<1>2. ASSUME NEW w \in WorkerId, SocketCloses(w)
      PROVE  RegistryTypeOK'
  BY <1>2 DEF RegistryTypeOK, SocketCloses, SocketState
<1>3. ASSUME NEW w \in WorkerId, OnClose(w)
      PROVE  RegistryTypeOK'
  BY <1>3 DEF RegistryTypeOK, OnClose, SocketState
<1>4. ASSUME NEW w \in WorkerId, RegistryMessage(w)
      PROVE  RegistryTypeOK'
  <2>1. ASSUME NEW n \in Names \cup {w}, WorkersRegister(w, n)
        PROVE  RegistryTypeOK'
    BY <2>1, BoundsAssumption
    DEF RegistryTypeOK, WorkersRegister, CountMessage
  <2>2. ASSUME NEW f \in Functions,
               \/ RegisterFunction(w, f) \/ UnregisterFunction(w, f)
               \/ RegisterHttpTrigger(w, f) \/ UnregisterHttpTrigger(w, f)
        PROVE  RegistryTypeOK'
    BY <2>2, BoundsAssumption
    DEF RegistryTypeOK, RegisterFunction, UnregisterFunction,
        RegisterHttpTrigger, UnregisterHttpTrigger, CountMessage
  <2>3. CASE RegisterHttpTriggerType(w)
    BY <2>3, BoundsAssumption
    DEF RegistryTypeOK, RegisterHttpTriggerType, CountMessage
  <2>4. QED
    BY <1>4, <2>1, <2>2, <2>3 DEF RegistryMessage
<1>5. QED
  BY <1>1, <1>2, <1>3, <1>4

(* A step that leaves the call tables alone keeps their invariant,         *)
(* whatever it does to the registry.                                       *)
LEMMA CallsUntouched ==
  ASSUME EngineInv, RegistryTypeOK', UNCHANGED callVars,
         phase' \in {"running", "draining", "exited"},
         renamedInFlight' \in BOOLEAN
  PROVE  EngineInv'
BY DEF EngineInv, TypeOK, CallShape, PendingIsUnanswered, EngineCalls,
       ForwardedIsUnanswered, InboxWasSent, callVars

-----------------------------------------------------------------------------
(* The steps of a call.                                                    *)

(* sendInvocation keeps the invariant, whether the worker's socket is open *)
(* or not.                                                                 *)
LEMMA SendKeepsInv ==
  ASSUME EngineInv, NEW c \in Calls, NEW w \in WorkerId, NEW f \in Functions,
         outcome[c] \in {"idle", "connecting"},
         SendInvocation(c, w, f),
         UNCHANGED <<registryVars, phase, renamedInFlight>>
  PROVE  EngineInv'
<1> DEFINE k == MetricKey(f, w)
           started == Metrics!RecordStart(sla, k)
<1>1. sla \in Metrics!Sla /\ k \in MetricKeys
  BY MetricKeyType DEF EngineInv, TypeOK
<1>2. started \in Metrics!Sla
  BY <1>1, StartCountsACall
<1>3. Metrics!RecordEnd(started, k, "error") \in Metrics!Sla
  BY <1>1, <1>2, EndCountsAtMostOne
<1>4. sla' \in Metrics!Sla
  BY <1>2, <1>3 DEF SendInvocation
<1>5. RegistryTypeOK'
  BY DEF EngineInv, TypeOK, RegistryTypeOK, registryVars
<1>6. TypeOK'
  <2>1. call' \in [Calls -> Call]
    BY DEF EngineInv, TypeOK, SendInvocation, CallTo, Call
  <2>2. outcome' \in [Calls -> {"idle"} \cup Open \cup Settled]
    BY DEF EngineInv, TypeOK, SendInvocation, Open, Settled
  <2>3. /\ pending' \in SUBSET Calls
        /\ timers' \in SUBSET Calls
        /\ workerInvocations' \in SUBSET Calls
        /\ inbox' \in [WorkerId -> SUBSET Calls]
    BY DEF EngineInv, TypeOK, SendInvocation
  <2>4. QED
    BY <1>4, <1>5, <2>1, <2>2, <2>3 DEF EngineInv, TypeOK
<1>7. c \notin pending /\ c \notin workerInvocations
  BY DEF EngineInv, PendingIsUnanswered, ForwardedIsUnanswered
<1>8. CallShape'
  BY DEF EngineInv, TypeOK, CallShape, SendInvocation, CallTo, Open
<1>9. PendingIsUnanswered'
  BY ZenonT(30), <1>7
  DEF EngineInv, TypeOK, PendingIsUnanswered, EngineCalls, SendInvocation, CallTo, Call
<1>10. ForwardedIsUnanswered'
  BY <1>7
  DEF EngineInv, TypeOK, CallShape, ForwardedIsUnanswered, EngineCalls,
      SendInvocation, CallTo, Call
<1>11. InboxWasSent'
  BY DEF EngineInv, TypeOK, InboxWasSent, SendInvocation, CallTo, Call
<1>12. QED
  BY <1>6, <1>8, <1>9, <1>10, <1>11 DEF EngineInv

(* A call that ends before it is sent to any worker keeps the invariant.   *)
LEMMA FinishKeepsInv ==
  ASSUME EngineInv, NEW c \in Calls, NEW how \in Settled,
         outcome[c] \in {"idle", "connecting"},
         Finish(c, how),
         UNCHANGED <<registryVars, phase, renamedInFlight>>
  PROVE  EngineInv'
<1>1. TypeOK'
  BY DEF EngineInv, TypeOK, RegistryTypeOK, Finish, registryVars
<1>2. CallShape'
  BY DEF EngineInv, TypeOK, CallShape, Finish, Open, Settled
<1>3. PendingIsUnanswered' /\ ForwardedIsUnanswered'
  BY DEF EngineInv, TypeOK, PendingIsUnanswered, ForwardedIsUnanswered,
         EngineCalls, Finish, Settled
<1>4. InboxWasSent'
  BY DEF EngineInv, TypeOK, InboxWasSent, Finish, Settled
<1>5. QED
  BY <1>1, <1>2, <1>3, <1>4 DEF EngineInv

(* trigger() keeps the invariant.                                          *)
LEMMA TriggerKeepsInv ==
  ASSUME EngineInv, NEW c \in Calls, NEW f \in Functions, Trigger(c, f)
  PROVE  EngineInv'
<1>1. CASE Owners(f) = {}
  BY <1>1, FinishKeepsInv DEF Trigger, Settled
<1>2. CASE Owners(f) # {}
  <2>1. Owners(f) \in SUBSET WorkerId
    BY DEF EngineInv, TypeOK, RegistryTypeOK, Owners
  <2>2. First(Owners(f)) \in WorkerId
    BY <1>2, <2>1, FirstIsMember
  <2>3. QED
    BY <1>2, <2>2, SendKeepsInv DEF Trigger
<1>3. QED
  BY <1>1, <1>2

(* The arrival of an HTTP request keeps the invariant.                     *)
LEMMA HttpArrivesKeepsInv ==
  ASSUME EngineInv, NEW c \in Calls, HttpArrives(c)
  PROVE  EngineInv'
<1>1. CASE phase = "draining" \/ httpTriggerWorker = NoWorker
  BY <1>1, FinishKeepsInv DEF HttpArrives, Settled
<1>2. CASE ~ (phase = "draining" \/ httpTriggerWorker = NoWorker)
  <2>1. httpTriggerWorker \in WorkerId
    BY <1>2 DEF EngineInv, TypeOK, RegistryTypeOK
  <2>2. /\ call' \in [Calls -> Call]
        /\ call'[c].target \in WorkerId
        /\ call'[c].caller = NoWorker
        /\ \A d \in Calls \ {c} : call'[d] = call[d]
    BY <1>2, <2>1 DEF HttpArrives, CallTo, EngineInv, TypeOK, CallShape, Call
  <2>3. /\ outcome' = [outcome EXCEPT ![c] = "routing"]
        /\ outcome[c] = "idle"
        /\ UNCHANGED <<pending, timers, workerInvocations, inbox, sla,
                       registryVars, phase, renamedInFlight>>
    BY <1>2 DEF HttpArrives
  <2>4. TypeOK'
    BY <2>2, <2>3
    DEF EngineInv, TypeOK, RegistryTypeOK, registryVars, Open
  <2>5. CallShape'
    BY <2>2, <2>3 DEF EngineInv, TypeOK, CallShape
  <2>6. PendingIsUnanswered' /\ ForwardedIsUnanswered'
    BY <2>2, <2>3
    DEF EngineInv, TypeOK, PendingIsUnanswered, ForwardedIsUnanswered, EngineCalls
  <2>7. InboxWasSent'
    BY <2>2, <2>3 DEF EngineInv, TypeOK, InboxWasSent
  <2>8. QED
    BY <2>4, <2>5, <2>6, <2>7 DEF EngineInv
<1>3. QED
  BY <1>1, <1>2

(* The function an HTTP request is routed to is a function id.             *)
LEMMA HttpFunctionsAreFunctions ==
  ASSUME EngineInv
  PROVE  HttpFunctions \subseteq Functions
<1>1. CASE HttpWorkers = {}
  BY <1>1, FnAssumption DEF HttpFunctions
<1>2. CASE HttpWorkers # {}
  <2>1. HttpWorkers \in SUBSET WorkerId
    BY DEF EngineInv, TypeOK, RegistryTypeOK, HttpWorkers
  <2>2. httpTriggers[First(HttpWorkers)] \subseteq Functions
    BY <1>2, <2>1, FirstIsMember DEF EngineInv, TypeOK, RegistryTypeOK
  <2>3. QED
    BY <1>2, <2>2, FnAssumption DEF HttpFunctions
<1>3. QED
  BY <1>1, <1>2

(* Choosing the function of an HTTP request keeps the invariant.           *)
LEMMA HttpBodyReadKeepsInv ==
  ASSUME EngineInv, NEW c \in Calls, HttpBodyRead(c)
  PROVE  EngineInv'
<1>1. PICK f \in Functions : call' = [call EXCEPT ![c] = CallTo(@.target, f)]
  BY HttpFunctionsAreFunctions DEF HttpBodyRead
<1>2. call[c].target \in WorkerId
  BY DEF HttpBodyRead, EngineInv, CallShape, Open
<1>3. /\ call' \in [Calls -> Call]
      /\ call'[c].target \in WorkerId
      /\ call'[c].target = call[c].target
      /\ call'[c].caller = NoWorker
      /\ \A d \in Calls \ {c} : call'[d] = call[d]
  BY <1>1, <1>2 DEF CallTo, EngineInv, TypeOK, Call
<1>4. /\ outcome' = [outcome EXCEPT ![c] = "connecting"]
      /\ outcome[c] = "routing"
      /\ UNCHANGED <<pending, timers, workerInvocations, inbox, sla,
                     registryVars, phase, renamedInFlight>>
  BY DEF HttpBodyRead
<1>5. TypeOK'
  BY <1>3, <1>4 DEF EngineInv, TypeOK, RegistryTypeOK, registryVars, Open
<1>6. CallShape'
  BY <1>3, <1>4 DEF EngineInv, TypeOK, CallShape
<1>7. PendingIsUnanswered' /\ ForwardedIsUnanswered'
  BY <1>3, <1>4
  DEF EngineInv, TypeOK, PendingIsUnanswered, ForwardedIsUnanswered, EngineCalls
<1>8. InboxWasSent'
  BY <1>3, <1>4 DEF EngineInv, TypeOK, InboxWasSent
<1>9. QED
  BY <1>5, <1>6, <1>7, <1>8 DEF EngineInv

(* Forwarding a call from one worker to another keeps the invariant.       *)
LEMMA WorkerInvokesKeepsInv ==
  ASSUME EngineInv, NEW c \in Calls, NEW w \in WorkerId, NEW f \in Functions,
         WorkerInvokes(c, w, f)
  PROVE  EngineInv'
<1> DEFINE others == OtherOwners(f, w)
           t == First(others)
<1>1. w # NoWorker /\ outcome[c] = "idle"
  BY BoundsAssumption DEF WorkerInvokes, WorkerId, NoWorker
<1>2. c \notin pending /\ c \notin workerInvocations
  BY <1>1 DEF EngineInv, PendingIsUnanswered, ForwardedIsUnanswered
<1>3. \A v \in WorkerId : c \notin inbox[v]
  BY <1>1 DEF EngineInv, InboxWasSent
<1>4. UNCHANGED <<pending, timers, sla, registryVars, phase, renamedInFlight>>
  BY DEF WorkerInvokes
<1>5. CASE others = {}
  <2>1. /\ call' = [call EXCEPT ![c] = [caller |-> w, target |-> NoWorker, fn |-> f]]
        /\ outcome' = [outcome EXCEPT ![c] = "notFound"]
        /\ UNCHANGED <<workerInvocations, inbox>>
    BY <1>5 DEF WorkerInvokes
  <2>2. TypeOK'
    BY <1>4, <2>1
    DEF EngineInv, TypeOK, RegistryTypeOK, registryVars, Call, Settled
  <2>3. CallShape'
    BY <2>1 DEF EngineInv, TypeOK, CallShape, Open
  <2>4. PendingIsUnanswered' /\ ForwardedIsUnanswered'
    BY <1>1, <1>2, <1>4, <2>1
    DEF EngineInv, TypeOK, PendingIsUnanswered, ForwardedIsUnanswered,
        EngineCalls, Call
  <2>5. InboxWasSent'
    BY <1>3, <2>1 DEF EngineInv, TypeOK, InboxWasSent
  <2>6. QED
    BY <2>2, <2>3, <2>4, <2>5 DEF EngineInv
<1>6. CASE others # {}
  <2>1. t \in WorkerId
    <3>1. others \in SUBSET WorkerId
      BY DEF EngineInv, TypeOK, RegistryTypeOK, OtherOwners, Owners
    <3>2. QED
      BY <1>6, <3>1, FirstIsMember
  <2>2. /\ call' = [call EXCEPT ![c] = [caller |-> w, target |-> t, fn |-> f]]
        /\ outcome' = [outcome EXCEPT ![c] = "waiting"]
        /\ workerInvocations' = workerInvocations \cup {c}
        /\ \/ inbox' = [inbox EXCEPT ![t] = @ \cup {c}]
           \/ inbox' = inbox
    BY <1>6 DEF WorkerInvokes
  <2>3. TypeOK'
    BY <1>4, <2>1, <2>2
    DEF EngineInv, TypeOK, RegistryTypeOK, registryVars, Call, Open
  <2>4. CallShape'
    BY <2>1, <2>2 DEF EngineInv, TypeOK, CallShape, Open, Call
  <2>5. PendingIsUnanswered' /\ ForwardedIsUnanswered'
    BY <1>1, <1>2, <1>4, <2>1, <2>2
    DEF EngineInv, TypeOK, PendingIsUnanswered, ForwardedIsUnanswered,
        EngineCalls, Call
  <2>6. InboxWasSent'
    BY <1>3, <2>1, <2>2 DEF EngineInv, TypeOK, InboxWasSent, Call
  <2>7. QED
    BY <2>3, <2>4, <2>5, <2>6 DEF EngineInv
<1>7. QED
  BY <1>5, <1>6

-----------------------------------------------------------------------------
(* The ends of a call.                                                     *)

(* A call in the map `pending' has a target and was made by the engine.    *)
LEMMA PendingCallShape ==
  ASSUME EngineInv, NEW c \in pending
  PROVE  /\ c \in Calls
         /\ call[c].target \in WorkerId
         /\ call[c].fn \in Functions
         /\ call[c].caller = NoWorker
         /\ MetricKey(call[c].fn, call[c].target) \in MetricKeys
<1>1. c \in Calls /\ outcome[c] = "waiting" /\ call[c].caller = NoWorker
  BY DEF EngineInv, PendingIsUnanswered, EngineCalls
<1>2. call[c].target \in WorkerId /\ call[c].fn \in Functions
  BY <1>1 DEF EngineInv, TypeOK, CallShape, Open, Call
<1>3. QED
  BY <1>1, <1>2, MetricKeyType DEF EngineInv, TypeOK

(* Ending a pending call, by its answer or its timer, keeps the invariant. *)
LEMMA EndKeepsInv ==
  ASSUME EngineInv, NEW c \in pending, NEW how \in {"ok", "error", "timeout"},
         EndCall(c, how), timers' = timers \ {c},
         inbox' \in [WorkerId -> SUBSET Calls],
         \A w \in WorkerId : inbox'[w] \subseteq inbox[w],
         UNCHANGED <<call, workerInvocations, registryVars, phase, renamedInFlight>>
  PROVE  EngineInv'
<1>1. c \in Calls /\ c \notin workerInvocations
  BY PendingCallShape DEF EngineInv, ForwardedIsUnanswered, EngineCalls
<1>2. sla' \in Metrics!Sla
  <2>1. sla \in Metrics!Sla
    BY DEF EngineInv, TypeOK
  <2>2. QED
    BY <2>1, PendingCallShape, EndCountsAtMostOne DEF EndCall
<1>3. TypeOK'
  BY <1>1, <1>2
  DEF EngineInv, TypeOK, RegistryTypeOK, registryVars, EndCall, Settled
<1>4. CallShape'
  BY <1>1 DEF EngineInv, TypeOK, CallShape, EndCall, Open
<1>5. PendingIsUnanswered' /\ ForwardedIsUnanswered'
  BY <1>1, PendingCallShape
  DEF EngineInv, TypeOK, PendingIsUnanswered, ForwardedIsUnanswered,
      EngineCalls, EndCall
<1>6. InboxWasSent'
  BY <1>1 DEF EngineInv, TypeOK, InboxWasSent, EndCall
<1>7. QED
  BY <1>3, <1>4, <1>5, <1>6 DEF EngineInv

(* The timer of an invocation keeps the invariant.                         *)
LEMMA TimeoutKeepsInv ==
  ASSUME EngineInv, NEW c \in Calls, Timeout(c)
  PROVE  EngineInv'
<1>1. c \in pending
  BY DEF Timeout, EngineInv, PendingIsUnanswered
<1>2. inbox' \in [WorkerId -> SUBSET Calls] /\ inbox' = inbox
  BY DEF Timeout, EngineInv, TypeOK
<1>3. QED
  BY <1>1, <1>2, EndKeepsInv DEF Timeout

(* handleInvocationResult keeps the invariant, be the answer forwarded,    *)
(* awaited or late.                                                        *)
LEMMA ResultKeepsInv ==
  ASSUME EngineInv, NEW w \in WorkerId, NEW c \in Calls,
         NEW how \in {"ok", "error"}, InvocationResult(w, c, how)
  PROVE  EngineInv'
<1>1. /\ inbox' \in [WorkerId -> SUBSET Calls]
      /\ \A v \in WorkerId : inbox'[v] \subseteq inbox[v]
      /\ UNCHANGED <<call, registryVars, phase, renamedInFlight>>
  BY DEF InvocationResult, EngineInv, TypeOK
<1>2. CASE c \in workerInvocations
  <2>1. /\ workerInvocations' = workerInvocations \ {c}
        /\ UNCHANGED <<pending, timers, sla>>
    BY <1>2 DEF InvocationResult, PassOn, Accept, Ignore
  <2>2. PICK o \in {"ok", "error", "undelivered"} :
          outcome' = [outcome EXCEPT ![c] = o]
    BY <1>2 DEF InvocationResult, PassOn, Accept, Ignore
  <2>3. call[c].caller # NoWorker
    BY <1>2 DEF EngineInv, ForwardedIsUnanswered, EngineCalls
  <2>4. TypeOK'
    BY <1>1, <2>1, <2>2
    DEF EngineInv, TypeOK, RegistryTypeOK, registryVars, Settled
  <2>5. CallShape'
    BY <1>1, <2>2 DEF EngineInv, TypeOK, CallShape, Open
  <2>6. PendingIsUnanswered' /\ ForwardedIsUnanswered'
    BY <1>1, <2>1, <2>2, <2>3
    DEF EngineInv, TypeOK, PendingIsUnanswered, ForwardedIsUnanswered, EngineCalls
  <2>7. InboxWasSent'
    BY <1>1, <2>2 DEF EngineInv, TypeOK, InboxWasSent
  <2>8. QED
    BY <2>4, <2>5, <2>6, <2>7 DEF EngineInv
<1>3. CASE c \notin workerInvocations /\ c \in pending
  <2>1. EndCall(c, how) /\ timers' = timers \ {c} /\ UNCHANGED workerInvocations
    BY <1>3 DEF InvocationResult, PassOn, Accept, Ignore
  <2>2. QED
    BY <1>1, <1>3, <2>1, EndKeepsInv
<1>4. CASE c \notin workerInvocations /\ c \notin pending
  <2>1. UNCHANGED <<outcome, pending, timers, workerInvocations, sla>>
    BY <1>4 DEF InvocationResult, PassOn, Accept, Ignore
  <2>2. QED
    BY <1>1, <2>1
    DEF EngineInv, TypeOK, RegistryTypeOK, registryVars, CallShape, EngineCalls,
        PendingIsUnanswered, ForwardedIsUnanswered, InboxWasSent
<1>5. QED
  BY <1>2, <1>3, <1>4

(* The close handler of a worker's connection keeps the invariant.         *)
LEMMA CloseKeepsInv ==
  ASSUME EngineInv, NEW w \in WorkerId, ConnectionClosed(w)
  PROVE  EngineInv'
<1>1. RegistryTypeOK'
  BY RegistryKeepsType DEF EngineInv, TypeOK, ConnectionClosed
<1>2. QED
  BY <1>1
  DEF ConnectionClosed, EngineInv, TypeOK, CallShape, EngineCalls,
      PendingIsUnanswered, ForwardedIsUnanswered, InboxWasSent

(* Shutdown and the end of its wait keep the invariant.                    *)
LEMMA ShutdownKeepsInv ==
  ASSUME EngineInv, Shutdown \/ DrainTimeIsUp
  PROVE  EngineInv'
<1>1. CASE CloseEverything /\ UNCHANGED <<callVars, renamedInFlight>>
  <2>1. RegistryTypeOK'
    BY <1>1 DEF EngineInv, TypeOK, RegistryTypeOK, CloseEverything, SocketState
  <2>2. phase' = "exited" /\ renamedInFlight' \in BOOLEAN
    BY <1>1 DEF CloseEverything, EngineInv, TypeOK
  <2>3. QED
    BY <1>1, <2>1, <2>2, CallsUntouched
<1>2. CASE phase' = "draining" /\ UNCHANGED <<registryVars, callVars, renamedInFlight>>
  BY <1>2, CallsUntouched
  DEF EngineInv, TypeOK, RegistryTypeOK, registryVars
<1>3. QED
  BY <1>1, <1>2 DEF Shutdown, DrainTimeIsUp

-----------------------------------------------------------------------------
(* The invariant.                                                          *)

(* The invariant holds when the engine starts.                             *)
LEMMA InitEstablishesInv == Init => EngineInv
<1> SUFFICES ASSUME Init PROVE EngineInv
  OBVIOUS
<1>1. RegistryTypeOK
  BY BoundsAssumption
  DEF Init, RegistryInit, RegistryTypeOK, WorkerId, NoWorker, SocketState
<1>2. Metrics!ZeroSla \in Metrics!Sla
  BY DEF Metrics!ZeroSla, Metrics!Sla, Metrics!NoEntry, Metrics!Entry
<1>3. TypeOK
  BY <1>1, <1>2, FnAssumption DEF Init, TypeOK, Call, NoWorker
<1>4. CallShape /\ PendingIsUnanswered /\ ForwardedIsUnanswered /\ InboxWasSent
  BY DEF Init, CallShape, PendingIsUnanswered, ForwardedIsUnanswered,
         InboxWasSent, EngineCalls, Open
<1>5. QED
  BY <1>3, <1>4 DEF EngineInv

(* Every step of the call router keeps the invariant.                      *)
LEMMA NextKeepsInv == EngineInv /\ [Next]_vars => EngineInv'
<1> SUFFICES ASSUME EngineInv, [Next]_vars PROVE EngineInv'
  OBVIOUS
<1>1. CASE WorkerConnects
  BY <1>1, RegistryKeepsType, CallsUntouched
  DEF WorkerConnects, EngineInv, TypeOK
<1>2. ASSUME NEW w \in WorkerId, WorkerRegistration(w)
      PROVE  EngineInv'
  BY <1>2, RegistryKeepsType, CallsUntouched
  DEF WorkerRegistration, EngineInv, TypeOK
<1>3. ASSUME NEW w \in WorkerId, ConnectionDrops(w)
      PROVE  EngineInv'
  BY <1>3, RegistryKeepsType, CallsUntouched
  DEF ConnectionDrops, EngineInv, TypeOK
<1>4. ASSUME NEW w \in WorkerId, ConnectionClosed(w)
      PROVE  EngineInv'
  BY <1>4, CloseKeepsInv
<1>5. ASSUME NEW c \in Calls, NEW f \in Functions, Trigger(c, f)
      PROVE  EngineInv'
  BY <1>5, TriggerKeepsInv
<1>6. ASSUME NEW c \in Calls, HttpArrives(c)
      PROVE  EngineInv'
  BY <1>6, HttpArrivesKeepsInv
<1>7. ASSUME NEW c \in Calls, HttpBodyRead(c)
      PROVE  EngineInv'
  BY <1>7, HttpBodyReadKeepsInv
<1>8. ASSUME NEW c \in Calls, HttpReaderOpens(c)
      PROVE  EngineInv'
  <2>1. call[c].target \in WorkerId /\ call[c].fn \in Functions
    BY <1>8 DEF HttpReaderOpens, EngineInv, TypeOK, CallShape, Open, Call
  <2>2. QED
    BY <1>8, <2>1, SendKeepsInv DEF HttpReaderOpens
<1>9. ASSUME NEW c \in Calls, HttpReaderFails(c)
      PROVE  EngineInv'
  BY <1>9, FinishKeepsInv DEF HttpReaderFails, Settled
<1>10. ASSUME NEW c \in Calls, Timeout(c)
       PROVE  EngineInv'
  BY <1>10, TimeoutKeepsInv
<1>11. ASSUME NEW c \in Calls, NEW w \in WorkerId, NEW f \in Functions,
              WorkerInvokes(c, w, f)
       PROVE  EngineInv'
  BY <1>11, WorkerInvokesKeepsInv
<1>12. ASSUME NEW c \in Calls, NEW w \in WorkerId, NEW how \in {"ok", "error"},
              InvocationResult(w, c, how)
       PROVE  EngineInv'
  BY <1>12, ResultKeepsInv
<1>13. CASE Shutdown \/ DrainTimeIsUp
  BY <1>13, ShutdownKeepsInv
<1>14. CASE UNCHANGED vars
  BY <1>14, CallsUntouched
  DEF vars, registryVars, EngineInv, TypeOK, RegistryTypeOK
<1>15. QED
  BY <1>1, <1>2, <1>3, <1>4, <1>5, <1>6, <1>7, <1>8, <1>9, <1>10, <1>11, <1>12,
     <1>13, <1>14 DEF Next

(* The tables of the engine agree with the fate of every call, always.     *)
THEOREM EngineInvariant == Spec => []EngineInv
BY InitEstablishesInv, NextKeepsInv, PTL DEF Spec

-----------------------------------------------------------------------------
(* While the engine runs, the worker it remembers for HTTP requests is     *)
(* connected: only the close handler removes a worker, and it forgets it.  *)
THEOREM HttpWorkerConnected == Spec => []HttpWorkerIsConnected
<1>1. Init => HttpWorkerIsConnected
  BY DEF Init, RegistryInit, HttpWorkerIsConnected
<1>2. HttpWorkerIsConnected /\ [Next]_vars => HttpWorkerIsConnected'
  <2> SUFFICES ASSUME HttpWorkerIsConnected, [Next]_vars
               PROVE  HttpWorkerIsConnected'
    OBVIOUS
  <2>1. CASE WorkerConnects
    BY <2>1 DEF WorkerConnects, Connect, HttpWorkerIsConnected
  <2>2. ASSUME NEW w \in WorkerId, WorkerRegistration(w)
        PROVE  HttpWorkerIsConnected'
    BY <2>2
    DEF WorkerRegistration, RegistryMessage, Registered, WorkersRegister,
        RegisterFunction, UnregisterFunction, RegisterHttpTriggerType,
        RegisterHttpTrigger, UnregisterHttpTrigger, HttpWorkerIsConnected
  <2>3. ASSUME NEW w \in WorkerId, ConnectionDrops(w)
        PROVE  HttpWorkerIsConnected'
    BY <2>3 DEF ConnectionDrops, SocketCloses, HttpWorkerIsConnected
  <2>4. ASSUME NEW w \in WorkerId, ConnectionClosed(w)
        PROVE  HttpWorkerIsConnected'
    BY <2>4 DEF ConnectionClosed, OnClose, HttpWorkerIsConnected
  <2>5. CASE Shutdown \/ DrainTimeIsUp
    BY <2>5
    DEF Shutdown, DrainTimeIsUp, CloseEverything, registryVars,
        HttpWorkerIsConnected
  <2>6. CASE UNCHANGED registryVars /\ UNCHANGED phase
    BY <2>6 DEF registryVars, HttpWorkerIsConnected
  <2>7. (\/ \E c \in Calls :
              \/ \E f \in Functions : Trigger(c, f)
              \/ HttpArrives(c) \/ HttpBodyRead(c) \/ HttpReaderOpens(c)
              \/ HttpReaderFails(c) \/ Timeout(c)
         \/ \E c \in Calls, w \in WorkerId :
              \/ \E f \in Functions : WorkerInvokes(c, w, f)
              \/ \E how \in {"ok", "error"} : InvocationResult(w, c, how)
         \/ UNCHANGED vars)
        => UNCHANGED registryVars /\ UNCHANGED phase
    BY DEF Trigger, HttpArrives, HttpBodyRead, HttpReaderOpens,
           HttpReaderFails, Timeout, WorkerInvokes, InvocationResult, vars
  <2>8. QED
    BY <2>1, <2>2, <2>3, <2>4, <2>5, <2>6, <2>7 DEF Next
<1>3. QED
  BY <1>1, <1>2, PTL DEF Spec

-----------------------------------------------------------------------------
(* The call router implements the ledger: what every step does to the set  *)
(* of fresh calls, to `pending' and to the three totals.                   *)

(* A step that touches no outcome, no pending call and no total is a       *)
(* stutter of the ledger.                                                  *)
LEMMA LedgerStutter ==
  ASSUME UNCHANGED <<outcome, pending, sla>>
  PROVE  UNCHANGED Ledger!ledgerVars
BY DEF Ledger!ledgerVars, Fresh

(* A call settled or forwarded without being counted is dropped from the   *)
(* ledger.                                                                 *)
LEMMA DropStep ==
  ASSUME EngineInv, NEW c \in Calls, NEW o \in Settled \cup {"waiting"},
         c \in Fresh, outcome' = [outcome EXCEPT ![c] = o],
         UNCHANGED <<pending, sla>>
  PROVE  Ledger!Drop(c)
<1>1. Fresh' = Fresh \ {c}
  BY DEF EngineInv, TypeOK, Fresh, Settled
<1>2. QED
  BY <1>1 DEF Ledger!Drop

(* sendInvocation issues a call of the ledger, or refuses it when the      *)
(* socket is not open.                                                     *)
LEMMA SendStep ==
  ASSUME EngineInv, NEW c \in Calls, NEW w \in WorkerId, NEW f \in Functions,
         c \in Fresh, SendInvocation(c, w, f), UNCHANGED registryVars
  PROVE  Ledger!Issue(c) \/ Ledger!Refuse(c)
<1> DEFINE k == MetricKey(f, w)
           started == Metrics!RecordStart(sla, k)
<1>1. sla \in Metrics!Sla /\ k \in MetricKeys
  BY MetricKeyType DEF EngineInv, TypeOK
<1>2. /\ started \in Metrics!Sla
      /\ started.totalCalls = sla.totalCalls + 1
      /\ started.totalErrors = sla.totalErrors
      /\ started.totalTimeouts = sla.totalTimeouts
      /\ started.entries[k].known
  BY <1>1, StartCountsACall
<1>3. Fresh' = Fresh \ {c}
  BY DEF EngineInv, TypeOK, SendInvocation, Fresh
<1>4. CASE ws[w] = "open"
  <2>1. pending' = pending \cup {c} /\ sla' = started
    BY <1>4 DEF SendInvocation
  <2>2. QED
    BY <1>2, <1>3, <2>1 DEF Ledger!Issue
<1>5. CASE ws[w] # "open"
  <2>1. pending' = pending /\ sla' = Metrics!RecordEnd(started, k, "error")
    BY <1>5 DEF SendInvocation
  <2>2. /\ sla'.totalCalls = sla.totalCalls + 1
        /\ sla'.totalErrors = sla.totalErrors + 1
        /\ sla'.totalTimeouts = sla.totalTimeouts
    BY <1>1, <1>2, <2>1, EndCountsAtMostOne
  <2>3. QED
    BY <1>3, <2>1, <2>2 DEF Ledger!Refuse
<1>6. QED
  BY <1>4, <1>5

(* Ending a pending call ends it in the ledger and moves the totals by at  *)
(* most one.                                                               *)
LEMMA EndStep ==
  ASSUME EngineInv, NEW c \in pending, NEW how \in {"ok", "error", "timeout"},
         EndCall(c, how)
  PROVE  Ledger!End(c)
<1>1. c \in Calls /\ outcome[c] = "waiting"
  BY DEF EngineInv, PendingIsUnanswered, EngineCalls
<1>2. Fresh' = Fresh
  BY <1>1 DEF EngineInv, TypeOK, EndCall, Fresh
<1>3. sla \in Metrics!Sla
  BY DEF EngineInv, TypeOK
<1>4. /\ sla'.totalCalls = sla.totalCalls
      /\ \/ /\ sla'.totalErrors = sla.totalErrors
            /\ sla'.totalTimeouts = sla.totalTimeouts
         \/ /\ sla'.totalErrors = sla.totalErrors + 1
            /\ sla'.totalTimeouts \in {sla.totalTimeouts, sla.totalTimeouts + 1}
  BY <1>3, PendingCallShape, EndCountsAtMostOne DEF EndCall
<1>5. QED
  BY <1>2, <1>4 DEF Ledger!End, EndCall

(* trigger() is a step of the ledger.                                      *)
LEMMA TriggerStep ==
  ASSUME EngineInv, NEW c \in Calls, NEW f \in Functions, Trigger(c, f)
  PROVE  Ledger!LedgerNext
<1>1. c \in Fresh
  BY DEF Trigger, Fresh
<1>2. CASE Owners(f) = {}
  BY <1>1, <1>2, DropStep DEF Trigger, Finish, Settled, Ledger!LedgerNext
<1>3. CASE Owners(f) # {}
  <2>1. Owners(f) \in SUBSET WorkerId
    BY DEF EngineInv, TypeOK, RegistryTypeOK, Owners
  <2>2. First(Owners(f)) \in WorkerId
    BY <1>3, <2>1, FirstIsMember
  <2>3. QED
    BY <1>1, <1>3, <2>2, SendStep DEF Trigger, Ledger!LedgerNext
<1>4. QED
  BY <1>2, <1>3

(* The steps of an HTTP request are steps or stutters of the ledger.       *)
LEMMA HttpStep ==
  ASSUME EngineInv, NEW c \in Calls,
         \/ HttpArrives(c) \/ HttpBodyRead(c)
         \/ HttpReaderOpens(c) \/ HttpReaderFails(c)
  PROVE  Ledger!LedgerNext \/ UNCHANGED Ledger!ledgerVars
<1>1. CASE HttpArrives(c)
  <2>1. c \in Fresh
    BY <1>1 DEF HttpArrives, Fresh
  <2>2. CASE phase = "draining" \/ httpTriggerWorker = NoWorker
    BY <1>1, <2>1, <2>2, DropStep
    DEF HttpArrives, Finish, Settled, Ledger!LedgerNext
  <2>3. CASE ~ (phase = "draining" \/ httpTriggerWorker = NoWorker)
    <3>1. Fresh' = Fresh /\ UNCHANGED <<pending, sla>>
      BY <1>1, <2>3 DEF HttpArrives, EngineInv, TypeOK, Fresh
    <3>2. QED
      BY <3>1 DEF Ledger!ledgerVars
  <2>4. QED
    BY <2>2, <2>3
<1>2. CASE HttpBodyRead(c)
  <2>1. Fresh' = Fresh /\ UNCHANGED <<pending, sla>>
    BY <1>2 DEF HttpBodyRead, EngineInv, TypeOK, Fresh
  <2>2. QED
    BY <2>1 DEF Ledger!ledgerVars
<1>3. CASE HttpReaderOpens(c)
  <2>1. call[c].target \in WorkerId /\ call[c].fn \in Functions
    BY <1>3 DEF HttpReaderOpens, EngineInv, TypeOK, CallShape, Open, Call
  <2>2. c \in Fresh
    BY <1>3 DEF HttpReaderOpens, Fresh
  <2>3. QED
    BY <1>3, <2>1, <2>2, SendStep DEF HttpReaderOpens, Ledger!LedgerNext
<1>4. CASE HttpReaderFails(c)
  <2>1. c \in Fresh
    BY <1>4 DEF HttpReaderFails, Fresh
  <2>2. QED
    BY <1>4, <2>1, DropStep
    DEF HttpReaderFails, Finish, Settled, Ledger!LedgerNext
<1>5. QED
  BY <1>1, <1>2, <1>3, <1>4

(* An answer is a step of the ledger, or a stutter if it is late or        *)
(* forwarded.                                                              *)
LEMMA ResultStep ==
  ASSUME EngineInv, NEW w \in WorkerId, NEW c \in Calls,
         NEW how \in {"ok", "error"}, InvocationResult(w, c, how)
  PROVE  Ledger!LedgerNext \/ UNCHANGED Ledger!ledgerVars
<1>1. CASE PassOn(c, how)
  <2>1. outcome[c] = "waiting"
    BY <1>1 DEF PassOn, EngineInv, ForwardedIsUnanswered
  <2>2. Fresh' = Fresh /\ UNCHANGED <<pending, sla>>
    BY <1>1, <2>1 DEF PassOn, EngineInv, TypeOK, Fresh
  <2>3. QED
    BY <2>2 DEF Ledger!ledgerVars
<1>2. CASE Accept(c, how)
  <2>1. Ledger!End(c)
    BY <1>2, EndStep DEF Accept
  <2>2. QED
    BY <2>1 DEF Ledger!LedgerNext
<1>3. CASE Ignore(c)
  BY <1>3, LedgerStutter DEF Ignore
<1>4. QED
  BY <1>1, <1>2, <1>3 DEF InvocationResult

(* The engine starts with an empty ledger.                                 *)
LEMMA InitRefines == Init => Ledger!LedgerInit
BY DEF Init, Ledger!LedgerInit, Fresh, Metrics!ZeroSla

(* Every step of the call router is a step or a stutter of the ledger.     *)
LEMMA NextRefines == EngineInv /\ [Next]_vars => [Ledger!LedgerNext]_(Ledger!ledgerVars)
<1> SUFFICES ASSUME EngineInv, [Next]_vars
             PROVE  Ledger!LedgerNext \/ UNCHANGED Ledger!ledgerVars
  OBVIOUS
<1>1. ASSUME NEW c \in Calls, NEW f \in Functions, Trigger(c, f)
      PROVE  Ledger!LedgerNext
  BY <1>1, TriggerStep
<1>2. ASSUME NEW c \in Calls,
             \/ HttpArrives(c) \/ HttpBodyRead(c)
             \/ HttpReaderOpens(c) \/ HttpReaderFails(c)
      PROVE  Ledger!LedgerNext \/ UNCHANGED Ledger!ledgerVars
  BY <1>2, HttpStep
<1>3. ASSUME NEW c \in Calls, Timeout(c)
      PROVE  Ledger!LedgerNext
  <2>1. c \in pending
    BY <1>3 DEF Timeout, EngineInv, PendingIsUnanswered
  <2>2. QED
    BY <1>3, <2>1, EndStep DEF Timeout, Ledger!LedgerNext
<1>4. ASSUME NEW c \in Calls, NEW w \in WorkerId, NEW f \in Functions,
             WorkerInvokes(c, w, f)
      PROVE  Ledger!LedgerNext
  <2>1. c \in Fresh /\ UNCHANGED <<pending, sla>>
    BY <1>4 DEF WorkerInvokes, Fresh
  <2>2. PICK o \in Settled \cup {"waiting"} : outcome' = [outcome EXCEPT ![c] = o]
    BY <1>4 DEF WorkerInvokes, Settled
  <2>3. QED
    BY <2>1, <2>2, DropStep DEF Ledger!LedgerNext
<1>5. ASSUME NEW c \in Calls, NEW w \in WorkerId, NEW how \in {"ok", "error"},
             InvocationResult(w, c, how)
      PROVE  Ledger!LedgerNext \/ UNCHANGED Ledger!ledgerVars
  BY <1>5, ResultStep
<1>6. ASSUME \/ WorkerConnects
             \/ \E w \in WorkerId : \/ WorkerRegistration(w)
                                    \/ ConnectionDrops(w) \/ ConnectionClosed(w)
             \/ Shutdown \/ DrainTimeIsUp \/ UNCHANGED vars
      PROVE  UNCHANGED Ledger!ledgerVars
  <2>1. UNCHANGED <<outcome, pending, sla>>
    BY <1>6
    DEF WorkerConnects, WorkerRegistration, ConnectionDrops, ConnectionClosed,
        Shutdown, DrainTimeIsUp, vars, callVars
  <2>2. QED
    BY <2>1, LedgerStutter
<1>7. QED
  BY <1>1, <1>2, <1>3, <1>4, <1>5, <1>6 DEF Next

(* Every call of the engine is issued once, ends once, and moves the totals*)
(* on /metrics by one, whatever workers, timers and shutdown do.           *)
THEOREM EngineImplementsLedger == Spec => ImplementsLedger
BY InitRefines, NextRefines, EngineInvariant, PTL
DEF Spec, ImplementsLedger, Ledger!LedgerSpec

-----------------------------------------------------------------------------
(* The metrics against the truth.  A sum grows by one with one entry.      *)

LEMMA UnitsOfIncrement ==
  ASSUME NEW count \in [MetricKeys -> Nat], NEW k \in MetricKeys, IsFiniteSet(Units(count)),
         NEW more, more = [count EXCEPT ![k] = count[k] + 1]
  PROVE  IsFiniteSet(Units(more)) /\ SumOf(more) = SumOf(count) + 1
<1> DEFINE unit == <<k, count[k] + 1>>
<1>1. more \in [MetricKeys -> Nat] /\ more[k] = count[k] + 1 /\ count[k] \in Nat
      /\ \A j \in MetricKeys : j # k => more[j] = count[j]
  OBVIOUS
<1>2. unit \notin Units(count)
  BY <1>1 DEF Units
<1>3. Units(more) = Units(count) \cup {unit}
  <2>1. ASSUME NEW j \in MetricKeys, NEW n \in 1 .. more[j]
        PROVE  <<j, n>> \in Units(count) \cup {unit}
    <3>1. CASE j = k /\ n = count[k] + 1 BY <3>1
    <3>2. CASE ~(j = k /\ n = count[k] + 1)
      <4>1. n \in 1 .. count[j] BY <1>1, <2>1, <3>2
      <4>2. <<j, n>> \in {j} \X (1 .. count[j]) /\ j \in DOMAIN count BY <4>1
      <4>3. QED BY <4>2 DEF Units
    <3>3. QED BY <3>1, <3>2
  <2>2. Units(more) \subseteq Units(count) \cup {unit}
    BY <1>1, <2>1 DEF Units
  <2>3. ASSUME NEW j \in MetricKeys, NEW n \in 1 .. count[j] PROVE <<j, n>> \in Units(more)
    <3>1. n \in 1 .. more[j] BY <1>1, <2>3
    <3>2. <<j, n>> \in {j} \X (1 .. more[j]) /\ j \in DOMAIN more BY <1>1, <3>1
    <3>3. QED BY <3>2 DEF Units
  <2>4. Units(count) \subseteq Units(more) BY <2>3 DEF Units
  <2>5. unit \in Units(more)
    <3>1. unit \in {k} \X (1 .. more[k]) /\ k \in DOMAIN more BY <1>1
    <3>2. QED BY <3>1 DEF Units
  <2>6. QED BY <2>2, <2>4, <2>5
<1> HIDE DEF unit
<1>4. /\ IsFiniteSet(Units(count) \cup {unit})
      /\ Cardinality(Units(count) \cup {unit}) = Cardinality(Units(count)) + 1
  BY <1>2, FS_AddElement
<1>5. QED BY <1>3, <1>4 DEF SumOf

LEMMA UnitsOfNothing ==
  ASSUME NEW count, count = [k \in MetricKeys |-> 0]
  PROVE  IsFiniteSet(Units(count)) /\ SumOf(count) = 0
<1>1. Units(count) = {} BY DEF Units
<1>2. QED BY <1>1, FS_EmptySet DEF SumOf

FiniteSums(s) ==
  /\ IsFiniteSet(Units(CallsOf(s))) /\ IsFiniteSet(Units(ErrorsOf(s)))
  /\ IsFiniteSet(Units(TimeoutsOf(s)))

(* The start of a call adds to no entry, its end to the one entry there is. *)
LEMMA StartKeepsSums ==
  ASSUME NEW s \in Metrics!Sla, NEW k \in MetricKeys
  PROVE  LET t == Metrics!RecordStart(s, k) IN
         /\ CallsOf(t) = CallsOf(s) /\ ErrorsOf(t) = ErrorsOf(s) /\ TimeoutsOf(t) = TimeoutsOf(s)
         /\ \A j \in MetricKeys : s.entries[j].known => t.entries[j].known
<1> DEFINE t == Metrics!RecordStart(s, k)
<1>1. t.entries = [s.entries EXCEPT ![k] = Metrics!Opened(s.entries[k])]
      /\ s.entries \in [MetricKeys -> Metrics!Entry]
  BY DEF Metrics!RecordStart, Metrics!Sla, MetricKeys
<1>2. \A j \in MetricKeys : /\ t.entries[j].calls = s.entries[j].calls
                            /\ t.entries[j].errors = s.entries[j].errors
                            /\ t.entries[j].timeouts = s.entries[j].timeouts
                            /\ s.entries[j].known => t.entries[j].known
  BY <1>1 DEF Metrics!Opened
<1> HIDE DEF t
<1>3. QED BY <1>2 DEF t, CallsOf, ErrorsOf, TimeoutsOf

LEMMA EndAddsToSums ==
  ASSUME NEW s \in Metrics!Sla, NEW k \in MetricKeys, FiniteSums(s),
         NEW how \in {"ok", "error", "timeout"}, s.entries[k].known
  PROVE  LET t == Metrics!RecordEnd(s, k, how) IN
         /\ FiniteSums(t)
         /\ SumOf(CallsOf(t)) = SumOf(CallsOf(s)) + 1
         /\ SumOf(ErrorsOf(t)) = SumOf(ErrorsOf(s)) + (IF how = "ok" THEN 0 ELSE 1)
         /\ SumOf(TimeoutsOf(t)) = SumOf(TimeoutsOf(s)) + (IF how = "timeout" THEN 1 ELSE 0)
         /\ t.totalErrors = s.totalErrors + (IF how = "ok" THEN 0 ELSE 1)
         /\ t.totalTimeouts = s.totalTimeouts + (IF how = "timeout" THEN 1 ELSE 0)
         /\ \A j \in MetricKeys : s.entries[j].known => t.entries[j].known
<1> DEFINE t == Metrics!RecordEnd(s, k, how)
           err == IF how = "ok" THEN 0 ELSE 1
           late == IF how = "timeout" THEN 1 ELSE 0
<1>1. /\ s.entries \in [MetricKeys -> Metrics!Entry]
      /\ s.totalErrors \in Nat /\ s.totalTimeouts \in Nat
      /\ CallsOf(s) \in [MetricKeys -> Nat] /\ ErrorsOf(s) \in [MetricKeys -> Nat]
      /\ TimeoutsOf(s) \in [MetricKeys -> Nat]
  BY DEF Metrics!Sla, Metrics!Entry, MetricKeys, CallsOf, ErrorsOf, TimeoutsOf
<1>2. Metrics!One(Metrics!IsError(how)) = err /\ Metrics!One(how = "timeout") = late
  BY DEF Metrics!One, Metrics!IsError
<1>3. /\ t.entries = [s.entries EXCEPT ![k] = Metrics!EntryAfter(s.entries[k], how)]
      /\ t.totalErrors = s.totalErrors + err /\ t.totalTimeouts = s.totalTimeouts + late
  BY <1>2 DEF Metrics!RecordEnd
<1>4. /\ \A j \in MetricKeys : j # k => t.entries[j] = s.entries[j]
      /\ t.entries[k].known /\ t.entries[k].calls = s.entries[k].calls + 1
      /\ t.entries[k].errors = s.entries[k].errors + err
      /\ t.entries[k].timeouts = s.entries[k].timeouts + late
  BY <1>1, <1>2, <1>3 DEF Metrics!EntryAfter
<1>5. \A j \in MetricKeys : s.entries[j].known => t.entries[j].known
  BY <1>4
<1> HIDE DEF t
<1>6. IsFiniteSet(Units(CallsOf(t))) /\ SumOf(CallsOf(t)) = SumOf(CallsOf(s)) + 1
  <2>1. CallsOf(t) = [CallsOf(s) EXCEPT ![k] = CallsOf(s)[k] + 1]
    BY <1>4 DEF CallsOf
  <2>2. QED BY <1>1, <2>1, UnitsOfIncrement DEF FiniteSums
<1>7. IsFiniteSet(Units(ErrorsOf(t))) /\ SumOf(ErrorsOf(t)) = SumOf(ErrorsOf(s)) + err
  <2>0. SumOf(ErrorsOf(s)) \in Nat BY FS_CardinalityType DEF SumOf, FiniteSums
  <2>1. CASE how = "ok"
    <3>1. ErrorsOf(t) = ErrorsOf(s)
      <4>1. \A j \in MetricKeys : t.entries[j].errors = s.entries[j].errors
        BY <1>1, <1>4, <2>1 DEF Metrics!Entry
      <4>2. QED BY <4>1 DEF ErrorsOf
    <3>2. QED BY <2>0, <2>1, <3>1 DEF FiniteSums
  <2>2. CASE how # "ok"
    <3>1. ErrorsOf(t) = [ErrorsOf(s) EXCEPT ![k] = ErrorsOf(s)[k] + 1]
      BY <1>4, <2>2 DEF ErrorsOf
    <3>2. QED BY <1>1, <2>2, <3>1, UnitsOfIncrement DEF FiniteSums
  <2>3. QED BY <2>1, <2>2
<1>8. IsFiniteSet(Units(TimeoutsOf(t))) /\ SumOf(TimeoutsOf(t)) = SumOf(TimeoutsOf(s)) + late
  <2>0. SumOf(TimeoutsOf(s)) \in Nat BY FS_CardinalityType DEF SumOf, FiniteSums
  <2>1. CASE how # "timeout"
    <3>1. TimeoutsOf(t) = TimeoutsOf(s)
      <4>1. \A j \in MetricKeys : t.entries[j].timeouts = s.entries[j].timeouts
        BY <1>1, <1>4, <2>1 DEF Metrics!Entry
      <4>2. QED BY <4>1 DEF TimeoutsOf
    <3>2. QED BY <2>0, <2>1, <3>1 DEF FiniteSums
  <2>2. CASE how = "timeout"
    <3>1. TimeoutsOf(t) = [TimeoutsOf(s) EXCEPT ![k] = TimeoutsOf(s)[k] + 1]
      BY <1>4, <2>2 DEF TimeoutsOf
    <3>2. QED BY <1>1, <2>2, <3>1, UnitsOfIncrement DEF FiniteSums
  <2>3. QED BY <2>1, <2>2
<1>9. QED BY <1>3, <1>5, <1>6, <1>7, <1>8 DEF t, FiniteSums

(* The calls of the engine that ended so, and the invariant: until a worker *)
(* changes its name in mid-call, each pending call has an entry under it.  *)
Ended == {"ok", "error", "timeout", "notConnected"}
Failed == {"error", "timeout", "notConnected"}
EndedSo(states) == {c \in EngineCalls : outcome[c] \in states}
EntryOf(c) == MetricKey(call[c].fn, call[c].target)

SlaInv ==
  /\ IsFiniteSet(EndedSo(Ended)) /\ IsFiniteSet(pending) /\ FiniteSums(sla)
  /\ sla.totalCalls = Cardinality(EndedSo(Ended)) + Cardinality(pending)
  /\ sla.totalErrors = SumOf(ErrorsOf(sla))
  /\ sla.totalTimeouts = SumOf(TimeoutsOf(sla))
  /\ SumOf(CallsOf(sla)) <= Cardinality(EndedSo(Ended))
  /\ sla.totalErrors <= Cardinality(EndedSo(Failed))
  /\ ~renamedInFlight =>
       /\ SumOf(CallsOf(sla)) = Cardinality(EndedSo(Ended))
       /\ sla.totalErrors = Cardinality(EndedSo(Failed))
       /\ sla.totalTimeouts = Cardinality(EndedSo({"timeout"}))
       /\ \A c \in pending : sla.entries[EntryOf(c)].known

LEMMA SlaInvHolds == Init => SlaInv
<1> SUFFICES ASSUME Init PROVE SlaInv
  OBVIOUS
<1>1. \A S : "idle" \notin S => EndedSo(S) = {}
  <2>1. \A c \in EngineCalls : outcome[c] = "idle" BY DEF Init, EngineCalls
  <2>2. QED BY <2>1 DEF EndedSo
<1>2. pending = {} /\ sla = Metrics!ZeroSla BY DEF Init
<1>3. /\ CallsOf(sla) = [k \in MetricKeys |-> 0] /\ ErrorsOf(sla) = [k \in MetricKeys |-> 0]
      /\ TimeoutsOf(sla) = [k \in MetricKeys |-> 0]
      /\ sla.totalCalls = 0 /\ sla.totalErrors = 0 /\ sla.totalTimeouts = 0
  BY <1>2 DEF Metrics!ZeroSla, Metrics!NoEntry, CallsOf, ErrorsOf, TimeoutsOf, MetricKeys
<1>4. FiniteSums(sla) /\ SumOf(CallsOf(sla)) = 0 /\ SumOf(ErrorsOf(sla)) = 0
      /\ SumOf(TimeoutsOf(sla)) = 0
  BY <1>3, UnitsOfNothing DEF FiniteSums
<1>5. EndedSo(Ended) = {} /\ EndedSo(Failed) = {} /\ EndedSo({"timeout"}) = {}
  BY <1>1 DEF Ended, Failed
<1>6. IsFiniteSet({}) /\ Cardinality({}) = 0 BY FS_EmptySet
<1>7. QED BY <1>2, <1>3, <1>4, <1>5, <1>6 DEF SlaInv

(* A call that is not among those that ended comes to be, or a step does   *)
(* nothing to them.                                                        *)
LEMMA EndedSoTyped ==
  ASSUME IsFiniteSet(EndedSo(Ended)), NEW S \in SUBSET Ended
  PROVE  IsFiniteSet(EndedSo(S)) /\ Cardinality(EndedSo(S)) \in Nat
<1>1. EndedSo(S) \subseteq EndedSo(Ended) BY DEF EndedSo
<1>2. QED BY <1>1, FS_Subset, FS_CardinalityType

(* A step after which the same calls have ended, and the same are pending. *)
LEMMA SlaKept ==
  ASSUME SlaInv, EngineInv, EngineInv', sla' = sla, pending' = pending,
         \A S \in SUBSET Ended : EndedSo(S)' = EndedSo(S),
         renamedInFlight => renamedInFlight',
         ~renamedInFlight' => \A c \in pending : EntryOf(c)' = EntryOf(c)
  PROVE  SlaInv'
<1>1. /\ EndedSo(Ended)' = EndedSo(Ended) /\ EndedSo(Failed)' = EndedSo(Failed)
      /\ EndedSo({"timeout"})' = EndedSo({"timeout"})
  BY DEF Ended, Failed
<1>2. renamedInFlight \in BOOLEAN /\ renamedInFlight' \in BOOLEAN BY DEF EngineInv, TypeOK
<1>3. ~renamedInFlight' => \A c \in pending' : sla'.entries[EntryOf(c)'].known
  <2> SUFFICES ASSUME ~renamedInFlight', NEW c \in pending PROVE sla.entries[EntryOf(c)'].known
    OBVIOUS
  <2>1. EntryOf(c)' = EntryOf(c) /\ sla.entries[EntryOf(c)].known BY <1>2 DEF SlaInv
  <2>2. QED BY <2>1
<1>4. /\ CallsOf(sla') = CallsOf(sla) /\ ErrorsOf(sla') = ErrorsOf(sla)
      /\ TimeoutsOf(sla') = TimeoutsOf(sla) /\ FiniteSums(sla') = FiniteSums(sla)
  OBVIOUS
<1> HIDE DEF EntryOf
<1>5. QED BY <1>1, <1>2, <1>3, <1>4 DEF SlaInv, CallsOf, ErrorsOf, TimeoutsOf, FiniteSums, MetricKeys

(* A step that changes one call which has not ended and does not end.      *)
LEMMA OneChanges ==
  ASSUME EngineInv, NEW c \in Calls, outcome[c] \notin Ended \/ call[c].caller # NoWorker,
         outcome'[c] \notin Ended \/ call'[c].caller # NoWorker,
         \A d \in Calls : d # c => call'[d] = call[d] /\ outcome'[d] = outcome[d]
  PROVE  \A S \in SUBSET Ended : EndedSo(S)' = EndedSo(S)
BY DEF EndedSo, EngineCalls

(* A call of the engine ends.                                              *)
LEMMA OneEnds ==
  ASSUME IsFiniteSet(EndedSo(Ended)), NEW c \in Calls, outcome[c] \notin Ended,
         outcome'[c] \in Ended, call'[c].caller = NoWorker,
         \A d \in Calls : d # c => call'[d] = call[d] /\ outcome'[d] = outcome[d],
         NEW S \in SUBSET Ended
  PROVE  /\ IsFiniteSet(EndedSo(S)')
         /\ Cardinality(EndedSo(S)') = Cardinality(EndedSo(S)) + (IF outcome'[c] \in S THEN 1 ELSE 0)
<1>1. c \notin EndedSo(S) BY DEF EndedSo
<1>2. IsFiniteSet(EndedSo(S)) /\ Cardinality(EndedSo(S)) \in Nat BY EndedSoTyped
<1>3. CASE outcome'[c] \in S
  <2>1. EndedSo(S)' = EndedSo(S) \cup {c} BY <1>3 DEF EndedSo, EngineCalls
  <2>2. QED BY <1>1, <1>2, <1>3, <2>1, FS_AddElement
<1>4. CASE outcome'[c] \notin S
  <2>1. EndedSo(S)' = EndedSo(S) BY <1>4 DEF EndedSo, EngineCalls
  <2>2. QED BY <1>2, <1>4, <2>1
<1>5. QED BY <1>3, <1>4

(* sendInvocation: one more call is pending, or has ended at once.         *)
LEMMA SendKeepsSla ==
  ASSUME SlaInv, EngineInv, EngineInv', NEW c \in Calls, NEW w \in WorkerId, NEW f \in Functions,
         outcome[c] \in {"idle", "connecting"}, SendInvocation(c, w, f),
         UNCHANGED <<registryVars, phase, renamedInFlight>>
  PROVE  SlaInv'
<1> DEFINE k == MetricKey(f, w)
           started == Metrics!RecordStart(sla, k)
<1>1. /\ sla \in Metrics!Sla /\ k \in MetricKeys /\ c \notin pending
      /\ call \in [Calls -> Call] /\ outcome \in [Calls -> {"idle"} \cup Open \cup Settled]
      /\ pending \subseteq Calls /\ FiniteSums(sla) /\ IsFiniteSet(pending)
      /\ IsFiniteSet(EndedSo(Ended)) /\ name' = name /\ renamedInFlight' = renamedInFlight
  BY MetricKeyType DEF EngineInv, TypeOK, PendingIsUnanswered, SlaInv, registryVars
<1>2. /\ started \in Metrics!Sla /\ started.totalCalls = sla.totalCalls + 1
      /\ started.totalErrors = sla.totalErrors /\ started.totalTimeouts = sla.totalTimeouts
      /\ started.entries[k].known
      /\ CallsOf(started) = CallsOf(sla) /\ ErrorsOf(started) = ErrorsOf(sla)
      /\ TimeoutsOf(started) = TimeoutsOf(sla)
      /\ \A j \in MetricKeys : sla.entries[j].known => started.entries[j].known
  BY <1>1, StartCountsACall, StartKeepsSums
<1>3. /\ call' = [call EXCEPT ![c] = CallTo(w, f)]
      /\ \A d \in Calls : d # c => call'[d] = call[d] /\ outcome'[d] = outcome[d]
      /\ call'[c].caller = NoWorker /\ outcome[c] \notin Ended
  BY <1>1 DEF SendInvocation, CallTo, Ended
<1>4. FiniteSums(started) BY <1>1, <1>2 DEF FiniteSums
<1>5. \A d \in pending : /\ EntryOf(d)' = EntryOf(d) /\ EntryOf(d) \in MetricKeys
  <2>1. ASSUME NEW d \in pending PROVE EntryOf(d)' = EntryOf(d) /\ EntryOf(d) \in MetricKeys
    <3>1. d # c /\ d \in Calls /\ call'[d] = call[d] BY <1>1, <1>3
    <3>2. EntryOf(d) \in MetricKeys BY PendingCallShape DEF EntryOf
    <3>3. QED BY <1>1, <3>1, <3>2 DEF EntryOf, MetricKey
  <2>2. QED BY <2>1
<1>6. Cardinality(pending) \in Nat /\ Cardinality(EndedSo(Ended)) \in Nat
      /\ SumOf(CallsOf(sla)) \in Nat /\ SumOf(ErrorsOf(sla)) \in Nat
      /\ SumOf(TimeoutsOf(sla)) \in Nat /\ Cardinality(EndedSo(Failed)) \in Nat
  BY <1>1, EndedSoTyped, FS_CardinalityType DEF FiniteSums, SumOf, Ended, Failed
<1>7. sla.totalCalls \in Nat /\ sla.totalErrors \in Nat /\ sla.totalTimeouts \in Nat
  BY <1>1 DEF Metrics!Sla
<1>8. CASE ws[w] = "open"
  <2>1. /\ pending' = pending \cup {c} /\ sla' = started /\ outcome'[c] = "waiting"
    BY <1>1, <1>8 DEF SendInvocation
  <2>2. \A S \in SUBSET Ended : EndedSo(S)' = EndedSo(S)
    BY <1>3, <2>1, OneChanges DEF Ended
  <2>3. /\ EndedSo(Ended)' = EndedSo(Ended) /\ EndedSo(Failed)' = EndedSo(Failed)
        /\ EndedSo({"timeout"})' = EndedSo({"timeout"})
    BY <2>2 DEF Ended, Failed
  <2>4. IsFiniteSet(pending') /\ Cardinality(pending') = Cardinality(pending) + 1
    BY <1>1, <2>1, FS_AddElement
  <2>5. ~renamedInFlight => \A d \in pending' : sla'.entries[EntryOf(d)'].known
    <3> SUFFICES ASSUME ~renamedInFlight, NEW d \in pending'
                 PROVE  sla'.entries[EntryOf(d)'].known
      OBVIOUS
    <3>1. CASE d = c
      <4>1. EntryOf(d)' = k BY <1>1, <1>3, <3>1 DEF EntryOf, CallTo, MetricKey
      <4>2. QED BY <1>2, <2>1, <4>1
    <3>2. CASE d # c
      <4>1. d \in pending BY <2>1, <3>2
      <4>2. sla.entries[EntryOf(d)].known BY <4>1 DEF SlaInv
      <4>3. EntryOf(d)' = EntryOf(d) /\ EntryOf(d) \in MetricKeys BY <1>5, <4>1
      <4> HIDE DEF EntryOf
      <4>4. QED BY <1>2, <2>1, <4>2, <4>3
    <3>3. QED BY <3>1, <3>2
  <2>6. /\ CallsOf(sla)' = CallsOf(sla) /\ ErrorsOf(sla)' = ErrorsOf(sla)
        /\ TimeoutsOf(sla)' = TimeoutsOf(sla) /\ FiniteSums(sla)'
        /\ sla'.totalCalls = sla.totalCalls + 1 /\ sla'.totalErrors = sla.totalErrors
        /\ sla'.totalTimeouts = sla.totalTimeouts
    BY <1>2, <1>4, <2>1 DEF CallsOf, ErrorsOf, TimeoutsOf, FiniteSums, MetricKeys
  <2> HIDE DEF EntryOf
  <2>7. QED BY <1>1, <1>6, <1>7, <2>3, <2>4, <2>5, <2>6 DEF SlaInv, SumOf
<1>9. CASE ws[w] # "open"
  <2>1. /\ pending' = pending /\ sla' = Metrics!RecordEnd(started, k, "error")
        /\ outcome'[c] = "notConnected"
    BY <1>1, <1>9 DEF SendInvocation
  <2>2. /\ FiniteSums(sla')
        /\ SumOf(CallsOf(sla')) = SumOf(CallsOf(started)) + 1
        /\ SumOf(ErrorsOf(sla')) = SumOf(ErrorsOf(started)) + 1
        /\ SumOf(TimeoutsOf(sla')) = SumOf(TimeoutsOf(started)) + 0
        /\ sla'.totalErrors = started.totalErrors + 1
        /\ sla'.totalTimeouts = started.totalTimeouts + 0
        /\ \A j \in MetricKeys : started.entries[j].known => sla'.entries[j].known
    BY <1>1, <1>2, <1>4, <2>1, EndAddsToSums
  <2>3. sla'.totalCalls = started.totalCalls
    BY <1>1, <1>2, <2>1, EndCountsAtMostOne
  <2>4. /\ IsFiniteSet(EndedSo(Ended)')
        /\ Cardinality(EndedSo(Ended)') = Cardinality(EndedSo(Ended)) + 1
    BY <1>1, <1>3, <2>1, OneEnds DEF Ended
  <2>5. Cardinality(EndedSo(Failed)') = Cardinality(EndedSo(Failed)) + 1
    BY <1>1, <1>3, <2>1, OneEnds DEF Ended, Failed
  <2>6. Cardinality(EndedSo({"timeout"})') = Cardinality(EndedSo({"timeout"})) + 0
    BY <1>1, <1>3, <2>1, OneEnds DEF Ended
  <2>7. ~renamedInFlight => \A d \in pending' : sla'.entries[EntryOf(d)'].known
    <3> SUFFICES ASSUME ~renamedInFlight, NEW d \in pending
                 PROVE  sla'.entries[EntryOf(d)'].known
      BY <2>1
    <3>1. sla.entries[EntryOf(d)].known BY DEF SlaInv
    <3>2. EntryOf(d)' = EntryOf(d) /\ EntryOf(d) \in MetricKeys BY <1>5
    <3> HIDE DEF EntryOf
    <3>3. QED BY <1>2, <2>2, <3>1, <3>2
  <2>8. /\ SumOf(CallsOf(sla))' = SumOf(CallsOf(sla)) + 1
        /\ SumOf(ErrorsOf(sla))' = SumOf(ErrorsOf(sla)) + 1
        /\ SumOf(TimeoutsOf(sla))' = SumOf(TimeoutsOf(sla)) /\ FiniteSums(sla)'
        /\ sla'.totalCalls = sla.totalCalls + 1 /\ sla'.totalErrors = sla.totalErrors + 1
        /\ sla'.totalTimeouts = sla.totalTimeouts
    <3>1. /\ SumOf(CallsOf(sla))' = SumOf(CallsOf(sla')) /\ SumOf(ErrorsOf(sla))' = SumOf(ErrorsOf(sla'))
          /\ SumOf(TimeoutsOf(sla))' = SumOf(TimeoutsOf(sla')) /\ FiniteSums(sla)' = FiniteSums(sla')
      BY DEF SumOf, CallsOf, ErrorsOf, TimeoutsOf, FiniteSums, Units, MetricKeys
    <3> HIDE DEF started, k
    <3>2. QED BY <1>2, <1>6, <1>7, <2>2, <2>3, <3>1
  <2>9. Cardinality(EndedSo({"timeout"})) \in Nat BY <1>1, EndedSoTyped DEF Ended
  <2>10. /\ sla.totalCalls = Cardinality(EndedSo(Ended)) + Cardinality(pending)
         /\ sla.totalErrors = SumOf(ErrorsOf(sla)) /\ sla.totalTimeouts = SumOf(TimeoutsOf(sla))
         /\ SumOf(CallsOf(sla)) <= Cardinality(EndedSo(Ended))
         /\ sla.totalErrors <= Cardinality(EndedSo(Failed))
         /\ ~renamedInFlight =>
              /\ SumOf(CallsOf(sla)) = Cardinality(EndedSo(Ended))
              /\ sla.totalErrors = Cardinality(EndedSo(Failed))
              /\ sla.totalTimeouts = Cardinality(EndedSo({"timeout"}))
    BY DEF SlaInv
  <2> DEFINE e == Cardinality(EndedSo(Ended))
             g == Cardinality(EndedSo(Failed))
             h == Cardinality(EndedSo({"timeout"}))
  <2>11. e \in Nat /\ g \in Nat /\ h \in Nat /\ e' = e + 1 /\ g' = g + 1 /\ h' = h
    BY <1>6, <2>4, <2>5, <2>6, <2>9
  <2> HIDE DEF e, g, h
  <2>12. /\ sla'.totalCalls = e' + Cardinality(pending)
         /\ sla'.totalErrors = SumOf(ErrorsOf(sla))' /\ sla'.totalTimeouts = SumOf(TimeoutsOf(sla))'
         /\ SumOf(CallsOf(sla))' <= e' /\ sla'.totalErrors <= g'
         /\ ~renamedInFlight => /\ SumOf(CallsOf(sla))' = e' /\ sla'.totalErrors = g'
                                /\ sla'.totalTimeouts = h'
    BY <1>6, <1>7, <2>8, <2>10, <2>11 DEF e, g, h
  <2>13. QED BY <1>1, <2>1, <2>4, <2>7, <2>8, <2>12 DEF SlaInv, e, g, h
<1>10. QED BY <1>8, <1>9

(* An answer or a timer ends a pending call; under a name that has changed *)
(* its entry may be missing, and nothing is counted.                       *)
LEMMA EndKeepsSla ==
  ASSUME SlaInv, EngineInv, EngineInv', NEW c \in pending, NEW how \in {"ok", "error", "timeout"},
         EndCall(c, how), UNCHANGED <<call, registryVars, renamedInFlight>>
  PROVE  SlaInv'
<1> DEFINE k == EntryOf(c)
           e == Cardinality(EndedSo(Ended))
           g == Cardinality(EndedSo(Failed))
           h == Cardinality(EndedSo({"timeout"}))
           err == IF how = "ok" THEN 0 ELSE 1
           late == IF how = "timeout" THEN 1 ELSE 0
<1>1. /\ sla \in Metrics!Sla /\ k \in MetricKeys /\ c \in Calls /\ call[c].caller = NoWorker
      /\ outcome \in [Calls -> {"idle"} \cup Open \cup Settled] /\ outcome[c] = "waiting"
      /\ FiniteSums(sla) /\ IsFiniteSet(pending) /\ IsFiniteSet(EndedSo(Ended))
      /\ call' = call /\ name' = name /\ renamedInFlight' = renamedInFlight
      /\ pending' = pending \ {c} /\ outcome' = [outcome EXCEPT ![c] = how]
      /\ sla' = Metrics!RecordEnd(sla, k, how)
  BY PendingCallShape
  DEF EngineInv, TypeOK, PendingIsUnanswered, SlaInv, registryVars, EndCall, EntryOf
<1>2. /\ outcome[c] \notin Ended /\ outcome'[c] = how /\ how \in Ended
      /\ call'[c].caller = NoWorker
      /\ \A d \in Calls : d # c => call'[d] = call[d] /\ outcome'[d] = outcome[d]
  BY <1>1 DEF Ended
<1>3. /\ IsFiniteSet(EndedSo(Ended)')
      /\ e' = e + 1 /\ g' = g + err /\ h' = h + late
  <2>1. IsFiniteSet(EndedSo(Ended)') /\ e' = e + (IF how \in Ended THEN 1 ELSE 0)
    BY <1>1, <1>2, OneEnds
  <2>2. g' = g + (IF how \in Failed THEN 1 ELSE 0)
    BY <1>1, <1>2, OneEnds DEF Failed, Ended
  <2>3. h' = h + (IF how \in {"timeout"} THEN 1 ELSE 0)
    BY <1>1, <1>2, OneEnds DEF Ended
  <2>4. how \in Failed <=> how # "ok" BY DEF Failed
  <2> HIDE DEF e, g, h
  <2>5. QED BY <1>2, <2>1, <2>2, <2>3, <2>4
<1>4. IsFiniteSet(pending') /\ Cardinality(pending') = Cardinality(pending) - 1
  BY <1>1, FS_RemoveElement
<1>5. /\ e \in Nat /\ g \in Nat /\ h \in Nat /\ Cardinality(pending) \in Nat
      /\ SumOf(CallsOf(sla)) \in Nat /\ SumOf(ErrorsOf(sla)) \in Nat
      /\ SumOf(TimeoutsOf(sla)) \in Nat
      /\ sla.totalCalls \in Nat /\ sla.totalErrors \in Nat /\ sla.totalTimeouts \in Nat
  BY <1>1, EndedSoTyped, FS_CardinalityType DEF FiniteSums, SumOf, Ended, Failed, Metrics!Sla
<1>6. /\ sla.totalCalls = e + Cardinality(pending)
      /\ sla.totalErrors = SumOf(ErrorsOf(sla)) /\ sla.totalTimeouts = SumOf(TimeoutsOf(sla))
      /\ SumOf(CallsOf(sla)) <= e /\ sla.totalErrors <= g
      /\ ~renamedInFlight => /\ SumOf(CallsOf(sla)) = e /\ sla.totalErrors = g
                             /\ sla.totalTimeouts = h
                             /\ \A d \in pending : sla.entries[EntryOf(d)].known
  BY DEF SlaInv
<1>7. sla'.totalCalls = sla.totalCalls
  BY <1>1, EndCountsAtMostOne
<1>8. \A d \in pending : EntryOf(d)' = EntryOf(d) /\ EntryOf(d) \in MetricKeys
  <2>1. ASSUME NEW d \in pending PROVE EntryOf(d) \in MetricKeys
    BY PendingCallShape DEF EntryOf
  <2>2. QED BY <1>1, <2>1 DEF EntryOf, MetricKey
<1> HIDE DEF EntryOf, k, e, g, h
<1>9. CASE sla.entries[k].known
  <2>1. /\ FiniteSums(sla')
        /\ SumOf(CallsOf(sla')) = SumOf(CallsOf(sla)) + 1
        /\ SumOf(ErrorsOf(sla')) = SumOf(ErrorsOf(sla)) + err
        /\ SumOf(TimeoutsOf(sla')) = SumOf(TimeoutsOf(sla)) + late
        /\ sla'.totalErrors = sla.totalErrors + err
        /\ sla'.totalTimeouts = sla.totalTimeouts + late
        /\ \A j \in MetricKeys : sla.entries[j].known => sla'.entries[j].known
    BY <1>1, <1>9, EndAddsToSums
  <2>2. /\ SumOf(CallsOf(sla))' = SumOf(CallsOf(sla')) /\ SumOf(ErrorsOf(sla))' = SumOf(ErrorsOf(sla'))
        /\ SumOf(TimeoutsOf(sla))' = SumOf(TimeoutsOf(sla')) /\ FiniteSums(sla)' = FiniteSums(sla')
    BY DEF SumOf, CallsOf, ErrorsOf, TimeoutsOf, FiniteSums, Units, MetricKeys
  <2>3. ~renamedInFlight => \A d \in pending' : sla'.entries[EntryOf(d)'].known
    BY <1>1, <1>6, <1>8, <2>1
  <2>4. err \in {0, 1} /\ late \in {0, 1} OBVIOUS
  <2> HIDE DEF err, late
  <2>5. /\ sla'.totalCalls = e' + Cardinality(pending')
        /\ sla'.totalErrors = SumOf(ErrorsOf(sla))' /\ sla'.totalTimeouts = SumOf(TimeoutsOf(sla))'
        /\ SumOf(CallsOf(sla))' <= e' /\ sla'.totalErrors <= g'
        /\ ~renamedInFlight => /\ SumOf(CallsOf(sla))' = e' /\ sla'.totalErrors = g'
                               /\ sla'.totalTimeouts = h'
    BY <1>3, <1>4, <1>5, <1>6, <1>7, <2>1, <2>2, <2>4
  <2>6. QED BY <1>1, <1>3, <1>4, <2>1, <2>2, <2>3, <2>5 DEF SlaInv, e, g, h
<1>10. CASE ~sla.entries[k].known
  <2>1. renamedInFlight BY <1>6, <1>10 DEF k
  <2>2. sla' = sla BY <1>1, <1>10 DEF Metrics!RecordEnd, k
  <2>3. /\ SumOf(CallsOf(sla))' = SumOf(CallsOf(sla)) /\ SumOf(ErrorsOf(sla))' = SumOf(ErrorsOf(sla))
        /\ SumOf(TimeoutsOf(sla))' = SumOf(TimeoutsOf(sla)) /\ FiniteSums(sla)' = FiniteSums(sla)
    BY <2>2 DEF SumOf, CallsOf, ErrorsOf, TimeoutsOf, FiniteSums, Units, MetricKeys
  <2>4. err \in {0, 1} OBVIOUS
  <2> HIDE DEF err, late
  <2>5. /\ sla'.totalCalls = e' + Cardinality(pending')
        /\ sla'.totalErrors = SumOf(ErrorsOf(sla))' /\ sla'.totalTimeouts = SumOf(TimeoutsOf(sla))'
        /\ SumOf(CallsOf(sla))' <= e' /\ sla'.totalErrors <= g'
    BY <1>3, <1>4, <1>5, <1>6, <2>2, <2>3, <2>4
  <2>6. QED BY <1>1, <1>3, <1>4, <2>1, <2>3, <2>5 DEF SlaInv, e, g, h
<1>11. QED BY <1>9, <1>10

(* The other steps. A change of name in mid-call ends the exact count.     *)
LEMMA RegistryKeepsSla ==
  ASSUME SlaInv, EngineInv, EngineInv', UNCHANGED callVars,
         \/ name' = name /\ renamedInFlight' = renamedInFlight
         \/ \E w \in WorkerId : WorkerRegistration(w)
  PROVE  SlaInv'
<1>1. call' = call /\ outcome' = outcome /\ pending' = pending /\ sla' = sla
  BY DEF callVars
<1>2. \A S \in SUBSET Ended : EndedSo(S)' = EndedSo(S)
  BY <1>1 DEF EndedSo, EngineCalls
<1>3. /\ renamedInFlight => renamedInFlight'
      /\ ~renamedInFlight' => \A c \in pending : name'[call[c].target] = name[call[c].target]
  <2>1. CASE name' = name /\ renamedInFlight' = renamedInFlight BY <2>1
  <2>2. CASE \E w \in WorkerId : WorkerRegistration(w)
    <3>1. PICK w \in WorkerId : WorkerRegistration(w) BY <2>2
    <3>2. renamedInFlight' = (renamedInFlight \/
            (name'[w] # name[w] /\ \E c \in pending : call[c].target = w))
      BY <3>1 DEF WorkerRegistration
    <3>3. \A v \in WorkerId : v # w => name'[v] = name[v]
      BY <3>1
      DEF WorkerRegistration, RegistryMessage, WorkersRegister, RegisterFunction,
          UnregisterFunction, RegisterHttpTriggerType, RegisterHttpTrigger,
          UnregisterHttpTrigger, EngineInv, TypeOK, RegistryTypeOK
    <3>4. \A c \in pending : call[c].target \in WorkerId BY PendingCallShape
    <3>5. QED BY <3>2, <3>3, <3>4
  <2>3. QED BY <2>1, <2>2
<1>4. ~renamedInFlight' => \A c \in pending : EntryOf(c)' = EntryOf(c)
  BY <1>1, <1>3 DEF EntryOf, MetricKey
<1>5. QED BY <1>1, <1>2, <1>3, <1>4, SlaKept

(* A call changes that is not pending and does not end as one.             *)
LEMMA OutsideKeepsSla ==
  ASSUME SlaInv, EngineInv, EngineInv', NEW c \in Calls, c \notin pending,
         outcome[c] \notin Ended \/ call[c].caller # NoWorker,
         outcome'[c] \notin Ended \/ call'[c].caller # NoWorker,
         \A d \in Calls : d # c => call'[d] = call[d] /\ outcome'[d] = outcome[d],
         UNCHANGED <<pending, sla, registryVars, renamedInFlight>>
  PROVE  SlaInv'
<1>1. \A S \in SUBSET Ended : EndedSo(S)' = EndedSo(S) BY OneChanges
<1>2. \A d \in pending : EntryOf(d)' = EntryOf(d)
  <2>1. \A d \in pending : d \in Calls /\ d # c BY DEF EngineInv, TypeOK
  <2>2. name' = name BY DEF registryVars
  <2>3. QED BY <2>1, <2>2 DEF EntryOf, MetricKey
<1>3. QED BY <1>1, <1>2, SlaKept

LEMMA NextKeepsSla == SlaInv /\ EngineInv /\ EngineInv' /\ [Next]_vars => SlaInv'
<1> SUFFICES ASSUME SlaInv, EngineInv, EngineInv', [Next]_vars PROVE SlaInv'
  OBVIOUS
<1>0. /\ call \in [Calls -> Call] /\ outcome \in [Calls -> {"idle"} \cup Open \cup Settled]
      /\ pending = {d \in EngineCalls : outcome[d] = "waiting"}
      /\ workerInvocations = {d \in Calls \ EngineCalls : outcome[d] = "waiting"}
      /\ pending \subseteq Calls
  BY DEF EngineInv, TypeOK, PendingIsUnanswered, ForwardedIsUnanswered
<1>1. CASE WorkerConnects
  BY <1>1, RegistryKeepsSla DEF WorkerConnects, Connect
<1>2. ASSUME NEW w \in WorkerId, WorkerRegistration(w) PROVE SlaInv'
  BY <1>2, RegistryKeepsSla DEF WorkerRegistration
<1>3. ASSUME NEW w \in WorkerId, ConnectionDrops(w) PROVE SlaInv'
  BY <1>3, RegistryKeepsSla DEF ConnectionDrops, SocketCloses
<1>4. ASSUME NEW w \in WorkerId, ConnectionClosed(w) PROVE SlaInv'
  <2>1. /\ call' = call /\ outcome' = outcome /\ pending' = pending /\ sla' = sla
        /\ name' = name /\ renamedInFlight' = renamedInFlight
    BY <1>4 DEF ConnectionClosed, OnClose
  <2>2. \A S \in SUBSET Ended : EndedSo(S)' = EndedSo(S) BY <2>1 DEF EndedSo, EngineCalls
  <2>3. \A c \in pending : EntryOf(c)' = EntryOf(c) BY <2>1 DEF EntryOf, MetricKey
  <2>4. QED BY <2>1, <2>2, <2>3, SlaKept
<1>5. ASSUME NEW c \in Calls, NEW how \in {"notFound", "unavailable", "channelError"},
             Finish(c, how), outcome[c] \in {"idle", "connecting"},
             UNCHANGED <<registryVars, phase, renamedInFlight>>
      PROVE  SlaInv'
  <2>1. /\ c \notin pending /\ outcome[c] \notin Ended /\ outcome'[c] \notin Ended
        /\ \A d \in Calls : d # c => call'[d] = call[d] /\ outcome'[d] = outcome[d]
        /\ UNCHANGED <<pending, sla, registryVars, renamedInFlight>>
    BY <1>0, <1>5 DEF Finish, Ended
  <2>2. QED BY <2>1, OutsideKeepsSla
<1>6. ASSUME NEW c \in Calls, NEW f \in Functions, Trigger(c, f) PROVE SlaInv'
  <2>1. CASE Owners(f) = {} BY <1>5, <1>6, <2>1 DEF Trigger
  <2>2. CASE Owners(f) # {}
    <3>1. First(Owners(f)) \in WorkerId
      <4>1. Owners(f) \in SUBSET WorkerId BY DEF EngineInv, TypeOK, RegistryTypeOK, Owners
      <4>2. QED BY <2>2, <4>1, FirstIsMember
    <3>2. QED BY <1>6, <2>2, <3>1, SendKeepsSla DEF Trigger
  <2>3. QED BY <2>1, <2>2
<1>7. ASSUME NEW c \in Calls, HttpArrives(c) PROVE SlaInv'
  <2>1. CASE phase = "draining" \/ httpTriggerWorker = NoWorker
    BY <1>5, <1>7, <2>1 DEF HttpArrives
  <2>2. CASE ~(phase = "draining" \/ httpTriggerWorker = NoWorker)
    <3>1. /\ c \notin pending /\ outcome[c] \notin Ended /\ outcome'[c] \notin Ended
          /\ \A d \in Calls : d # c => call'[d] = call[d] /\ outcome'[d] = outcome[d]
          /\ UNCHANGED <<pending, sla, registryVars, renamedInFlight>>
      BY <1>0, <1>7, <2>2 DEF HttpArrives, Ended
    <3>2. QED BY <3>1, OutsideKeepsSla
  <2>3. QED BY <2>1, <2>2
<1>8. ASSUME NEW c \in Calls, HttpBodyRead(c) PROVE SlaInv'
  <2>1. /\ c \notin pending /\ outcome[c] \notin Ended /\ outcome'[c] \notin Ended
        /\ \A d \in Calls : d # c => call'[d] = call[d] /\ outcome'[d] = outcome[d]
        /\ UNCHANGED <<pending, sla, registryVars, renamedInFlight>>
    BY <1>0, <1>8 DEF HttpBodyRead, Ended
  <2>2. QED BY <2>1, OutsideKeepsSla
<1>9. ASSUME NEW c \in Calls, HttpReaderOpens(c) PROVE SlaInv'
  <2>1. call[c].target \in WorkerId /\ call[c].fn \in Functions
    BY <1>9 DEF HttpReaderOpens, EngineInv, TypeOK, CallShape, Open, Call
  <2>2. QED BY <1>9, <2>1, SendKeepsSla DEF HttpReaderOpens
<1>10. ASSUME NEW c \in Calls, HttpReaderFails(c) PROVE SlaInv'
  BY <1>5, <1>10 DEF HttpReaderFails
<1>11. ASSUME NEW c \in Calls, Timeout(c) PROVE SlaInv'
  <2>1. c \in pending BY <1>11 DEF Timeout, EngineInv, PendingIsUnanswered
  <2>2. QED BY <1>11, <2>1, EndKeepsSla DEF Timeout
<1>12. ASSUME NEW c \in Calls, NEW w \in WorkerId, NEW f \in Functions, WorkerInvokes(c, w, f)
       PROVE  SlaInv'
  <2>1. /\ c \notin pending /\ outcome[c] \notin Ended /\ call'[c].caller = w
        /\ \A d \in Calls : d # c => call'[d] = call[d] /\ outcome'[d] = outcome[d]
        /\ UNCHANGED <<pending, sla, registryVars, renamedInFlight>>
    BY <1>0, <1>12 DEF WorkerInvokes, Ended
  <2>2. w # NoWorker BY BoundsAssumption DEF WorkerId, NoWorker
  <2>3. QED BY <2>1, <2>2, OutsideKeepsSla
<1>13. ASSUME NEW c \in Calls, NEW w \in WorkerId, NEW how \in {"ok", "error"},
              InvocationResult(w, c, how)
       PROVE  SlaInv'
  <2>1. UNCHANGED <<call, registryVars, renamedInFlight>> BY <1>13 DEF InvocationResult
  <2>2. CASE PassOn(c, how)
    <3>1. /\ c \notin pending /\ call[c].caller # NoWorker /\ call'[c].caller # NoWorker
          /\ \A d \in Calls : d # c => call'[d] = call[d] /\ outcome'[d] = outcome[d]
          /\ UNCHANGED <<pending, sla>>
      BY <1>0, <2>1, <2>2 DEF PassOn, EngineCalls
    <3>2. QED BY <2>1, <3>1, OutsideKeepsSla
  <2>3. CASE Accept(c, how)
    <3>1. c \in pending /\ EndCall(c, how) BY <2>3 DEF Accept
    <3>2. QED BY <2>1, <3>1, EndKeepsSla
  <2>4. CASE Ignore(c)
    <3>1. /\ call' = call /\ outcome' = outcome /\ pending' = pending /\ sla' = sla
          /\ name' = name /\ renamedInFlight' = renamedInFlight
      BY <2>1, <2>4 DEF Ignore, registryVars
    <3>2. \A S \in SUBSET Ended : EndedSo(S)' = EndedSo(S) BY <3>1 DEF EndedSo, EngineCalls
    <3>3. \A d \in pending : EntryOf(d)' = EntryOf(d) BY <3>1 DEF EntryOf, MetricKey
    <3>4. QED BY <3>1, <3>2, <3>3, SlaKept
  <2>5. QED BY <1>13, <2>2, <2>3, <2>4 DEF InvocationResult
<1>14. CASE Shutdown \/ DrainTimeIsUp
  <2>1. UNCHANGED callVars /\ name' = name /\ renamedInFlight' = renamedInFlight
    BY <1>14 DEF Shutdown, DrainTimeIsUp, CloseEverything, registryVars
  <2>2. QED BY <2>1, RegistryKeepsSla
<1>15. CASE UNCHANGED vars
  BY <1>15, RegistryKeepsSla DEF vars, registryVars
<1>16. QED
  BY <1>1, <1>2, <1>3, <1>4, <1>6, <1>7, <1>8, <1>9, <1>10, <1>11, <1>12, <1>13,
     <1>14, <1>15 DEF Next

(* Whatever the interleaving, /metrics counts no call twice, and exactly   *)
(* until a worker changes its name in mid-call (engine.ts:490-571).        *)
THEOREM MetricsAgree == Spec => []SlaAgreesWithOutcomes
<1>1. Init => SlaInv BY SlaInvHolds
<1>2. Init => EngineInv BY InitEstablishesInv
<1>3. EngineInv /\ [Next]_vars => EngineInv' BY NextKeepsInv
<1>4. SlaInv /\ EngineInv /\ EngineInv' /\ [Next]_vars => SlaInv' BY NextKeepsSla
<1>5. SlaInv => SlaAgreesWithOutcomes
  BY DEF SlaInv, SlaAgreesWithOutcomes, With, EndedSo, Ended, Failed
<1>6. QED BY <1>1, <1>2, <1>3, <1>4, <1>5, PTL DEF Spec
=============================================================================
