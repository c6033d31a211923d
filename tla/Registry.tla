------------------------------ MODULE Registry ------------------------------
(***************************************************************************)
(* The worker registry of the III engine (iii-engine/src/engine.ts): the   *)
(* connected workers, the functions and HTTP triggers each has registered, *)
(* and the worker the engine remembers as "the" HTTP trigger worker.       *)
(*                                                                         *)
(* Every WebSocket connection gets a fresh random id, and JavaScript Maps  *)
(* iterate in insertion order.  Ids are modelled as 1, 2, ... in the order *)
(* of connection, so the iteration order of the map `workers' is the order *)
(* of the numbers and "the first worker with ..." is a minimum.  A process *)
(* that reconnects is a new id, as it is in the code.                      *)
(***************************************************************************)
EXTENDS Naturals

CONSTANTS
  MaxWorkers,   \* bound: how many connections the model lets in
  MaxMessages,  \* bound: how many registration messages it lets in
  Functions,    \* function ids
  Names         \* names a worker may announce with engine::workers::register

ASSUME BoundsAssumption == MaxWorkers \in Nat /\ MaxMessages \in Nat

WorkerId == 1 .. MaxWorkers
NoWorker == 0

(***************************************************************************)
(* ws[w] is the readyState of the connection, as the engine sees it:       *)
(* "closing" is the window between the socket leaving OPEN and the `close' *)
(* event whose handler removes the worker from the map.                    *)
(***************************************************************************)
SocketState == {"none", "open", "closing", "closed"}

VARIABLES
  workers,            \* keys of the map `workers'
  nextWorker,         \* the id the next connection gets
  ws,                 \* readyState of each connection
  name,               \* WorkerInfo.name
  functions,          \* WorkerInfo.functions
  httpTriggers,       \* function ids of the worker's triggers of type "http"
  httpTriggerWorker,  \* the remembered worker, or NoWorker (null)
  messages            \* registration messages so far (for the bound)

registryVars ==
  <<workers, nextWorker, ws, name, functions, httpTriggers, httpTriggerWorker,
    messages>>

RegistryTypeOK ==
  /\ workers \in SUBSET WorkerId
  /\ nextWorker \in 1 .. MaxWorkers + 1
  /\ ws \in [WorkerId -> SocketState]
  /\ name \in [WorkerId -> WorkerId \cup Names]
  /\ functions \in [WorkerId -> SUBSET Functions]
  /\ httpTriggers \in [WorkerId -> SUBSET Functions]
  /\ httpTriggerWorker \in WorkerId \cup {NoWorker}
  /\ messages \in 0 .. MaxMessages

RegistryInit ==
  /\ workers = {}
  /\ nextWorker = 1
  /\ ws = [w \in WorkerId |-> "none"]
  /\ name = [w \in WorkerId |-> w]
  /\ functions = [w \in WorkerId |-> {}]
  /\ httpTriggers = [w \in WorkerId |-> {}]
  /\ httpTriggerWorker = NoWorker
  /\ messages = 0

-----------------------------------------------------------------------------
(* Lookups, in the order the code iterates the map.                        *)

First(S) == CHOOSE w \in S : \A v \in S : w <= v

Owners(f) == {w \in workers : f \in functions[w]}

(* The candidates of a forwarded call: the caller itself is skipped.       *)
OtherOwners(f, caller) == Owners(f) \ {caller}

HttpWorkers == {w \in workers : httpTriggers[w] # {}}

-----------------------------------------------------------------------------
(* Connections.                                                            *)

Connect ==
  /\ nextWorker <= MaxWorkers          \* bound
  /\ workers' = workers \cup {nextWorker}
  /\ ws' = [ws EXCEPT ![nextWorker] = "open"]
  /\ nextWorker' = nextWorker + 1
  /\ UNCHANGED <<name, functions, httpTriggers, httpTriggerWorker, messages>>

SocketCloses(w) ==
  /\ ws[w] = "open"
  /\ ws' = [ws EXCEPT ![w] = "closing"]
  /\ UNCHANGED <<workers, nextWorker, name, functions, httpTriggers,
                 httpTriggerWorker, messages>>

(* The `close' handler.  The WorkerInfo leaves the map and with it go its  *)
(* functions and triggers; closures that captured it still read its name.  *)
(* Nothing is done about the calls the worker had accepted.                *)
MutCloseKeepsHttpWorker(w) ==
  /\ ws[w] = "closing"
  /\ ws' = [ws EXCEPT ![w] = "closed"]
  /\ IF w \in workers
     THEN /\ workers' = workers \ {w}
          /\ functions' = [functions EXCEPT ![w] = {}]
          /\ httpTriggers' = [httpTriggers EXCEPT ![w] = {}]
          /\ UNCHANGED httpTriggerWorker
     ELSE UNCHANGED <<workers, functions, httpTriggers, httpTriggerWorker>>
  /\ UNCHANGED <<nextWorker, name, messages>>

OnClose(w) ==
  /\ ws[w] = "closing"
  /\ ws' = [ws EXCEPT ![w] = "closed"]
  /\ IF w \in workers
     THEN /\ workers' = workers \ {w}
          /\ functions' = [functions EXCEPT ![w] = {}]
          /\ httpTriggers' = [httpTriggers EXCEPT ![w] = {}]
          /\ httpTriggerWorker' =
               IF httpTriggerWorker = w THEN NoWorker ELSE httpTriggerWorker
     ELSE UNCHANGED <<workers, functions, httpTriggers, httpTriggerWorker>>
  /\ UNCHANGED <<nextWorker, name, messages>>

-----------------------------------------------------------------------------
(* Registration messages.  A message is handled only while its connection  *)
(* is open, and each handler returns early if the worker has left the map. *)

Registered(w) == ws[w] = "open" /\ w \in workers

CountMessage == messages < MaxMessages /\ messages' = messages + 1

WorkersRegister(w, n) ==
  /\ Registered(w) /\ CountMessage
  /\ name' = [name EXCEPT ![w] = n]
  /\ UNCHANGED <<workers, nextWorker, ws, functions, httpTriggers,
                 httpTriggerWorker>>

RegisterFunction(w, f) ==
  /\ Registered(w) /\ CountMessage
  /\ functions' = [functions EXCEPT ![w] = @ \cup {f}]
  /\ UNCHANGED <<workers, nextWorker, ws, name, httpTriggers,
                 httpTriggerWorker>>

UnregisterFunction(w, f) ==
  /\ Registered(w) /\ CountMessage
  /\ functions' = [functions EXCEPT ![w] = @ \ {f}]
  /\ UNCHANGED <<workers, nextWorker, ws, name, httpTriggers,
                 httpTriggerWorker>>

(* registertriggertype with id "http": the last one to announce it wins.   *)
RegisterHttpTriggerType(w) ==
  /\ Registered(w) /\ CountMessage
  /\ httpTriggerWorker' = w
  /\ UNCHANGED <<workers, nextWorker, ws, name, functions, httpTriggers>>

(* registertrigger of type "http": only the first one is remembered.       *)
RegisterHttpTrigger(w, f) ==
  /\ Registered(w) /\ CountMessage
  /\ httpTriggers' = [httpTriggers EXCEPT ![w] = @ \cup {f}]
  /\ httpTriggerWorker' =
       IF httpTriggerWorker = NoWorker THEN w ELSE httpTriggerWorker
  /\ UNCHANGED <<workers, nextWorker, ws, name, functions>>

(* unregistertrigger leaves the remembered worker alone.                   *)
UnregisterHttpTrigger(w, f) ==
  /\ Registered(w) /\ CountMessage
  /\ httpTriggers' = [httpTriggers EXCEPT ![w] = @ \ {f}]
  /\ UNCHANGED <<workers, nextWorker, ws, name, functions, httpTriggerWorker>>

RegistryMessage(w) ==
  \/ \E n \in Names \cup {w} : WorkersRegister(w, n)   \* payload.name ?? workerId
  \/ \E f \in Functions : RegisterFunction(w, f)
  \/ \E f \in Functions : UnregisterFunction(w, f)
  \/ RegisterHttpTriggerType(w)
  \/ \E f \in Functions : RegisterHttpTrigger(w, f)
  \/ \E f \in Functions : UnregisterHttpTrigger(w, f)
=============================================================================
