------------------------------ MODULE Gateway -------------------------------
(***************************************************************************)
(* The gateway worker's routing of LLM requests (workers/gateway/src): the *)
(* chat handler with zero-cost enforcement (http-handler.ts), routeLlm and *)
(* streamWithFailover (index.ts), FailoverEngine (failover.ts), the circuit*)
(* breaker and the usage table it reads (zero-cost/).                      *)
(*                                                                         *)
(* Requests interleave at every await: between the checks of two providers,*)
(* between key lookup and call, and between a check and the recording of   *)
(* the use it allowed.                                                     *)
(***************************************************************************)
EXTENDS Integers, Sequences, FiniteSets

CONSTANTS
  Requests,       \* slots: requests that may be handled at the same time
  Providers,
  Free,           \* providers of the free tier
  Chains,         \* provider arrays that translator::resolve answers with
  Limits,         \* the settings of free-tier limits, one for each provider
  EngramPipeline, \* GATEWAY_USE_ENGRAM_PIPELINE
  MaxTasks,       \* bound: the nodes of a planned DAG
  MaxRestarts     \* bound

ASSUME GatewayAssumption ==
  /\ Free \subseteq Providers
  /\ Chains \subseteq Seq(Providers)
  /\ Limits \subseteq [Providers -> Nat]
  /\ IsFiniteSet(Requests)
  /\ EngramPipeline \in BOOLEAN
  /\ MaxTasks \in Nat \ {0} /\ MaxRestarts \in Nat

VARIABLES
  enforced,     \* GATEWAY_ZERO_COST_ENFORCEMENT
  tierConfig,   \* the limits as set when enforcement started
  restarts,     \* how often the gateway has been restarted
  usage,        \* request_count of each provider in the usage table
  rowLimit,     \* free_tier_limit of its row there, 0 while it has none
  phase,        \* where a request's handler is suspended
  entry,        \* gateway::chat_completions or gateway::route_llm
  streaming,    \* routed by streamWithFailover
  chain,        \* the providers to check, then those to try
  position,     \* index in chain
  admitted,     \* the providers the circuit breaker has let through
  failures,     \* RouteFailure.failures: who failed
  tasksLeft,    \* sub-tasks still to route, this one included
  reply         \* what the caller got

requestVars == <<phase, entry, streaming, chain, position, admitted, failures,
                 tasksLeft, reply>>

config == <<enforced, tierConfig, restarts>>
usageTable == <<usage, rowLimit>>

gatewayVars == <<config, usageTable, requestVars>>

NoReply == "none"
Reply == {"ok", "stream", "allFailed", "taskFailed", "noProvider", "unresolved"}

GatewayTypeOK ==
  /\ enforced \in BOOLEAN
  /\ tierConfig \in Limits /\ restarts \in 0 .. MaxRestarts
  /\ usage \in [Providers -> Nat] /\ rowLimit \in [Providers -> Nat]
  /\ phase \in [Requests -> {"idle", "classifying", "orchestrating", "checking",
                             "routing", "calling", "healing", "opening", "done"}]
  /\ entry \in [Requests -> {"chat", "route"}]
  /\ streaming \in [Requests -> BOOLEAN]
  /\ chain \in [Requests -> Seq(Providers)]
  /\ position \in [Requests -> Nat \ {0}]
  /\ admitted \in [Requests -> Seq(Providers)]
  /\ failures \in [Requests -> Seq(Providers)]
  /\ tasksLeft \in [Requests -> 0 .. MaxTasks]
  /\ reply \in [Requests -> Reply \cup {NoReply}]

GatewayInit ==
  /\ enforced \in BOOLEAN /\ tierConfig \in Limits /\ restarts = 0
  /\ usage = [p \in Providers |-> 0] /\ rowLimit = [p \in Providers |-> 0]
  /\ phase = [r \in Requests |-> "idle"]
  /\ entry = [r \in Requests |-> "chat"]
  /\ streaming = [r \in Requests |-> FALSE]
  /\ chain = [r \in Requests |-> <<>>]
  /\ position = [r \in Requests |-> 1]
  /\ admitted = [r \in Requests |-> <<>>]
  /\ failures = [r \in Requests |-> <<>>]
  /\ tasksLeft = [r \in Requests |-> 0]
  /\ reply = [r \in Requests |-> NoReply]

Current(r) == chain[r][position[r]]
IsLast(r) == position[r] >= Len(chain[r])

(* The request leaves its handler with an answer.                          *)
Answer(r, status) ==
  /\ phase' = [phase EXCEPT ![r] = "done"]
  /\ reply' = [reply EXCEPT ![r] = status]

(* The locals of handlers go with them. *)
Forgets(gone) ==
  /\ entry' = [r \in Requests |-> IF r \in gone THEN "chat" ELSE entry[r]]
  /\ streaming' = [r \in Requests |-> r \notin gone /\ streaming[r]]
  /\ chain' = [r \in Requests |-> IF r \in gone THEN <<>> ELSE chain[r]]
  /\ position' = [r \in Requests |-> IF r \in gone THEN 1 ELSE position[r]]
  /\ admitted' = [r \in Requests |-> IF r \in gone THEN <<>> ELSE admitted[r]]
  /\ failures' = [r \in Requests |-> IF r \in gone THEN <<>> ELSE failures[r]]
  /\ tasksLeft' = [r \in Requests |-> IF r \in gone THEN 0 ELSE tasksLeft[r]]

Suspend(r, where) ==
  /\ phase' = [phase EXCEPT ![r] = where]
  /\ UNCHANGED reply

-----------------------------------------------------------------------------
(* Arrival.  A request with several intents is routed task by task and is  *)
(* never streamed by the provider; route_llm does not plan, and knows no   *)
(* zero-cost enforcement.  A model nobody provides is answered at once.    *)
Begins(r, from, c, stream, tasks) ==
  /\ IF c = <<>>
     THEN /\ Answer(r, IF enforced /\ from = "chat" THEN "noProvider"
                       ELSE IF tasks > 1 THEN "taskFailed" ELSE "allFailed")
          /\ UNCHANGED <<entry, streaming, chain, tasksLeft>>
     ELSE /\ Suspend(r, IF enforced /\ from = "chat" THEN "checking" ELSE "routing")
          /\ entry' = [entry EXCEPT ![r] = from]
          /\ streaming' = [streaming EXCEPT ![r] = stream /\ tasks = 1]
          /\ chain' = [chain EXCEPT ![r] = c]
          /\ tasksLeft' = [tasksLeft EXCEPT ![r] = tasks]
  /\ UNCHANGED <<config, usageTable, position, admitted, failures>>

Arrives(r, from, c, stream, tasks) ==
  /\ phase[r] = "idle"
  /\ ~(from = "chat" /\ EngramPipeline)
  /\ from = "route" => tasks = 1
  /\ Begins(r, from, c, stream, tasks)

(* With the engram pipeline the chat handler first has the brain classify  *)
(* the request and a complex one orchestrated by the engram worker, whose  *)
(* answer is passed on: no provider is checked for it here, no use is      *)
(* recorded, and its nodes come back as requests of route_llm              *)
(* (orchestrate.ts:173).                                                   *)
Waits(r, from, to) ==
  /\ phase[r] = from
  /\ Suspend(r, to)
  /\ UNCHANGED <<config, usageTable, entry, streaming, chain, position, admitted,
                 failures, tasksLeft>>

AsksBrain(r) == EngramPipeline /\ Waits(r, "idle", "classifying")
IsComplex(r) == Waits(r, "classifying", "orchestrating")

EngramAnswers(r) ==
  /\ phase[r] = "orchestrating"
  /\ \E status \in {"ok", "stream"} : Answer(r, status)
  /\ UNCHANGED <<config, usageTable, entry, streaming, chain, position, admitted,
                 failures, tasksLeft>>

(* A simple request, or a call that throws: the handler goes on as without *)
(* the pipeline.                                                           *)
FallsThrough(r) ==
  /\ phase[r] \in {"classifying", "orchestrating"}
  /\ \E c \in Chains, stream \in BOOLEAN, tasks \in 1 .. MaxTasks :
       Begins(r, "chat", c, stream, tasks)

(* The translator cannot be reached: route_llm throws.  The chat handler   *)
(* has a map to fall back on and so always resolves.  (The tasks of a      *)
(* request resolve the same model again; they are given the same chain.)   *)
ResolveFails(r) ==
  /\ phase[r] = "idle"
  /\ Answer(r, "unresolved")
  /\ UNCHANGED <<config, usageTable, entry, streaming, chain, position, admitted, failures, tasksLeft>>

(* The caller has its answer: the slot is free for another request.        *)
Leaves(r) ==
  /\ phase[r] = "done"
  /\ phase' = [phase EXCEPT ![r] = "idle"]
  /\ reply' = [reply EXCEPT ![r] = NoReply]
  /\ Forgets({r})
  /\ UNCHANGED <<config, usageTable>>

-----------------------------------------------------------------------------
(* Zero-cost enforcement.                                                  *)

(* One use too many. *)
MutExhausted(p) == rowLimit[p] > 0 /\ usage[p] > rowLimit[p]

(* A limit of 0 gives a utilization of 0, as does a provider without a row *)
(* in the table: it never exhausts.                                        *)
Exhausted(p) == rowLimit[p] > 0 /\ usage[p] >= rowLimit[p]

Allowed(p) == p \in Free /\ ~Exhausted(p)

MutCheckProvider(r) ==
  /\ phase[r] = "checking"
  /\ LET now == IF Allowed(Current(r)) THEN Append(admitted[r], Current(r))
                                       ELSE admitted[r]
     IN  \/ /\ ~IsLast(r) /\ Allowed(Current(r))
            /\ admitted' = [admitted EXCEPT ![r] = now]
            /\ position' = [position EXCEPT ![r] = @ + 1]
            /\ UNCHANGED <<phase, reply, chain>>
         \/ /\ IsLast(r) /\ now # <<>>
            /\ admitted' = [admitted EXCEPT ![r] = now]
            /\ chain' = [chain EXCEPT ![r] = now]
            /\ position' = [position EXCEPT ![r] = 1]
            /\ Suspend(r, "routing")
  /\ UNCHANGED <<config, usageTable, entry, streaming, failures, tasksLeft>>

(* One provider of the chain is checked, the last one decides: the request *)
(* is refused, or routed over what was admitted.                           *)
CheckProvider(r) ==
  /\ phase[r] = "checking"
  /\ LET now == IF Allowed(Current(r)) THEN Append(admitted[r], Current(r))
                                       ELSE admitted[r]
     IN  \/ /\ ~IsLast(r)
            /\ admitted' = [admitted EXCEPT ![r] = now]
            /\ position' = [position EXCEPT ![r] = @ + 1]
            /\ UNCHANGED <<phase, reply, chain, entry, streaming, failures, tasksLeft>>
         \/ /\ IsLast(r) /\ now = <<>>
            /\ Answer(r, "noProvider")
            /\ Forgets({r})
         \/ /\ IsLast(r) /\ now # <<>>
            /\ admitted' = [admitted EXCEPT ![r] = now]
            /\ chain' = [chain EXCEPT ![r] = now]
            /\ position' = [position EXCEPT ![r] = 1]
            /\ Suspend(r, "routing")
            /\ UNCHANGED <<entry, streaming, failures, tasksLeft>>
  /\ UNCHANGED <<config, usageTable>>

(* Only the chat handler records, and one use per task.  A provider's row  *)
(* takes the limit set when it is inserted, and keeps it.                  *)
Record(r, p) ==
  IF enforced /\ entry[r] = "chat"
  THEN /\ usage' = [usage EXCEPT ![p] = @ + 1]
       /\ rowLimit' = [rowLimit EXCEPT ![p] = IF usage[p] = 0 THEN tierConfig[p] ELSE @]
  ELSE UNCHANGED usageTable

-----------------------------------------------------------------------------
(* One route: the providers in order, until one answers.                   *)

MutFail(r) ==
  /\ failures' = [failures EXCEPT ![r] = Append(@, Current(r))]
  /\ position' = [position EXCEPT ![r] = 1]
  /\ IF IsLast(r)
     THEN Answer(r, IF tasksLeft[r] > 1 THEN "taskFailed" ELSE "allFailed")
     ELSE Suspend(r, "routing")
  /\ UNCHANGED <<config, usageTable, entry, streaming, chain, admitted, tasksLeft>>

(* The provider is noted as failed and the next one is up; after the last  *)
(* one the route, and with it the request, has failed.                     *)
Fail(r) ==
  /\ failures' = [failures EXCEPT ![r] = Append(@, Current(r))]
  /\ IF IsLast(r)
     THEN /\ Answer(r, IF tasksLeft[r] > 1 THEN "taskFailed" ELSE "allFailed")
          /\ UNCHANGED position
     ELSE /\ Suspend(r, "routing")
          /\ position' = [position EXCEPT ![r] = @ + 1]
  /\ UNCHANGED <<config, usageTable, entry, streaming, chain, admitted, tasksLeft>>

(* The use is recorded; the next task starts with a new FailoverEngine.    *)
Succeed(r, status) ==
  /\ Record(r, Current(r))
  /\ IF tasksLeft[r] > 1
     THEN /\ tasksLeft' = [tasksLeft EXCEPT ![r] = @ - 1]
          /\ position' = [position EXCEPT ![r] = 1]
          /\ failures' = [failures EXCEPT ![r] = <<>>]
          /\ Suspend(r, "routing")
          /\ UNCHANGED <<entry, streaming, chain, admitted>>
     ELSE Answer(r, status) /\ Forgets({r})
  /\ UNCHANGED config

(* No key in the vault or the environment, or unknown.                     *)
SkipProvider(r) ==
  /\ phase[r] = "routing"
  /\ Fail(r)

CallProvider(r) == Waits(r, "routing", "calling")

(* Whatever the status or exception.  429, 403, 500 and 503 also put the   *)
(* provider into cooldown, but in the FailoverEngine of this route, which  *)
(* meets no provider twice.                                                *)
ProviderFails(r) ==
  /\ phase[r] = "calling"
  /\ Fail(r)

(* An empty answer is healed, if the caller of routeLlm has wired that, but*)
(* is an answer also if healing fails.                                     *)
ProviderAnswers(r) ==
  /\ phase[r] = "calling"
  /\ ~streaming[r]
  /\ \/ Succeed(r, "ok")
     \/ entry[r] = "route" /\ Waits(r, "calling", "healing")

HealAnswers(r) ==
  /\ phase[r] = "healing"
  /\ Succeed(r, "ok")

(* The provider streams: a channel is created for the chunks.  If that     *)
(* fails the provider counts as failed.                                    *)
StreamOpens(r) == streaming[r] /\ Waits(r, "calling", "opening")

ChannelCreated(r) ==
  /\ phase[r] = "opening"
  /\ Succeed(r, "stream") \/ Fail(r)

GatewayStep(r) ==
  \/ IsComplex(r) \/ EngramAnswers(r) \/ FallsThrough(r)
  \/ CheckProvider(r) \/ SkipProvider(r) \/ CallProvider(r)
  \/ ProviderFails(r) \/ ProviderAnswers(r) \/ HealAnswers(r)
  \/ StreamOpens(r) \/ ChannelCreated(r)

(* A table that is only in memory. *)
MutSurvives == usage' = [p \in Providers |-> 0] /\ rowLimit' = [p \in Providers |-> 0]

(* What a restart leaves: the SQLite file. *)
Survives == UNCHANGED usageTable

(* The gateway stops or crashes and is started again, with the same or with*)
(* other settings, which are written to the file where they are enforced;  *)
(* requests under way are lost.                                            *)
Restarts(limits, enforce) ==
  /\ restarts < MaxRestarts
  /\ restarts' = restarts + 1
  /\ enforced' = enforce
  /\ tierConfig' = IF enforce THEN limits ELSE tierConfig
  /\ Survives
  /\ phase' = [r \in Requests |-> "idle"]
  /\ reply' = [r \in Requests |-> NoReply]
  /\ Forgets(Requests)

GatewayNext ==
  \/ \E limits \in Limits, enforce \in BOOLEAN : Restarts(limits, enforce)
  \/ \E r \in Requests :
       \/ \E from \in {"chat", "route"}, c \in Chains, stream \in BOOLEAN,
             tasks \in 1 .. MaxTasks : Arrives(r, from, c, stream, tasks)
       \/ AsksBrain(r)
       \/ ResolveFails(r)
       \/ GatewayStep(r)
       \/ Leaves(r)

GatewaySpec == GatewayInit /\ [][GatewayNext]_gatewayVars

(* Every call the handler awaits returns or throws.                        *)
GatewayFairness == \A r \in Requests : WF_gatewayVars(GatewayStep(r))

FairGatewaySpec == GatewaySpec /\ GatewayFairness

-----------------------------------------------------------------------------
(* Properties.                                                             *)

(***************************************************************************)
(* Failover is in order and complete: at every await the providers noted as*)
(* failed are exactly those before the current one, in the order of the    *)
(* chain, so none is skipped silently, tried twice or tried after a later  *)
(* one; and a request fails only when every provider of its chain has.     *)
(***************************************************************************)
TriedInOrder ==
  \A r \in Requests :
    /\ phase[r] \in {"routing", "calling", "healing", "opening"} =>
         /\ position[r] \in 1 .. Len(chain[r])
         /\ failures[r] = SubSeq(chain[r], 1, position[r] - 1)
    /\ reply[r] \in {"allFailed", "taskFailed"} =>
         failures[r] = chain[r]

(***************************************************************************)
(* Under enforcement the chat handler only ever calls providers of the free*)
(* tier that the circuit breaker admitted for this very request, also for  *)
(* its later tasks.                                                        *)
(***************************************************************************)
OnlyAdmittedAreTried ==
  \A r \in Requests :
    enforced /\ entry[r] = "chat" /\ phase[r] \in {"routing", "calling", "opening"} =>
      /\ chain[r] = admitted[r]
      /\ \A i \in 1 .. Len(chain[r]) : chain[r][i] \in Free

GatewayInv ==
  /\ GatewayTypeOK
  /\ TriedInOrder
  /\ OnlyAdmittedAreTried

(***************************************************************************)
(* Check and record are far apart, so requests that are under way together *)
(* can exceed a limit, but only by what was admitted before it was reached:*)
(* each of them may still use it once per task.  A restart, or other       *)
(* settings, add nothing to that.  A limit is one of requests: it is only  *)
(* ever compared with request_count (usage_tracker.ts:64-75, 122-134).  The*)
(* tokens, which docs/OPERATIONS.md:77-79 say it is of, are written to the *)
(* table and looked at by no check, so that nothing bounds them; and a     *)
(* limit of 0 is no limit.                                                 *)
(***************************************************************************)
RequestOvershootIsBounded ==
  \A p \in Free : rowLimit[p] > 0 =>
    usage[p] < rowLimit[p] + MaxTasks * Cardinality(Requests)

(***************************************************************************)
(* A provider that has used up its free tier is refused for good, whatever *)
(* crashes, restarts and settings follow: the count is kept in a file, is  *)
(* never reset, and is compared with the limit the row was made with       *)
(* (usage_tracker.ts:64-75, 118-134).                                      *)
(***************************************************************************)
ExhaustedStaysExhausted ==
  [][\A p \in Providers : Exhausted(p) => Exhausted(p)']_gatewayVars

(***************************************************************************)
(* Every request is answered, if its calls return, whatever they return;   *)
(* only a restart takes it from its handler without an answer.  (Stated as *)
(* "never in a handler for ever", which is the same as phase[r] # "idle" ~>*)
(* phase[r] \in {"idle", "done"}, and cheaper to check.)                   *)
(***************************************************************************)
RequestsAreAnswered ==
  \A r \in Requests : []<>(phase[r] \in {"idle", "done"})

(***************************************************************************)
(* docs/OPERATIONS.md: "Free-tier limit reached - all requests to that     *)
(* provider return 503": no provider is used beyond its limit.  (Of tokens,*)
(* as line 77 has it, a use takes at least one: what goes beyond the limit *)
(* in requests does so in tokens.)                                         *)
(***************************************************************************)
LimitIsEnforced == \A p \in Free : rowLimit[p] > 0 => usage[p] <= rowLimit[p]
=============================================================================
