--------------------------- MODULE GatewayProofs ----------------------------
(***************************************************************************)
(* Proofs about the gateway, for any number of requests under way, any     *)
(* providers, chains, limits and restarts: failover is in order and over   *)
(* admitted providers only, a free tier that is used up stays so, and a    *)
(* limit is exceeded by no more than requests admitted before can use. And *)
(* about its tier cache, for any providers and any number of refresh runs  *)
(* that overlap: callers share one probe, and a tier that is known is not  *)
(* lost to a failing probe.                                                *)
(***************************************************************************)
EXTENDS Gateway, TierCache, SequenceTheorems, FiniteSetTheorems, TLAPS

Routed == {"routing", "calling", "healing", "opening"}
Failed == {"allFailed", "taskFailed"}

(* Not yet handed to the chat handler's routing, or to route_llm. *)
Unrouted == {"idle", "classifying", "orchestrating"}

AllFree(providers) == \A i \in 1 .. Len(providers) : providers[i] \in Free

(* What TriedInOrder and OnlyAdmittedAreTried rest on: where each request  *)
(* stands, its locals are what the earlier steps have made of them.        *)
RequestInv(r) ==
  /\ phase[r] \in Unrouted \cup {"checking"} => failures[r] = <<>>
  /\ phase[r] \in Unrouted => chain[r] = <<>> /\ position[r] = 1 /\ admitted[r] = <<>>
  /\ phase[r] # "done" => reply[r] = NoReply
  /\ phase[r] = "checking" =>
       position[r] \in 1 .. Len(chain[r]) /\ AllFree(admitted[r])
  /\ phase[r] \in Routed =>
       /\ position[r] \in 1 .. Len(chain[r])
       /\ failures[r] = SubSeq(chain[r], 1, position[r] - 1)
       /\ enforced /\ entry[r] = "chat" => chain[r] = admitted[r] /\ AllFree(chain[r])
  /\ reply[r] \in Failed => failures[r] = chain[r]

GatewayIInv == GatewayTypeOK /\ \A r \in Requests : RequestInv(r)

(* Of each request, what RequestInv speaks of. *)
Same(r) ==
  /\ enforced' = enforced
  /\ phase'[r] = phase[r] /\ entry'[r] = entry[r] /\ chain'[r] = chain[r]
  /\ position'[r] = position[r] /\ admitted'[r] = admitted[r]
  /\ failures'[r] = failures[r] /\ reply'[r] = reply[r]

(* A step of one request leaves the others as they are. *)
OthersSame(r) == \A q \in Requests \ {r} : Same(q)

LEMMA SameKeeps ==
  ASSUME NEW r \in Requests, RequestInv(r), Same(r)
  PROVE  RequestInv(r)'
BY DEF RequestInv, Same, AllFree

LEMMA OneRequestKeeps ==
  ASSUME GatewayIInv, NEW r \in Requests, OthersSame(r), GatewayTypeOK', RequestInv(r)'
  PROVE  GatewayIInv'
BY SameKeeps DEF GatewayIInv, OthersSame

(* Noting the current provider as failed extends the failures by one. *)
LEMMA OneMoreFailure ==
  ASSUME NEW c \in Seq(Providers), NEW k \in 1 .. Len(c)
  PROVE  Append(SubSeq(c, 1, k - 1), c[k]) = SubSeq(c, 1, k)
<1>1. SubSeq(c, 1, k) = SubSeq(c, 1, k - 1) \o <<c[k]>>
  BY SubSeqRecursiveSecond
<1>2. SubSeq(c, 1, k - 1) \in Seq(Providers) /\ c[k] \in Providers
  BY SubSeqProperties
<1>3. QED BY <1>1, <1>2, AppendIsConcat

-----------------------------------------------------------------------------
(* At the start no request is under way. *)
LEMMA GatewayStarts == GatewayInit => GatewayIInv
BY GatewayAssumption
DEF GatewayInit, GatewayIInv, GatewayTypeOK, RequestInv, NoReply, Routed, Failed, AllFree,
    Unrouted

(* A request arrives and is checked, routed or answered at once. *)
LEMMA BeginsKeeps ==
  ASSUME GatewayIInv, NEW r \in Requests, phase[r] \in Unrouted,
         NEW from \in {"chat", "route"}, NEW c \in Chains, NEW stream \in BOOLEAN,
         NEW tasks \in 1 .. MaxTasks, Begins(r, from, c, stream, tasks)
  PROVE  GatewayIInv'
<1>1. c \in Seq(Providers) /\ MaxTasks \in Nat BY GatewayAssumption
<1>2. GatewayTypeOK'
  <2>1. streaming' \in [Requests -> BOOLEAN]
    <3>1. (stream /\ tasks = 1) \in BOOLEAN OBVIOUS
    <3>2. \/ streaming' = streaming
          \/ streaming' = [streaming EXCEPT ![r] = (stream /\ tasks = 1)]
      BY DEF Begins
    <3>3. QED BY <3>1, <3>2, Zenon DEF GatewayIInv, GatewayTypeOK
  <2>2. /\ chain' \in [Requests -> Seq(Providers)] /\ entry' \in [Requests -> {"chat", "route"}]
        /\ tasksLeft' \in [Requests -> 0 .. MaxTasks]
        /\ phase' \in [Requests -> {"idle", "classifying", "orchestrating", "checking",
                                    "routing", "calling", "healing", "opening", "done"}]
    <3>1. \/ UNCHANGED <<entry, chain, tasksLeft>>
          \/ /\ entry' = [entry EXCEPT ![r] = from] /\ chain' = [chain EXCEPT ![r] = c]
             /\ tasksLeft' = [tasksLeft EXCEPT ![r] = tasks]
      BY DEF Begins
    <3>2. \E where \in {"done", "checking", "routing"} : phase' = [phase EXCEPT ![r] = where]
      BY DEF Begins, Answer, Suspend
    <3>3. phase' \in [Requests -> {"idle", "classifying", "orchestrating", "checking",
                                  "routing", "calling", "healing", "opening", "done"}]
      BY <3>2 DEF GatewayIInv, GatewayTypeOK
    <3>4. tasks \in 0 .. MaxTasks BY <1>1
    <3>5. tasksLeft' \in [Requests -> 0 .. MaxTasks]
      BY <3>1, <3>4, Zenon DEF GatewayIInv, GatewayTypeOK
    <3>6. chain' \in [Requests -> Seq(Providers)]
      BY <1>1, <3>1, Zenon DEF GatewayIInv, GatewayTypeOK
    <3>7. entry' \in [Requests -> {"chat", "route"}]
      BY <3>1, Zenon DEF GatewayIInv, GatewayTypeOK
    <3>8. QED BY <3>3, <3>5, <3>6, <3>7
  <2>3. reply' \in [Requests -> Reply \cup {NoReply}]
    <3>1. \/ reply' = reply
          \/ \E status \in {"noProvider", "taskFailed", "allFailed"} :
               reply' = [reply EXCEPT ![r] = status]
      BY DEF Begins, Answer, Suspend
    <3>2. {"noProvider", "taskFailed", "allFailed"} \subseteq Reply
      BY DEF Reply
    <3>3. QED BY <3>1, <3>2, Zenon DEF GatewayIInv, GatewayTypeOK
  <2>4. UNCHANGED <<config, usageTable, position, admitted, failures>> BY DEF Begins
  <2>5. QED BY <2>1, <2>2, <2>3, <2>4 DEF GatewayIInv, GatewayTypeOK, config, usageTable
<1>3. OthersSame(r)
  BY DEF Begins, GatewayIInv, GatewayTypeOK, Answer, Suspend, config, OthersSame, Same
<1>4. RequestInv(r)'
  <2>1. CASE c = <<>>
    BY <2>1 DEF Begins, GatewayIInv, GatewayTypeOK, RequestInv, Answer, config, Routed,
                Failed, AllFree, Unrouted
  <2>2. CASE c # <<>>
    <3>1. Len(c) \in Nat /\ Len(c) >= 1 BY <1>1, <2>2, EmptySeq
    <3>2. SubSeq(c, 1, 0) = <<>> BY SubSeqEmpty
    <3>3. QED
      BY SMTT(20), <2>2, <3>1, <3>2
      DEF Begins, GatewayIInv, GatewayTypeOK, RequestInv, Suspend, config, Routed, Failed,
          AllFree, NoReply, Unrouted
  <2>3. QED BY <2>1, <2>2
<1>5. QED BY <1>2, <1>3, <1>4, OneRequestKeeps

(* A request that is classified or orchestrated has no locals yet, and none*)
(* when the engram worker has answered it.                                 *)
LEMMA UnroutedKeeps ==
  ASSUME GatewayIInv, NEW r \in Requests, AsksBrain(r) \/ IsComplex(r) \/ EngramAnswers(r)
  PROVE  GatewayIInv'
<1>1. /\ phase[r] \in Unrouted
      /\ \E where \in {"classifying", "orchestrating", "done"} : phase' = [phase EXCEPT ![r] = where]
      /\ \/ UNCHANGED reply
         \/ /\ phase' = [phase EXCEPT ![r] = "done"]
            /\ \E status \in {"ok", "stream"} : reply' = [reply EXCEPT ![r] = status]
      /\ UNCHANGED <<config, usageTable, entry, streaming, chain, position, admitted, failures,
                     tasksLeft>>
  BY DEF AsksBrain, IsComplex, EngramAnswers, Waits, Suspend, Answer, Unrouted
<1>2. GatewayTypeOK'
  <2>1. phase' \in [Requests -> {"idle", "classifying", "orchestrating", "checking", "routing",
                                 "calling", "healing", "opening", "done"}]
    BY <1>1 DEF GatewayIInv, GatewayTypeOK
  <2>2. {"ok", "stream"} \subseteq Reply
    BY DEF Reply
  <2>3. reply \in [Requests -> Reply \cup {NoReply}] BY DEF GatewayIInv, GatewayTypeOK
  <2>4. reply' \in [Requests -> Reply \cup {NoReply}]
    <3>1. CASE UNCHANGED reply BY <2>3, <3>1
    <3>2. CASE \E status \in {"ok", "stream"} : reply' = [reply EXCEPT ![r] = status]
      BY <2>2, <2>3, <3>2
    <3>3. QED BY <1>1, <3>1, <3>2
  <2>5. QED BY <1>1, <2>1, <2>4 DEF GatewayIInv, GatewayTypeOK, config, usageTable
<1>3. OthersSame(r)
  BY <1>1 DEF GatewayIInv, GatewayTypeOK, config, OthersSame, Same
<1>4. RequestInv(r)'
  BY <1>1 DEF GatewayIInv, GatewayTypeOK, RequestInv, config, Routed, Failed, Unrouted, NoReply,
              AllFree
<1>5. QED BY <1>2, <1>3, <1>4, OneRequestKeeps

LEMMA ResolveFailsKeeps ==
  ASSUME GatewayIInv, NEW r \in Requests, ResolveFails(r)
  PROVE  GatewayIInv'
<1>1. GatewayTypeOK'
  BY DEF ResolveFails, GatewayIInv, GatewayTypeOK, Answer, config, usageTable, Reply
<1>2. OthersSame(r)
  BY DEF ResolveFails, GatewayIInv, GatewayTypeOK, Answer, config, OthersSame, Same
<1>3. RequestInv(r)'
  BY DEF ResolveFails, GatewayIInv, GatewayTypeOK, RequestInv, Answer, config, Routed, Failed,
         AllFree, Unrouted
<1>4. QED BY <1>1, <1>2, <1>3, OneRequestKeeps

(* The locals of a handler that has answered are as at the start. *)
LEMMA ForgetsTyped ==
  ASSUME GatewayTypeOK, NEW gone \in SUBSET Requests, Forgets(gone)
  PROVE  /\ entry' \in [Requests -> {"chat", "route"}]
         /\ streaming' \in [Requests -> BOOLEAN]
         /\ chain' \in [Requests -> Seq(Providers)]
         /\ position' \in [Requests -> Nat \ {0}]
         /\ admitted' \in [Requests -> Seq(Providers)]
         /\ failures' \in [Requests -> Seq(Providers)]
         /\ tasksLeft' \in [Requests -> 0 .. MaxTasks]
<1>1. MaxTasks \in Nat BY GatewayAssumption
<1>2. streaming' \in [Requests -> BOOLEAN]
  BY Zenon DEF Forgets, GatewayTypeOK
<1>3. QED BY <1>1, <1>2 DEF Forgets, GatewayTypeOK

LEMMA LeavesKeeps ==
  ASSUME GatewayIInv, NEW r \in Requests, Leaves(r)
  PROVE  GatewayIInv'
<1>1. GatewayTypeOK'
  BY ForgetsTyped DEF Leaves, GatewayIInv, GatewayTypeOK, config, usageTable
<1>2. OthersSame(r)
  BY DEF Leaves, Forgets, GatewayIInv, GatewayTypeOK, config, OthersSame, Same
<1>3. RequestInv(r)'
  BY DEF Leaves, Forgets, GatewayIInv, GatewayTypeOK, RequestInv, config, Routed, Failed,
         NoReply, AllFree, Unrouted
<1>4. QED BY <1>1, <1>2, <1>3, OneRequestKeeps

(* The last provider that was admitted is one of the free tier. *)
LEMMA CheckProviderKeeps ==
  ASSUME GatewayIInv, NEW r \in Requests, CheckProvider(r)
  PROVE  GatewayIInv'
<1> DEFINE now == IF Allowed(Current(r)) THEN Append(admitted[r], Current(r)) ELSE admitted[r]
<1>1. /\ chain[r] \in Seq(Providers) /\ position[r] \in 1 .. Len(chain[r])
      /\ Len(chain[r]) \in Nat /\ phase[r] = "checking"
      /\ failures[r] = <<>> /\ reply[r] = NoReply
      /\ admitted[r] \in Seq(Providers) /\ AllFree(admitted[r])
  <2>1. phase[r] = "checking" BY DEF CheckProvider
  <2>2. chain[r] \in Seq(Providers) /\ admitted[r] \in Seq(Providers)
    BY DEF GatewayIInv, GatewayTypeOK
  <2>3. Len(chain[r]) \in Nat BY <2>2, LenProperties
  <2>4. QED BY <2>1, <2>2, <2>3 DEF GatewayIInv, RequestInv
<1>2. Current(r) \in Providers BY <1>1, ElementOfSeq DEF Current
<1>3. now \in Seq(Providers) /\ AllFree(now)
  <2>1. CASE Allowed(Current(r))
    <3>1. Current(r) \in Free BY <2>1 DEF Allowed
    <3>2. now = Append(admitted[r], Current(r)) BY <2>1
    <3>3. /\ Len(now) = Len(admitted[r]) + 1 /\ now \in Seq(Providers)
          /\ \A i \in 1 .. Len(admitted[r]) : now[i] = admitted[r][i]
          /\ now[Len(admitted[r]) + 1] = Current(r) /\ Len(admitted[r]) \in Nat
      BY <1>1, <1>2, <3>2, AppendProperties
    <3>4. QED BY <1>1, <3>1, <3>3 DEF AllFree
  <2>2. CASE ~Allowed(Current(r)) BY <1>1, <2>2
  <2>3. QED BY <2>1, <2>2
<1>4. UNCHANGED <<config, usageTable>> BY DEF CheckProvider
<1> HIDE DEF now
<1>5. CASE /\ ~IsLast(r)
           /\ admitted' = [admitted EXCEPT ![r] = now]
           /\ position' = [position EXCEPT ![r] = position[r] + 1]
           /\ UNCHANGED <<phase, reply, chain, entry, streaming, failures, tasksLeft>>
  <2>1. GatewayTypeOK'
    <3>1. position[r] + 1 \in Nat \ {0} BY DEF GatewayIInv, GatewayTypeOK
    <3>2. QED
      BY <1>3, <1>4, <1>5, <3>1 DEF GatewayIInv, GatewayTypeOK, config, usageTable
  <2>2. OthersSame(r)
    BY <1>4, <1>5 DEF GatewayIInv, GatewayTypeOK, config, OthersSame, Same
  <2>3. RequestInv(r)'
    <3>1. position'[r] = position[r] + 1 /\ position'[r] \in 1 .. Len(chain[r])
      <4>1. position'[r] = position[r] + 1 BY <1>5 DEF GatewayIInv, GatewayTypeOK
      <4>2. ~(position[r] >= Len(chain[r])) BY <1>5 DEF IsLast
      <4>3. QED BY <1>1, <4>1, <4>2
    <3>2. admitted'[r] = now BY <1>5 DEF GatewayIInv, GatewayTypeOK
    <3>3. QED
      BY <1>1, <1>3, <1>5, <3>1, <3>2 DEF RequestInv, Unrouted, Routed, Failed, NoReply, AllFree
  <2>4. QED BY <2>1, <2>2, <2>3, OneRequestKeeps
<1>6. CASE IsLast(r) /\ now = <<>> /\ Answer(r, "noProvider") /\ Forgets({r})
  <2>1. GatewayTypeOK'
    BY <1>4, <1>6, ForgetsTyped DEF GatewayIInv, GatewayTypeOK, Answer, Reply, config, usageTable
  <2>2. OthersSame(r)
    BY <1>4, <1>6 DEF GatewayIInv, GatewayTypeOK, Answer, Forgets, config, OthersSame, Same
  <2>3. RequestInv(r)'
    BY <1>6 DEF GatewayIInv, GatewayTypeOK, Answer, Forgets, RequestInv, Routed, Failed, AllFree
  <2>4. QED BY <2>1, <2>2, <2>3, OneRequestKeeps
<1>7. CASE /\ IsLast(r) /\ now # <<>>
           /\ admitted' = [admitted EXCEPT ![r] = now]
           /\ chain' = [chain EXCEPT ![r] = now]
           /\ position' = [position EXCEPT ![r] = 1]
           /\ Suspend(r, "routing")
           /\ UNCHANGED <<entry, streaming, failures, tasksLeft>>
  <2>1. GatewayTypeOK'
    BY SMTT(20), <1>3, <1>4, <1>7
    DEF GatewayIInv, GatewayTypeOK, Suspend, config, usageTable
  <2>2. OthersSame(r)
    BY <1>4, <1>7 DEF GatewayIInv, GatewayTypeOK, Suspend, config, OthersSame, Same
  <2>3. Len(now) \in Nat \ {0} BY <1>3, <1>7, EmptySeq
  <2>4. SubSeq(now, 1, 0) = <<>> BY SubSeqEmpty
  <2>5. /\ phase'[r] = "routing" /\ chain'[r] = now /\ admitted'[r] = now /\ position'[r] = 1
        /\ failures'[r] = <<>> /\ reply'[r] = NoReply
    BY <1>1, <1>7 DEF GatewayIInv, GatewayTypeOK, Suspend
  <2>6. RequestInv(r)'
    BY <1>3, <2>3, <2>4, <2>5 DEF RequestInv, Unrouted, Routed, Failed, NoReply, AllFree
  <2>7. QED BY <2>1, <2>2, <2>6, OneRequestKeeps
<1>8. QED BY <1>5, <1>6, <1>7 DEF CheckProvider, now

-----------------------------------------------------------------------------
(* The route of a request: what Fail and Succeed do, wherever they are     *)
(* called from.                                                            *)
LEMMA FailKeeps ==
  ASSUME GatewayIInv, NEW r \in Requests, phase[r] \in Routed, Fail(r)
  PROVE  GatewayIInv'
<1>1. /\ chain[r] \in Seq(Providers) /\ Len(chain[r]) \in Nat
      /\ position[r] \in 1 .. Len(chain[r]) /\ reply[r] = NoReply
      /\ failures[r] = SubSeq(chain[r], 1, position[r] - 1)
      /\ enforced /\ entry[r] = "chat" => chain[r] = admitted[r] /\ AllFree(chain[r])
  <2>1. chain[r] \in Seq(Providers) BY DEF GatewayIInv, GatewayTypeOK
  <2>2. Len(chain[r]) \in Nat BY <2>1, LenProperties
  <2>3. QED BY <2>1, <2>2 DEF GatewayIInv, RequestInv, Routed
<1>2. Current(r) \in Providers BY <1>1, ElementOfSeq DEF Current
<1>3. Append(failures[r], Current(r)) = SubSeq(chain[r], 1, position[r])
  BY <1>1, OneMoreFailure DEF Current
<1>4. failures' \in [Requests -> Seq(Providers)]
  <2>1. failures[r] \in Seq(Providers) BY DEF GatewayIInv, GatewayTypeOK
  <2>2. Append(failures[r], Current(r)) \in Seq(Providers) BY <1>2, <2>1, AppendProperties
  <2>3. failures' = [failures EXCEPT ![r] = Append(failures[r], Current(r))] BY DEF Fail
  <2>4. QED BY <2>2, <2>3, Zenon DEF GatewayIInv, GatewayTypeOK
<1>5. failures'[r] = SubSeq(chain[r], 1, position[r])
  BY <1>3 DEF Fail, GatewayIInv, GatewayTypeOK
<1>6. UNCHANGED <<config, usageTable, entry, streaming, chain, admitted, tasksLeft>>
  BY DEF Fail
<1>7. CASE IsLast(r)
  <2>1. /\ UNCHANGED position
        /\ phase' = [phase EXCEPT ![r] = "done"]
        /\ \E status \in Failed : reply' = [reply EXCEPT ![r] = status]
    BY <1>7 DEF Fail, Answer, Failed
  <2>2. PICK status \in Failed : reply' = [reply EXCEPT ![r] = status]
    BY <2>1
  <2>3. GatewayTypeOK'
    BY <1>4, <1>6, <2>1, <2>2 DEF GatewayIInv, GatewayTypeOK, config, usageTable, Reply, Failed
  <2>4. OthersSame(r)
    BY <1>6, <2>1, <2>2 DEF Fail, GatewayIInv, GatewayTypeOK, config, OthersSame, Same
  <2>5. failures'[r] = chain'[r]
    <3>1. position[r] = Len(chain[r]) BY <1>1, <1>7 DEF IsLast
    <3>2. QED BY <1>1, <1>5, <1>6, <3>1, SubSeqFull
  <2>6. phase'[r] = "done" BY <2>1 DEF GatewayIInv, GatewayTypeOK
  <2>7. RequestInv(r)' BY <2>5, <2>6 DEF RequestInv, Unrouted, Routed
  <2>8. QED BY <2>3, <2>4, <2>7, OneRequestKeeps
<1>8. CASE ~IsLast(r)
  <2>1. /\ position' = [position EXCEPT ![r] = position[r] + 1]
        /\ phase' = [phase EXCEPT ![r] = "routing"] /\ UNCHANGED reply
    BY <1>8 DEF Fail, Suspend
  <2>2. position[r] + 1 \in Nat \ {0} /\ position[r] + 1 \in 1 .. Len(chain[r])
    BY <1>1, <1>8 DEF IsLast
  <2>3. GatewayTypeOK'
    BY <1>4, <1>6, <2>1, <2>2 DEF GatewayIInv, GatewayTypeOK, config, usageTable
  <2>4. OthersSame(r)
    BY <1>6, <2>1 DEF Fail, GatewayIInv, GatewayTypeOK, config, OthersSame, Same
  <2>5. phase'[r] = "routing" /\ position'[r] = position[r] + 1
    BY <2>1 DEF GatewayIInv, GatewayTypeOK
  <2>6. failures'[r] = SubSeq(chain[r], 1, position'[r] - 1)
    BY <1>1, <1>5, <2>5
  <2>7. /\ enforced' = enforced /\ UNCHANGED <<entry, chain, admitted, reply>>
    BY <1>6, <2>1 DEF config
  <2>8. RequestInv(r)'
    BY <1>1, <2>2, <2>5, <2>6, <2>7 DEF RequestInv, Unrouted, Routed, Failed, NoReply, AllFree
  <2>9. QED BY <2>3, <2>4, <2>8, OneRequestKeeps
<1>9. QED BY <1>7, <1>8

(* The uses of a provider are counted, its limit is one of the settings'.  *)
LEMMA RecordTyped ==
  ASSUME GatewayTypeOK, NEW r, NEW p \in Providers, Record(r, p)
  PROVE  usage' \in [Providers -> Nat] /\ rowLimit' \in [Providers -> Nat]
<1>1. tierConfig[p] \in Nat BY GatewayAssumption DEF GatewayTypeOK
<1>2. CASE UNCHANGED usageTable BY <1>2 DEF GatewayTypeOK, usageTable
<1>3. CASE /\ usage' = [usage EXCEPT ![p] = usage[p] + 1]
           /\ rowLimit' = [rowLimit EXCEPT ![p] = IF usage[p] = 0 THEN tierConfig[p] ELSE rowLimit[p]]
  BY <1>1, <1>3 DEF GatewayTypeOK
<1>4. QED BY <1>2, <1>3 DEF Record

LEMMA SucceedKeeps ==
  ASSUME GatewayIInv, NEW r \in Requests, phase[r] \in Routed,
         NEW status \in {"ok", "stream"}, Succeed(r, status)
  PROVE  GatewayIInv'
<1>1. /\ chain[r] \in Seq(Providers) /\ Len(chain[r]) \in Nat
      /\ position[r] \in 1 .. Len(chain[r]) /\ reply[r] = NoReply
      /\ enforced /\ entry[r] = "chat" => chain[r] = admitted[r] /\ AllFree(chain[r])
  <2>1. chain[r] \in Seq(Providers) BY DEF GatewayIInv, GatewayTypeOK
  <2>2. Len(chain[r]) \in Nat BY <2>1, LenProperties
  <2>3. QED BY <2>1, <2>2 DEF GatewayIInv, RequestInv, Routed
<1>2. usage' \in [Providers -> Nat] /\ rowLimit' \in [Providers -> Nat]
  <2>1. Current(r) \in Providers BY <1>1, ElementOfSeq DEF Current
  <2>2. QED BY <2>1, RecordTyped DEF Succeed, GatewayIInv
<1>3. UNCHANGED config BY DEF Succeed
<1>4. CASE tasksLeft[r] > 1
  <2>1. /\ tasksLeft' = [tasksLeft EXCEPT ![r] = tasksLeft[r] - 1]
        /\ position' = [position EXCEPT ![r] = 1]
        /\ failures' = [failures EXCEPT ![r] = <<>>]
        /\ phase' = [phase EXCEPT ![r] = "routing"]
        /\ UNCHANGED <<reply, entry, streaming, chain, admitted>>
    BY <1>4 DEF Succeed, Suspend
  <2>2. tasksLeft[r] - 1 \in 0 .. MaxTasks
    BY <1>4, GatewayAssumption DEF GatewayIInv, GatewayTypeOK
  <2>3. GatewayTypeOK'
    BY <1>2, <1>3, <2>1, <2>2 DEF GatewayIInv, GatewayTypeOK, config
  <2>4. OthersSame(r)
    BY <1>3, <2>1 DEF GatewayIInv, GatewayTypeOK, config, OthersSame, Same
  <2>5. phase'[r] = "routing" /\ position'[r] = 1 /\ failures'[r] = <<>> /\ enforced' = enforced
    BY <1>3, <2>1 DEF GatewayIInv, GatewayTypeOK, config
  <2>6. SubSeq(chain[r], 1, 0) = <<>> BY SubSeqEmpty
  <2>7. /\ reply'[r] = NoReply /\ entry'[r] = entry[r] /\ chain'[r] = chain[r]
        /\ admitted'[r] = admitted[r]
    BY <1>1, <2>1
  <2>8. position'[r] \in 1 .. Len(chain'[r]) BY <1>1, <2>5, <2>7
  <2>9. failures'[r] = SubSeq(chain'[r], 1, position'[r] - 1) BY <2>5, <2>6, <2>7
  <2>10. RequestInv(r)'
    BY <1>1, <2>5, <2>7, <2>8, <2>9 DEF RequestInv, Unrouted, Routed, Failed, NoReply, AllFree
  <2>11. QED BY <2>3, <2>4, <2>10, OneRequestKeeps
<1>5. CASE ~(tasksLeft[r] > 1)
  <2>1. /\ phase' = [phase EXCEPT ![r] = "done"]
        /\ reply' = [reply EXCEPT ![r] = status]
        /\ Forgets({r})
    BY <1>5 DEF Succeed, Answer
  <2>2. status \in Reply BY DEF Reply
  <2>3. GatewayTypeOK'
    BY <1>2, <1>3, <2>1, <2>2, ForgetsTyped DEF GatewayIInv, GatewayTypeOK, config
  <2>4. OthersSame(r)
    BY <1>3, <2>1 DEF GatewayIInv, GatewayTypeOK, Forgets, config, OthersSame, Same
  <2>5. phase'[r] = "done" /\ reply'[r] = status
    BY <2>1 DEF GatewayIInv, GatewayTypeOK
  <2>6. RequestInv(r)' BY <2>5 DEF RequestInv, Unrouted, Routed, Failed
  <2>7. QED BY <2>3, <2>4, <2>6, OneRequestKeeps
<1>6. QED BY <1>4, <1>5

(* A request that only waits somewhere else keeps its place in the chain.  *)
LEMMA SuspendKeeps ==
  ASSUME GatewayIInv, NEW r \in Requests, phase[r] \in Routed, NEW where \in Routed,
         Suspend(r, where),
         UNCHANGED <<config, usageTable, entry, streaming, chain, position, admitted, failures,
                     tasksLeft>>
  PROVE  GatewayIInv'
<1>1. GatewayTypeOK'
  BY DEF GatewayIInv, GatewayTypeOK, Suspend, config, usageTable, Routed
<1>2. OthersSame(r)
  BY DEF GatewayIInv, GatewayTypeOK, Suspend, config, OthersSame, Same
<1>3. phase'[r] = where BY DEF Suspend, GatewayIInv, GatewayTypeOK
<1>4. RequestInv(r)'
  BY <1>3 DEF GatewayIInv, RequestInv, Unrouted, Suspend, config, Routed, AllFree
<1>5. QED BY <1>1, <1>2, <1>4, OneRequestKeeps

LEMMA StepKeeps ==
  ASSUME GatewayIInv, NEW r \in Requests, GatewayStep(r)
  PROVE  GatewayIInv'
<1>1. CASE CheckProvider(r) BY <1>1, CheckProviderKeeps
<1>2. CASE SkipProvider(r) BY <1>2, FailKeeps DEF SkipProvider, Routed
<1>3. CASE CallProvider(r)
  BY <1>3, SuspendKeeps DEF CallProvider, Waits, Routed
<1>4. CASE ProviderFails(r) BY <1>4, FailKeeps DEF ProviderFails, Routed
<1>5. CASE ProviderAnswers(r)
  <2>1. phase[r] \in Routed BY <1>5 DEF ProviderAnswers, Routed
  <2>2. \/ Succeed(r, "ok")
        \/ /\ Suspend(r, "healing")
           /\ UNCHANGED <<config, usageTable, entry, streaming, chain, position, admitted,
                          failures, tasksLeft>>
    BY <1>5 DEF ProviderAnswers, Waits
  <2>3. QED BY <2>1, <2>2, SucceedKeeps, SuspendKeeps DEF Routed
<1>6. CASE HealAnswers(r) BY <1>6, SucceedKeeps DEF HealAnswers, Routed
<1>7. CASE StreamOpens(r) BY <1>7, SuspendKeeps DEF StreamOpens, Waits, Routed
<1>8. CASE ChannelCreated(r) BY <1>8, SucceedKeeps, FailKeeps DEF ChannelCreated, Routed
<1>9. CASE IsComplex(r) \/ EngramAnswers(r) BY <1>9, UnroutedKeeps
<1>10. CASE FallsThrough(r) BY <1>10, BeginsKeeps DEF FallsThrough, Unrouted
<1>11. QED
  BY <1>1, <1>2, <1>3, <1>4, <1>5, <1>6, <1>7, <1>8, <1>9, <1>10 DEF GatewayStep

(* A restart starts every request anew and leaves the usage table.         *)
LEMMA RestartsKeeps ==
  ASSUME GatewayIInv, NEW limits \in Limits, NEW enforce \in BOOLEAN, Restarts(limits, enforce)
  PROVE  GatewayIInv'
<1>1. restarts' \in 0 .. MaxRestarts
  BY GatewayAssumption DEF Restarts, GatewayIInv, GatewayTypeOK
<1>2. enforced' \in BOOLEAN BY DEF Restarts
<1>3. tierConfig' \in Limits BY Zenon DEF Restarts, GatewayIInv, GatewayTypeOK
<1>4. Forgets(Requests) /\ UNCHANGED <<usage, rowLimit>>
      /\ phase' = [r \in Requests |-> "idle"] /\ reply' = [r \in Requests |-> NoReply]
  BY DEF Restarts, Survives, usageTable
<1>5. GatewayTypeOK'
  BY <1>1, <1>2, <1>3, <1>4, ForgetsTyped DEF GatewayIInv, GatewayTypeOK
<1>6. \A r \in Requests : RequestInv(r)'
  BY <1>4 DEF Forgets, RequestInv, Routed, Failed, NoReply, Unrouted
<1>7. QED BY <1>5, <1>6 DEF GatewayIInv

LEMMA GatewayKeeps == GatewayIInv /\ [GatewayNext]_gatewayVars => GatewayIInv'
<1> SUFFICES ASSUME GatewayIInv, [GatewayNext]_gatewayVars PROVE GatewayIInv'
  OBVIOUS
<1>1. CASE UNCHANGED gatewayVars
  BY <1>1
  DEF gatewayVars, requestVars, config, usageTable, GatewayIInv, GatewayTypeOK, RequestInv,
      AllFree
<1>2. CASE GatewayNext
  <2>1. ASSUME NEW r \in Requests, NEW from \in {"chat", "route"}, NEW c \in Chains,
               NEW stream \in BOOLEAN, NEW tasks \in 1 .. MaxTasks,
               Arrives(r, from, c, stream, tasks)
        PROVE  GatewayIInv'
    BY <2>1, BeginsKeeps DEF Arrives, Unrouted
  <2>2. QED
    BY <1>2, <2>1, RestartsKeeps, UnroutedKeeps, ResolveFailsKeeps, StepKeeps, LeavesKeeps
    DEF GatewayNext
<1>3. QED BY <1>1, <1>2

(* For any requests, providers and chains: at every await the providers    *)
(* noted as failed are those before the current one, a request fails only  *)
(* when all have, and under enforcement only admitted providers of the free*)
(* tier are called (failover.ts:138-217, http-handler.ts:446-489).         *)
THEOREM FailoverIsInOrder == GatewaySpec => []GatewayInv
<1>1. GatewayIInv => GatewayInv
  BY DEF GatewayIInv, GatewayInv, RequestInv, TriedInOrder, OnlyAdmittedAreTried, Routed,
         Failed, AllFree
<1>2. QED BY <1>1, GatewayStarts, GatewayKeeps, PTL DEF GatewaySpec

-----------------------------------------------------------------------------
(* A use is never taken back, and the limit of a provider in use stays.    *)
RowsGrow == \A p \in Providers : usage[p] > 0 => usage'[p] >= usage[p] /\ rowLimit'[p] = rowLimit[p]

LEMMA RecordGrows ==
  ASSUME GatewayTypeOK, NEW r, NEW p, Record(r, p)
  PROVE  RowsGrow
<1>1. CASE UNCHANGED usageTable BY <1>1 DEF usageTable, GatewayTypeOK, RowsGrow
<1>2. CASE /\ usage' = [usage EXCEPT ![p] = usage[p] + 1]
           /\ rowLimit' = [rowLimit EXCEPT ![p] = IF usage[p] = 0 THEN tierConfig[p] ELSE rowLimit[p]]
  <2> SUFFICES ASSUME NEW q \in Providers, usage[q] > 0
               PROVE  usage'[q] >= usage[q] /\ rowLimit'[q] = rowLimit[q]
    BY DEF RowsGrow
  <2>1. usage[q] \in Nat /\ usage[q] # 0 BY DEF GatewayTypeOK
  <2>2. CASE q = p BY <1>2, <2>1, <2>2 DEF GatewayTypeOK
  <2>3. CASE q # p BY <1>2, <2>1, <2>3 DEF GatewayTypeOK
  <2>4. QED BY <2>2, <2>3
<1>3. QED BY <1>1, <1>2 DEF Record

LEMMA StepsGrow ==
  ASSUME GatewayTypeOK, GatewayNext
  PROVE  RowsGrow
<1>1. CASE UNCHANGED usageTable BY <1>1 DEF usageTable, GatewayTypeOK, RowsGrow
<1>2. ASSUME NEW r \in Requests, NEW status, Succeed(r, status)
      PROVE RowsGrow
  BY <1>2, RecordGrows DEF Succeed
<1>3. ASSUME NEW r \in Requests, GatewayStep(r) PROVE RowsGrow
  BY <1>1, <1>2, <1>3
  DEF GatewayStep, CheckProvider, SkipProvider, CallProvider, ProviderFails, ProviderAnswers,
      HealAnswers, StreamOpens, ChannelCreated, Fail, Waits, IsComplex, EngramAnswers,
      FallsThrough, Begins
<1>4. QED
  BY <1>1, <1>3 DEF GatewayNext, Restarts, Survives, Arrives, Begins, AsksBrain, Waits,
                   ResolveFails, Leaves

(* Whatever restarts, crashes and settings follow, a provider whose free   *)
(* tier is used up is refused: no step takes back a use or changes a limit *)
(* in use (usage_tracker.ts:64-75).                                        *)
THEOREM ExhaustedForGood == GatewaySpec => ExhaustedStaysExhausted
<1>1. GatewayIInv /\ [GatewayNext]_gatewayVars =>
        [\A p \in Providers : Exhausted(p) => Exhausted(p)']_gatewayVars
  <2>1. ASSUME GatewayIInv, GatewayNext, NEW p \in Providers, Exhausted(p) PROVE Exhausted(p)'
    <3>1. usage[p] > 0 /\ usage[p] \in Nat /\ rowLimit[p] \in Nat /\ usage[p] >= rowLimit[p]
      BY <2>1 DEF Exhausted, GatewayIInv, GatewayTypeOK
    <3>2. usage'[p] >= usage[p] /\ rowLimit'[p] = rowLimit[p]
      BY <2>1, <3>1, StepsGrow DEF RowsGrow, GatewayIInv
    <3>3. usage'[p] \in Nat BY <2>1, GatewayKeeps DEF GatewayIInv, GatewayTypeOK
    <3>4. QED BY <2>1, <3>1, <3>2, <3>3 DEF Exhausted
  <2>2. QED BY <2>1
<1>2. QED BY <1>1, GatewayStarts, GatewayKeeps, PTL DEF GatewaySpec, ExhaustedStaysExhausted

-----------------------------------------------------------------------------
(* How far a limit can be exceeded.  A request that is under way may still *)
(* use what it was admitted to once per task left.  Once a provider is     *)
(* exhausted nobody is admitted to it any more, so every further use is    *)
(* taken from what was owed then.                                          *)

UnderWay == {"checking"} \cup Routed

Owes(r, p) ==
  /\ enforced /\ entry[r] = "chat" /\ phase[r] \in UnderWay
  /\ \E i \in 1 .. Len(admitted[r]) : admitted[r][i] = p

Owed(p) ==
  {o \in Requests \X (1 .. MaxTasks) : Owes(o[1], p) /\ o[2] <= tasksLeft[o[1]]}

Slots == MaxTasks * Cardinality(Requests)

TasksLeft == \A r \in Requests : phase[r] \in UnderWay => tasksLeft[r] >= 1

QuotaInv ==
  /\ GatewayIInv
  /\ TasksLeft
  /\ \A p \in Providers : Exhausted(p) =>
       usage[p] + Cardinality(Owed(p)) <= rowLimit[p] + Slots - 1

(* Nobody comes to owe an exhausted provider anything, or more than before.*)
OnlyLessIsOwed ==
  \A r \in Requests, p \in Providers : Owes(r, p)' /\ Exhausted(p) =>
    Owes(r, p) /\ tasksLeft'[r] <= tasksLeft[r]

(* A use is of a provider the request was admitted to, and takes a task.   *)
Uses(r, p) ==
  /\ enforced /\ entry[r] = "chat" /\ phase[r] \in Routed /\ p = Current(r)
  /\ usage' = [usage EXCEPT ![p] = usage[p] + 1]
  /\ rowLimit' = [rowLimit EXCEPT ![p] = IF usage[p] = 0 THEN tierConfig[p] ELSE rowLimit[p]]
  /\ ~Owes(r, p)' \/ tasksLeft'[r] = tasksLeft[r] - 1

StepOwes ==
  /\ TasksLeft'
  /\ OnlyLessIsOwed
  /\ \/ UNCHANGED usageTable
     \/ \E r \in Requests : Uses(r, Current(r))

(* It is enough to look at the request that takes the step.                *)
LEMMA OneRequestOwes ==
  ASSUME GatewayIInv, TasksLeft, NEW r \in Requests, OthersSame(r),
         \A q \in Requests \ {r} : tasksLeft'[q] = tasksLeft[q],
         phase'[r] \in UnderWay =>
           /\ tasksLeft'[r] >= 1
           /\ \A p \in Providers : Owes(r, p)' /\ Exhausted(p) =>
                Owes(r, p) /\ tasksLeft'[r] <= tasksLeft[r]
  PROVE  TasksLeft' /\ OnlyLessIsOwed
<1>1. TasksLeft'
  <2> SUFFICES ASSUME NEW q \in Requests, phase'[q] \in UnderWay
               PROVE  tasksLeft'[q] >= 1
    BY DEF TasksLeft
  <2>1. CASE q = r BY <2>1
  <2>2. CASE q # r BY <2>2 DEF OthersSame, Same, TasksLeft
  <2>3. QED BY <2>1, <2>2
<1>2. OnlyLessIsOwed
  <2> SUFFICES ASSUME NEW q \in Requests, NEW p \in Providers, Owes(q, p)', Exhausted(p)
               PROVE  Owes(q, p) /\ tasksLeft'[q] <= tasksLeft[q]
    BY DEF OnlyLessIsOwed
  <2>1. CASE q = r BY <2>1 DEF Owes
  <2>2. CASE q # r
    <3>1. tasksLeft[q] \in Nat BY GatewayAssumption DEF GatewayIInv, GatewayTypeOK
    <3>2. Same(q) /\ tasksLeft'[q] = tasksLeft[q] BY <2>2 DEF OthersSame
    <3>3. Owes(q, p) BY <3>2 DEF Same, Owes
    <3>4. QED BY <3>1, <3>2, <3>3
  <2>3. QED BY <2>1, <2>2
<1>3. QED BY <1>1, <1>2

(* A request that arrives has been admitted to nothing.                    *)
LEMMA BeginsOwes ==
  ASSUME GatewayIInv, TasksLeft, NEW r \in Requests, phase[r] \in Unrouted,
         NEW from \in {"chat", "route"}, NEW c \in Chains, NEW stream \in BOOLEAN,
         NEW tasks \in 1 .. MaxTasks, Begins(r, from, c, stream, tasks)
  PROVE  StepOwes
<1>1. OthersSame(r) /\ \A q \in Requests \ {r} : tasksLeft'[q] = tasksLeft[q]
  BY DEF Begins, GatewayIInv, GatewayTypeOK, Answer, Suspend, config, OthersSame, Same
<1>2. phase'[r] \in UnderWay => tasksLeft'[r] >= 1
  <2>1. CASE c = <<>>
    BY <2>1 DEF Begins, Answer, UnderWay, Routed, GatewayIInv, GatewayTypeOK
  <2>2. CASE c # <<>>
    BY <2>2, GatewayAssumption DEF Begins, GatewayIInv, GatewayTypeOK
  <2>3. QED BY <2>1, <2>2
<1>3. \A p : ~Owes(r, p)'
  <2>1. admitted'[r] = <<>> BY DEF Begins, GatewayIInv, RequestInv, Unrouted
  <2>2. Len(<<>>) = 0 BY EmptySeq
  <2>3. QED BY <2>1, <2>2 DEF Owes
<1>4. UNCHANGED usageTable BY DEF Begins
<1>5. QED BY <1>1, <1>2, <1>3, <1>4, OneRequestOwes DEF StepOwes

(* A request whose handler has ended owes nothing.                         *)
LEMMA EndsOwes ==
  ASSUME GatewayIInv, TasksLeft, NEW r \in Requests, OthersSame(r),
         \A q \in Requests \ {r} : tasksLeft'[q] = tasksLeft[q],
         phase'[r] \in Unrouted \cup {"done"}
  PROVE  TasksLeft' /\ OnlyLessIsOwed /\ \A p : ~Owes(r, p)'
BY OneRequestOwes DEF UnderWay, Routed, Owes, Unrouted

(* Only a provider that is not exhausted is admitted.                      *)
LEMMA CheckProviderOwes ==
  ASSUME GatewayIInv, TasksLeft, NEW r \in Requests, CheckProvider(r)
  PROVE  StepOwes
<1> DEFINE now == IF Allowed(Current(r)) THEN Append(admitted[r], Current(r)) ELSE admitted[r]
<1>1. UNCHANGED usageTable /\ enforced' = enforced /\ phase[r] = "checking"
  BY DEF CheckProvider, config
<1>2. /\ OthersSame(r)
      /\ \A q \in Requests \ {r} : tasksLeft'[q] = tasksLeft[q]
  <2>1. \/ /\ \A q \in Requests \ {r} : chain'[q] = chain[q] /\ position'[q] = position[q]
                                           /\ admitted'[q] = admitted[q] /\ phase'[q] = phase[q]
                                           /\ reply'[q] = reply[q]
           /\ UNCHANGED <<entry, failures, tasksLeft>>
        \/ Answer(r, "noProvider") /\ Forgets({r})
    BY DEF CheckProvider, GatewayIInv, GatewayTypeOK, Suspend
  <2>2. enforced' = enforced BY <1>1
  <2>3. QED
    BY SMTT(20), <2>1, <2>2
    DEF GatewayIInv, GatewayTypeOK, Answer, Forgets, OthersSame, Same
<1>3. \A p : Exhausted(p) /\ (\E i \in 1 .. Len(now) : now[i] = p) =>
               \E i \in 1 .. Len(admitted[r]) : admitted[r][i] = p
  <2>1. CASE Allowed(Current(r))
    <3>1. chain[r] \in Seq(Providers) /\ admitted[r] \in Seq(Providers)
          /\ position[r] \in 1 .. Len(chain[r])
      BY <1>1 DEF GatewayIInv, GatewayTypeOK, RequestInv
    <3>2. Current(r) \in Providers BY <3>1, ElementOfSeq DEF Current
    <3>3. /\ Len(now) = Len(admitted[r]) + 1
          /\ \A i \in 1 .. Len(admitted[r]) : now[i] = admitted[r][i]
          /\ now[Len(admitted[r]) + 1] = Current(r) /\ Len(admitted[r]) \in Nat
      BY <2>1, <3>1, <3>2, AppendProperties
    <3>4. ~Exhausted(Current(r)) BY <2>1 DEF Allowed
    <3> HIDE DEF now
    <3>5. QED BY <3>3, <3>4
  <2>2. CASE ~Allowed(Current(r)) BY <2>2
  <2>3. QED BY <2>1, <2>2
<1>4. \/ phase'[r] = "done"
      \/ /\ admitted'[r] = now /\ tasksLeft'[r] = tasksLeft[r] /\ entry'[r] = entry[r]
  BY DEF CheckProvider, GatewayIInv, GatewayTypeOK, Answer
<1>5. tasksLeft[r] \in Nat /\ tasksLeft[r] >= 1
  BY <1>1, GatewayAssumption DEF GatewayIInv, GatewayTypeOK, TasksLeft, UnderWay
<1> HIDE DEF now
<1>6. CASE phase'[r] = "done"
  BY <1>1, <1>2, <1>6, EndsOwes DEF StepOwes, Unrouted
<1>7. CASE admitted'[r] = now /\ tasksLeft'[r] = tasksLeft[r] /\ entry'[r] = entry[r]
  <2>1. \A p \in Providers : Owes(r, p)' /\ Exhausted(p) => Owes(r, p)
    BY <1>1, <1>3, <1>7 DEF Owes, UnderWay
  <2>2. QED
    BY <1>1, <1>2, <1>5, <1>7, <2>1, OneRequestOwes DEF StepOwes
<1>8. QED BY <1>4, <1>6, <1>7

(* A request that fails at a provider, or waits somewhere else, is admitted*)
(* to what it was.                                                         *)
LEMMA GoesOnOwes ==
  ASSUME GatewayIInv, TasksLeft, NEW r \in Requests, OthersSame(r),
         phase[r] \in Routed, UNCHANGED <<config, usageTable, entry, admitted, tasksLeft>>
  PROVE  StepOwes
<1>1. tasksLeft[r] \in Nat /\ tasksLeft[r] >= 1
  BY GatewayAssumption DEF GatewayIInv, GatewayTypeOK, TasksLeft, UnderWay
<1>2. \A p \in Providers : Owes(r, p)' => Owes(r, p)
  BY DEF Owes, UnderWay, config
<1>3. QED BY <1>1, <1>2, OneRequestOwes DEF StepOwes

LEMMA FailOwes ==
  ASSUME GatewayIInv, TasksLeft, NEW r \in Requests, phase[r] \in Routed, Fail(r)
  PROVE  StepOwes
<1>1. OthersSame(r)
  BY DEF Fail, Answer, Suspend, GatewayIInv, GatewayTypeOK, config, OthersSame, Same
<1>2. QED BY <1>1, GoesOnOwes DEF Fail

LEMMA SuspendOwes ==
  ASSUME GatewayIInv, TasksLeft, NEW r \in Requests, phase[r] \in Routed, NEW where,
         Suspend(r, where),
         UNCHANGED <<config, usageTable, entry, streaming, chain, position, admitted, failures,
                     tasksLeft>>
  PROVE  StepOwes
<1>1. OthersSame(r)
  BY DEF Suspend, GatewayIInv, GatewayTypeOK, config, OthersSame, Same
<1>2. QED BY <1>1, GoesOnOwes

LEMMA SucceedOwes ==
  ASSUME GatewayIInv, TasksLeft, NEW r \in Requests, phase[r] \in Routed,
         NEW status, Succeed(r, status)
  PROVE  StepOwes
<1>1. enforced' = enforced /\ Record(r, Current(r)) BY DEF Succeed, config
<1>2. OthersSame(r) /\ \A q \in Requests \ {r} : tasksLeft'[q] = tasksLeft[q]
  BY SMTT(20)
  DEF Succeed, Answer, Suspend, Forgets, GatewayIInv, GatewayTypeOK, config, OthersSame, Same
<1>3. tasksLeft[r] \in Nat /\ tasksLeft[r] >= 1
  BY GatewayAssumption DEF GatewayIInv, GatewayTypeOK, TasksLeft, UnderWay
<1>4. /\ TasksLeft' /\ OnlyLessIsOwed
      /\ \A p : ~Owes(r, p)' \/ tasksLeft'[r] = tasksLeft[r] - 1
  <2>1. CASE tasksLeft[r] > 1
    <3>1. /\ tasksLeft'[r] = tasksLeft[r] - 1 /\ phase'[r] = "routing"
          /\ entry'[r] = entry[r] /\ admitted'[r] = admitted[r]
      BY <2>1 DEF Succeed, Suspend, GatewayIInv, GatewayTypeOK
    <3>2. \A p \in Providers : Owes(r, p)' => Owes(r, p)
      BY <1>1, <3>1 DEF Owes, UnderWay
    <3>3. tasksLeft'[r] >= 1 /\ tasksLeft'[r] <= tasksLeft[r]
      BY <1>3, <2>1, <3>1
    <3>4. QED BY <1>2, <3>1, <3>2, <3>3, OneRequestOwes
  <2>2. CASE ~(tasksLeft[r] > 1)
    <3>1. phase'[r] = "done" BY <2>2 DEF Succeed, Answer, GatewayIInv, GatewayTypeOK
    <3>2. QED BY <1>2, <3>1, EndsOwes
  <2>3. QED BY <2>1, <2>2
<1>5. UNCHANGED usageTable \/ Uses(r, Current(r))
  BY <1>1, <1>4 DEF Record, Uses
<1>6. QED BY <1>4, <1>5 DEF StepOwes

LEMMA GatewayOwes ==
  ASSUME GatewayIInv, TasksLeft, [GatewayNext]_gatewayVars
  PROVE  StepOwes
<1>1. CASE UNCHANGED gatewayVars
  <2>1. \A r \in Requests : tasksLeft[r] \in Nat
    BY GatewayAssumption DEF GatewayIInv, GatewayTypeOK
  <2>2. QED
    BY <1>1, <2>1
    DEF gatewayVars, requestVars, config, usageTable, StepOwes, TasksLeft, OnlyLessIsOwed, Owes
<1>2. ASSUME NEW limits \in Limits, NEW enforce \in BOOLEAN, Restarts(limits, enforce)
      PROVE  StepOwes
  <2>1. \A r \in Requests : phase'[r] = "idle" BY <1>2 DEF Restarts
  <2>2. QED
    BY <1>2, <2>1 DEF Restarts, Survives, StepOwes, TasksLeft, OnlyLessIsOwed, Owes, UnderWay,
                      Routed
<1>3. ASSUME NEW r \in Requests,
             ResolveFails(r) \/ Leaves(r) \/ AsksBrain(r) \/ IsComplex(r) \/ EngramAnswers(r)
      PROVE  StepOwes
  <2>1. /\ OthersSame(r) /\ phase'[r] \in Unrouted \cup {"done"} /\ UNCHANGED usageTable
        /\ \A q \in Requests \ {r} : tasksLeft'[q] = tasksLeft[q]
    BY <1>3
    DEF ResolveFails, Leaves, AsksBrain, IsComplex, EngramAnswers, Waits, Suspend, Unrouted,
        Answer, Forgets, GatewayIInv, GatewayTypeOK, config, OthersSame, Same
  <2>2. QED BY <2>1, EndsOwes DEF StepOwes
<1>4. ASSUME NEW r \in Requests, GatewayStep(r)
      PROVE  StepOwes
  <2>1. CASE CheckProvider(r) BY <2>1, CheckProviderOwes
  <2>2. CASE SkipProvider(r) \/ ProviderFails(r)
    BY <2>2, FailOwes DEF SkipProvider, ProviderFails, Routed
  <2>3. CASE CallProvider(r) BY <2>3, SuspendOwes DEF CallProvider, Waits, Routed
  <2>4. CASE ProviderAnswers(r)
    BY <2>4, SucceedOwes, SuspendOwes DEF ProviderAnswers, Waits, Routed
  <2>5. CASE HealAnswers(r) BY <2>5, SucceedOwes DEF HealAnswers, Routed
  <2>6. CASE StreamOpens(r) BY <2>6, SuspendOwes DEF StreamOpens, Waits, Routed
  <2>7. CASE ChannelCreated(r) BY <2>7, SucceedOwes, FailOwes DEF ChannelCreated, Routed
  <2>8. CASE IsComplex(r) \/ EngramAnswers(r) BY <1>3, <2>8
  <2>9. CASE FallsThrough(r) BY <2>9, BeginsOwes DEF FallsThrough, Unrouted
  <2>10. QED
    BY <1>4, <2>1, <2>2, <2>3, <2>4, <2>5, <2>6, <2>7, <2>8, <2>9 DEF GatewayStep
<1>5. ASSUME NEW r \in Requests, NEW from \in {"chat", "route"}, NEW c \in Chains,
             NEW stream \in BOOLEAN, NEW tasks \in 1 .. MaxTasks,
             Arrives(r, from, c, stream, tasks)
      PROVE  StepOwes
  BY <1>5, BeginsOwes DEF Arrives, Unrouted
<1>6. QED BY <1>1, <1>2, <1>3, <1>4, <1>5 DEF GatewayNext

(* What is owed is a part of all slots, and less of it counts less.        *)
LEMMA OwedCounts ==
  /\ IsFiniteSet(Requests \X (1 .. MaxTasks))
  /\ Cardinality(Requests \X (1 .. MaxTasks)) = Slots /\ Slots \in Nat
  /\ \A S \in SUBSET (Requests \X (1 .. MaxTasks)) :
       IsFiniteSet(S) /\ Cardinality(S) \in Nat /\ Cardinality(S) <= Slots
<1> DEFINE D == Requests \X (1 .. MaxTasks)
<1>1. IsFiniteSet(Requests) /\ MaxTasks \in Nat
  BY GatewayAssumption
<1>2. IsFiniteSet(1 .. MaxTasks) /\ Cardinality(1 .. MaxTasks) = MaxTasks
  BY <1>1, FS_Interval
<1>3. Cardinality(Requests) \in Nat BY <1>1, FS_CardinalityType
<1>4. IsFiniteSet(D) /\ Cardinality(D) = Cardinality(Requests) * Cardinality(1 .. MaxTasks)
  BY <1>1, <1>2, FS_Product
<1>5. Cardinality(D) = Slots /\ Slots \in Nat
  BY <1>1, <1>2, <1>3, <1>4 DEF Slots
<1> HIDE DEF D
<1>6. \A S \in SUBSET D : IsFiniteSet(S) /\ Cardinality(S) \in Nat /\ Cardinality(S) <= Slots
  BY <1>4, <1>5, FS_Subset, FS_CardinalityType
<1>7. QED BY <1>4, <1>5, <1>6 DEF D

(* Fewer by at least the element that is missing. *)
LEMMA OneLess ==
  ASSUME NEW S, IsFiniteSet(S), NEW T \in SUBSET S, NEW x \in S, x \notin T
  PROVE  Cardinality(T) <= Cardinality(S) - 1
<1>1. IsFiniteSet(S \ {x}) /\ Cardinality(S \ {x}) = Cardinality(S) - 1
  BY FS_RemoveElement
<1>2. T \subseteq S \ {x} OBVIOUS
<1>3. Cardinality(T) <= Cardinality(S \ {x})
  BY <1>1, <1>2, FS_Subset
<1>4. QED BY <1>1, <1>3

(* Every step keeps what has been used and what is owed of an exhausted    *)
(* provider within its limit and all slots but the one that exhausted it.  *)
LEMMA QuotaKeeps == QuotaInv /\ [GatewayNext]_gatewayVars => QuotaInv'
<1> SUFFICES ASSUME QuotaInv, [GatewayNext]_gatewayVars PROVE QuotaInv'
  OBVIOUS
<1>1. GatewayIInv /\ GatewayIInv' /\ StepOwes
  BY GatewayKeeps, GatewayOwes DEF QuotaInv
<1>2. TasksLeft' BY <1>1 DEF StepOwes
<1>3. \A r \in Requests : tasksLeft[r] \in 0 .. MaxTasks /\ tasksLeft'[r] \in 0 .. MaxTasks
  BY <1>1 DEF GatewayIInv, GatewayTypeOK
<1>4. ASSUME NEW p \in Providers, Exhausted(p)'
      PROVE  usage'[p] + Cardinality(Owed(p)') <= rowLimit'[p] + Slots - 1
  <2>1. /\ Owed(p) \in SUBSET (Requests \X (1 .. MaxTasks))
        /\ Owed(p)' \in SUBSET (Requests \X (1 .. MaxTasks))
    BY DEF Owed
  <2>2. /\ IsFiniteSet(Requests \X (1 .. MaxTasks)) /\ IsFiniteSet(Owed(p))
        /\ Cardinality(Requests \X (1 .. MaxTasks)) = Slots /\ Slots \in Nat
        /\ Cardinality(Owed(p)) \in Nat /\ Cardinality(Owed(p)') \in Nat
    BY <2>1, OwedCounts
  <2>3. /\ usage[p] \in Nat /\ rowLimit[p] \in Nat /\ usage'[p] \in Nat /\ rowLimit'[p] \in Nat
        /\ tierConfig[p] \in Nat
    BY <1>1, GatewayAssumption DEF GatewayIInv, GatewayTypeOK
  <2>4. ASSUME Exhausted(p) PROVE Owed(p)' \subseteq Owed(p)
    <3> SUFFICES ASSUME NEW o \in Owed(p)' PROVE o \in Owed(p)
      OBVIOUS
    <3>1. o \in Requests \X (1 .. MaxTasks) /\ Owes(o[1], p)' /\ o[2] <= tasksLeft'[o[1]]
      BY DEF Owed
    <3>2. Owes(o[1], p) /\ tasksLeft'[o[1]] <= tasksLeft[o[1]]
      BY <1>1, <2>4, <3>1 DEF StepOwes, OnlyLessIsOwed
    <3>3. o[2] <= tasksLeft[o[1]] BY <1>3, <3>1, <3>2
    <3>4. QED BY <3>1, <3>2, <3>3 DEF Owed
  <2>5. ASSUME Exhausted(p) PROVE Cardinality(Owed(p)') <= Cardinality(Owed(p))
    BY <2>2, <2>4, <2>5, FS_Subset
  <2>6. CASE usage'[p] = usage[p] /\ rowLimit'[p] = rowLimit[p]
    <3>1. Exhausted(p) BY <1>4, <2>6 DEF Exhausted
    <3>2. QED BY <2>2, <2>3, <2>5, <2>6, <3>1 DEF QuotaInv
  <2>7. ASSUME NEW r \in Requests, Uses(r, p)
        PROVE  usage'[p] + Cardinality(Owed(p)') <= rowLimit'[p] + Slots - 1
    <3> DEFINE last == <<r, tasksLeft[r]>>
    <3>1. /\ usage'[p] = usage[p] + 1
          /\ rowLimit'[p] = IF usage[p] = 0 THEN tierConfig[p] ELSE rowLimit[p]
      BY <1>1, <2>7 DEF Uses, GatewayIInv, GatewayTypeOK
    <3>2. Owes(r, p)
      <4>1. /\ enforced /\ entry[r] = "chat" /\ phase[r] \in Routed
            /\ position[r] \in 1 .. Len(chain[r]) /\ chain[r] = admitted[r]
            /\ p = chain[r][position[r]]
        BY <1>1, <2>7 DEF Uses, GatewayIInv, RequestInv, Current
      <4>2. QED BY <4>1 DEF Owes, UnderWay
    <3>3. last \in Owed(p)
      <4>1. tasksLeft[r] >= 1 BY <3>2 DEF QuotaInv, TasksLeft, Owes
      <4>2. tasksLeft[r] \in 1 .. MaxTasks BY <1>3, <4>1
      <4>3. QED BY <3>2, <4>2 DEF Owed
    <3>4. last \notin Owed(p)'
      <4>1. ~Owes(r, p)' \/ tasksLeft'[r] = tasksLeft[r] - 1 BY <2>7 DEF Uses
      <4>2. ~Owes(r, p)' \/ ~(tasksLeft[r] <= tasksLeft'[r]) BY <1>3, <4>1
      <4>3. QED BY <4>2 DEF Owed
    <3> HIDE DEF last
    <3>5. CASE Exhausted(p)
      <4>1. Cardinality(Owed(p)') <= Cardinality(Owed(p)) - 1
        BY <2>2, <2>4, <3>3, <3>4, <3>5, OneLess
      <4>2. usage[p] > 0 /\ usage[p] + Cardinality(Owed(p)) <= rowLimit[p] + Slots - 1
        BY <2>3, <3>5 DEF QuotaInv, Exhausted
      <4>3. QED BY <2>2, <2>3, <3>1, <4>1, <4>2
    <3>6. CASE ~Exhausted(p)
      <4>1. Cardinality(Owed(p)') <= Slots - 1
        <5>1. last \in Requests \X (1 .. MaxTasks) BY <3>3 DEF Owed
        <5>2. QED BY <2>1, <2>2, <3>4, <5>1, OneLess
      <4>2. usage'[p] <= rowLimit'[p]
        BY <1>4, <2>3, <3>1, <3>6 DEF Exhausted
      <4>3. QED BY <2>2, <2>3, <4>1, <4>2
    <3>7. QED BY <3>5, <3>6
  <2>8. QED
    <3>1. CASE UNCHANGED usageTable BY <2>6, <3>1 DEF usageTable
    <3>2. ASSUME NEW r \in Requests, Uses(r, Current(r))
          PROVE  (usage'[p] = usage[p] /\ rowLimit'[p] = rowLimit[p]) \/ p = Current(r)
      BY <1>1, <3>2 DEF Uses, GatewayIInv, GatewayTypeOK
    <3>3. QED BY <1>1, <2>6, <2>7, <3>1, <3>2 DEF StepOwes
<1>5. QED BY <1>1, <1>2, <1>4 DEF QuotaInv

(* For any number of requests under way: a limit is exceeded by less than  *)
(* one use per slot and task, whatever restarts and settings come between, *)
(* since check and record are apart but the check precedes every admission.*)
THEOREM OvershootBounded == GatewaySpec => []RequestOvershootIsBounded
<1>1. GatewayInit => QuotaInv
  <2> SUFFICES ASSUME GatewayInit PROVE QuotaInv
    OBVIOUS
  <2>1. TasksLeft BY DEF GatewayInit, TasksLeft, UnderWay, Routed
  <2>2. \A p \in Providers : ~Exhausted(p) BY DEF GatewayInit, Exhausted
  <2>3. QED BY <2>1, <2>2, GatewayStarts DEF QuotaInv
<1>2. QuotaInv => RequestOvershootIsBounded
  <2> SUFFICES ASSUME QuotaInv, NEW p \in Free, rowLimit[p] > 0
               PROVE  usage[p] < rowLimit[p] + Slots
    BY DEF RequestOvershootIsBounded, Slots
  <2>1. p \in Providers /\ usage[p] \in Nat /\ rowLimit[p] \in Nat
    BY GatewayAssumption DEF QuotaInv, GatewayIInv, GatewayTypeOK
  <2>2. Owed(p) \in SUBSET (Requests \X (1 .. MaxTasks)) BY DEF Owed
  <2>3. Cardinality(Owed(p)) \in Nat /\ Slots \in Nat BY <2>2, OwedCounts
  <2>4. CASE Exhausted(p) BY <2>1, <2>3, <2>4 DEF QuotaInv
  <2>5. CASE ~Exhausted(p) BY <2>1, <2>3, <2>5 DEF Exhausted
  <2>6. QED BY <2>4, <2>5
<1>3. QED BY <1>1, <1>2, QuotaKeeps, PTL DEF GatewaySpec

-----------------------------------------------------------------------------
(* The tier cache. *)

CacheEntry == [tier : Tier, fresh : BOOLEAN]

TierTypeOK ==
  /\ cache \in [Tiered -> CacheEntry \cup {Miss}]
  /\ inFlight \subseteq Tiered /\ settled \subseteq Tiered
  /\ probing \in [Tiered -> Nat]
  /\ refresh \in [Refreshes -> [at : Nat, state : {"idle", "probing", "returning"},
                                result : CacheEntry \cup {Miss}]]

(* A run that is under way stands at one of the known providers; when it   *)
(* returns it has a tier in hand, "unknown" at worst.                      *)
RunsHaveResults ==
  \A r \in Refreshes :
    /\ refresh[r].state # "idle" => refresh[r].at \in DOMAIN Known
    /\ refresh[r].state = "returning" => refresh[r].result \in CacheEntry

TierIInv == TierTypeOK /\ RunsHaveResults /\ CallersShareProbe

LEMMA KnownIsTiered ==
  ASSUME NEW i \in DOMAIN Known
  PROVE  Known[i] \in Tiered
BY TierAssumption

(* An entry with a tier is one, and no miss. *)
LEMMA EntryIsEntry ==
  ASSUME NEW tier \in Tier
  PROVE  Entry(tier, TRUE) \in CacheEntry /\ Miss \notin CacheEntry
BY DEF Entry, CacheEntry, Miss, Tier

LEMMA CachedTyped ==
  ASSUME TierTypeOK, NEW p \in Tiered, NEW tier \in Tier
  PROVE  /\ Cached(p, tier) \in [Tiered -> CacheEntry \cup {Miss}]
         /\ Result(p, tier) \in CacheEntry
<1>1. Cached(p, tier) \in [Tiered -> CacheEntry \cup {Miss}]
  BY EntryIsEntry DEF TierTypeOK, Cached
<1>2. Result(p, tier) \in CacheEntry
  <2>1. "unknown" \in Tier BY DEF Tier
  <2>2. QED BY <2>1, EntryIsEntry DEF TierTypeOK, Result
<1>3. QED BY <1>1, <1>2

LEMMA ProceedsTyped ==
  ASSUME TierTypeOK, RunsHaveResults, NEW r \in Refreshes, NEW k \in Nat \ {0}, Proceeds(r, k)
  PROVE  /\ refresh' \in [Refreshes -> [at : Nat, state : {"idle", "probing", "returning"},
                                        result : CacheEntry \cup {Miss}]]
         /\ RunsHaveResults'
<1>1. DOMAIN Known = 1 .. Len(Known) /\ Len(Known) \in Nat BY TierAssumption
<1>2. CASE k > Len(Known)
  BY <1>2 DEF Proceeds, IdleRun, TierTypeOK, RunsHaveResults
<1>3. CASE ~(k > Len(Known))
  <2>1. k \in DOMAIN Known BY <1>1, <1>3
  <2>2. QED BY <1>3, <2>1 DEF Proceeds, TierTypeOK, RunsHaveResults
<1>4. QED BY <1>2, <1>3

LEMMA TierStarts == TierInit => TierIInv
BY DEF TierInit, TierIInv, TierTypeOK, RunsHaveResults, CallersShareProbe, IdleRun

LEMMA TierKeeps == TierIInv /\ [TierNext]_tierVars => TierIInv'
<1> SUFFICES ASSUME TierIInv, [TierNext]_tierVars PROVE TierIInv'
  OBVIOUS
<1> USE DEF TierIInv
<1>1. CASE UNCHANGED tierVars
  BY <1>1 DEF tierVars, TierTypeOK, RunsHaveResults, CallersShareProbe
<1>2. ASSUME NEW p \in Tiered, getProviderTier(p) PROVE TierIInv'
  <2>1. TierTypeOK' /\ RunsHaveResults'
    BY <1>2 DEF getProviderTier, TierTypeOK, RunsHaveResults
  <2>2. probing[p] = 0 /\ p \notin settled
    BY <1>2 DEF getProviderTier, Hit, CallersShareProbe, TierTypeOK
  <2>3. CallersShareProbe'
    BY <1>2, <2>2 DEF getProviderTier, CallersShareProbe, TierTypeOK
  <2>4. QED BY <2>1, <2>3
<1>3. ASSUME NEW p \in Tiered, NEW tier \in Tier, doProbe(p, tier) PROVE TierIInv'
  <2>1. TierTypeOK'
    BY <1>3, CachedTyped DEF doProbe, TierTypeOK
  <2>2. RunsHaveResults'
    BY <1>3 DEF doProbe, RunsHaveResults
  <2>3. probing[p] = 1 /\ p \in inFlight
    BY <1>3 DEF doProbe, CallersShareProbe, TierTypeOK
  <2>4. CallersShareProbe'
    BY <1>3, <2>3 DEF doProbe, CallersShareProbe, TierTypeOK
  <2>5. QED BY <2>1, <2>2, <2>4
<1>4. ASSUME NEW p \in Tiered, Finally(p) PROVE TierIInv'
  <2>1. TierTypeOK' /\ RunsHaveResults'
    BY <1>4 DEF Finally, TierTypeOK, RunsHaveResults
  <2>2. CallersShareProbe'
    BY <1>4 DEF Finally, CallersShareProbe, TierTypeOK
  <2>3. QED BY <2>1, <2>2
<1>5. ASSUME NEW p \in Tiered, Expires(p) PROVE TierIInv'
  <2>1. cache[p] \in CacheEntry
    BY <1>5 DEF Expires, TierTypeOK, Miss, Entry
  <2>2. TierTypeOK'
    BY <1>5, <2>1 DEF Expires, TierTypeOK, CacheEntry
  <2>3. RunsHaveResults' /\ CallersShareProbe'
    BY <1>5 DEF Expires, RunsHaveResults, CallersShareProbe
  <2>4. QED BY <2>2, <2>3
<1>6. ASSUME NEW r \in Refreshes, TimerFires(r) PROVE TierIInv'
  <2>1. Proceeds(r, 1) BY <1>6 DEF TimerFires
  <2>2. QED BY <1>6, <2>1, ProceedsTyped DEF TimerFires, TierTypeOK, CallersShareProbe
<1>7. ASSUME NEW r \in Refreshes, NEW tier \in Tier, RefreshProbed(r, tier) PROVE TierIInv'
  <2> DEFINE p == Known[refresh[r].at]
  <2>1. p \in Tiered
    BY <1>7, KnownIsTiered DEF RefreshProbed, RunsHaveResults
  <2>2. /\ cache' = Cached(p, tier)
        /\ refresh' = [refresh EXCEPT ![r].state = "returning", ![r].result = Result(p, tier)]
        /\ UNCHANGED <<inFlight, probing, settled>>
    BY <1>7 DEF RefreshProbed
  <2> HIDE DEF p
  <2>3. TierTypeOK'
    BY <2>1, <2>2, CachedTyped DEF TierTypeOK
  <2>4. RunsHaveResults'
    BY <1>7, <2>1, <2>2, CachedTyped DEF RefreshProbed, RunsHaveResults, TierTypeOK
  <2>5. CallersShareProbe'
    BY <2>2 DEF CallersShareProbe
  <2>6. QED BY <2>3, <2>4, <2>5
<1>8. ASSUME NEW r \in Refreshes, RefreshCaches(r) PROVE TierIInv'
  <2>1. Proceeds(r, refresh[r].at + 1) /\ refresh[r].at + 1 \in Nat \ {0}
    BY <1>8 DEF RefreshCaches, TierTypeOK
  <2>2. cache' \in [Tiered -> CacheEntry \cup {Miss}]
    BY <1>8 DEF RefreshCaches, TierTypeOK
  <2>3. QED
    BY <1>8, <2>1, <2>2, ProceedsTyped DEF RefreshCaches, TierTypeOK, CallersShareProbe
<1>9. QED
  BY <1>1, <1>2, <1>3, <1>4, <1>5, <1>6, <1>7, <1>8 DEF TierNext

(* However callers, probes and the refresh interleave, no provider is      *)
(* probed twice at once for callers, and none waits for a probe that is    *)
(* over (tier_config_cache.ts:130-144).                                    *)
THEOREM OneProbePerProvider == TierSpec => []CallersShareProbe
<1>1. TierIInv => CallersShareProbe BY DEF TierIInv
<1>2. QED BY <1>1, TierStarts, TierKeeps, PTL DEF TierSpec

(* A step that takes a known tier away is a refresh run's, with the        *)
(* "unknown" it brought along from a cache that was empty then.            *)
Loses(p) == cache[p].tier \in {"free", "paid"} /\ cache'[p].tier \notin {"free", "paid"}
ByRefresh(p) ==
  \E r \in Refreshes :
    /\ refresh[r].state = "returning" /\ Known[refresh[r].at] = p
    /\ refresh[r].result.tier = "unknown"

LEMMA ProbesLoseNothing ==
  ASSUME TierTypeOK, NEW p \in Tiered, NEW q \in Tiered, NEW tier \in Tier,
         cache' = Cached(q, tier)
  PROVE  ~Loses(p)
BY DEF TierTypeOK, Loses, Cached, Entry, Tier

LEMMA OnlyRefreshLoses ==
  ASSUME TierIInv, TierNext, NEW p \in Tiered, Loses(p)
  PROVE  ByRefresh(p)
<1> USE DEF TierIInv
<1>1. ASSUME NEW q \in Tiered, getProviderTier(q) \/ Finally(q) PROVE FALSE
  BY <1>1 DEF getProviderTier, Finally, Loses
<1>2. ASSUME NEW q \in Tiered, NEW tier \in Tier, doProbe(q, tier) PROVE FALSE
  BY <1>2, ProbesLoseNothing DEF doProbe
<1>3. ASSUME NEW q \in Tiered, Expires(q) PROVE FALSE
  BY <1>3 DEF Expires, Loses, TierTypeOK, CacheEntry, Miss, Entry
<1>4. ASSUME NEW r \in Refreshes, TimerFires(r) PROVE FALSE
  BY <1>4 DEF TimerFires, Loses
<1>5. ASSUME NEW r \in Refreshes, NEW tier \in Tier, RefreshProbed(r, tier) PROVE FALSE
  <2>1. Known[refresh[r].at] \in Tiered
    BY <1>5, KnownIsTiered DEF RefreshProbed, RunsHaveResults
  <2>2. cache' = Cached(Known[refresh[r].at], tier) BY <1>5 DEF RefreshProbed
  <2>3. QED BY <2>1, <2>2, ProbesLoseNothing
<1>6. ASSUME NEW r \in Refreshes, RefreshCaches(r) PROVE ByRefresh(p)
  <2>1. refresh[r].state = "returning" /\ refresh[r].result \in CacheEntry
    BY <1>6 DEF RefreshCaches, RunsHaveResults
  <2>2. cache' = [cache EXCEPT ![Known[refresh[r].at]] = refresh[r].result]
    BY <1>6 DEF RefreshCaches
  <2>3. Known[refresh[r].at] = p /\ cache'[p] = refresh[r].result
    BY <2>2 DEF Loses, TierTypeOK
  <2>4. refresh[r].result.tier = "unknown"
    BY <2>1, <2>3 DEF Loses, CacheEntry, Tier
  <2>5. QED BY <2>1, <2>3, <2>4 DEF ByRefresh
<1>7. QED BY <1>1, <1>2, <1>3, <1>4, <1>5, <1>6 DEF TierNext

(* A provider known to be free or paid stays so, whatever fails: the one   *)
(* way out is a refresh whose own probe failed when nothing was cached and *)
(* whose continuation comes late (tier_config_cache.ts:172-175, 201, 224). *)
THEOREM KnownTierKept == TierSpec => KnownTierIsKept
<1>1. TierIInv /\ [TierNext]_tierVars =>
        [\A p \in Tiered :
           (cache[p].tier \in {"free", "paid"} /\ cache'[p].tier \notin {"free", "paid"}) =>
             \E r \in Refreshes :
               /\ refresh[r].state = "returning" /\ Known[refresh[r].at] = p
               /\ refresh[r].result.tier = "unknown"]_tierVars
  BY OnlyRefreshLoses DEF Loses, ByRefresh
<1>2. QED BY <1>1, TierStarts, TierKeeps, PTL DEF TierSpec, KnownTierIsKept
=============================================================================
