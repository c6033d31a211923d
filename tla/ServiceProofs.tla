--------------------------- MODULE ServiceProofs ----------------------------
(***************************************************************************)
(* Proofs about the services that run on their own: the brain worker's     *)
(* threads load the model at most once; a cluster listener's view is the   *)
(* peer map; the distributor yields every result once, by the index its    *)
(* array entry carries; the Python client retries what failed and yields a *)
(* prefix of the stream; the rate limiter's grants are bounded; the        *)
(* orchestrator counts, stages and reviews what its nodes did; and, for    *)
(* any passwords, providers and keys, whoever can unlock the vault reads   *)
(* what its workers stored, the tool's listing and the worker agree on a   *)
(* provider's key, and that key moves only to a new row or back to an      *)
(* older one.                                                              *)
(***************************************************************************)
EXTENDS Brain, Discovery, Distributor, AgentClient, RateLimiter, Orchestrate, Vault,
        LoopLemmas, FunctionTheorems, FiniteSetTheorems, SequenceTheorems, WellFoundedInduction,
        TLAPS

-----------------------------------------------------------------------------
(* The brain worker (workers/brain/src). *)

LEMMA HeuristicAnswers ==
  ASSUME NEW n \in 1 .. 2
  PROVE  HeuristicClass(n) \in Classification
BY DEF HeuristicClass, Classification

(* A thread leaves classify with a reply of the right form. *)
LEMMA ReturnsTyped ==
  ASSUME BrainTypeOK, NEW t \in Threads,
         NEW c \in Classification, NEW s \in Source, Returns(t, Reply(c, s))
  PROVE  /\ place' \in [Threads -> {"idle", "classify", "lock", "load", "generate", "parse"}]
         /\ answer' \in [Threads -> [classification : Classification, source : Source]
                                      \cup {NoReply}]
         /\ UNCHANGED <<selector, messages>>
         /\ place' = [place EXCEPT ![t] = "idle"]
<1>1. Reply(c, s) \in [classification : Classification, source : Source]
  BY DEF Reply
<1>2. QED BY <1>1 DEF BrainTypeOK, Returns

LEMMA FallsBackTyped ==
  ASSUME BrainTypeOK, NEW t \in Threads, FallsBack(t)
  PROVE  /\ place' \in [Threads -> {"idle", "classify", "lock", "load", "generate", "parse"}]
         /\ answer' \in [Threads -> [classification : Classification, source : Source]
                                      \cup {NoReply}]
         /\ UNCHANGED <<selector, messages>>
         /\ place' = [place EXCEPT ![t] = "idle"]
<1>1. HeuristicClass(messages[t]) \in Classification
  BY HeuristicAnswers DEF BrainTypeOK
<1>2. "brain-fallback" \in Source BY DEF Source
<1>3. QED BY <1>1, <1>2, ReturnsTyped DEF FallsBack

BrainIInv == BrainTypeOK /\ ModelIsLoadedOnce

LEMMA BrainStarts == BrainInit => BrainIInv
BY ThreadsAssumption DEF BrainInit, BrainIInv, BrainTypeOK, ModelIsLoadedOnce

(* Every step of the brain keeps its types and the once-only loading: the  *)
(* lock's holder is the one thread that loads, and the model is not there  *)
(* while it does.                                                          *)
LEMMA BrainKeeps == BrainIInv /\ [BrainNext]_brainVars => BrainIInv'
<1> SUFFICES ASSUME BrainIInv, [BrainNext]_brainVars PROVE BrainIInv'
  OBVIOUS
<1> USE DEF BrainIInv
<1>1. CASE UNCHANGED brainVars
  BY <1>1 DEF brainVars, BrainTypeOK, ModelIsLoadedOnce
<1>2. ASSUME NEW kind \in {"heuristic", "slm", "other"}, NEW i \in BOOLEAN,
             build_selector(kind, i)
      PROVE  BrainIInv'
  BY <1>2 DEF build_selector, BrainTypeOK, ModelIsLoadedOnce
<1>3. ASSUME NEW t \in Threads, NEW n \in 1 .. 2, Called(t, n)
      PROVE  BrainIInv'
  BY <1>3 DEF Called, BrainTypeOK, ModelIsLoadedOnce
<1>4. ASSUME NEW t \in Threads, HeuristicClassifies(t)
      PROVE  BrainIInv'
  <2>1. HeuristicClass(messages[t]) \in Classification /\ "heuristic" \in Source
    BY HeuristicAnswers DEF BrainTypeOK, Source
  <2>2. BrainTypeOK'
    BY <1>4, <2>1, ReturnsTyped DEF HeuristicClassifies, BrainTypeOK
  <2>3. ModelIsLoadedOnce'
    BY <1>4, <2>1, ReturnsTyped, ThreadsAssumption
       DEF HeuristicClassifies, ModelIsLoadedOnce, BrainTypeOK
  <2>4. QED BY <2>2, <2>3
<1>5. ASSUME NEW t \in Threads, LooksForModel(t)
      PROVE  BrainIInv'
  BY <1>5, ThreadsAssumption DEF LooksForModel, Goes, BrainTypeOK, ModelIsLoadedOnce
<1>6. ASSUME NEW t \in Threads, TakesLock(t)
      PROVE  BrainIInv'
  BY <1>6, ThreadsAssumption DEF TakesLock, Goes, BrainTypeOK, ModelIsLoadedOnce
<1>7. ASSUME NEW t \in Threads, NEW how \in {"loaded", "handled", "escapes"}, Loads(t, how)
      PROVE  BrainIInv'
  <2>1. CASE how = "loaded"
    BY <1>7, <2>1, ThreadsAssumption DEF Loads, Goes, BrainTypeOK, ModelIsLoadedOnce
  <2>2. CASE how = "handled"
    <3>1. "UNKNOWN" \in Classification /\ "llamacpp-error" \in Source
      BY DEF Classification, Source
    <3>2. QED BY <1>7, <2>2, <3>1, ReturnsTyped, ThreadsAssumption
                 DEF Loads, BrainTypeOK, ModelIsLoadedOnce
  <2>3. CASE how = "escapes"
    BY <1>7, <2>3, FallsBackTyped, ThreadsAssumption DEF Loads, BrainTypeOK, ModelIsLoadedOnce
  <2>4. QED BY <2>1, <2>2, <2>3
<1>8. ASSUME NEW t \in Threads, NEW fails \in BOOLEAN, Generates(t, fails)
      PROVE  BrainIInv'
  <2>1. CASE fails
    <3>1. "UNKNOWN" \in Classification /\ "llamacpp-error" \in Source
      BY DEF Classification, Source
    <3>2. QED BY <1>8, <2>1, <3>1, ReturnsTyped, ThreadsAssumption
                 DEF Generates, BrainTypeOK, ModelIsLoadedOnce
  <2>2. CASE ~fails
    BY <1>8, <2>2, ThreadsAssumption DEF Generates, Goes, BrainTypeOK, ModelIsLoadedOnce
  <2>3. QED BY <2>1, <2>2
<1>9. ASSUME NEW t \in Threads,
             NEW text \in Classification \cup {"not JSON", "not a dict"}, Parses(t, text)
      PROVE  BrainIInv'
  <2>1. ASSUME NEW c \in Classification, NEW s \in Source, Returns(t, Reply(c, s))
        PROVE  BrainIInv'
    BY ZenonT(30), <1>9, <2>1, ReturnsTyped, ThreadsAssumption
    DEF Parses, BrainTypeOK, ModelIsLoadedOnce
  <2>2. ASSUME FallsBack(t) PROVE BrainIInv'
    BY ZenonT(30), <1>9, <2>2, FallsBackTyped, ThreadsAssumption
    DEF Parses, BrainTypeOK, ModelIsLoadedOnce
  <2>3. "llamacpp" \in Source /\ "llamacpp-parse-error" \in Source /\ "UNKNOWN" \in Classification
    BY DEF Source, Classification
  <2>4. CASE text \in Classification
    <3>1. Returns(t, Reply(text, "llamacpp")) BY <1>9, <2>4 DEF Parses, Classification
    <3>2. QED BY <3>1, <2>1, <2>3, <2>4
  <2>5. CASE text = "not JSON"
    <3>1. Returns(t, Reply("UNKNOWN", "llamacpp-parse-error"))
      BY <1>9, <2>5 DEF Parses, Classification
    <3>2. QED BY <3>1, <2>1, <2>3
  <2>6. CASE text = "not a dict"
    <3>1. FallsBack(t) BY <1>9, <2>6 DEF Parses, Classification
    <3>2. QED BY <3>1, <2>2
  <2>7. QED BY <2>4, <2>5, <2>6
<1>10. QED
  BY <1>1, <1>2, <1>3, <1>4, <1>5, <1>6, <1>7, <1>8, <1>9 DEF BrainNext

(* However many threads classify at once and however loading ends, the     *)
(* brain's variables keep their types (llamacpp_selector.py, main.py).     *)
THEOREM BrainTypeCorrect == BrainSpec => []BrainTypeOK
<1>1. BrainIInv => BrainTypeOK BY DEF BrainIInv
<1>2. QED BY <1>1, BrainStarts, BrainKeeps, PTL DEF BrainSpec

(* The model is loaded at most once, under the lock, whatever number of    *)
(* threads meet in _load_model (llamacpp_selector.py:59-79).               *)
THEOREM ModelLoadedOnce == BrainSpec => []ModelIsLoadedOnce
<1>1. BrainIInv => ModelIsLoadedOnce BY DEF BrainIInv
<1>2. QED BY <1>1, BrainStarts, BrainKeeps, PTL DEF BrainSpec

-----------------------------------------------------------------------------
(* Cluster discovery (workers/shared/cluster-discovery.ts). *)

DiscoveryTypeOK ==
  /\ peers \subseteq Peers
  /\ up \in [Peers -> Nat]

DiscoveryIInv == DiscoveryTypeOK /\ EventsFollowPeers

LEMMA DiscoveryStarts == DiscoveryInit => DiscoveryIInv
BY DEF DiscoveryInit, DiscoveryIInv, DiscoveryTypeOK, EventsFollowPeers

(* What a poll's one step after its await does to the map, it tells by the *)
(* hooks, to the end or to the one that throws: the heart of the invariant. *)
LEMMA AppliesKeeps ==
  ASSUME DiscoveryIInv, NEW list \in SUBSET Peers, NEW throws \in BOOLEAN,
         Applies(list, throws)
  PROVE  DiscoveryIInv'
<1>1. PICK first \in SUBSET list, out \in SUBSET Gone(list) :
        /\ peers' = (peers \cup first) \ out
        /\ up' = [p \in Peers |-> IF p \in first \ peers THEN up[p] + 1
                                  ELSE IF p \in out THEN up[p] - 1 ELSE up[p]]
  BY DEF Applies, News
<1>2. out \subseteq peers /\ out \cap first = {} BY DEF Gone
<1>3. QED BY <1>1, <1>2 DEF DiscoveryIInv, DiscoveryTypeOK, EventsFollowPeers

LEMMA AnswersKeep ==
  ASSUME DiscoveryIInv, NEW list \in SUBSET Peers, NEW e \in PollEndings,
         TransportAnswers(list, e)
  PROVE  DiscoveryIInv'
<1>1. CASE e.fails
  BY <1>1 DEF TransportAnswers, DiscoveryIInv, DiscoveryTypeOK, EventsFollowPeers
<1>2. CASE ~e.fails /\ e.stops
  BY <1>2 DEF TransportAnswers, AppliesAndStops, DiscoveryIInv, DiscoveryTypeOK,
              EventsFollowPeers
<1>3. CASE ~e.fails /\ ~e.stops
  <2>1. Applies(list, e.throws) BY <1>3 DEF TransportAnswers
  <2>2. e.throws \in BOOLEAN BY DEF PollEndings
  <2>3. QED BY <2>1, <2>2, AppliesKeeps
<1>4. QED BY <1>1, <1>2, <1>3

LEMMA DiscoveryKeeps == DiscoveryIInv /\ [DiscoveryNext]_discoveryVars => DiscoveryIInv'
<1> SUFFICES ASSUME DiscoveryIInv, [DiscoveryNext]_discoveryVars PROVE DiscoveryIInv'
  OBVIOUS
<1>1. CASE UNCHANGED discoveryVars
  BY <1>1 DEF discoveryVars, DiscoveryIInv, DiscoveryTypeOK, EventsFollowPeers
<1>2. CASE start
  BY <1>2 DEF start, DiscoveryIInv, DiscoveryTypeOK, EventsFollowPeers
<1>3. CASE stop
  BY <1>3 DEF stop, DiscoveryIInv, DiscoveryTypeOK, EventsFollowPeers
<1>4. CASE TimerTicks
  BY <1>4 DEF TimerTicks, DiscoveryIInv, DiscoveryTypeOK, EventsFollowPeers
<1>5. ASSUME NEW list \in SUBSET Peers, NEW e \in PollEndings,
             FirstPollReturns(list, e) \/ PollReturns(list, e)
      PROVE  DiscoveryIInv'
  BY <1>5, AnswersKeep DEF FirstPollReturns, PollReturns
<1>6. QED BY <1>1, <1>2, <1>3, <1>4, <1>5 DEF DiscoveryNext

(* Who follows onNodeUp and onNodeDown knows the peer map, however many    *)
(* polls overlap, whenever stop and start come in between and if the hooks *)
(* throw (cluster-discovery.ts:156-213).                                   *)
THEOREM ListenerKnowsPeers == DiscoverySpec => []EventsFollowPeers
<1>1. DiscoveryIInv => EventsFollowPeers BY DEF DiscoveryIInv
<1>2. QED BY <1>1, DiscoveryStarts, DiscoveryKeeps, PTL DEF DiscoverySpec

-----------------------------------------------------------------------------
(* The distributor (workers/gateway/src/distributor.ts).  Each node of the *)
(* stages so far is either yielded, once, or still in the array, once, and *)
(* each entry carries its own place.                                       *)

InStage(n, s) == \E i \in 1 .. Len(Stages[s]) : Stages[s][i] = n
IsYielded(n) == \E i \in 1 .. Len(results) : results[i] = n
IsEntered(n) == \E p \in 1 .. Len(entries) : entries[p].node = n

ArrayInPlace ==
  /\ entries \in Seq([node : Nodes, idx : Nat])
  /\ \A p \in 1 .. Len(entries) : entries[p].idx = p
  /\ \A p, q \in 1 .. Len(entries) : entries[p].node = entries[q].node => p = q
  /\ \A p \in 1 .. Len(entries) : InStage(entries[p].node, stage)

YieldedOnce ==
  /\ results \in Seq(Nodes)
  /\ \A i, j \in 1 .. Len(results) : results[i] = results[j] => i = j
  /\ \A n \in Nodes : IsYielded(n) => ~IsEntered(n) /\ \E s \in 1 .. stage : InStage(n, s)
  /\ \A n \in Nodes : InStage(n, stage) => IsYielded(n) \/ IsEntered(n)
  /\ \A s \in 1 .. stage - 1, n \in Nodes : InStage(n, s) => IsYielded(n)

WorkersDistinct ==
  /\ tried \in [Nodes -> Seq(Workers)]
  /\ \A n \in Nodes : /\ Len(tried[n]) <= retryCap + 1
                      /\ TriedBy(n) \subseteq Capable[n]
                      /\ IsFiniteSet(TriedBy(n))
                      /\ Cardinality(TriedBy(n)) = Len(tried[n])

DistInv ==
  /\ stage \in 1 .. Len(Stages)
  /\ ArrayInPlace
  /\ YieldedOnce
  /\ WorkersDistinct
  /\ outcome = "done" => entries = <<>> /\ stage = Len(Stages)

(* Every node is in one place of one stage. *)
LEMMA StagesTyped ==
  /\ Len(Stages) \in Nat \ {0} /\ DOMAIN Stages = 1 .. Len(Stages)
  /\ \A s \in 1 .. Len(Stages) :
       /\ Stages[s] \in Seq(Nodes) /\ Len(Stages[s]) \in Nat \ {0}
       /\ DOMAIN Stages[s] = 1 .. Len(Stages[s])
       /\ \A i \in 1 .. Len(Stages[s]) : Stages[s][i] \in Nodes
<1>1. Stages \in Seq(Seq(Nodes)) /\ Stages # <<>> BY DistributorAssumption
<1>2. Len(Stages) \in Nat \ {0} /\ DOMAIN Stages = 1 .. Len(Stages)
  BY <1>1, LenProperties, EmptySeq
<1>3. \A s \in 1 .. Len(Stages) : Stages[s] \in Seq(Nodes) /\ Stages[s] # <<>>
  BY <1>1, <1>2, ElementOfSeq, DistributorAssumption
<1>4. ASSUME NEW s \in 1 .. Len(Stages)
      PROVE  /\ Len(Stages[s]) \in Nat \ {0} /\ DOMAIN Stages[s] = 1 .. Len(Stages[s])
             /\ \A i \in 1 .. Len(Stages[s]) : Stages[s][i] \in Nodes
  BY <1>3, LenProperties, EmptySeq, ElementOfSeq
<1>5. QED BY <1>2, <1>3, <1>4

LEMMA StagesApart ==
  ASSUME NEW s \in 1 .. Len(Stages), NEW t \in 1 .. Len(Stages), NEW n,
         InStage(n, s), InStage(n, t)
  PROVE  s = t
BY SMTT(20), StagesTyped, DistributorAssumption DEF InStage

(* The array of a stage that starts. *)
LEMMA EntriesStart ==
  ASSUME NEW s \in 1 .. Len(Stages)
  PROVE  /\ Entries(s) \in Seq([node : Nodes, idx : Nat])
         /\ Len(Entries(s)) = Len(Stages[s])
         /\ \A p \in 1 .. Len(Stages[s]) : /\ Entries(s)[p].idx = p
                                           /\ Entries(s)[p].node = Stages[s][p]
         /\ \A p, q \in 1 .. Len(Stages[s]) : Stages[s][p] = Stages[s][q] => p = q
<1> DEFINE E(i) == [node |-> Stages[s][i], idx |-> i]
<1>1. /\ Len(Stages[s]) \in Nat /\ s \in DOMAIN Stages
      /\ DOMAIN Stages[s] = 1 .. Len(Stages[s])
      /\ \A i \in 1 .. Len(Stages[s]) : Stages[s][i] \in Nodes
  BY StagesTyped
<1>2. Entries(s) = [i \in 1 .. Len(Stages[s]) |-> E(i)]
  BY <1>1 DEF Entries
<1>3. \A i \in 1 .. Len(Stages[s]) : E(i) \in [node : Nodes, idx : Nat]
  BY <1>1
<1> HIDE DEF E
<1>4. /\ Entries(s) \in Seq([node : Nodes, idx : Nat])
      /\ Len(Entries(s)) = Len(Stages[s])
  BY <1>1, <1>2, <1>3, IsASeq, LenProperties
<1>5. \A p \in 1 .. Len(Stages[s]) : Entries(s)[p] = E(p)
  BY <1>2
<1>6. \A p \in 1 .. Len(Stages[s]) : E(p).idx = p /\ E(p).node = Stages[s][p]
  BY DEF E
<1>7. \A p, q \in 1 .. Len(Stages[s]) : Stages[s][p] = Stages[s][q] => p = q
  BY <1>1, DistributorAssumption
<1>8. QED BY <1>4, <1>5, <1>6, <1>7

LEMMA DistInitHolds == DistInit => DistInv
<1> SUFFICES ASSUME DistInit PROVE DistInv
  OBVIOUS
<1>1. 1 \in 1 .. Len(Stages) BY StagesTyped
<1>2. /\ entries = Entries(1) /\ stage = 1 /\ results = <<>> /\ outcome = "running"
      /\ tried = [n \in Nodes |-> <<>>]
  BY DEF DistInit
<1>0. /\ Entries(1) \in Seq([node : Nodes, idx : Nat]) /\ Len(Entries(1)) = Len(Stages[1])
      /\ \A p \in 1 .. Len(Stages[1]) : /\ Entries(1)[p].idx = p
                                        /\ Entries(1)[p].node = Stages[1][p]
      /\ \A p, q \in 1 .. Len(Stages[1]) : Stages[1][p] = Stages[1][q] => p = q
  BY <1>1, EntriesStart
<1>3. ArrayInPlace
  <2>1. \A p \in 1 .. Len(entries) : InStage(entries[p].node, stage)
    BY <1>0, <1>2 DEF InStage
  <2>2. \A p, q \in 1 .. Len(entries) : entries[p].node = entries[q].node => p = q
    BY <1>0, <1>2
  <2>3. QED BY <1>0, <1>2, <2>1, <2>2 DEF ArrayInPlace
<1>4. YieldedOnce
  <2>1. Len(results) = 0 /\ results \in Seq(Nodes) BY <1>2, EmptySeq
  <2>2. \A n : ~IsYielded(n) BY <2>1 DEF IsYielded
  <2>3. ASSUME NEW n, InStage(n, 1) PROVE IsEntered(n)
    <3>1. PICK i \in 1 .. Len(Stages[1]) : Stages[1][i] = n BY <2>3 DEF InStage
    <3>2. entries[i].node = n /\ i \in 1 .. Len(entries) BY <1>0, <1>2, <3>1
    <3>3. QED BY <3>2 DEF IsEntered
  <2>4. QED BY <1>2, <2>1, <2>2, <2>3 DEF YieldedOnce
<1>5. WorkersDistinct
  <2>1. Len(<<>>) = 0 /\ <<>> \in Seq(Workers) /\ DOMAIN <<>> = {} BY EmptySeq
  <2>2. \A n \in Nodes : TriedBy(n) = {} BY <1>2, <2>1 DEF TriedBy
  <2>3. \A n \in Nodes : tried[n] = <<>> BY <1>2
  <2>4. tried \in [Nodes -> Seq(Workers)] BY <1>2, <2>1
  <2>5. 0 <= retryCap + 1 BY DistributorAssumption
  <2>6. IsFiniteSet({}) /\ Cardinality({}) = 0 BY FS_EmptySet
  <2>7. ASSUME NEW n \in Nodes
        PROVE  /\ Len(tried[n]) <= retryCap + 1 /\ TriedBy(n) \subseteq Capable[n]
               /\ IsFiniteSet(TriedBy(n)) /\ Cardinality(TriedBy(n)) = Len(tried[n])
    BY <2>1, <2>2, <2>3, <2>5, <2>6
  <2>8. QED BY <2>4, <2>7 DEF WorkersDistinct
<1>6. QED BY <1>1, <1>2, <1>3, <1>4, <1>5 DEF DistInv

(* What is left of the array once the entry at i is taken out: the others, *)
(* the last of them in its place and with its index.                       *)
LEMMA SwapOutKeeps ==
  ASSUME ArrayInPlace, NEW i \in 1 .. Len(entries)
  PROVE  /\ SwapOut(i) \in Seq([node : Nodes, idx : Nat])
         /\ Len(SwapOut(i)) = Len(entries) - 1
         /\ \A p \in 1 .. Len(entries) - 1 :
              /\ SwapOut(i)[p].idx = p
              /\ SwapOut(i)[p].node = entries[IF p = i THEN Len(entries) ELSE p].node
<1> DEFINE n == Len(entries)
           T == [node : Nodes, idx : Nat]
           moved == [node |-> entries[n].node, idx |-> i]
           all == IF i = n THEN entries ELSE [entries EXCEPT ![i] = moved]
<1>1. /\ n \in Nat /\ entries \in Seq(T) /\ DOMAIN entries = 1 .. n
      /\ \A p \in 1 .. n : entries[p] \in T /\ entries[p].idx = p
  BY LenProperties, ElementOfSeq DEF ArrayInPlace
<1>2. moved = [entries[n] EXCEPT !.idx = i] /\ moved \in T
  BY <1>1
<1>3. /\ all \in Seq(T) /\ Len(all) = n
      /\ \A p \in 1 .. n : all[p] = IF p = i /\ i # n THEN moved ELSE entries[p]
  <2>1. CASE i = n BY <1>1, <2>1
  <2>2. CASE i # n
    <3>1. [entries EXCEPT ![i] = moved] \in Seq(T) /\ Len([entries EXCEPT ![i] = moved]) = n
          /\ \A p \in 1 .. n : [entries EXCEPT ![i] = moved][p] = IF p = i THEN moved ELSE entries[p]
      BY <1>1, <1>2, ExceptSeq
    <3>2. all = [entries EXCEPT ![i] = moved] BY <2>2
    <3> HIDE DEF all, moved, T
    <3>3. QED BY <2>2, <3>1, <3>2
  <2>3. QED BY <2>1, <2>2
<1>4. SwapOut(i) = Shrink(all)
  BY <1>2 DEF SwapOut
<1>5. Shrink(all) = SubSeq(all, 1, n - 1) BY <1>3 DEF Shrink
<1> HIDE DEF moved, all, n, T
<1>6. /\ SubSeq(all, 1, n - 1) \in Seq(T) /\ Len(SubSeq(all, 1, n - 1)) = n - 1
      /\ \A p \in 1 .. n - 1 : SubSeq(all, 1, n - 1)[p] = all[p]
  BY <1>1, <1>3, SubSeqProperties
<1>7. moved.idx = i /\ moved.node = entries[n].node BY DEF moved
<1>8. \A p \in 1 .. n - 1 : /\ all[p].idx = p
                            /\ all[p].node = entries[IF p = i THEN n ELSE p].node
  <2>1. ASSUME NEW p \in 1 .. n - 1 PROVE p \in 1 .. n BY <1>1
  <2>2. ASSUME NEW p \in 1 .. n - 1, p = i
        PROVE  all[p].idx = p /\ all[p].node = entries[n].node
    BY <1>1, <1>3, <1>7, <2>1, <2>2
  <2>3. ASSUME NEW p \in 1 .. n - 1, p # i
        PROVE  all[p].idx = p /\ all[p].node = entries[p].node
    BY <1>1, <1>3, <2>1, <2>3
  <2>4. QED BY <2>2, <2>3
<1>9. \A p \in 1 .. n - 1 : /\ Shrink(all)[p].idx = p
                            /\ Shrink(all)[p].node = entries[IF p = i THEN n ELSE p].node
  BY <1>5, <1>6, <1>8
<1>10. SwapOut(i) \in Seq(T) /\ Len(SwapOut(i)) = n - 1 BY <1>4, <1>5, <1>6
<1>11. \A p \in 1 .. n - 1 : /\ SwapOut(i)[p].idx = p
                             /\ SwapOut(i)[p].node = entries[IF p = i THEN n ELSE p].node
  BY <1>4, <1>9
<1>12. QED BY ZenonT(30), <1>10, <1>11 DEF n, T

(* So exactly the node taken out is gone, and no other is there twice. *)
LEMMA SwapOutLeaves ==
  ASSUME ArrayInPlace, NEW i \in 1 .. Len(entries)
  PROVE  /\ \A n : (\E p \in 1 .. Len(SwapOut(i)) : SwapOut(i)[p].node = n)
                     <=> IsEntered(n) /\ n # entries[i].node
         /\ \A p, q \in 1 .. Len(SwapOut(i)) : SwapOut(i)[p].node = SwapOut(i)[q].node => p = q
<1> DEFINE n == Len(entries)
           from(p) == IF p = i THEN n ELSE p
<1>1. n \in Nat /\ i \in 1 .. n
  BY LenProperties DEF ArrayInPlace
<1>2. /\ Len(SwapOut(i)) = n - 1
      /\ \A p \in 1 .. n - 1 : SwapOut(i)[p].node = entries[from(p)].node
  BY SwapOutKeeps
<1>3. \A p, q \in 1 .. n : entries[p].node = entries[q].node => p = q
  BY DEF ArrayInPlace
<1> HIDE DEF n
<1>4. \A p \in 1 .. n - 1 : from(p) \in 1 .. n /\ from(p) # i
  BY <1>1
<1>5. \A p, q \in 1 .. n - 1 : from(p) = from(q) => p = q
  BY <1>1
<1>6. ASSUME NEW q \in 1 .. n, q # i PROVE \E p \in 1 .. n - 1 : from(p) = q
  <2>1. CASE q = n
    <3>1. i \in 1 .. n - 1 /\ from(i) = q BY <1>1, <1>6, <2>1
    <3>2. QED BY <3>1
  <2>2. CASE q # n
    <3>1. q \in 1 .. n - 1 /\ from(q) = q BY <1>1, <1>6, <2>2
    <3>2. QED BY <3>1
  <2>3. QED BY <2>1, <2>2
<1>7. \A p, q \in 1 .. Len(SwapOut(i)) : SwapOut(i)[p].node = SwapOut(i)[q].node => p = q
  BY <1>2, <1>3, <1>4, <1>5
<1>8. ASSUME NEW m, NEW p \in 1 .. Len(SwapOut(i)), SwapOut(i)[p].node = m
      PROVE  IsEntered(m) /\ m # entries[i].node
  <2>1. from(p) \in 1 .. n /\ from(p) # i /\ entries[from(p)].node = m
    BY <1>2, <1>4, <1>8
  <2>2. QED BY <1>1, <1>3, <2>1 DEF IsEntered, n
<1>9. ASSUME NEW m, IsEntered(m), m # entries[i].node
      PROVE  \E p \in 1 .. Len(SwapOut(i)) : SwapOut(i)[p].node = m
  <2>1. PICK q \in 1 .. n : entries[q].node = m BY <1>9 DEF IsEntered, n
  <2>2. PICK p \in 1 .. n - 1 : from(p) = q BY <1>6, <1>9, <2>1
  <2>3. p \in 1 .. Len(SwapOut(i)) /\ SwapOut(i)[p].node = m BY <1>2, <2>1, <2>2
  <2>4. QED BY <2>3
<1>10. QED BY <1>7, <1>8, <1>9

LEMMA YieldAppends ==
  ASSUME results \in Seq(Nodes), \A i, j \in 1 .. Len(results) : results[i] = results[j] => i = j,
         NEW m \in Nodes, ~IsYielded(m), results' = Append(results, m)
  PROVE  /\ results' \in Seq(Nodes)
         /\ \A i, j \in 1 .. Len(results') : results'[i] = results'[j] => i = j
         /\ \A n : IsYielded(n)' <=> IsYielded(n) \/ n = m
<1>1. /\ Len(results) \in Nat /\ Len(results') = Len(results) + 1 /\ results' \in Seq(Nodes)
      /\ \A i \in 1 .. Len(results) : results'[i] = results[i]
      /\ results'[Len(results) + 1] = m
  BY LenProperties, AppendProperties
<1>2. \A i \in 1 .. Len(results) : results[i] # m BY DEF IsYielded
<1>3. \A i \in 1 .. Len(results') : i \in 1 .. Len(results) \/ i = Len(results) + 1
  BY <1>1
<1>4. \A i, j \in 1 .. Len(results') : results'[i] = results'[j] => i = j
  BY <1>1, <1>2, <1>3
<1>5. ASSUME NEW n PROVE IsYielded(n)' <=> IsYielded(n) \/ n = m
  <2>1. ASSUME NEW i \in 1 .. Len(results'), results'[i] = n PROVE IsYielded(n) \/ n = m
    BY <1>1, <1>3, <2>1 DEF IsYielded
  <2>2. ASSUME NEW i \in 1 .. Len(results), results[i] = n
        PROVE  \E k \in 1 .. Len(results') : results'[k] = n
    <3>1. i \in 1 .. Len(results') /\ results'[i] = n BY <1>1, <2>2
    <3>2. QED BY <3>1
  <2>3. n = m => \E k \in 1 .. Len(results') : results'[k] = n
    <3>1. Len(results) + 1 \in 1 .. Len(results') BY <1>1
    <3>2. QED BY <1>1, <3>1
  <2>4. QED BY <2>1, <2>2, <2>3 DEF IsYielded
<1>6. QED BY <1>1, <1>4, <1>5

(* A result is taken out of the race. *)
LEMMA YieldsKeeps ==
  ASSUME DistInv, NEW p \in DOMAIN entries, Yields(p)
  PROVE  DistInv'
<1> DEFINE m == entries[p].node
           rest == SwapOut(p)
<1>1. /\ ArrayInPlace /\ YieldedOnce /\ WorkersDistinct /\ stage \in 1 .. Len(Stages)
      /\ outcome = "running" /\ tried' = tried /\ results' = Append(results, m)
      /\ p \in 1 .. Len(entries) /\ entries[p].idx = p
      /\ Len(Stages) \in Nat /\ Len(entries) \in Nat
  BY StagesTyped, LenProperties DEF DistInv, ArrayInPlace, Yields
<1>2. /\ rest \in Seq([node : Nodes, idx : Nat]) /\ Len(rest) = Len(entries) - 1
      /\ \A q \in 1 .. Len(rest) : rest[q].idx = q
      /\ \A n : (\E q \in 1 .. Len(rest) : rest[q].node = n) <=> IsEntered(n) /\ n # m
      /\ \A q, r \in 1 .. Len(rest) : rest[q].node = rest[r].node => q = r
  BY ZenonT(30), <1>1, SwapOutKeeps, SwapOutLeaves
<1>3. m \in Nodes /\ IsEntered(m) /\ InStage(m, stage) /\ ~IsYielded(m)
  <2>0. entries[p] \in [node : Nodes, idx : Nat] BY <1>1, ElementOfSeq DEF ArrayInPlace
  <2>1. m \in Nodes BY <2>0
  <2>2. IsEntered(m) /\ InStage(m, stage) BY <1>1 DEF IsEntered, ArrayInPlace
  <2>3. QED BY <1>1, <2>1, <2>2 DEF YieldedOnce
<1>4. /\ results' \in Seq(Nodes)
      /\ \A i, j \in 1 .. Len(results') : results'[i] = results'[j] => i = j
      /\ \A n : IsYielded(n)' <=> IsYielded(n) \/ n = m
  <2>1. /\ results \in Seq(Nodes)
        /\ \A i, j \in 1 .. Len(results) : results[i] = results[j] => i = j
    BY <1>1 DEF YieldedOnce
  <2> HIDE DEF m
  <2>2. QED BY <1>1, <1>3, <2>1, YieldAppends
<1>5. /\ \A n \in Nodes : IsYielded(n) => ~IsEntered(n) /\ \E s \in 1 .. stage : InStage(n, s)
      /\ \A n \in Nodes : InStage(n, stage) => IsYielded(n) \/ IsEntered(n)
      /\ \A s \in 1 .. stage - 1, n \in Nodes : InStage(n, s) => IsYielded(n)
  BY <1>1 DEF YieldedOnce
<1>6. WorkersDistinct'
  BY <1>1 DEF WorkersDistinct, TriedBy
<1> HIDE DEF m, rest
<1>7. CASE rest # <<>>
  <2>1. entries' = rest /\ stage' = stage /\ outcome' = outcome
    BY <1>1, <1>7 DEF Yields, rest
  <2>2. \A n : IsEntered(n)' <=> IsEntered(n) /\ n # m
    BY <1>2, <2>1 DEF IsEntered
  <2>3. \A n, s : InStage(n, s)' <=> InStage(n, s) BY DEF InStage
  <2>4. ArrayInPlace'
    <3>1. ASSUME NEW q \in 1 .. Len(rest) PROVE InStage(rest[q].node, stage)
      <4>1. IsEntered(rest[q].node) BY <1>2
      <4>2. QED BY <1>1, <4>1 DEF ArrayInPlace, IsEntered
    <3>2. \A q \in 1 .. Len(rest) : InStage(rest[q].node, stage) BY <3>1
    <3> HIDE DEF InStage
    <3>3. QED BY <1>2, <2>1, <3>2 DEF ArrayInPlace, InStage
  <2>5. YieldedOnce'
    <3>1. \A n \in Nodes : IsYielded(n)' => ~IsEntered(n)' /\ \E s \in 1 .. stage' : InStage(n, s)'
      BY <1>1, <1>3, <1>4, <1>5, <2>1, <2>2, <2>3
    <3>2. \A n \in Nodes : InStage(n, stage') => IsYielded(n)' \/ IsEntered(n)'
      BY <1>4, <1>5, <2>1, <2>2
    <3>3. \A s \in 1 .. stage' - 1, n \in Nodes : InStage(n, s) => IsYielded(n)'
      BY <1>4, <1>5, <2>1
    <3>4. QED BY <1>4, <2>3, <3>1, <3>2, <3>3 DEF YieldedOnce, InStage
  <2>6. QED BY <1>1, <1>6, <2>1, <2>4, <2>5 DEF DistInv
<1>8. CASE rest = <<>> /\ stage < Len(Stages)
  <2>1. entries' = Entries(stage + 1) /\ stage' = stage + 1 /\ outcome' = outcome
    BY <1>1, <1>8 DEF Yields, rest
  <2>0. 1 .. Len(rest) = {}
    <3>1. Len(rest) = 0 BY <1>8, EmptySeq
    <3>2. QED BY <3>1
  <2>2. \A n : IsEntered(n) => n = m
    BY <1>2, <2>0
  <2>3. stage + 1 \in 1 .. Len(Stages) BY <1>1, <1>8
  <2>4. /\ Entries(stage + 1) \in Seq([node : Nodes, idx : Nat])
        /\ Len(Entries(stage + 1)) = Len(Stages[stage + 1])
        /\ \A q \in 1 .. Len(Stages[stage + 1]) : /\ Entries(stage + 1)[q].idx = q
                                                  /\ Entries(stage + 1)[q].node = Stages[stage + 1][q]
        /\ \A q, r \in 1 .. Len(Stages[stage + 1]) :
             Stages[stage + 1][q] = Stages[stage + 1][r] => q = r
    BY <2>3, EntriesStart
  <2>5. ArrayInPlace'
    <3>1. \A q \in 1 .. Len(entries') : InStage(entries'[q].node, stage + 1)
      BY <2>1, <2>4 DEF InStage
    <3>2. \A q, r \in 1 .. Len(entries') : entries'[q].node = entries'[r].node => q = r
      BY <2>1, <2>4
    <3>3. QED BY <2>1, <2>4, <3>1, <3>2 DEF ArrayInPlace, InStage
  <2>6. ASSUME NEW n PROVE IsEntered(n)' <=> InStage(n, stage + 1)
    <3>1. IsEntered(n)' <=> \E q \in 1 .. Len(Stages[stage + 1]) : Stages[stage + 1][q] = n
      BY <2>1, <2>4 DEF IsEntered
    <3>2. QED BY <3>1 DEF InStage
  <2>7. YieldedOnce'
    <3>1. ASSUME NEW n \in Nodes, IsYielded(n)' PROVE \E s \in 1 .. stage : InStage(n, s)
      BY <1>1, <1>3, <1>4, <1>5, <3>1
    <3>2. ASSUME NEW n \in Nodes, IsYielded(n)' PROVE ~IsEntered(n)'
      <4>1. PICK s \in 1 .. stage : InStage(n, s) BY <3>1, <3>2
      <4>2. s \in 1 .. Len(Stages) /\ s # stage + 1 BY <1>1
      <4>3. QED BY <2>3, <2>6, <4>1, <4>2, StagesApart
    <3>3. ASSUME NEW n \in Nodes, IsYielded(n)' PROVE \E s \in 1 .. stage' : InStage(n, s)
      <4>1. PICK s \in 1 .. stage : InStage(n, s) BY <3>1, <3>3
      <4>2. s \in 1 .. stage' BY <1>1, <2>1
      <4>3. QED BY <4>1, <4>2
    <3>4. ASSUME NEW s \in 1 .. stage, NEW n \in Nodes, InStage(n, s) PROVE IsYielded(n)'
      <4>1. s = stage \/ s \in 1 .. stage - 1 BY <1>1
      <4>2. QED BY <1>4, <1>5, <2>2, <3>4, <4>1
    <3>5. stage' - 1 = stage BY <1>1, <2>1
    <3>6. \A n, s : InStage(n, s)' <=> InStage(n, s) BY DEF InStage
    <3>7. \A n \in Nodes : InStage(n, stage') => IsEntered(n)' BY <2>1, <2>6
    <3>8. QED BY <1>4, <3>2, <3>3, <3>4, <3>5, <3>6, <3>7 DEF YieldedOnce, InStage
  <2>8. QED BY <1>1, <1>6, <2>1, <2>3, <2>5, <2>7 DEF DistInv
<1>9. CASE rest = <<>> /\ ~(stage < Len(Stages))
  <2>1. entries' = <<>> /\ stage' = stage /\ outcome' = "done"
    BY <1>1, <1>9 DEF Yields, rest
  <2>0. 1 .. Len(rest) = {}
    <3>1. Len(rest) = 0 BY <1>9, EmptySeq
    <3>2. QED BY <3>1
  <2>2. \A n : IsEntered(n) => n = m
    BY <1>2, <2>0
  <2>3. stage = Len(Stages) BY <1>1, <1>9
  <2>4. Len(entries') = 0 /\ entries' \in Seq([node : Nodes, idx : Nat]) BY <2>1, EmptySeq
  <2>5. \A n : ~IsEntered(n)' BY <2>4 DEF IsEntered
  <2>6. ArrayInPlace' BY <2>4 DEF ArrayInPlace
  <2>7. YieldedOnce'
    <3>1. \A n \in Nodes : IsYielded(n)' => \E s \in 1 .. stage' : InStage(n, s)
      BY <1>1, <1>3, <1>4, <1>5, <2>1
    <3>2. \A n \in Nodes : InStage(n, stage') => IsYielded(n)'
      BY <1>4, <1>5, <2>1, <2>2
    <3>3. \A s \in 1 .. stage' - 1, n \in Nodes : InStage(n, s) => IsYielded(n)'
      BY <1>4, <1>5, <2>1
    <3>4. QED BY <1>4, <2>5, <3>1, <3>2, <3>3 DEF YieldedOnce, InStage
  <2>8. QED BY <1>1, <1>6, <2>1, <2>3, <2>6, <2>7 DEF DistInv
<1>10. QED BY <1>7, <1>8, <1>9

(* A worker not tried before is tried: one more of them. *)
LEMMA ChoosesKeeps ==
  ASSUME DistInv, NEW n \in Nodes, NEW w \in Workers, Chooses(n, w)
  PROVE  DistInv'
<1>1. /\ tried \in [Nodes -> Seq(Workers)] /\ Len(tried[n]) <= retryCap
      /\ w \in Capable[n] /\ w \notin TriedBy(n)
      /\ tried' = [tried EXCEPT ![n] = Append(tried[n], w)]
      /\ stage' = stage /\ entries' = entries /\ results' = results /\ outcome' = outcome
  BY DEF DistInv, WorkersDistinct, Chooses, Eligible
<1>2. tried' \in [Nodes -> Seq(Workers)] /\ tried'[n] = Append(tried[n], w)
      /\ \A k \in Nodes : k # n => tried'[k] = tried[k]
  <2>1. tried[n] \in Seq(Workers) BY <1>1
  <2>2. Append(tried[n], w) \in Seq(Workers) BY <2>1, AppendProperties
  <2>3. QED BY <1>1, <2>2
<1>3. /\ Len(tried'[n]) = Len(tried[n]) + 1 /\ Len(tried[n]) \in Nat
      /\ DOMAIN tried[n] = 1 .. Len(tried[n]) /\ DOMAIN tried'[n] = 1 .. Len(tried'[n])
      /\ \A k \in 1 .. Len(tried[n]) : tried'[n][k] = tried[n][k]
      /\ tried'[n][Len(tried[n]) + 1] = w
  BY <1>1, <1>2, LenProperties, AppendProperties
<1>4. TriedBy(n)' = TriedBy(n) \cup {w}
  <2>1. \A k \in 1 .. Len(tried'[n]) : k \in 1 .. Len(tried[n]) \/ k = Len(tried[n]) + 1
    BY <1>3
  <2>2. TriedBy(n)' \subseteq TriedBy(n) \cup {w}
    BY <1>3, <2>1 DEF TriedBy
  <2>3. \A k \in 1 .. Len(tried[n]) : k \in 1 .. Len(tried'[n]) BY <1>3
  <2>4. Len(tried[n]) + 1 \in 1 .. Len(tried'[n]) BY <1>3
  <2>5. TriedBy(n) \subseteq TriedBy(n)' BY <1>3, <2>3 DEF TriedBy
  <2>6. w \in TriedBy(n)' BY <1>3, <2>4 DEF TriedBy
  <2>7. QED BY <2>2, <2>5, <2>6
<1>5. WorkersDistinct'
  <2>1. ASSUME NEW k \in Nodes
        PROVE  /\ Len(tried'[k]) <= retryCap + 1 /\ TriedBy(k)' \subseteq Capable[k]
               /\ IsFiniteSet(TriedBy(k)') /\ Cardinality(TriedBy(k)') = Len(tried'[k])
    <3>1. CASE k = n
      <4>1. /\ TriedBy(n) \subseteq Capable[n] /\ IsFiniteSet(TriedBy(n))
            /\ Cardinality(TriedBy(n)) = Len(tried[n])
        BY DEF DistInv, WorkersDistinct
      <4>2. IsFiniteSet(TriedBy(n) \cup {w})
            /\ Cardinality(TriedBy(n) \cup {w}) = Cardinality(TriedBy(n)) + 1
        BY <1>1, <4>1, FS_AddElement
      <4>3. Len(tried[n]) + 1 <= retryCap + 1 BY <1>1, <1>3, DistributorAssumption
      <4>4. QED BY <1>1, <1>3, <1>4, <3>1, <4>1, <4>2, <4>3
    <3>2. CASE k # n
      <4>1. tried'[k] = tried[k] BY <1>2, <3>2
      <4>2. TriedBy(k)' = TriedBy(k) BY <4>1 DEF TriedBy
      <4>3. QED BY <4>1, <4>2 DEF DistInv, WorkersDistinct
    <3>3. QED BY <3>1, <3>2
  <2>2. QED BY <1>2, <2>1 DEF WorkersDistinct
<1>6. ArrayInPlace' BY <1>1 DEF DistInv, ArrayInPlace, InStage
<1>7. YieldedOnce'
  <2>1. \A m : (IsYielded(m)' <=> IsYielded(m)) /\ (IsEntered(m)' <=> IsEntered(m))
    BY <1>1 DEF IsYielded, IsEntered
  <2>2. \A m, s : InStage(m, s)' <=> InStage(m, s) BY DEF InStage
  <2>3. YieldedOnce BY DEF DistInv
  <2>4. QED BY <1>1, <2>1, <2>2, <2>3 DEF YieldedOnce
<1>8. QED BY <1>1, <1>5, <1>6, <1>7 DEF DistInv

LEMMA DistInvStep == DistInv /\ [DistNext]_distVars => DistInv'
<1> SUFFICES ASSUME DistInv, [DistNext]_distVars PROVE DistInv'
  OBVIOUS
<1> DEFINE Same == /\ stage' = stage /\ entries' = entries /\ results' = results
                   /\ tried' = tried /\ outcome' \in {outcome, "failed"}
<1>1. Same => DistInv'
  <2> SUFFICES ASSUME Same PROVE DistInv' OBVIOUS
  <2>1. ArrayInPlace' BY DEF DistInv, ArrayInPlace, InStage
  <2>2. YieldedOnce' BY DEF DistInv, YieldedOnce, InStage, IsYielded, IsEntered
  <2>3. WorkersDistinct' BY DEF DistInv, WorkersDistinct, TriedBy
  <2>4. QED BY <2>1, <2>2, <2>3 DEF DistInv
<1>2. ASSUME NEW n \in Nodes, GivesUp(n) PROVE DistInv' BY <1>1, <1>2 DEF GivesUp
<1>3. ASSUME NEW n \in Nodes, NEW w \in Workers, Chooses(n, w) PROVE DistInv'
  BY <1>3, ChoosesKeeps
<1>4. ASSUME NEW n \in Nodes, NEW ok \in BOOLEAN, Runs(n, ok) PROVE DistInv'
  BY <1>1, <1>4 DEF Runs
<1>5. ASSUME NEW p \in DOMAIN entries, Yields(p) PROVE DistInv' BY <1>5, YieldsKeeps
<1>6. ASSUME NEW p \in DOMAIN entries, Throws(p) PROVE DistInv' BY <1>1, <1>6 DEF Throws
<1>7. CASE UNCHANGED distVars BY <1>1, <1>7 DEF distVars
<1>8. QED BY <1>2, <1>3, <1>4, <1>5, <1>6, <1>7 DEF DistNext

LEMMA DistInvSuffices == DistInv => ResultsOnce
<1> SUFFICES ASSUME DistInv PROVE ResultsOnce
  OBVIOUS
<1>1. /\ DOMAIN entries = 1 .. Len(entries) /\ DOMAIN results = 1 .. Len(results)
      /\ DOMAIN Stages = 1 .. Len(Stages) /\ stage \in 1 .. Len(Stages) /\ Len(Stages) \in Nat
      /\ ArrayInPlace /\ YieldedOnce /\ WorkersDistinct
  BY StagesTyped, LenProperties DEF DistInv, ArrayInPlace, YieldedOnce
<1>2. \A p \in DOMAIN entries : entries[p].idx = p BY <1>1 DEF ArrayInPlace
<1>3. \A i, j \in DOMAIN results : results[i] = results[j] => i = j BY <1>1 DEF YieldedOnce
<1>4. ASSUME NEW i \in DOMAIN results, NEW p \in DOMAIN entries
      PROVE  entries[p].node # results[i]
  <2>1. results[i] \in Nodes /\ IsYielded(results[i])
    BY <1>1, ElementOfSeq DEF YieldedOnce, IsYielded
  <2>2. ~IsEntered(results[i]) BY <1>1, <2>1 DEF YieldedOnce
  <2>3. QED BY <1>1, <2>2 DEF IsEntered
<1>5. ASSUME NEW s \in DOMAIN Stages, NEW k \in DOMAIN Stages[s], s < stage \/ outcome = "done"
      PROVE  \E i \in DOMAIN results : results[i] = Stages[s][k]
  <2>1. Stages[s][k] \in Nodes /\ InStage(Stages[s][k], s)
    BY <1>1, StagesTyped DEF InStage
  <2>2. CASE s < stage
    <3>1. s \in 1 .. stage - 1 BY <1>1, <2>2
    <3>2. IsYielded(Stages[s][k]) BY <1>1, <2>1, <3>1 DEF YieldedOnce
    <3>3. QED BY <1>1, <3>2 DEF IsYielded
  <2>3. CASE ~(s < stage)
    <3>1. outcome = "done" => entries = <<>> /\ stage = Len(Stages) BY DEF DistInv
    <3>2. entries = <<>> /\ stage = Len(Stages) BY <1>5, <2>3, <3>1
    <3>3. s \in 1 .. Len(Stages) BY <1>1
    <3>4. s = stage BY <1>1, <2>3, <3>2, <3>3
    <3>5. ~IsEntered(Stages[s][k]) BY <3>2, EmptySeq DEF IsEntered
    <3>6. IsYielded(Stages[s][k]) BY <1>1, <2>1, <3>4, <3>5 DEF YieldedOnce
    <3>7. QED BY <1>1, <3>6 DEF IsYielded
  <2>4. QED BY <2>2, <2>3
<1>6. \A n \in Nodes : /\ Len(tried[n]) <= retryCap + 1
                       /\ TriedBy(n) \subseteq Capable[n]
                       /\ Cardinality(TriedBy(n)) = Len(tried[n])
  BY <1>1 DEF WorkersDistinct
<1>7. QED BY <1>2, <1>3, <1>4, <1>5, <1>6 DEF ResultsOnce

(* Whatever the stages, the pool and the order in which workers settle, a  *)
(* run of distribute() yields the result of every node it has passed       *)
(* exactly once (distributor.ts:88-104).                                   *)
THEOREM ResultsComeOnce == DistSpec => []ResultsOnce
<1>1. DistInit => DistInv BY DistInitHolds
<1>2. DistInv /\ [DistNext]_distVars => DistInv' BY DistInvStep
<1>3. DistInv => ResultsOnce BY DistInvSuffices
<1>4. QED BY <1>1, <1>2, <1>3, PTL DEF DistSpec

-----------------------------------------------------------------------------
(* The Python client (workers/agents/sdk/python/aigency_sdk/client.py).    *)
(* Before an attempt is settled each retry stands for one 5xx; after, there *)
(* is one answer more, and it says why the loop was left.                  *)

Asking == {"request", "sleep"}
Settled == {"read", "yield"} \cup Outcome

AttemptsInv ==
  /\ answers \in Seq(AttemptOutcome)
  /\ retries \in 0 .. max_retries
  /\ clientAt \in {"idle"} \cup Asking \cup Settled
  /\ (call = "none") = (clientAt = "idle")
  /\ clientAt = "idle" => Len(answers) = 0 /\ retries = 0
  /\ call = "quota" => retries = 0 /\ clientAt # "sleep"
  /\ clientAt \in Asking =>
       Len(answers) = retries /\ \A k \in 1 .. Len(answers) : answers[k] = "5xx"
  /\ clientAt \in Settled =>
       /\ Len(answers) = retries + 1
       /\ \A k \in 1 .. retries : answers[k] = "5xx"
       /\ clientAt # "raised" => answers[retries + 1] = "200"
       /\ answers[retries + 1] = "5xx" /\ call # "quota" => retries = max_retries
  /\ waited \in Nat /\ waited + 1 = 2 ^ retries

(* What was yielded is the first lines of the body, all of them data lines; *)
(* there is no body before the stream starts.                              *)
YieldedInv ==
  /\ reply \in Seq(Line)
  /\ yielded \in Seq(Nat) /\ Len(yielded) <= Len(reply)
  /\ \A k \in 1 .. Len(yielded) : yielded[k] = k /\ reply[k] = "chunk"
  /\ clientAt = "yield" => line = Len(yielded)
  /\ clientAt \notin {"yield"} \cup Outcome => reply = <<>> /\ line = 0
  /\ clientAt = "returned" =>
       Len(yielded) = Len(reply) \/ reply[Len(yielded) + 1] \in {"done", "other"}

ClientInv == AttemptsInv /\ YieldedInv

(* The powers of two, from the sizes of power sets. *)
LEMMA PowerDoubles ==
  ASSUME NEW n \in Nat
  PROVE  2 ^ n \in Nat /\ 2 ^ (n + 1) = 2 * (2 ^ n)
<1> DEFINE S == 1 .. n
           T == 1 .. n + 1
           With == {A \cup {n + 1} : A \in SUBSET S}
<1>1. /\ IsFiniteSet(SUBSET S) /\ Cardinality(SUBSET S) = 2 ^ n
      /\ IsFiniteSet(SUBSET T) /\ Cardinality(SUBSET T) = 2 ^ (n + 1)
  <2>1. IsFiniteSet(S) /\ Cardinality(S) = n /\ IsFiniteSet(T) /\ Cardinality(T) = n + 1
    BY FS_Interval
  <2>2. QED BY <2>1, FS_SUBSET
<1>2. Cardinality(SUBSET S) \in Nat BY <1>1, FS_CardinalityType
<1>3. n + 1 \notin S /\ T = S \cup {n + 1} OBVIOUS
<1> HIDE DEF S, T
<1>4. SUBSET T = (SUBSET S) \cup With
  <2>1. ASSUME NEW B \in SUBSET T PROVE B \in (SUBSET S) \cup With
    <3>1. B \ {n + 1} \in SUBSET S BY <1>3
    <3>2. n + 1 \in B => B = (B \ {n + 1}) \cup {n + 1} OBVIOUS
    <3>3. n + 1 \notin B => B = B \ {n + 1} OBVIOUS
    <3>4. QED BY <3>1, <3>2, <3>3
  <2>2. (SUBSET S) \cup With \subseteq SUBSET T BY <1>3
  <2>3. QED BY <2>1, <2>2
<1>5. (SUBSET S) \cap With = {} BY <1>3
<1>6. IsFiniteSet(With) /\ Cardinality(With) = Cardinality(SUBSET S)
  <2> DEFINE f == [A \in SUBSET S |-> A \cup {n + 1}]
  <2>1. f \in Bijection(SUBSET S, With)
    <3>1. f \in Surjection(SUBSET S, With)
      BY DEF Surjection
    <3>2. f \in Injection(SUBSET S, With)
      <4>1. f \in [SUBSET S -> With] OBVIOUS
      <4>2. ASSUME NEW A \in SUBSET S, NEW B \in SUBSET S, f[A] = f[B] PROVE A = B
        <5>1. A = f[A] \ {n + 1} /\ B = f[B] \ {n + 1} BY <1>3
        <5>2. QED BY <4>2, <5>1
      <4> HIDE DEF f, With
      <4>3. QED BY <4>1, <4>2 DEF Injection, IsInjective
    <3>3. QED BY <3>1, <3>2 DEF Bijection
  <2>2. ExistsBijection(SUBSET S, With) BY <2>1 DEF ExistsBijection
  <2>3. QED BY <1>1, <2>2, FS_Bijection
<1>7. Cardinality(SUBSET T) = Cardinality(SUBSET S) + Cardinality(With) - 0
  <2>1. Cardinality((SUBSET S) \cap With) = 0 BY <1>5, FS_EmptySet
  <2> DEFINE P == SUBSET S
  <2>2. IsFiniteSet(P) /\ IsFiniteSet(With) BY <1>1, <1>6
  <2> HIDE DEF P, With
  <2>3. Cardinality(P \cup With) = Cardinality(P) + Cardinality(With) - Cardinality(P \cap With)
    BY <2>2, FS_Union
  <2>4. QED BY <1>4, <2>1, <2>3 DEF P
<1>8. QED BY <1>1, <1>2, <1>6, <1>7

LEMMA AnswersInit == ClientInit => ClientInv
<1> SUFFICES ASSUME ClientInit PROVE ClientInv
  OBVIOUS
<1>1. /\ answers = <<>> /\ reply = <<>> /\ yielded = <<>> /\ retries = 0 /\ waited = 0
      /\ line = 0 /\ clientAt = "idle" /\ call = "none"
  BY DEF ClientInit
<1>2. 2 ^ 0 = 1 /\ max_retries \in Nat BY ClientAssumption
<1>3. /\ answers \in Seq(AttemptOutcome) /\ reply \in Seq(Line) /\ yielded \in Seq(Nat)
      /\ Len(answers) = 0 /\ Len(reply) = 0 /\ Len(yielded) = 0
  BY <1>1, EmptySeq
<1>4. AttemptsInv
  BY <1>1, <1>2, <1>3 DEF AttemptsInv, Asking, Settled, Outcome
<1>5. YieldedInv
  BY <1>1, <1>3 DEF YieldedInv, Outcome
<1>6. QED BY <1>4, <1>5 DEF ClientInv

LEMMA RequestKeepsAttempts ==
  ASSUME ClientInv, NEW o \in AttemptOutcome, _request(o)
  PROVE  AttemptsInv'
<1>1. /\ answers \in Seq(AttemptOutcome) /\ clientAt = "request" /\ call' = call
      /\ answers' = Append(answers, o) /\ Len(answers) = retries /\ call # "none"
      /\ retries \in 0 .. max_retries /\ max_retries \in Nat
      /\ \A k \in 1 .. retries : answers[k] = "5xx"
      /\ call = "quota" => retries = 0
      /\ waited \in Nat /\ waited + 1 = 2 ^ retries
  BY ClientAssumption DEF ClientInv, AttemptsInv, Asking, _request
<1>2. /\ answers' \in Seq(AttemptOutcome) /\ Len(answers') = retries + 1
      /\ \A k \in 1 .. retries : answers'[k] = "5xx"
      /\ answers'[retries + 1] = o
  BY <1>1, AppendProperties
<1>3. CASE Retries(o)
  <2>1. /\ retries' = retries + 1 /\ waited' = waited + 2 ^ retries /\ clientAt' = "sleep"
        /\ o = "5xx" /\ call # "quota" /\ retries < max_retries
    BY <1>3 DEF _request, Retries
  <2>2. 2 ^ retries \in Nat /\ 2 ^ (retries + 1) = 2 * (2 ^ retries) BY <1>1, PowerDoubles
  <2>3. waited' \in Nat /\ waited' + 1 = 2 ^ retries' BY <1>1, <2>1, <2>2
  <2>4. \A k \in 1 .. retries + 1 : answers'[k] = "5xx"
    <3>1. \A k \in 1 .. retries + 1 : k \in 1 .. retries \/ k = retries + 1 BY <1>1
    <3>2. QED BY <1>2, <2>1, <3>1
  <2>5. retries' \in 0 .. max_retries BY <1>1, <2>1
  <2>6. QED
    BY <1>1, <1>2, <2>1, <2>3, <2>4, <2>5 DEF AttemptsInv, Asking, Settled, Outcome
<1>4. CASE ~Retries(o)
  <2>1. /\ retries' = retries /\ waited' = waited
        /\ clientAt' = IF o = "200" THEN "read" ELSE "raised"
    BY <1>4 DEF _request
  <2>2. o = "5xx" /\ call # "quota" => retries = max_retries
    BY <1>1, <1>4 DEF Retries
  <2>3. QED
    BY <1>1, <1>2, <2>1, <2>2 DEF AttemptsInv, Asking, Settled, Outcome
<1>5. QED BY <1>3, <1>4

(* The steps that ask for nothing. *)
LEMMA OthersKeepAttempts ==
  ASSUME ClientInv,
         UNCHANGED <<answers, retries, waited>>,
         \/ clientAt = "idle" /\ clientAt' = "request" /\ call' \in Calls
         \/ clientAt = "sleep" /\ clientAt' = "request" /\ call' = call
         \/ /\ clientAt \in {"read", "yield"}
            /\ clientAt' \in {"yield", "returned", "raised"} /\ call' = call
         \/ clientAt' = clientAt /\ call' = call
  PROVE  AttemptsInv'
<1>1. CASE clientAt = "idle" /\ clientAt' = "request" /\ call' \in Calls
  BY <1>1 DEF ClientInv, AttemptsInv, Asking, Settled, Outcome, Calls
<1>2. CASE clientAt = "sleep" /\ clientAt' = "request" /\ call' = call
  BY <1>2 DEF ClientInv, AttemptsInv, Asking, Settled, Outcome
<1>3. CASE /\ clientAt \in {"read", "yield"}
           /\ clientAt' \in {"yield", "returned", "raised"} /\ call' = call
  BY <1>3 DEF ClientInv, AttemptsInv, Asking, Settled, Outcome
<1>4. CASE clientAt' = clientAt /\ call' = call
  BY <1>4 DEF ClientInv, AttemptsInv
<1>5. QED BY <1>1, <1>2, <1>3, <1>4

(* The body is there once it was read, and stays. *)
LEMMA StreamStarts ==
  ASSUME ClientInv, NEW lines \in Lines, _handle_stream(lines)
  PROVE  YieldedInv'
<1>1. lines \in Seq(Line)
  <2>1. PICK n \in 0 .. MaxLines : lines \in [1 .. n -> Line] BY DEF Lines
  <2>2. n \in Nat BY <2>1, ClientAssumption
  <2>3. QED BY <2>1, <2>2, SeqDef
<1>2. /\ reply' = lines /\ clientAt' = "yield" /\ line' = line /\ yielded' = yielded
      /\ clientAt = "read"
  BY DEF _handle_stream
<1>3. reply = <<>> /\ line = 0 /\ yielded \in Seq(Nat) /\ Len(yielded) <= Len(reply)
  BY <1>2 DEF ClientInv, YieldedInv, Outcome
<1>4. Len(yielded) = 0 BY <1>3, EmptySeq, LenProperties
<1>5. Len(lines) \in Nat BY <1>1, LenProperties
<1>6. QED BY <1>1, <1>2, <1>3, <1>4, <1>5 DEF YieldedInv, Outcome

LEMMA NextKeepsYielded ==
  ASSUME ClientInv, _parse_sse_stream
  PROVE  YieldedInv'
<1> DEFINE n == Len(reply)
           parsed == IF line < n THEN _parse_sse(reply[line + 1]) ELSE Absent
<1>1. /\ reply \in Seq(Line) /\ n \in Nat /\ yielded \in Seq(Nat) /\ line = Len(yielded)
      /\ line \in Nat /\ line <= n /\ reply' = reply
      /\ \A k \in 1 .. line : yielded[k] = k /\ reply[k] = "chunk"
      /\ clientAt = "yield"
  BY LenProperties DEF ClientInv, YieldedInv, _parse_sse_stream
<1>2. /\ line' = IF line < n THEN line + 1 ELSE line
      /\ yielded' = IF parsed = "chunk" THEN Append(yielded, line + 1) ELSE yielded
      /\ clientAt' = CASE parsed = Absent -> "returned"
                       [] parsed = "malformed" -> "raised"
                       [] OTHER -> "yield"
  BY DEF _parse_sse_stream
<1>3. line < n => reply[line + 1] \in Line
  BY <1>1, ElementOfSeq
<1>4. CASE line < n /\ reply[line + 1] = "chunk"
  <2>1. parsed = "chunk" BY <1>4 DEF _parse_sse
  <2>2. line' = line + 1 /\ yielded' = Append(yielded, line + 1) /\ clientAt' = "yield"
    BY <1>2, <1>4, <2>1 DEF Absent
  <2>3. /\ yielded' \in Seq(Nat) /\ Len(yielded') = line + 1
        /\ \A k \in 1 .. line : yielded'[k] = yielded[k]
        /\ yielded'[line + 1] = line + 1
    BY <1>1, <2>2, AppendProperties
  <2>4. \A k \in 1 .. line + 1 : k \in 1 .. line \/ k = line + 1 BY <1>1
  <2>5. \A k \in 1 .. line + 1 : yielded'[k] = k /\ reply[k] = "chunk"
    BY <1>1, <1>4, <2>3, <2>4
  <2>6. QED BY <1>1, <1>4, <2>2, <2>3, <2>5 DEF YieldedInv, Outcome
<1>5. CASE line < n /\ reply[line + 1] # "chunk"
  <2>1. /\ reply[line + 1] = "malformed" => parsed = "malformed"
        /\ reply[line + 1] # "malformed" => parsed = Absent /\ reply[line + 1] \in {"done", "other"}
    BY <1>3, <1>5 DEF _parse_sse, Line
  <2>2. /\ yielded' = yielded /\ clientAt' \in {"returned", "raised"}
        /\ clientAt' = "returned" => reply[line + 1] \in {"done", "other"}
    BY <1>2, <2>1 DEF Absent
  <2>3. QED BY <1>1, <2>2 DEF YieldedInv, Outcome
<1>6. CASE ~(line < n)
  <2>1. parsed = Absent /\ line = n BY <1>1, <1>6
  <2>2. yielded' = yielded /\ clientAt' = "returned"
    BY <1>2, <2>1 DEF Absent
  <2>3. QED BY <1>1, <2>1, <2>2 DEF YieldedInv, Outcome
<1>7. QED BY <1>4, <1>5, <1>6

(* The steps that leave the body alone; before it came nothing is yielded. *)
LEMMA OthersKeepYielded ==
  ASSUME ClientInv,
         UNCHANGED <<reply, line, yielded>>,
         \/ clientAt' = clientAt
         \/ /\ clientAt \in {"idle", "request", "sleep", "read"}
            /\ clientAt' \in {"request", "sleep", "read"} \cup Outcome
  PROVE  YieldedInv'
<1>1. CASE clientAt' = clientAt
  BY <1>1 DEF ClientInv, YieldedInv
<1>2. CASE /\ clientAt \in {"idle", "request", "sleep", "read"}
           /\ clientAt' \in {"request", "sleep", "read"} \cup Outcome
  <2>1. reply = <<>> /\ line = 0 /\ yielded \in Seq(Nat) /\ Len(yielded) <= Len(reply)
    BY <1>2 DEF ClientInv, YieldedInv, Outcome
  <2>2. Len(yielded) = 0 /\ Len(reply) = 0 BY <2>1, EmptySeq, LenProperties
  <2>3. reply \in Seq(Line) BY DEF ClientInv, YieldedInv
  <2>4. QED BY <1>2, <2>1, <2>2, <2>3 DEF YieldedInv, Outcome
<1>3. QED BY <1>1, <1>2

LEMMA ClientInvStep == ClientInv /\ [ClientNext]_clientVars => ClientInv'
<1> SUFFICES ASSUME ClientInv, [ClientNext]_clientVars PROVE ClientInv'
  OBVIOUS
<1>1. ASSUME NEW kind \in Calls, CallsClient(kind) PROVE ClientInv'
  BY <1>1, OthersKeepAttempts, OthersKeepYielded DEF CallsClient, ClientInv
<1>2. get_quota_status => ClientInv'
  BY <1>1 DEF get_quota_status, Calls
<1>3. ASSUME NEW o \in AttemptOutcome, _request(o) PROVE ClientInv'
  <2>1. UNCHANGED <<reply, line, yielded>> /\ clientAt = "request"
        /\ clientAt' \in {"sleep", "read", "raised"}
    BY <1>3 DEF _request
  <2>2. YieldedInv' BY <2>1, OthersKeepYielded DEF Outcome
  <2>3. QED BY <1>3, <2>2, RequestKeepsAttempts DEF ClientInv
<1>4. Wakes => ClientInv'
  BY OthersKeepAttempts, OthersKeepYielded DEF Wakes, ClientInv
<1>5. ASSUME NEW data \in Dicts, _handle_non_stream(data) PROVE ClientInv'
  BY <1>5, OthersKeepAttempts, OthersKeepYielded DEF _handle_non_stream, ClientInv, Outcome
<1>6. ReadRaises => ClientInv'
  BY OthersKeepAttempts, OthersKeepYielded DEF ReadRaises, ClientInv, Outcome
<1>7. ASSUME NEW lines \in Lines, _handle_stream(lines) PROVE ClientInv'
  BY <1>7, OthersKeepAttempts, StreamStarts DEF _handle_stream, ClientInv
<1>8. _parse_sse_stream => ClientInv'
  <2> SUFFICES ASSUME _parse_sse_stream PROVE ClientInv' OBVIOUS
  <2>1. /\ clientAt = "yield" /\ clientAt' \in {"yield", "returned", "raised"}
        /\ UNCHANGED <<answers, retries, waited, call>>
    BY DEF _parse_sse_stream
  <2>2. AttemptsInv' BY <2>1, OthersKeepAttempts
  <2>3. QED BY <2>2, NextKeepsYielded DEF ClientInv
<1>9. CASE UNCHANGED clientVars
  BY <1>9, OthersKeepAttempts, OthersKeepYielded DEF clientVars, ClientInv
<1>10. QED
  BY <1>1, <1>2, <1>3, <1>4, <1>5, <1>6, <1>7, <1>8, <1>9 DEF ClientNext, Calls

LEMMA ClientInvSuffices == ClientInv => RetriesAreJustified /\ StreamIsPrefix
<1> SUFFICES ASSUME ClientInv PROVE RetriesAreJustified /\ StreamIsPrefix
  OBVIOUS
<1>1. RetriesAreJustified
  <2>1. /\ Len(answers) \in Nat /\ max_retries \in Nat /\ retries \in 0 .. max_retries
        /\ waited \in Nat /\ waited + 1 = 2 ^ retries
    BY ClientAssumption, LenProperties DEF ClientInv, AttemptsInv
  <2>2. 2 ^ retries \in Nat BY <2>1, PowerDoubles
  <2>3. waited = 2 ^ retries - 1 BY <2>1, <2>2
  <2>4. CASE clientAt = "idle"
    BY <2>1, <2>3, <2>4 DEF ClientInv, AttemptsInv, RetriesAreJustified, Outcome
  <2>5. CASE clientAt \in Asking
    BY <2>1, <2>3, <2>5 DEF ClientInv, AttemptsInv, RetriesAreJustified, Outcome, Asking
  <2>6. CASE clientAt \in Settled
    <3>1. /\ Len(answers) = retries + 1
          /\ \A k \in 1 .. retries : answers[k] = "5xx"
          /\ clientAt # "raised" => answers[Len(answers)] = "200"
          /\ answers[Len(answers)] = "5xx" /\ call # "quota" => retries = max_retries
          /\ call = "quota" => retries = 0
      BY <2>6 DEF ClientInv, AttemptsInv
    <3>2. QED BY <2>1, <2>3, <3>1 DEF RetriesAreJustified
  <2>7. QED BY <2>4, <2>5, <2>6 DEF ClientInv, AttemptsInv
<1>2. StreamIsPrefix
  <2>1. /\ yielded \in Seq(Nat) /\ reply \in Seq(Line) /\ Len(yielded) \in Nat /\ Len(reply) \in Nat
        /\ yielded \in [1 .. Len(yielded) -> Nat]
        /\ \A k \in 1 .. Len(yielded) : yielded[k] = k /\ reply[k] = "chunk"
        /\ clientAt = "returned" =>
             Len(yielded) = Len(reply) \/ reply[Len(yielded) + 1] \in {"done", "other"}
    BY LenProperties DEF ClientInv, YieldedInv
  <2>2. yielded = [k \in 1 .. Len(yielded) |-> k] BY <2>1
  <2>3. QED BY <2>1, <2>2 DEF StreamIsPrefix
<1>3. QED BY <1>1, <1>2

(* For any number of retries and any answers, the client asks again only   *)
(* after a 5xx, gives up on one only when the retries are used up, and     *)
(* waits twice as long each time (client.py:126-143).                      *)
THEOREM OnlyFailuresAreRetried == ClientSpec => []RetriesAreJustified
<1>1. ClientInit => ClientInv BY AnswersInit
<1>2. ClientInv /\ [ClientNext]_clientVars => ClientInv' BY ClientInvStep
<1>3. ClientInv => RetriesAreJustified BY ClientInvSuffices
<1>4. QED BY <1>1, <1>2, <1>3, PTL DEF ClientSpec

(* For a body of any lines, the chunks yielded are its first data lines,   *)
(* each once and in order (client.py:45-67).                               *)
THEOREM ChunksAreAPrefix == ClientSpec => []StreamIsPrefix
<1>1. ClientInit => ClientInv BY AnswersInit
<1>2. ClientInv /\ [ClientNext]_clientVars => ClientInv' BY ClientInvStep
<1>3. ClientInv => StreamIsPrefix BY ClientInvSuffices
<1>4. QED BY <1>1, <1>2, <1>3, PTL DEF ClientSpec

-----------------------------------------------------------------------------
(* The rate limiter (workers/gateway/src/rate-limiter.ts): the buckets are *)
(* those of the keys in order, each once, and what a bucket has granted    *)
(* and still holds never exceeds what it was made with and what accrued.   *)

KeysOf(seq) == {seq[i] : i \in 1 .. Len(seq)}
IsApart(seq) == \A i, j \in 1 .. Len(seq) : seq[i] = seq[j] => i = j

BucketInv(k) ==
  /\ buckets[k] \in [tokens : Nat, lastRefillMs : Nat]
  /\ buckets[k].tokens <= Full
  /\ madeAt[k] <= buckets[k].lastRefillMs
  /\ granted[k] * Token + buckets[k].tokens
       <= Full + (buckets[k].lastRefillMs - madeAt[k]) * capacity

OrderInv ==
  /\ order \in Seq(Keys) /\ Len(order) <= maxKeys /\ IsApart(order)
  /\ DOMAIN buckets = KeysOf(order)

LimiterInv ==
  /\ OrderInv
  /\ now \in Nat /\ granted \in [Keys -> Nat] /\ madeAt \in [Keys -> Nat]
  /\ \A k \in DOMAIN buckets : BucketInv(k)

LEMMA LimiterTyped ==
  capacity \in Nat \ {0} /\ Token \in Nat \ {0} /\ maxKeys \in Nat \ {0} /\ Full \in Nat /\ Token <= Full
<1>1. capacity \in Nat \ {0} /\ windowMs \in Nat \ {0} /\ maxKeys \in Nat \ {0}
  BY LimiterAssumption
<1>2. capacity * windowMs \in Nat /\ windowMs <= capacity * windowMs BY <1>1
<1>3. QED BY <1>1, <1>2 DEF Full, Token

LEMMA LimiterInitHolds == LimiterInit => LimiterInv
<1> SUFFICES ASSUME LimiterInit PROVE LimiterInv
  OBVIOUS
<1>1. Len(order) = 0 /\ order \in Seq(Keys) /\ DOMAIN buckets = {} /\ now = 0
      /\ granted \in [Keys -> Nat] /\ madeAt \in [Keys -> Nat]
  BY EmptySeq DEF LimiterInit
<1>2. KeysOf(order) = {} /\ IsApart(order) BY <1>1 DEF KeysOf, IsApart
<1>3. QED BY <1>1, <1>2, LimiterTyped DEF LimiterInv, OrderInv

(* Refilling adds at most what accrued since the last refill. *)
LEMMA RefillAccrues ==
  ASSUME NEW b \in [tokens : Nat, lastRefillMs : Nat], b.tokens <= Full, now \in Nat
  PROVE  /\ refill(b) \in [tokens : Nat, lastRefillMs : Nat]
         /\ refill(b).tokens <= Full
         /\ b.lastRefillMs <= refill(b).lastRefillMs
         /\ refill(b).tokens <= b.tokens + (refill(b).lastRefillMs - b.lastRefillMs) * capacity
<1>1. Full \in Nat /\ capacity \in Nat /\ b.tokens \in Nat /\ b.lastRefillMs \in Nat
  BY LimiterTyped
<1>2. CASE now <= b.lastRefillMs
  <2>1. refill(b) = b BY <1>2 DEF refill
  <2>2. QED BY <1>1, <2>1
<1>3. CASE ~(now <= b.lastRefillMs)
  <2> DEFINE gain == (now - b.lastRefillMs) * capacity
             t == Smaller(Full, b.tokens + gain)
  <2>1. refill(b) = [tokens |-> t, lastRefillMs |-> now]
    BY <1>3 DEF refill
  <2>2. now - b.lastRefillMs \in Nat BY <1>1, <1>3
  <2>3. gain \in Nat BY <1>1, <2>2
  <2>4. refill(b).lastRefillMs = now /\ refill(b).tokens = t BY <2>1
  <2> HIDE DEF gain
  <2>5. t \in Nat /\ t <= Full /\ t <= b.tokens + gain BY <1>1, <2>3 DEF Smaller
  <2>6. QED BY <1>1, <1>3, <2>1, <2>4, <2>5 DEF gain
<1>4. QED BY <1>2, <1>3

(* The place of a key that has one. *)
LEMMA KeyHasPlace ==
  ASSUME OrderInv, NEW key \in DOMAIN buckets
  PROVE  Place(key) \in 1 .. Len(order) /\ order[Place(key)] = key
<1>1. DOMAIN order = 1 .. Len(order) BY LenProperties DEF OrderInv
<1>2. \E i \in DOMAIN order : order[i] = key BY <1>1 DEF OrderInv, KeysOf
<1>3. QED BY <1>1, <1>2 DEF Place

LEMMA DeleteLeaves ==
  ASSUME OrderInv, NEW key \in DOMAIN buckets,
         NEW seq, seq = SubSeq(order, 1, Place(key) - 1) \o SubSeq(order, Place(key) + 1, Len(order))
  PROVE  seq \in Seq(Keys) /\ Len(seq) = Len(order) - 1 /\ IsApart(seq)
         /\ KeysOf(seq) = KeysOf(order) \ {key}
<1> DEFINE n == Len(order)
           p == Place(key)
           front == SubSeq(order, 1, p - 1)
           back == SubSeq(order, p + 1, n)
           from(i) == IF i < p THEN i ELSE i + 1
<1>1. /\ n \in Nat /\ p \in 1 .. n /\ order[p] = key /\ order \in Seq(Keys)
      /\ \A i, j \in 1 .. n : order[i] = order[j] => i = j
      /\ \A i \in 1 .. n : order[i] \in Keys
  BY KeyHasPlace, LenProperties, ElementOfSeq DEF OrderInv, IsApart
<1> HIDE DEF n, p
<1>2. /\ front \in Seq(Keys) /\ Len(front) = p - 1
      /\ \A i \in 1 .. p - 1 : front[i] = order[i]
  BY <1>1, SubSeqProperties
<1>3. /\ back \in Seq(Keys) /\ Len(back) = n - p
      /\ \A i \in 1 .. n - p : back[i] = order[p + i]
  <2>1. \A i \in p + 1 .. n : order[i] \in Keys BY <1>1
  <2>2. /\ back \in Seq(Keys) /\ Len(back) = IF p + 1 <= n THEN n - (p + 1) + 1 ELSE 0
        /\ \A i \in 1 .. n - (p + 1) + 1 : back[i] = order[p + 1 + i - 1]
    BY <1>1, <2>1, SubSeqProperties
  <2>3. \A i \in 1 .. n - p : i \in 1 .. n - (p + 1) + 1 /\ p + 1 + i - 1 = p + i BY <1>1
  <2>4. QED BY <1>1, <2>2, <2>3
<1>4. seq = front \o back BY DEF n, p
<1> HIDE DEF front, back
<1>5. /\ seq \in Seq(Keys) /\ Len(seq) = n - 1
      /\ \A i \in 1 .. n - 1 : seq[i] = IF i <= p - 1 THEN front[i] ELSE back[i - (p - 1)]
  <2>1. /\ front \o back \in Seq(Keys) /\ Len(front \o back) = Len(front) + Len(back)
        /\ \A i \in 1 .. Len(front) + Len(back) :
             (front \o back)[i] = IF i <= Len(front) THEN front[i] ELSE back[i - Len(front)]
    BY <1>2, <1>3, ConcatProperties
  <2>2. Len(front) + Len(back) = n - 1 BY <1>1, <1>2, <1>3
  <2>3. QED BY <1>2, <1>4, <2>1, <2>2
<1>6. ASSUME NEW i \in 1 .. n - 1
      PROVE  seq[i] = order[from(i)] /\ from(i) \in 1 .. n /\ from(i) # p
  <2>1. CASE i < p
    <3>1. i \in 1 .. p - 1 /\ i <= p - 1 /\ from(i) = i /\ i \in 1 .. n /\ i # p BY <1>1, <2>1
    <3>2. seq[i] = front[i] BY <1>5, <3>1
    <3>3. QED BY <1>2, <3>1, <3>2
  <2>2. CASE ~(i < p)
    <3>1. i - (p - 1) \in 1 .. n - p /\ p + (i - (p - 1)) = i + 1 /\ ~(i <= p - 1)
      <4>1. i \in Nat /\ p \in Nat /\ n \in Nat /\ p <= i /\ i <= n - 1 BY <1>1, <2>2
      <4>2. QED BY <4>1
    <3>2. seq[i] = back[i - (p - 1)] BY <1>5, <3>1
    <3>3. back[i - (p - 1)] = order[i + 1] BY <1>3, <3>1
    <3>4. from(i) = i + 1 /\ i + 1 \in 1 .. n /\ i + 1 # p BY <1>1, <2>2
    <3>5. QED BY <3>2, <3>3, <3>4
  <2>3. QED BY <2>1, <2>2
<1>7. \A i, j \in 1 .. n - 1 : from(i) = from(j) => i = j
  <2>1. p \in Nat /\ n \in Nat BY <1>1
  <2>2. QED BY <2>1, SMTT(30)
<1>8. ASSUME NEW j \in 1 .. n, j # p PROVE \E i \in 1 .. n - 1 : from(i) = j
  <2>1. CASE j < p
    <3>1. j \in 1 .. n - 1 /\ from(j) = j BY <1>1, <2>1
    <3>2. QED BY <3>1
  <2>2. CASE ~(j < p)
    <3>1. j - 1 \in 1 .. n - 1 /\ from(j - 1) = j BY <1>1, <1>8, <2>2
    <3>2. QED BY <3>1
  <2>3. QED BY <2>1, <2>2
<1> HIDE DEF from
<1>9. IsApart(seq)
  <2>1. ASSUME NEW i \in 1 .. n - 1, NEW j \in 1 .. n - 1, seq[i] = seq[j] PROVE i = j
    <3>1. from(i) = from(j) BY ZenonT(30), <1>1, <1>6, <2>1
    <3>2. QED BY <1>7, <3>1
  <2>2. QED BY <1>5, <2>1 DEF IsApart
<1>10. KeysOf(seq) = {order[j] : j \in (1 .. n) \ {p}}
  <2>1. ASSUME NEW i \in 1 .. n - 1 PROVE seq[i] \in {order[j] : j \in (1 .. n) \ {p}}
    BY <1>6
  <2>2. ASSUME NEW j \in (1 .. n) \ {p} PROVE order[j] \in {seq[i] : i \in 1 .. n - 1}
    <3>1. PICK i \in 1 .. n - 1 : from(i) = j BY <1>8
    <3>2. QED BY <1>6, <3>1
  <2>3. QED BY <1>5, <2>1, <2>2 DEF KeysOf
<1>11. {order[j] : j \in (1 .. n) \ {p}} = KeysOf(order) \ {key}
  BY <1>1 DEF KeysOf, n
<1>12. QED BY <1>5, <1>9, <1>10, <1>11 DEF n

(* A new key comes last, and the first goes if there are too many. *)
LEMMA InsertKeeps ==
  ASSUME OrderInv, NEW key \in Keys, key \notin DOMAIN buckets,
         NEW keys, keys = Kept(Append(order, key))
  PROVE  /\ keys \in Seq(Keys) /\ Len(keys) <= maxKeys /\ IsApart(keys)
         /\ key \in KeysOf(keys) /\ KeysOf(keys) \subseteq KeysOf(order) \cup {key}
<1> DEFINE n == Len(order)
           all == Append(order, key)
<1>1. /\ n \in Nat /\ order \in Seq(Keys) /\ n <= maxKeys /\ maxKeys \in Nat \ {0}
      /\ \A i, j \in 1 .. n : order[i] = order[j] => i = j
      /\ \A i \in 1 .. n : order[i] # key
  BY LenProperties, LimiterTyped DEF OrderInv, IsApart, KeysOf
<1>2. /\ all \in Seq(Keys) /\ all # <<>> /\ Len(all) = n + 1
      /\ \A i \in 1 .. n : all[i] = order[i]
      /\ all[n + 1] = key
  BY <1>1, AppendProperties
<1> HIDE DEF all
<1>3. IsApart(all)
  <2>1. \A i \in 1 .. n + 1 : i \in 1 .. n \/ i = n + 1 BY <1>1
  <2> HIDE DEF n
  <2>2. QED BY <1>1, <1>2, <2>1 DEF IsApart
<1>4. KeysOf(all) = KeysOf(order) \cup {key}
  <2>1. \A i \in 1 .. n + 1 : i \in 1 .. n \/ i = n + 1 BY <1>1
  <2>2. KeysOf(all) \subseteq KeysOf(order) \cup {key} BY <1>2, <2>1 DEF KeysOf
  <2>3. n + 1 \in 1 .. Len(all) /\ \A i \in 1 .. n : i \in 1 .. Len(all) BY <1>1, <1>2
  <2>4. KeysOf(order) \subseteq KeysOf(all) BY <1>2, <2>3 DEF KeysOf
  <2>5. key \in KeysOf(all) BY <1>2, <2>3 DEF KeysOf
  <2>6. QED BY <2>2, <2>4, <2>5
<1>5. CASE n + 1 > maxKeys
  <2>1. keys = Tail(all) BY <1>2, <1>5 DEF Kept, all
  <2>2. /\ keys \in Seq(Keys) /\ Len(keys) = n
        /\ \A i \in 1 .. n : keys[i] = all[i + 1]
    BY <1>1, <1>2, <2>1, HeadTailProperties
  <2>3. n \in Nat \ {0} BY <1>1, <1>5
  <2>4. \A i \in 1 .. n : i + 1 \in 1 .. n + 1 BY <1>1
  <2>5. IsApart(keys)
    <3>1. \A i, j \in 1 .. n + 1 : all[i] = all[j] => i = j BY <1>2, <1>3 DEF IsApart
    <3>2. ASSUME NEW i \in 1 .. n, NEW j \in 1 .. n, keys[i] = keys[j] PROVE i = j
      <4>1. i + 1 = j + 1 BY <2>2, <2>4, <3>1, <3>2
      <4>2. QED BY <1>1, <4>1
    <3>3. QED BY <2>2, <3>2 DEF IsApart
  <2>6. key \in KeysOf(keys)
    <3>1. n \in 1 .. n /\ keys[n] = key BY <1>1, <1>2, <2>2, <2>3
    <3>2. QED BY <2>2, <3>1 DEF KeysOf
  <2>7. KeysOf(keys) \subseteq KeysOf(all)
    BY <1>2, <2>2, <2>4 DEF KeysOf
  <2>8. QED BY <1>1, <1>4, <2>2, <2>5, <2>6, <2>7
<1>6. CASE ~(n + 1 > maxKeys)
  <2>1. keys = all BY <1>2, <1>6 DEF Kept, all
  <2>2. QED BY <1>1, <1>2, <1>3, <1>4, <1>6, <2>1
<1>7. QED BY <1>5, <1>6

(* A request: what it grants is taken from the bucket. *)
LEMMA ConsumeKeeps ==
  ASSUME LimiterInv, NEW key \in Keys, consume(key)
  PROVE  LimiterInv'
<1> DEFINE isNew == key \notin DOMAIN buckets
           bucket == IF isNew THEN [tokens |-> Full, lastRefillMs |-> now] ELSE refill(buckets[key])
           allowed == bucket.tokens >= Token
           keys == IF isNew THEN Kept(Append(order, key)) ELSE order
           after == IF allowed THEN [bucket EXCEPT !.tokens = bucket.tokens - Token] ELSE bucket
           base == IF isNew THEN 0 ELSE granted[key]
           made == IF isNew THEN now ELSE madeAt[key]
<1>1. /\ OrderInv /\ now \in Nat /\ granted \in [Keys -> Nat] /\ madeAt \in [Keys -> Nat]
      /\ \A k \in DOMAIN buckets : BucketInv(k)
      /\ capacity \in Nat /\ Token \in Nat \ {0} /\ Full \in Nat /\ Token <= Full
  BY LimiterTyped DEF LimiterInv
<1>2. /\ order' = keys /\ now' = now
      /\ buckets' = [k \in {keys[i] : i \in DOMAIN keys} |-> IF k # key THEN buckets[k] ELSE after]
      /\ granted' = [granted EXCEPT ![key] = base + (IF allowed THEN 1 ELSE 0)]
      /\ madeAt' = IF isNew THEN [madeAt EXCEPT ![key] = now] ELSE madeAt
  BY DEF consume
<1>3. /\ keys \in Seq(Keys) /\ Len(keys) <= maxKeys /\ IsApart(keys)
      /\ KeysOf(keys) \subseteq DOMAIN buckets \cup {key} /\ DOMAIN keys = 1 .. Len(keys)
  <2>1. CASE isNew
    <3>1. keys = Kept(Append(order, key)) BY <2>1
    <3> HIDE DEF keys
    <3>2. /\ keys \in Seq(Keys) /\ Len(keys) <= maxKeys /\ IsApart(keys)
          /\ KeysOf(keys) \subseteq KeysOf(order) \cup {key}
      BY <1>1, <2>1, <3>1, InsertKeeps
    <3>3. QED BY <1>1, <3>2, LenProperties DEF OrderInv
  <2>2. CASE ~isNew
    <3>1. keys = order BY <2>2
    <3> HIDE DEF keys
    <3>2. QED BY <1>1, <3>1, LenProperties DEF OrderInv
  <2>3. QED BY <2>1, <2>2
<1>4. /\ bucket \in [tokens : Nat, lastRefillMs : Nat] /\ bucket.tokens <= Full
      /\ made \in Nat /\ base \in Nat /\ made <= bucket.lastRefillMs
      /\ base * Token + bucket.tokens <= Full + (bucket.lastRefillMs - made) * capacity
  <2>1. CASE isNew
    <3>1. bucket = [tokens |-> Full, lastRefillMs |-> now] /\ made = now /\ base = 0 BY <2>1
    <3>2. 0 * Token = 0 /\ (now - now) * capacity = 0 BY <1>1
    <3> HIDE DEF bucket, made, base
    <3>3. QED BY <1>1, <3>1, <3>2
  <2>2. CASE ~isNew
    <3> DEFINE b == buckets[key]
    <3>1. bucket = refill(b) /\ made = madeAt[key] /\ base = granted[key] BY <2>2
    <3>2. /\ b \in [tokens : Nat, lastRefillMs : Nat] /\ b.tokens <= Full
          /\ made <= b.lastRefillMs
          /\ base * Token + b.tokens <= Full + (b.lastRefillMs - made) * capacity
      BY <1>1, <2>2, <3>1 DEF BucketInv
    <3> HIDE DEF b, bucket, made, base
    <3>3. /\ bucket \in [tokens : Nat, lastRefillMs : Nat] /\ bucket.tokens <= Full
          /\ b.lastRefillMs <= bucket.lastRefillMs
          /\ bucket.tokens <= b.tokens + (bucket.lastRefillMs - b.lastRefillMs) * capacity
      BY <1>1, <3>1, <3>2, RefillAccrues
    <3>4. made \in Nat /\ base \in Nat BY <1>1, <3>1
    <3>5. /\ b.tokens \in Nat /\ b.lastRefillMs \in Nat
          /\ bucket.tokens \in Nat /\ bucket.lastRefillMs \in Nat
      BY <3>2, <3>3
    <3>6. (b.lastRefillMs - made) * capacity + (bucket.lastRefillMs - b.lastRefillMs) * capacity
            = (bucket.lastRefillMs - made) * capacity
      BY <1>1, <3>4, <3>5
    <3>7. QED BY <1>1, <3>2, <3>3, <3>4, <3>5, <3>6
  <2>3. QED BY <2>1, <2>2
<1>5. /\ granted' \in [Keys -> Nat] /\ madeAt' \in [Keys -> Nat]
      /\ madeAt'[key] = made /\ granted'[key] = base + (IF allowed THEN 1 ELSE 0)
      /\ \A k \in Keys : k # key => granted'[k] = granted[k] /\ madeAt'[k] = madeAt[k]
  <2> HIDE DEF bucket, keys, allowed
  <2>1. base + (IF allowed THEN 1 ELSE 0) \in Nat BY <1>4
  <2> HIDE DEF base
  <2>2. QED BY <1>1, <1>2, <2>1
<1>6. /\ after \in [tokens : Nat, lastRefillMs : Nat] /\ after.tokens <= Full
      /\ after.lastRefillMs = bucket.lastRefillMs
      /\ granted'[key] * Token + after.tokens = base * Token + bucket.tokens
  <2> HIDE DEF bucket, base, made, keys
  <2>1. bucket.tokens \in Nat /\ bucket.lastRefillMs \in Nat BY <1>4
  <2>2. CASE allowed
    <3>1. bucket.tokens - Token \in Nat BY <1>1, <2>1, <2>2
    <3>2. /\ after.tokens = bucket.tokens - Token /\ after.lastRefillMs = bucket.lastRefillMs
          /\ after \in [tokens : Nat, lastRefillMs : Nat]
      BY <1>4, <2>2, <3>1
    <3>3. granted'[key] = base + 1 BY <1>5, <2>2
    <3>4. (base + 1) * Token = base * Token + Token BY <1>1, <1>4
    <3>5. base * Token \in Nat BY <1>1, <1>4
    <3>6. granted'[key] * Token = base * Token + Token BY <3>3, <3>4
    <3> DEFINE paid == base * Token
    <3>7. paid \in Nat /\ granted'[key] * Token = paid + Token BY <3>5, <3>6
    <3> HIDE DEF after, paid
    <3>8. granted'[key] * Token + after.tokens = paid + bucket.tokens
      BY <1>1, <2>1, <3>2, <3>7
    <3>9. after.tokens <= Full BY <1>1, <1>4, <2>1, <3>2
    <3>10. QED BY <3>2, <3>8, <3>9 DEF paid
  <2>3. CASE ~allowed
    <3>1. after = bucket /\ granted'[key] = base BY <1>4, <1>5, <2>3
    <3>2. QED BY <1>4, <3>1
  <2>4. QED BY <2>2, <2>3
<1> HIDE DEF bucket, base, made, keys, allowed, after
<1>7. DOMAIN buckets' = KeysOf(keys) /\ KeysOf(keys) \subseteq Keys
  <2>1. DOMAIN buckets' = KeysOf(keys) BY <1>2, <1>3 DEF KeysOf
  <2>2. QED BY <1>3, <2>1, ElementOfSeq DEF KeysOf
<1>8. OrderInv' BY <1>2, <1>3, <1>7 DEF OrderInv, KeysOf, IsApart
<1>9. ASSUME NEW k \in KeysOf(keys) PROVE BucketInv(k)'
  <2>0. buckets'[k] = IF k # key THEN buckets[k] ELSE after
    BY <1>2, <1>3, <1>9 DEF KeysOf
  <2>1. CASE k = key
    <3>1. buckets'[k] = after BY <2>0, <2>1
    <3>2. QED BY <1>4, <1>5, <1>6, <2>1, <3>1 DEF BucketInv, Full, Token
  <2>2. CASE k # key
    <3>1. k \in DOMAIN buckets /\ k \in Keys BY <1>3, <1>7, <1>9, <2>2
    <3>2. buckets'[k] = buckets[k] /\ granted'[k] = granted[k] /\ madeAt'[k] = madeAt[k]
      BY <1>5, <2>0, <2>2, <3>1
    <3>3. QED BY <1>1, <3>1, <3>2 DEF BucketInv, Full, Token
  <2>3. QED BY <2>1, <2>2
<1>10. QED BY <1>1, <1>2, <1>5, <1>7, <1>8, <1>9 DEF LimiterInv

LEMMA LimiterInvStep == LimiterInv /\ [LimiterNext]_limiterVars => LimiterInv'
<1> SUFFICES ASSUME LimiterInv, [LimiterNext]_limiterVars PROVE LimiterInv'
  OBVIOUS
<1>1. ASSUME NEW key \in Keys, consume(key) PROVE LimiterInv' BY <1>1, ConsumeKeeps
<1>2. ASSUME NEW key \in Keys, reset(key) PROVE LimiterInv'
  <2>1. /\ key \in DOMAIN buckets /\ OrderInv
        /\ order' = SubSeq(order, 1, Place(key) - 1) \o SubSeq(order, Place(key) + 1, Len(order))
        /\ buckets' = [k \in DOMAIN buckets \ {key} |-> buckets[k]]
        /\ now' = now /\ granted' = granted /\ madeAt' = madeAt
    BY <1>2 DEF reset, LimiterInv
  <2>2. /\ order' \in Seq(Keys) /\ Len(order') = Len(order) - 1 /\ IsApart(order')
        /\ KeysOf(order') = KeysOf(order) \ {key}
    BY <2>1, DeleteLeaves
  <2>3. Len(order) \in Nat /\ Len(order) <= maxKeys /\ maxKeys \in Nat
    BY <2>1, LenProperties, LimiterTyped DEF OrderInv
  <2>4. DOMAIN buckets' = KeysOf(order') BY <2>1, <2>2 DEF OrderInv
  <2>5. OrderInv' BY <2>2, <2>3, <2>4 DEF OrderInv, KeysOf, IsApart
  <2>6. \A k \in DOMAIN buckets' : BucketInv(k)' BY <2>1 DEF LimiterInv, BucketInv, Full, Token
  <2>7. QED BY <2>1, <2>5, <2>6 DEF LimiterInv
<1>3. ASSUME resetAll PROVE LimiterInv'
  <2>1. /\ order' = <<>> /\ DOMAIN buckets' = {}
        /\ now' = now /\ granted' = granted /\ madeAt' = madeAt
    BY <1>3 DEF resetAll
  <2>2. Len(order') = 0 /\ order' \in Seq(Keys) BY <2>1, EmptySeq
  <2>3. KeysOf(order') = {} /\ IsApart(order') BY <2>2 DEF KeysOf, IsApart
  <2>4. OrderInv' BY <2>1, <2>2, <2>3, LimiterTyped DEF OrderInv, KeysOf, IsApart
  <2>5. QED BY <2>1, <2>4 DEF LimiterInv
<1>4. ASSUME NEW t \in 0 .. MaxNow, ClockReads(t) PROVE LimiterInv'
  BY <1>4, LimiterAssumption DEF ClockReads, LimiterInv, OrderInv, KeysOf, IsApart, BucketInv, Full, Token
<1>5. CASE UNCHANGED limiterVars
  BY <1>5 DEF limiterVars, LimiterInv, OrderInv, KeysOf, IsApart, BucketInv, Full, Token
<1>6. QED BY <1>1, <1>2, <1>3, <1>4, <1>5 DEF LimiterNext

(* For any capacity, window and number of keys, and a clock that may step  *)
(* back, a key is allowed no more than a full bucket and what accrued      *)
(* (rate-limiter.ts:44-99).                                                *)
THEOREM GrantsStayBounded == LimiterSpec => []GrantsAreBounded
<1>1. LimiterInit => LimiterInv BY LimiterInitHolds
<1>2. LimiterInv /\ [LimiterNext]_limiterVars => LimiterInv' BY LimiterInvStep
<1>3. LimiterInv => GrantsAreBounded
  <2> SUFFICES ASSUME LimiterInv PROVE GrantsAreBounded OBVIOUS
  <2>1. DOMAIN order = 1 .. Len(order) /\ OrderInv BY LenProperties DEF LimiterInv, OrderInv
  <2>2. \A k \in DOMAIN buckets :
          /\ buckets[k].lastRefillMs \in Nat /\ madeAt[k] \in Nat /\ BucketInv(k)
    <3>1. \A k \in DOMAIN buckets : k \in Keys
      BY <2>1, ElementOfSeq DEF OrderInv, KeysOf
    <3>2. QED BY <3>1 DEF LimiterInv, BucketInv
  <2>3. DOMAIN buckets = {order[i] : i \in DOMAIN order} /\ Len(order) <= maxKeys
    BY <2>1 DEF OrderInv, KeysOf
  <2>4. QED BY <2>2, <2>3 DEF GrantsAreBounded, BucketInv
<1>4. QED BY <1>1, <1>2, <1>3, PTL DEF LimiterSpec

-----------------------------------------------------------------------------
(* The orchestrator (workers/engram/src/orchestrate.ts, review/). *)

LastStage(m) == IF m = 1 THEN 1 ELSE 2

(* The stages of a plan: its first node, then all others.                  *)
LEMMA TwoStages ==
  ASSUME NEW m \in 1 .. MaxIntents
  PROVE  computeStages(0 .. m - 1) =
           [k \in 1 .. LastStage(m) |-> IF k = 1 THEN {0} ELSE (0 .. m - 1) \ {0}]
<1> DEFINE nodes == 0 .. m - 1
           next(d, k) == IF k = 0 THEN {} ELSE {n \in nodes : DependsOn(n) \subseteq d[k - 1]}
           done == CHOOSE d : d = [k \in 0 .. MaxIntents |-> next(d, k)]
           given == [k \in 0 .. MaxIntents |-> IF k = 0 THEN {} ELSE IF k = 1 THEN {0} ELSE nodes]
           last == CHOOSE k \in 0 .. MaxIntents :
                     done[k] = nodes /\ \A j \in 0 .. k - 1 : done[j] # nodes
<1>1. computeStages(nodes) = [k \in 1 .. last |-> done[k] \ done[k - 1]]
  BY DEF computeStages
<1>2. MaxIntents \in Nat /\ MaxIntents >= 1 /\ m \in Nat /\ m >= 1
  BY OrchestrateAssumption
<1>3. given = [k \in 0 .. MaxIntents |-> next(given, k)]
  <2>1. \A k \in 0 .. MaxIntents : given[k] = next(given, k)
    <3>1. TAKE k \in 0 .. MaxIntents
    <3>2. CASE k = 0 BY <3>2
    <3>3. CASE k = 1
      <4>1. given[0] = {} BY <1>2
      <4>2. next(given, 1) = {n \in nodes : DependsOn(n) \subseteq {}} 
        <5>1. given[1 - 1] = {} BY <4>1
        <5> HIDE DEF given
        <5>2. QED BY <5>1
      <4>3. next(given, 1) = {0} BY <1>2, <4>2 DEF DependsOn
      <4>4. QED BY <1>2, <3>3, <4>3
    <3>4. CASE k > 1
      <4>1. k - 1 \in 0 .. MaxIntents /\ k - 1 # 0 BY <1>2, <3>4
      <4>2. 0 \in given[k - 1] BY <1>2, <4>1
      <4>3. next(given, k) = {n \in nodes : DependsOn(n) \subseteq given[k - 1]} BY <3>4
      <4>4. next(given, k) = nodes BY <4>2, <4>3 DEF DependsOn
      <4>5. QED BY <3>4, <4>4
    <3>5. QED BY <3>2, <3>3, <3>4
  <2> HIDE DEF next
  <2>2. given = [k \in 0 .. MaxIntents |-> given[k]] OBVIOUS
  <2> HIDE DEF given
  <2>3. QED BY <2>1, <2>2
<1>4. done = [k \in 0 .. MaxIntents |-> next(done, k)]
  <2> HIDE DEF given, next
  <2>1. QED BY <1>3
<1> HIDE DEF done, given
<1>5. done[0] = {} /\ done[1] = {0} /\ (m > 1 => done[2] = nodes)
  <2>1. done[0] = {} BY <1>2, <1>4
  <2>2. done[1] = {0}
    <3>1. done[1] = next(done, 1)
      <4> HIDE DEF next
      <4>1. QED BY <1>2, <1>4
    <3>2. next(done, 1) = {n \in nodes : DependsOn(n) \subseteq {}} BY <2>1
    <3>3. QED BY <1>2, <3>1, <3>2 DEF DependsOn
  <2>3. ASSUME m > 1 PROVE done[2] = nodes
    <3>1. done[2] = next(done, 2)
      <4> HIDE DEF next
      <4>1. QED BY <1>2, <1>4, <2>3
    <3>2. next(done, 2) = {n \in nodes : DependsOn(n) \subseteq {0}} BY <2>2
    <3>3. QED BY <1>2, <3>1, <3>2 DEF DependsOn
  <2>4. QED BY <2>1, <2>2, <2>3
<1> HIDE DEF next
<1>6. nodes # {} /\ (m = 1 => nodes = {0}) /\ (m > 1 => nodes # {0})
  <2>1. 0 \in nodes /\ (m > 1 => 1 \in nodes) BY <1>2
  <2>2. QED BY <2>1
<1>7. last = LastStage(m)
  <2>1. CASE m = 1
    <3>1. \A k \in 0 .. MaxIntents :
            (done[k] = nodes /\ \A j \in 0 .. k - 1 : done[j] # nodes) <=> k = 1
      BY <1>2, <1>5, <1>6, <2>1
    <3>2. QED BY <1>2, <2>1, <3>1 DEF LastStage
  <2>2. CASE m > 1
    <3>1. \A k \in 0 .. MaxIntents :
            (done[k] = nodes /\ \A j \in 0 .. k - 1 : done[j] # nodes) <=> k = 2
      <4>1. TAKE k \in 0 .. MaxIntents
      <4>2. CASE k = 0 \/ k = 1 BY <1>5, <1>6, <2>2, <4>2
      <4>3. CASE k = 2 
        <5>1. \A j \in 0 .. k - 1 : j = 0 \/ j = 1 BY <4>3
        <5>2. QED BY <1>5, <1>6, <2>2, <4>3, <5>1
      <4>4. CASE k > 2 
        <5>1. 2 \in 0 .. k - 1 BY <4>4
        <5>2. QED BY <1>5, <2>2, <4>4, <5>1
      <4>5. QED BY <4>2, <4>3, <4>4
    <3>2. QED BY <1>2, <2>2, <3>1 DEF LastStage
  <2>3. QED BY <1>2, <2>1, <2>2
<1>8. \A k \in 1 .. LastStage(m) :
        done[k] \ done[k - 1] = IF k = 1 THEN {0} ELSE (0 .. m - 1) \ {0}
  <2>1. TAKE k \in 1 .. LastStage(m)
  <2>2. k = 1 \/ (k = 2 /\ m > 1) BY <1>2 DEF LastStage
  <2>3. QED BY <1>5, <2>2
<1> HIDE DEF last, nodes
<1>9. QED BY <1>1, <1>7, <1>8 DEF nodes

-----------------------------------------------------------------------------
(* The median of scores.                                                   *)

(* The k-th value splits the reviewers.                                    *)
LEMMA RankSplits ==
  ASSUME NEW D, IsFiniteSet(D), NEW f \in [D -> 0 .. 10], NEW k \in 1 .. Cardinality(D)
  PROVE  /\ Ranked(f, k) \in 0 .. 10
         /\ Cardinality({r \in D : f[r] < Ranked(f, k)}) < k
         /\ Cardinality({r \in D : f[r] <= Ranked(f, k)}) >= k
<1> DEFINE V == {f[r] : r \in D}
           upTo(v) == {r \in D : f[r] <= v}
           below(v) == {r \in D : f[r] < v}
           enough == {v \in V : Cardinality(upTo(v)) >= k}
<1>1. \A v : /\ IsFiniteSet(upTo(v)) /\ Cardinality(upTo(v)) \in Nat
             /\ IsFiniteSet(below(v)) /\ Cardinality(below(v)) \in Nat
  <2>1. \A v : upTo(v) \subseteq D /\ below(v) \subseteq D OBVIOUS
  <2> HIDE DEF upTo, below
  <2>2. QED BY <2>1, FS_Subset, FS_CardinalityType
<1>2. Cardinality(D) \in Nat BY FS_CardinalityType
<1>3. V \subseteq 0 .. 10 /\ V # {}
  <2>1. D # {} BY <1>2, FS_EmptySet
  <2>2. QED BY <2>1
(* A set of scores has a largest.                                          *)
<1>4. ASSUME NEW S \in SUBSET V, S # {} PROVE \E v \in S : \A u \in S : u <= v
  <2> DEFINE down == {10 - s : s \in S}
  <2>1. down \subseteq Nat /\ down # {} BY <1>3, <1>4
  <2>2. PICK d \in down : \A e \in down : d <= e BY <2>1, LeastIn
  <2>3. PICK v \in S : d = 10 - v BY <2>2
  <2>4. ASSUME NEW u \in S PROVE u <= v
    <3>1. 10 - u \in down OBVIOUS
    <3>2. 10 - v <= 10 - u BY <2>2, <2>3, <3>1
    <3>3. u \in 0 .. 10 /\ v \in 0 .. 10 BY <1>3, <1>4
    <3>4. QED BY <3>2, <3>3
  <2>5. QED BY <2>4
<1>5. enough # {}
  <2>1. PICK v \in V : \A u \in V : u <= v BY <1>3, <1>4
  <2>2. upTo(v) = D BY <2>1
  <2>3. Cardinality(D) >= k BY <1>2
  <2>4. Cardinality(upTo(v)) >= k BY <2>2, <2>3
  <2> HIDE DEF upTo, V
  <2>5. QED BY <2>4
<1>6. PICK v \in enough : \A u \in enough : v <= u
  <2>1. enough \subseteq Nat BY <1>3
  <2> HIDE DEF enough
  <2>2. QED BY <1>5, <2>1, LeastIn
<1>7. Cardinality(below(v)) < k
  <2>1. CASE below(v) = {}
    <3>1. Cardinality(below(v)) = 0 BY <2>1, FS_EmptySet
    <3>2. QED BY <3>1
  <2>2. CASE below(v) # {}
    <3> DEFINE S == {u \in V : u < v}
    <3>1. S # {} BY <2>2
    <3>2. PICK u \in S : \A w \in S : w <= u BY <3>1, <1>4
    <3>3. below(v) = upTo(u)
      <4>1. ASSUME NEW r \in D PROVE f[r] < v <=> f[r] <= u
        <5>1. f[r] \in V OBVIOUS
        <5>2. u \in 0 .. 10 /\ v \in 0 .. 10 /\ f[r] \in 0 .. 10 /\ u < v BY <1>3, <3>2
        <5>3. QED BY <3>2, <5>1, <5>2
      <4>2. QED BY <4>1
    <3>4. u \notin enough 
      <4>1. u \in 0 .. 10 /\ v \in 0 .. 10 /\ u < v BY <1>3, <3>2
      <4>2. QED BY <1>6, <4>1
    <3>5. ~(Cardinality(upTo(u)) >= k) BY <3>2, <3>4
    <3> HIDE DEF below, upTo
    <3>6. QED BY <1>1, <3>3, <3>5
  <2>3. QED BY <2>1, <2>2
<1>8. DOMAIN f = D OBVIOUS
<1>9. /\ Ranked(f, k) \in V /\ Cardinality(below(Ranked(f, k))) < k
      /\ Cardinality(upTo(Ranked(f, k))) >= k
  <2>1. Ranked(f, k) = CHOOSE u \in V : Cardinality(below(u)) < k /\ Cardinality(upTo(u)) >= k
    BY <1>8 DEF Ranked
  <2> HIDE DEF V, below, upTo
  <2>2. v \in V /\ Cardinality(below(v)) < k /\ Cardinality(upTo(v)) >= k BY <1>6, <1>7
  <2>3. QED BY <2>1, <2>2
<1>10. QED BY <1>3, <1>9

(* The median is on the side of a threshold where most scores are.         *)
LEMMA MedianIsMajority ==
  ASSUME NEW D, IsFiniteSet(D), NEW f \in [D -> 0 .. 10], NEW t \in 1 .. 10,
         NEW high, high = {r \in D : f[r] >= t}
  PROVE  /\ median(f) \in Nat
         /\ 2 * Cardinality(high) > Cardinality(D) => median(f) >= 2 * t
         /\ 2 * Cardinality(high) < Cardinality(D) => median(f) < 2 * t
<1> DEFINE n == Cardinality(D)
           low == {r \in D : f[r] < t}
           a == Cardinality(high)
<1>1. /\ n \in Nat /\ a \in Nat /\ Cardinality(low) = n - a
      /\ IsFiniteSet(high) /\ IsFiniteSet(low)
  <2>1. /\ high \cup low = D /\ high \cap low = {} /\ high \subseteq D /\ low \subseteq D
    <3>1. \A r \in D : (f[r] >= t \/ f[r] < t) /\ ~(f[r] >= t /\ f[r] < t) OBVIOUS
    <3>2. QED BY <3>1
  <2>2. IsFiniteSet(high) /\ IsFiniteSet(low) BY <2>1, FS_Subset
  <2>3. n = a + Cardinality(low) - Cardinality({})
    <3> HIDE DEF low
    <3>1. QED BY <2>1, <2>2, FS_Union
  <2> HIDE DEF low
  <2>4. QED BY <2>2, <2>3, FS_CardinalityType, FS_EmptySet
<1>2. DOMAIN f = D OBVIOUS
<1>3. CASE n = 0
  <2>1. median(f) = 0 BY <1>2, <1>3 DEF median
  <2>2. a = 0
    <3>1. D = {} BY <1>3, FS_EmptySet
    <3>2. high = {} BY <3>1
    <3>3. QED BY <3>2, FS_EmptySet
  <2>3. QED BY <1>3, <2>1, <2>2
<1>4. CASE n # 0
  <2> DEFINE i == (n + 1) \div 2
             j == n \div 2 + 1
             x == Ranked(f, i)
             y == Ranked(f, j)
  <2>1. i \in 1 .. n /\ j \in 1 .. n BY <1>1, <1>4
  <2>2. median(f) = x + y BY <1>2, <1>4 DEF median
  <2> DEFINE belowX == {r \in D : f[r] < x}
             upToX == {r \in D : f[r] <= x}
             belowY == {r \in D : f[r] < y}
             upToY == {r \in D : f[r] <= y}
  <2>3. /\ x \in 0 .. 10 /\ Cardinality(belowX) < i /\ Cardinality(upToX) >= i
        /\ y \in 0 .. 10 /\ Cardinality(belowY) < j /\ Cardinality(upToY) >= j
    <3> HIDE DEF n, i, j
    <3>1. QED BY <2>1, RankSplits DEF n
  <2> HIDE DEF i, j, x, y
  <2>4. /\ x < t => upToX \subseteq low
        /\ x >= t => low \subseteq belowX
        /\ y < t => upToY \subseteq low
        /\ y >= t => low \subseteq belowY
    BY <2>3
  <2>5. /\ IsFiniteSet(belowX) /\ IsFiniteSet(upToX) /\ IsFiniteSet(belowY) /\ IsFiniteSet(upToY)
    <3>1. belowX \subseteq D /\ upToX \subseteq D /\ belowY \subseteq D /\ upToY \subseteq D OBVIOUS
    <3> HIDE DEF belowX, upToX, belowY, upToY
    <3>2. QED BY <3>1, FS_Subset
  <2> HIDE DEF belowX, upToX, belowY, upToY, low
  <2>6. /\ x < t => Cardinality(upToX) <= n - a
        /\ x >= t => n - a <= Cardinality(belowX)
        /\ y < t => Cardinality(upToY) <= n - a
        /\ y >= t => n - a <= Cardinality(belowY)
    BY <1>1, <2>4, <2>5, FS_Subset
  <2>7. /\ Cardinality(belowX) \in Nat /\ Cardinality(upToX) \in Nat
        /\ Cardinality(belowY) \in Nat /\ Cardinality(upToY) \in Nat
    BY <2>5, FS_CardinalityType
  <2>8. /\ i \in Nat /\ j \in Nat /\ 2 * i >= n /\ 2 * i <= n + 1 /\ 2 * j >= n + 1 /\ 2 * j <= n + 2
    BY <1>1 DEF i, j
  <2> HIDE DEF n, a
  <2>9. 2 * a > n => x >= t /\ y >= t
    BY <1>1, <2>3, <2>6, <2>7, <2>8
  <2>10. 2 * a < n => x < t /\ y < t
    BY <1>1, <2>3, <2>6, <2>7, <2>8
  <2>11. QED BY <2>2, <2>3, <2>9, <2>10 DEF n, a
<1>5. QED BY <1>3, <1>4

-----------------------------------------------------------------------------
(* The verdict.                                                            *)

LEMMA ReviewersAreAFewOfThePool ==
  ASSUME numReviewers <= Len(ReviewPool)
  PROVE  /\ IsFiniteSet(Reviewers) /\ Cardinality(Reviewers) = numReviewers
         /\ \A r \in Reviewers : \E i \in DOMAIN ReviewPool : r = ReviewPool[i]
<1> DEFINE takes == [i \in 1 .. numReviewers |-> ReviewPool[i]]
<1>1. numReviewers \in 0 .. 4
  BY OrchestrateAssumption DEF ReviewPool
<1>2. DOMAIN selectReviewers = 1 .. numReviewers
      /\ \A i \in 1 .. numReviewers : selectReviewers[i] = ReviewPool[i]
  BY <1>1 DEF selectReviewers, ReviewPool
<1>3. Reviewers = {ReviewPool[i] : i \in 1 .. numReviewers}
  BY <1>2 DEF Reviewers
<1>4. \A i, j \in 1 .. 4 : ReviewPool[i] = ReviewPool[j] => i = j
  BY DEF ReviewPool
<1>5. takes \in Bijection(1 .. numReviewers, Reviewers)
  <2>1. takes \in Injection(1 .. numReviewers, Reviewers)
    BY SMTT(20), <1>1, <1>3, <1>4 DEF Injection, IsInjective
  <2>2. takes \in Surjection(1 .. numReviewers, Reviewers)
    BY <1>3 DEF Surjection
  <2>3. QED BY <2>1, <2>2 DEF Bijection
<1>6. IsFiniteSet(1 .. numReviewers) /\ Cardinality(1 .. numReviewers) = numReviewers
  <2>1. 1 \in Int /\ numReviewers \in Int /\ numReviewers >= 0 BY <1>1
  <2>2. CASE numReviewers = 0
    <3>1. 1 .. numReviewers = {} BY <2>2
    <3>2. QED BY <2>2, <3>1, FS_EmptySet
  <2>3. CASE numReviewers >= 1 BY <2>1, <2>3, FS_Interval
  <2>4. QED BY <2>1, <2>2, <2>3
<1>7. IsFiniteSet(Reviewers) /\ Cardinality(Reviewers) = numReviewers
  BY <1>5, <1>6, FS_Bijection DEF ExistsBijection
<1>8. \A r \in Reviewers : \E i \in DOMAIN ReviewPool : r = ReviewPool[i]
  BY <1>1, <1>3 DEF ReviewPool
<1>9. QED BY <1>7, <1>8

(* A reviewer whose score is too low has a capability that failed.         *)
LEMMA RecommendedApproves ==
  ASSUME numReviewers <= Len(ReviewPool), NEW scores, Recommended(scores) \in Reviewers
  PROVE  ~(scores[Recommended(scores)] < consensusThreshold)
<1> DEFINE failing == UNION {Capabilities[r] : r \in {s \in Reviewers : scores[s] < consensusThreshold}}
           able == {i \in DOMAIN ReviewPool : Capabilities[ReviewPool[i]] \cap failing = {}}
<1>1. able \subseteq Nat
  BY DEF ReviewPool
<1>2. Recommended(scores) =
        IF able = {} THEN "none" ELSE ReviewPool[CHOOSE i \in able : \A j \in able : i <= j]
  BY DEF Recommended
<1>3. "none" \notin Reviewers
  <2>1. \A i \in DOMAIN ReviewPool : ReviewPool[i] # "none" BY DEF ReviewPool
  <2>2. QED BY <2>1, ReviewersAreAFewOfThePool
<1> HIDE DEF able
<1>4. \E i \in able : Recommended(scores) = ReviewPool[i]
  <2>1. able # {} BY <1>2, <1>3
  <2>2. \E i \in able : \A j \in able : i <= j BY <1>1, <2>1, LeastIn
  <2>3. QED BY <1>2, <2>1, <2>2
<1>5. PICK i \in able : Recommended(scores) = ReviewPool[i]
  BY <1>4
<1>6. i \in DOMAIN ReviewPool /\ Capabilities[ReviewPool[i]] \cap failing = {}
  BY <1>5 DEF able
<1>7. Capabilities[ReviewPool[i]] # {}
  <2>1. /\ Capabilities["reviewer-alpha"] = {"reasoning", "factual_accuracy"}
        /\ Capabilities["reviewer-beta"] = {"hallucination_detection", "consistency"}
        /\ Capabilities["reviewer-gamma"] = {"completeness", "relevance"}
        /\ Capabilities["reviewer-delta"] = {"security", "robustness"}
    <3>1. {ReviewPool[j] : j \in DOMAIN ReviewPool}
            = {"reviewer-alpha", "reviewer-beta", "reviewer-gamma", "reviewer-delta"}
      BY DEF ReviewPool
    <3>2. QED BY <3>1 DEF Capabilities
  <2>2. ReviewPool[i] \in {"reviewer-alpha", "reviewer-beta", "reviewer-gamma", "reviewer-delta"}
    BY <1>6 DEF ReviewPool
  <2>3. QED BY <2>1, <2>2
<1>8. ASSUME scores[ReviewPool[i]] < consensusThreshold PROVE FALSE
  <2>1. Capabilities[ReviewPool[i]] \subseteq failing BY <1>5, <1>8
  <2>2. QED BY <1>6, <1>7, <2>1
<1>9. QED BY <1>5, <1>8

(* The review's step gives the majority's verdict.                         *)
LEMMA ReviewDecides ==
  ASSUME numReviewers <= Len(ReviewPool), reviews \in [Reviewers -> ReviewReply], review
  PROVE  MajorityDecides'
<1> DEFINE scores == [r \in Reviewers |-> ScoreOf(reviews[r])]
           t == consensusThreshold
           approves(r) == \/ reviews[r].kind = "unreadable" /\ t <= 7
                          \/ reviews[r].kind = "number" /\ reviews[r].score >= t
           approving == {r \in Reviewers : approves(r)}
<1>1. t \in 1 .. 10
  BY OrchestrateAssumption
<1>2. ASSUME NEW heard \in ReviewReply
      PROVE  /\ ScoreOf(heard) \in 0 .. 10
             /\ ScoreOf(heard) >= t <=> \/ heard.kind = "unreadable" /\ t <= 7
                                        \/ heard.kind = "number" /\ heard.score >= t
  <2>1. CASE heard.kind = "throws"
    <3>1. ScoreOf(heard) = 0 BY <2>1 DEF ScoreOf
    <3>2. QED BY <1>1, <2>1, <3>1
  <2>2. CASE heard.kind = "unreadable"
    <3>1. ScoreOf(heard) = 7 BY <2>2 DEF ScoreOf
    <3>2. QED BY <1>1, <2>2, <3>1
  <2>3. CASE heard.kind = "number"
    <3>1. ScoreOf(heard) = Clamped(heard.score) BY <2>3 DEF ScoreOf
    <3>2. heard.score \in Int BY <1>2, <2>3, OrchestrateAssumption DEF ReviewReply
    <3>3. QED BY <1>1, <2>3, <3>1, <3>2 DEF Clamped
  <2>4. QED BY <1>2, <2>1, <2>2, <2>3 DEF ReviewReply
<1>3. scores \in [Reviewers -> 0 .. 10]
  BY <1>2
<1>4. approving = {r \in Reviewers : scores[r] >= t}
  BY <1>2
<1> HIDE DEF scores, approving
<1>5. /\ median(scores) \in Nat
      /\ 2 * Cardinality(approving) > numReviewers => median(scores) >= 2 * t
      /\ 2 * Cardinality(approving) < numReviewers => median(scores) < 2 * t
  <2>1. IsFiniteSet(Reviewers) /\ Cardinality(Reviewers) = numReviewers
    BY ReviewersAreAFewOfThePool
  <2> HIDE DEF t
  <2>2. /\ median(scores) \in Nat
        /\ 2 * Cardinality(approving) > Cardinality(Reviewers) => median(scores) >= 2 * t
        /\ 2 * Cardinality(approving) < Cardinality(Reviewers) => median(scores) < 2 * t
    BY <1>1, <1>3, <1>4, <2>1, MedianIsMajority
  <2>3. QED BY <2>1, <2>2
<1>6. /\ reviews' = reviews
      /\ reviewOutcome' =
        IF median(scores) < 2 * t
        THEN [verdict |-> "needs_reroute", consensus |-> median(scores),
              recommended |-> Recommended(scores)]
        ELSE [verdict |-> "passed", consensus |-> median(scores), recommended |-> "none"]
  BY DEF review, scores
<1>7. /\ 2 * Cardinality(approving) > numReviewers => reviewOutcome'.verdict = "passed"
      /\ 2 * Cardinality(approving) < numReviewers => reviewOutcome'.verdict = "needs_reroute"
  <2> DEFINE many == 2 * Cardinality(approving) > numReviewers
             few == 2 * Cardinality(approving) < numReviewers
  <2>1. /\ many => ~(median(scores) < 2 * t)
        /\ few => median(scores) < 2 * t
    BY <1>1, <1>5
  <2> HIDE DEF many, few
  <2>2. /\ many => reviewOutcome'.verdict = "passed"
        /\ few => reviewOutcome'.verdict = "needs_reroute"
    BY <1>6, <2>1
  <2>3. QED BY <2>2 DEF many, few
<1>8. reviewOutcome'.recommended \in Reviewers => reviewOutcome'.recommended \in approving
  <2>1. "none" \notin Reviewers
    <3>1. \A i \in DOMAIN ReviewPool : ReviewPool[i] # "none" BY DEF ReviewPool
    <3>2. QED BY <3>1, ReviewersAreAFewOfThePool
  <2>2. reviewOutcome'.recommended \in {Recommended(scores), "none"} BY <1>6
  <2>3. SUFFICES ASSUME Recommended(scores) \in Reviewers
                 PROVE  Recommended(scores) \in approving
    BY <2>1, <2>2
  <2>4. ~(scores[Recommended(scores)] < t) BY <2>3, RecommendedApproves
  <2>5. QED BY <1>1, <1>3, <1>4, <2>3, <2>4
<1>9. approving = {r \in Reviewers : approves(r)}
  BY DEF approving
<1>10. QED BY <1>6, <1>7, <1>8, <1>9 DEF MajorityDecides

-----------------------------------------------------------------------------
(* Sums, as sets of units.                                                 *)

(* Where each number of G grows by one, the sum grows by their number.     *)
LEMMA UnitsOfMore ==
  ASSUME NEW D, NEW count \in [D -> Int], NEW more \in [D -> Int], NEW G \in SUBSET D,
         IsFiniteSet(G), IsFiniteSet(Units(count)),
         \A x \in G : count[x] >= 0 /\ more[x] = count[x] + 1,
         \A x \in D \ G : more[x] = count[x] \/ (more[x] <= 0 /\ count[x] <= 0)
  PROVE  /\ IsFiniteSet(Units(more))
         /\ Cardinality(Units(more)) = Cardinality(Units(count)) + Cardinality(G)
<1> DEFINE new == {<<x, more[x]>> : x \in G}
           pair == [x \in G |-> <<x, more[x]>>]
<1>1. pair \in Bijection(G, new)
  BY DEF Bijection, Injection, IsInjective, Surjection
<1>2. IsFiniteSet(new) /\ Cardinality(new) = Cardinality(G)
  BY <1>1, FS_Bijection DEF ExistsBijection
<1>3. \A x, n : /\ <<x, n>> \in Units(count) <=> x \in D /\ n \in 1 .. count[x]
                /\ <<x, n>> \in Units(more) <=> x \in D /\ n \in 1 .. more[x]
  BY DEF Units
<1>4. /\ \A u \in Units(count) : \E x \in D, n \in Nat : u = <<x, n>>
      /\ \A u \in Units(more) : \E x \in D, n \in Nat : u = <<x, n>>
  BY DEF Units
<1>5. Units(count) \cap new = {}
  BY <1>3
<1>6. Units(more) = Units(count) \cup new
  <2>1. ASSUME NEW x \in D, NEW n \in Nat
        PROVE  <<x, n>> \in Units(more) <=> <<x, n>> \in Units(count) \cup new
    <3>1. CASE x \in G
      <4>1. n \in 1 .. more[x] <=> n \in 1 .. count[x] \/ n = more[x] BY <3>1
      <4>2. <<x, n>> \in new <=> n = more[x] BY <3>1
      <4>3. QED BY <1>3, <4>1, <4>2
    <3>2. CASE x \notin G
      <4>1. n \in 1 .. more[x] <=> n \in 1 .. count[x] BY <3>2
      <4>2. <<x, n>> \notin new BY <3>2
      <4>3. QED BY <1>3, <4>1, <4>2
    <3>3. QED BY <3>1, <3>2
  <2>2. \A u \in new : \E x \in D, n \in Nat : u = <<x, n>>
    OBVIOUS
  <2> HIDE DEF new
  <2>3. QED BY <1>4, <2>1, <2>2
<1> HIDE DEF new
<1>7. IsFiniteSet(Units(count) \cup new)
      /\ Cardinality(Units(count) \cup new)
           = Cardinality(Units(count)) + Cardinality(new) - Cardinality({})
  BY <1>2, <1>5, FS_Union
<1>8. Cardinality({}) = 0 /\ Cardinality(Units(count)) \in Nat /\ Cardinality(G) \in Nat
  BY FS_EmptySet, FS_CardinalityType
<1>9. QED BY <1>2, <1>6, <1>7, <1>8

(* Where one number grows, the sum grows as much.                          *)
LEMMA UnitsOfOneMore ==
  ASSUME NEW D, NEW count \in [D -> Nat], NEW k \in D, NEW c \in Nat,
         IsFiniteSet(Units(count)),
         NEW more \in [D -> Nat], more[k] = count[k] + c,
         \A x \in D \ {k} : more[x] = count[x]
  PROVE  /\ IsFiniteSet(Units(more))
         /\ Cardinality(Units(more)) = Cardinality(Units(count)) + c
<1> DEFINE a == count[k]
           new == {<<k, n>> : n \in a + 1 .. a + c}
           pair == [n \in a + 1 .. a + c |-> <<k, n>>]
<1>1. a \in Nat OBVIOUS
<1>2. pair \in Bijection(a + 1 .. a + c, new)
  <2>1. pair \in Injection(a + 1 .. a + c, new) BY DEF Injection, IsInjective
  <2>2. pair \in Surjection(a + 1 .. a + c, new) BY DEF Surjection
  <2>3. QED BY <2>1, <2>2 DEF Bijection
<1>3. IsFiniteSet(a + 1 .. a + c) /\ Cardinality(a + 1 .. a + c) = c
  <2>1. a + 1 \in Int /\ a + c \in Int BY <1>1
  <2> HIDE DEF a
  <2>2. \A x, y \in Int : /\ IsFiniteSet(x .. y)
                          /\ Cardinality(x .. y) = IF x > y THEN 0 ELSE y - x + 1
    BY FS_Interval
  <2>3. /\ IsFiniteSet(a + 1 .. a + c)
        /\ Cardinality(a + 1 .. a + c)
             = IF a + 1 > a + c THEN 0 ELSE (a + c) - (a + 1) + 1
    BY <2>1, <2>2
  <2>4. QED BY <1>1, <2>3
<1>4. IsFiniteSet(new) /\ Cardinality(new) = c
  BY <1>2, <1>3, FS_Bijection DEF ExistsBijection
<1>5. \A x, n : /\ <<x, n>> \in Units(count) <=> x \in D /\ n \in 1 .. count[x]
                /\ <<x, n>> \in Units(more) <=> x \in D /\ n \in 1 .. more[x]
  BY DEF Units
<1>6. /\ \A u \in Units(count) : \E x \in D, n \in Nat : u = <<x, n>>
      /\ \A u \in Units(more) : \E x \in D, n \in Nat : u = <<x, n>>
  BY DEF Units
<1>7. Units(count) \cap new = {}
  <2>1. ASSUME NEW n \in a + 1 .. a + c PROVE <<k, n>> \notin Units(count)
    <3>1. <<k, n>> \in Units(count) => n \in 1 .. a BY <1>5
    <3>2. QED BY <1>1, <3>1
  <2>2. QED BY <2>1
<1>8. Units(more) = Units(count) \cup new
  <2>1. ASSUME NEW x \in D, NEW n \in Nat
        PROVE  <<x, n>> \in Units(more) <=> <<x, n>> \in Units(count) \cup new
    <3>1. CASE x = k
      <4>1. n \in 1 .. more[x] <=> n \in 1 .. count[x] \/ n \in a + 1 .. a + c BY <1>1, <3>1
      <4>2. <<x, n>> \in new <=> n \in a + 1 .. a + c BY <3>1
      <4>3. QED BY <1>5, <4>1, <4>2
    <3>2. CASE x # k
      <4>1. more[x] = count[x] BY <3>2
      <4>2. <<x, n>> \notin new BY <3>2
      <4>3. QED BY <1>5, <4>1, <4>2
    <3>3. QED BY <3>1, <3>2
  <2>2. \A u \in new : \E x \in D, n \in Nat : u = <<x, n>>
    BY <1>1
  <2> HIDE DEF new
  <2>3. QED BY <1>6, <2>1, <2>2
<1> HIDE DEF new
<1>9. /\ IsFiniteSet(Units(count) \cup new)
      /\ Cardinality(Units(count) \cup new)
           = Cardinality(Units(count)) + Cardinality(new) - Cardinality({})
  BY <1>4, <1>7, FS_Union
<1>10. Cardinality({}) = 0 /\ Cardinality(Units(count)) \in Nat
  BY FS_EmptySet, FS_CardinalityType
<1>11. QED BY <1>4, <1>8, <1>9, <1>10

(* New numbers that are nothing yet leave the sum alone.                   *)
LEMMA UnitsOfNoMore ==
  ASSUME NEW C, NEW D, C \subseteq D, NEW count \in [C -> Int], NEW more \in [D -> Int],
         \A x \in C : more[x] = count[x] \/ (more[x] <= 0 /\ count[x] <= 0),
         \A x \in D \ C : more[x] <= 0
  PROVE  Units(more) = Units(count)
<1>1. /\ Units(count) = UNION {{x} \X (1 .. count[x]) : x \in C}
      /\ Units(more) = UNION {{x} \X (1 .. more[x]) : x \in D}
  BY DEF Units
<1>2. \A x \in C : {x} \X (1 .. more[x]) = {x} \X (1 .. count[x])
  <2>1. \A x \in C : 1 .. more[x] = 1 .. count[x] OBVIOUS
  <2>2. QED BY <2>1
<1>3. \A x \in D \ C : {x} \X (1 .. more[x]) = {}
  <2>1. \A x \in D \ C : 1 .. more[x] = {} OBVIOUS
  <2>2. QED BY <2>1
<1> DEFINE old(x) == {x} \X (1 .. count[x])
           new(x) == {x} \X (1 .. more[x])
<1>4. UNION {new(x) : x \in D} = UNION {old(x) : x \in C}
  <2>1. /\ \A x \in C : new(x) = old(x)
        /\ \A x \in D \ C : new(x) = {}
    BY <1>2, <1>3
  <2> HIDE DEF old, new
  <2>2. QED BY <2>1
<1>5. QED BY <1>1, <1>4

-----------------------------------------------------------------------------
(* The orchestrator's invariant.                                           *)

StageOf(n) == IF n = 0 THEN 1 ELSE 2

Untouched(n) == triggered[n] = 0 /\ nodeAt[n] = "waiting" /\ allResults[n] = "none"

(* A plan has one or two stages; all of them have run before the review.   *)
PlanInv ==
  IF orchAt = "idle" THEN taskDag = {} /\ stageIdx = 0
  ELSE \E m \in 1 .. MaxIntents :
         /\ taskDag = 0 .. m - 1
         /\ stageIdx \in 1 .. LastStage(m)
         /\ orchAt \in {"reviewing", "returned"} => stageIdx = LastStage(m)

(* A gate of the stage has thrown and ended the orchestration. *)
GateThrew == orchAt = "threw" /\ \E b \in taskDag \cap Broken : StageOf(b) = stageIdx

(* The nodes of later stages are untouched, those of earlier ones settled. *)
NodeInv(n) ==
  /\ n \notin taskDag \/ StageOf(n) > stageIdx => Untouched(n)
  /\ n \in taskDag /\ StageOf(n) < stageIdx =>
       triggered[n] > 0 /\ nodeAt[n] = "settled" /\ allResults[n] \in Content
  /\ n \in taskDag /\ StageOf(n) = stageIdx =>
       /\ triggered[n] > 0 /\ nodeAt[n] # "waiting"
       /\ nodeAt[n] \in {"fulfilled", "gating", "settled"} => stageResults[n] \in Content
       /\ nodeAt[n] = "gating" =>
            n \in Gated /\ stageResults[n] = "fails" /\ allResults[n] = "none"
       /\ orchAt = "running" => allResults[n] = "none"
       /\ orchAt # "running" =>
            nodeAt[n] # "executing" /\ (nodeAt[n] = "gating" => GateThrew)
       /\ orchAt \in {"reviewing", "returned"} =>
            nodeAt[n] = "settled" /\ allResults[n] \in Content

(* The nodes whose gate has been evaluated, by what their content says.    *)
Judged(content) ==
  {n \in taskDag \cap Gated :
     IF allResults[n] # "none" THEN allResults[n] = content
     ELSE /\ StageOf(n) = stageIdx /\ nodeAt[n] \in {"gating", "settled"}
          /\ stageResults[n] = content}

GatesInv ==
  counts.passed = Cardinality(Judged("passes")) /\ counts.failed = Cardinality(Judged("fails"))

(* Every call of a node but its first is a retry of a stage.               *)
Repeats(calls) == [n \in PlanNode |-> calls[n] - 1]
StageRetries(details) == [k \in DOMAIN details |-> details[k].counts.retries]
Tally == [passed : Int, failed : Int, retries : Nat]
StageDetail == [nodes : SUBSET PlanNode, counts : Tally]

RetriesInv ==
  /\ stageDetails \in Seq(StageDetail) /\ Len(stageDetails) = stageIdx
  /\ IsFiniteSet(Units(Repeats(triggered)))
  /\ Cardinality(Units(Repeats(triggered))) = counts.retries
  /\ IsFiniteSet(Units(StageRetries(stageDetails)))
  /\ Cardinality(Units(StageRetries(stageDetails))) = counts.retries

ReviewInv ==
  /\ reviews \in [DOMAIN reviews -> ReviewReply]
  /\ orchAt \in {"reviewing", "returned"} => numReviewers <= Len(ReviewPool)
  /\ MajorityDecides

OrchIInv ==
  /\ OrchTypeOK /\ PlanInv /\ GatesInv /\ RetriesInv /\ ReviewInv
  /\ \A n \in PlanNode : NodeInv(n)

(* The stage that runs. *)
LEMMA StageThatRuns ==
  ASSUME PlanInv, orchAt # "idle"
  PROVE  /\ Stage = {n \in taskDag : StageOf(n) = stageIdx}
         /\ taskDag \subseteq PlanNode /\ 0 \in taskDag
         /\ stageIdx \in {1, 2} /\ Len(stages) \in {1, 2}
         /\ stageIdx < Len(stages) =>
              stageIdx = 1 /\ stages[2] = {n \in taskDag : StageOf(n) = 2}
         /\ \E m \in 1 .. MaxIntents :
              taskDag = 0 .. m - 1 /\ Len(stages) = LastStage(m) /\ stageIdx \in 1 .. LastStage(m)
<1>1. PICK m \in 1 .. MaxIntents : taskDag = 0 .. m - 1 /\ stageIdx \in 1 .. LastStage(m)
  BY DEF PlanInv
<1>2. MaxIntents \in Nat /\ m \in Nat /\ m >= 1
  BY OrchestrateAssumption
<1>3. stages = [k \in 1 .. LastStage(m) |-> IF k = 1 THEN {0} ELSE (0 .. m - 1) \ {0}]
  BY <1>1, TwoStages DEF stages
<1>4. LastStage(m) \in {1, 2} /\ (LastStage(m) = 2 => m > 1)
  BY <1>2 DEF LastStage
<1>5. Len(stages) = LastStage(m)
  BY <1>3, <1>4
<1>6. 0 \in taskDag /\ taskDag \subseteq PlanNode
  BY <1>1, <1>2 DEF PlanNode
<1>7. /\ {n \in taskDag : StageOf(n) = 1} = {0}
      /\ {n \in taskDag : StageOf(n) = 2} = taskDag \ {0}
  BY <1>6 DEF StageOf
<1>8. stageIdx \in {1, 2}
  BY <1>1, <1>4
<1>9. Stage = {n \in taskDag : StageOf(n) = stageIdx}
  <2>1. Stage = IF stageIdx = 1 THEN {0} ELSE taskDag \ {0} BY <1>1, <1>3 DEF Stage
  <2>2. QED BY <1>7, <1>8, <2>1
<1>10. stageIdx < Len(stages) => stageIdx = 1 /\ stages[2] = {n \in taskDag : StageOf(n) = 2}
  <2>1. SUFFICES ASSUME stageIdx < Len(stages)
                 PROVE  stageIdx = 1 /\ stages[2] = {n \in taskDag : StageOf(n) = 2}
    OBVIOUS
  <2>2. stageIdx = 1 /\ LastStage(m) = 2 BY <1>4, <1>5, <1>8, <2>1
  <2>3. stages[2] = taskDag \ {0} BY <1>1, <1>3, <2>2
  <2>4. QED BY <1>7, <2>2, <2>3
<1>11. QED BY <1>1, <1>4, <1>5, <1>6, <1>8, <1>9, <1>10

(* What Added does to a tally.                                             *)
Plus(d, p, q, c) == [d EXCEPT !.passed = @ + p, !.failed = @ + q, !.retries = @ + c]

LEMMA TallyGrows ==
  ASSUME NEW d \in Tally, NEW p \in Int, NEW q \in Int, NEW c \in Nat
  PROVE  /\ Plus(d, p, q, c) \in Tally
         /\ Plus(d, p, q, c).passed = d.passed + p
         /\ Plus(d, p, q, c).failed = d.failed + q
         /\ Plus(d, p, q, c).retries = d.retries + c
<1> DEFINE x == d.passed + p
           y == d.failed + q
           z == d.retries + c
           e == [d EXCEPT !.passed = x, !.failed = y, !.retries = z]
<1>1. x \in Int /\ y \in Int /\ z \in Nat
  BY DEF Tally
<1> HIDE DEF x, y, z
<1>2. e \in Tally
  BY <1>1 DEF Tally
<1>3. e.passed = x /\ e.failed = y /\ e.retries = z
  BY DEF Tally
<1>4. QED BY <1>2, <1>3 DEF x, y, z, Plus

(* A retry of some nodes of the stage counts in both sums.                 *)
LEMMA RetriesCount ==
  ASSUME OrchTypeOK, RetriesInv, stageIdx >= 1, NEW G \in SUBSET PlanNode, IsFiniteSet(G),
         \A n \in G : triggered[n] > 0,
         NEW p \in Int, NEW q \in Int, counts.passed + p \in Nat, counts.failed + q \in Nat,
         Added(p, q, Cardinality(G)), Calls1(G), stageIdx' = stageIdx
  PROVE  /\ RetriesInv'
         /\ counts' \in [passed : Nat, failed : Nat, retries : Nat]
         /\ counts'.passed = counts.passed + p /\ counts'.failed = counts.failed + q
         /\ triggered' \in [PlanNode -> Nat]
         /\ \A n \in PlanNode : triggered'[n] = triggered[n] + IF n \in G THEN 1 ELSE 0
<1> DEFINE c == Cardinality(G)
           plus(d) == Plus(d, p, q, c)
<1>1. c \in Nat
  BY FS_CardinalityType
<1>2. /\ counts \in [passed : Nat, failed : Nat, retries : Nat]
      /\ triggered \in [PlanNode -> Nat] /\ stageIdx \in Nat
  BY DEF OrchTypeOK
<1>3. /\ triggered' \in [PlanNode -> Nat]
      /\ \A n \in PlanNode : triggered'[n] = triggered[n] + IF n \in G THEN 1 ELSE 0
  BY <1>2 DEF Calls1
<1>4. counts' = plus(counts) /\ stageDetails' = [stageDetails EXCEPT ![stageIdx].counts = plus(@)]
  BY DEF Added, Plus
<1> HIDE DEF c
<1>5. /\ counts' \in [passed : Nat, failed : Nat, retries : Nat]
      /\ counts'.passed = counts.passed + p /\ counts'.failed = counts.failed + q
      /\ counts'.retries = counts.retries + c
  <2>1. counts \in Tally BY <1>2 DEF Tally
  <2>2. /\ counts' \in Tally
        /\ counts'.passed = counts.passed + p /\ counts'.failed = counts.failed + q
        /\ counts'.retries = counts.retries + c
    <3>1. /\ plus(counts) \in Tally
          /\ plus(counts).passed = counts.passed + p /\ plus(counts).failed = counts.failed + q
          /\ plus(counts).retries = counts.retries + c
      BY <1>1, <2>1, TallyGrows
    <3> HIDE DEF plus
    <3>2. QED BY <1>4, <3>1
  <2> HIDE DEF plus
  <2>3. QED BY <2>2 DEF Tally
<1>6. /\ IsFiniteSet(Units(Repeats(triggered')))
      /\ Cardinality(Units(Repeats(triggered'))) = counts.retries + c
  <2>1. /\ Repeats(triggered) \in [PlanNode -> Int] /\ Repeats(triggered') \in [PlanNode -> Int]
        /\ \A n \in G : Repeats(triggered)[n] >= 0
                        /\ Repeats(triggered')[n] = Repeats(triggered)[n] + 1
        /\ \A n \in PlanNode \ G : Repeats(triggered')[n] = Repeats(triggered)[n]
    BY <1>2, <1>3 DEF Repeats
  <2>2. IsFiniteSet(Units(Repeats(triggered)))
        /\ Cardinality(Units(Repeats(triggered))) = counts.retries
    BY DEF RetriesInv
  <2>3. QED BY <2>1, <2>2, UnitsOfMore DEF c
<1>7. stageDetails \in Seq(StageDetail) /\ Len(stageDetails) = stageIdx
  BY DEF RetriesInv
<1>8. /\ stageDetails' \in Seq(StageDetail) /\ Len(stageDetails') = stageIdx
      /\ \A k \in 1 .. stageIdx :
           stageDetails'[k].counts.retries =
             IF k = stageIdx THEN stageDetails[k].counts.retries + c
             ELSE stageDetails[k].counts.retries
  <2>1. stageIdx \in 1 .. Len(stageDetails) /\ stageDetails[stageIdx] \in StageDetail
    BY <1>2, <1>7
  <2> DEFINE old == stageDetails[stageIdx]
             new == [old EXCEPT !.counts = plus(@)]
  <2>2. stageDetails' = [stageDetails EXCEPT ![stageIdx] = new]
    BY <1>4, <2>1
  <2>3. new \in StageDetail /\ new.counts.retries = old.counts.retries + c
    <3> HIDE DEF old
    <3>1. old \in StageDetail BY <2>1 DEF old
    <3>2. /\ plus(old.counts) \in Tally
          /\ plus(old.counts).retries = old.counts.retries + c
      <4>1. old.counts \in Tally BY <3>1 DEF StageDetail
      <4> DEFINE d == old.counts
      <4> HIDE DEF d
      <4>2. d \in Tally BY <4>1 DEF d
      <4>3. plus(d) \in Tally /\ plus(d).retries = d.retries + c BY <1>1, <4>2, TallyGrows
      <4>4. QED BY <4>3 DEF d
    <3> HIDE DEF plus
    <3>3. QED BY <3>1, <3>2 DEF StageDetail
  <2> HIDE DEF new
  <2>4. QED BY <1>7, <2>1, <2>2, <2>3
<1>9. /\ IsFiniteSet(Units(StageRetries(stageDetails')))
      /\ Cardinality(Units(StageRetries(stageDetails'))) = counts.retries + c
  <2> DEFINE sums == StageRetries(stageDetails)
             D == 1 .. stageIdx
             more == [k \in D |-> IF k = stageIdx THEN sums[k] + c ELSE sums[k]]
  <2>1. DOMAIN stageDetails = D /\ DOMAIN stageDetails' = D /\ stageIdx \in D
    BY <1>2, <1>7, <1>8
  <2>2. sums \in [D -> Nat] /\ \A k \in D : sums[k] = stageDetails[k].counts.retries
    <3>1. \A k \in D : stageDetails[k] \in StageDetail BY <1>7, <2>1
    <3>2. \A k \in D : stageDetails[k].counts.retries \in Nat
      BY <3>1 DEF StageDetail, Tally
    <3>3. QED BY <2>1, <3>2 DEF StageRetries
  <2>3. StageRetries(stageDetails') = more
    BY <1>8, <2>1, <2>2 DEF StageRetries
  <2>4. IsFiniteSet(Units(sums)) /\ Cardinality(Units(sums)) = counts.retries
    BY DEF RetriesInv
  <2>5. more \in [D -> Nat] /\ more[stageIdx] = sums[stageIdx] + c
        /\ \A k \in D \ {stageIdx} : more[k] = sums[k]
    BY <1>1, <2>1, <2>2
  <2> HIDE DEF sums, D, more
  <2>6. QED BY <1>1, <2>1, <2>2, <2>3, <2>4, <2>5, UnitsOfOneMore
<1>10. QED BY <1>3, <1>5, <1>6, <1>8, <1>9 DEF RetriesInv

(* A stage begins with no retries, and calls its nodes for the first time. *)
LEMMA StageStarts ==
  ASSUME OrchTypeOK, RetriesInv, NEW nodes \in SUBSET PlanNode,
         StartsStage(stageIdx + 1, nodes), counts' = counts,
         \A n \in nodes : triggered[n] = 0
  PROVE  /\ RetriesInv'
         /\ stageIdx' = stageIdx + 1 /\ stageIdx' \in Nat
         /\ nodeAt' \in [PlanNode -> {"waiting", "executing", "fulfilled", "rejected",
                                      "gating", "settled"}]
         /\ attempts' \in [PlanNode -> 0 .. RetryCap]
         /\ stageResults' \in [PlanNode -> Content \cup {"none"}]
         /\ triggered' \in [PlanNode -> Nat]
         /\ \A n \in PlanNode : /\ triggered'[n] = IF n \in nodes THEN 1 ELSE triggered[n]
                                /\ nodeAt'[n] = IF n \in nodes THEN "executing" ELSE nodeAt[n]
<1>1. /\ triggered \in [PlanNode -> Nat] /\ stageIdx \in Nat /\ RetryCap \in Nat
      /\ nodeAt \in [PlanNode -> {"waiting", "executing", "fulfilled", "rejected",
                                  "gating", "settled"}]
      /\ attempts \in [PlanNode -> 0 .. RetryCap]
  BY OrchestrateAssumption DEF OrchTypeOK
<1>2. /\ stageDetails \in Seq(StageDetail) /\ Len(stageDetails) = stageIdx
      /\ stageDetails' = Append(stageDetails, [nodes |-> nodes, counts |-> NoCounts])
  BY DEF RetriesInv, StartsStage
<1>3. /\ triggered' \in [PlanNode -> Nat]
      /\ \A n \in PlanNode : triggered'[n] = IF n \in nodes THEN 1 ELSE triggered[n]
  BY <1>1 DEF StartsStage, Calls1
<1>4. Units(Repeats(triggered')) = Units(Repeats(triggered))
  <2>1. /\ Repeats(triggered) \in [PlanNode -> Int] /\ Repeats(triggered') \in [PlanNode -> Int]
        /\ \A n \in PlanNode : \/ Repeats(triggered')[n] = Repeats(triggered)[n]
                               \/ Repeats(triggered')[n] <= 0 /\ Repeats(triggered)[n] <= 0
    BY <1>1, <1>3 DEF Repeats
  <2>2. QED BY <2>1, UnitsOfNoMore
<1>5. /\ stageDetails' \in Seq(StageDetail) /\ Len(stageDetails') = stageIdx + 1
      /\ \A k \in 1 .. stageIdx : stageDetails'[k] = stageDetails[k]
      /\ stageDetails'[stageIdx + 1] = [nodes |-> nodes, counts |-> NoCounts]
  <2>1. [nodes |-> nodes, counts |-> NoCounts] \in StageDetail
    BY DEF StageDetail, Tally, NoCounts
  <2> HIDE DEF StageDetail
  <2>2. QED BY <1>1, <1>2, <2>1
<1>6. Units(StageRetries(stageDetails')) = Units(StageRetries(stageDetails))
  <2> DEFINE C == 1 .. stageIdx
             D == 1 .. stageIdx + 1
  <2>1. DOMAIN stageDetails = C /\ DOMAIN stageDetails' = D /\ C \subseteq D
        /\ D \ C = {stageIdx + 1}
    BY <1>1, <1>2, <1>5
  <2>2. /\ \A k \in C : stageDetails[k].counts.retries \in Nat
        /\ stageDetails'[stageIdx + 1].counts.retries = 0
    <3>1. \A k \in C : stageDetails[k] \in StageDetail BY <1>2, <2>1
    <3>2. QED BY <1>5, <3>1 DEF StageDetail, Tally, NoCounts
  <2>3. \A k \in D : stageDetails'[k].counts.retries \in Nat
    BY <1>5, <2>1, <2>2
  <2>4. /\ StageRetries(stageDetails) \in [C -> Int] /\ StageRetries(stageDetails') \in [D -> Int]
        /\ \A k \in C : StageRetries(stageDetails')[k] = StageRetries(stageDetails)[k]
        /\ \A k \in D \ C : StageRetries(stageDetails')[k] <= 0
    BY <1>5, <2>1, <2>2, <2>3 DEF StageRetries
  <2> HIDE DEF C, D
  <2>5. QED BY <2>1, <2>4, UnitsOfNoMore
<1>7. stageIdx' = stageIdx + 1
  BY DEF StartsStage
<1>8. RetriesInv'
  BY <1>4, <1>5, <1>6, <1>7 DEF RetriesInv
<1>9. /\ nodeAt' \in [PlanNode -> {"waiting", "executing", "fulfilled", "rejected",
                                   "gating", "settled"}]
      /\ \A n \in PlanNode : nodeAt'[n] = IF n \in nodes THEN "executing" ELSE nodeAt[n]
      /\ attempts' \in [PlanNode -> 0 .. RetryCap]
      /\ stageResults' \in [PlanNode -> Content \cup {"none"}]
  BY <1>1 DEF StartsStage, Content
<1>10. QED BY <1>1, <1>3, <1>7, <1>8, <1>9

(* Before the review there is no verdict to be wrong.                      *)
LEMMA NoVerdictYet ==
  ASSUME ReviewInv, reviews' = reviews, orchAt' \notin {"reviewing", "returned"}
  PROVE  ReviewInv'
BY DEF ReviewInv, MajorityDecides

LEMMA BeginsWell ==
  ASSUME OrchIInv, NEW intents \in 1 .. MaxIntents, orchestrate(intents)
  PROVE  OrchIInv'
<1>1. /\ OrchTypeOK /\ RetriesInv /\ ReviewInv /\ GatesInv
      /\ taskDag = {} /\ stageIdx = 0
      /\ \A n \in PlanNode : Untouched(n)
  BY DEF OrchIInv, PlanInv, NodeInv, orchestrate
<1>2. /\ orchAt' = "running" /\ taskDag' = 0 .. intents - 1
      /\ allResults' = allResults /\ counts' = counts /\ reviews' = reviews
      /\ reviewOutcome' = reviewOutcome
  BY DEF orchestrate
<1>3. MaxIntents \in Nat /\ intents \in Nat /\ intents >= 1
  BY OrchestrateAssumption
<1>4. StartsStage(stageIdx + 1, {0}) /\ 0 \in PlanNode /\ taskDag' \subseteq PlanNode /\ 0 \in taskDag'
  <2>1. computeStages(0 .. intents - 1)[1] = {0}
    <3>1. 1 \in 1 .. LastStage(intents) BY DEF LastStage
    <3>2. QED BY <3>1, TwoStages
  <2>2. StartsStage(1, {0}) BY <2>1 DEF orchestrate
  <2>3. QED BY <1>1, <1>2, <1>3, <2>2 DEF PlanNode
<1>5. /\ RetriesInv'
      /\ stageIdx' = 1
      /\ nodeAt' \in [PlanNode -> {"waiting", "executing", "fulfilled", "rejected",
                                   "gating", "settled"}]
      /\ attempts' \in [PlanNode -> 0 .. RetryCap]
      /\ stageResults' \in [PlanNode -> Content \cup {"none"}]
      /\ triggered' \in [PlanNode -> Nat]
      /\ \A n \in PlanNode : /\ triggered'[n] = IF n = 0 THEN 1 ELSE triggered[n]
                             /\ nodeAt'[n] = IF n = 0 THEN "executing" ELSE nodeAt[n]
  <2>1. \A n \in {0} : triggered[n] = 0 BY <1>1, <1>4 DEF Untouched
  <2>2. {0} \in SUBSET PlanNode BY <1>4
  <2>3. QED BY <1>1, <1>2, <1>4, <2>1, <2>2, StageStarts, SMTT(20)
<1>6. OrchTypeOK'
  BY <1>1, <1>2, <1>4, <1>5 DEF OrchTypeOK
<1>7. PlanInv'
  BY <1>2, <1>3, <1>5 DEF PlanInv, LastStage
<1>8. ASSUME NEW n \in PlanNode PROVE NodeInv(n)'
  <2>1. Untouched(n) BY <1>1
  <2>2. CASE n = 0 BY <1>2, <1>4, <1>5, <2>1, <2>2 DEF NodeInv, StageOf, Untouched
  <2>3. CASE n # 0 BY <1>2, <1>5, <2>1, <2>3 DEF NodeInv, StageOf, Untouched
  <2>4. QED BY <2>2, <2>3
<1>9. GatesInv'
  <2>1. \A c \in Content : Judged(c) = {} BY <1>1 DEF Judged
  <2>2. \A n \in PlanNode : allResults'[n] = "none" /\ nodeAt'[n] \in {"waiting", "executing"}
    BY <1>1, <1>2, <1>5 DEF Untouched
  <2>3. \A c \in Content : Judged(c)' = {} BY <1>4, <2>2 DEF Judged
  <2>4. QED BY <1>1, <1>2, <2>1, <2>3 DEF GatesInv, Content
<1>10. ReviewInv'
  BY <1>1, <1>2, NoVerdictYet
<1>11. QED BY <1>5, <1>6, <1>7, <1>8, <1>9, <1>10 DEF OrchIInv

(* Steps of the stage that runs keep the plan.                             *)
LEMMA PlanStays ==
  ASSUME PlanInv, orchAt # "idle", orchAt' \notin {"idle", "reviewing", "returned"},
         taskDag' = taskDag, stageIdx' = stageIdx
  PROVE  PlanInv'
BY DEF PlanInv

(* What the steps of a stage have in common, while it runs or after a gate *)
(* of it has thrown.                                                       *)
LEMMA RunningStage ==
  ASSUME OrchIInv, orchAt \in {"running", "threw"}
  PROVE  /\ OrchTypeOK /\ PlanInv /\ RetriesInv /\ ReviewInv /\ GatesInv
         /\ stageIdx \in {1, 2}
         /\ Stage = {n \in taskDag : StageOf(n) = stageIdx} /\ taskDag \subseteq PlanNode
         /\ \A n \in PlanNode : NodeInv(n)
         /\ \A n \in PlanNode : nodeAt[n] \in {"executing", "fulfilled", "rejected", "gating"} =>
              n \in Stage
         /\ \A n \in Stage :
              triggered[n] > 0 /\ (orchAt = "running" => allResults[n] = "none")
<1>1. /\ OrchTypeOK /\ PlanInv /\ RetriesInv /\ ReviewInv /\ GatesInv
      /\ \A n \in PlanNode : NodeInv(n)
  BY DEF OrchIInv
<1>2. /\ Stage = {n \in taskDag : StageOf(n) = stageIdx} /\ taskDag \subseteq PlanNode
      /\ stageIdx \in {1, 2}
  BY <1>1, StageThatRuns
<1>3. ASSUME NEW n \in PlanNode, nodeAt[n] \in {"executing", "fulfilled", "rejected", "gating"}
      PROVE  n \in Stage
  <2>1. NodeInv(n) /\ ~Untouched(n) /\ nodeAt[n] # "settled" BY <1>1, <1>3 DEF Untouched
  <2>2. n \in taskDag /\ ~(StageOf(n) > stageIdx) /\ ~(StageOf(n) < stageIdx)
    BY <2>1 DEF NodeInv
  <2>3. StageOf(n) \in {1, 2} BY DEF StageOf
  <2>4. QED BY <1>2, <2>2, <2>3
<1>4. \A n \in Stage : triggered[n] > 0 /\ (orchAt = "running" => allResults[n] = "none")
  BY <1>1, <1>2 DEF NodeInv
<1>5. QED BY <1>1, <1>2, <1>3, <1>4

LEMMA ThrowsWell ==
  ASSUME OrchIInv, NEW n \in PlanNode, ExecutionThrows(n)
  PROVE  OrchIInv'
<1>1. /\ orchAt = "running" /\ orchAt' = "running" /\ nodeAt[n] = "executing"
      /\ taskDag' = taskDag /\ stageIdx' = stageIdx /\ stageResults' = stageResults
      /\ allResults' = allResults /\ reviews' = reviews /\ reviewOutcome' = reviewOutcome
  BY DEF ExecutionThrows
<1>2. /\ OrchTypeOK /\ PlanInv /\ RetriesInv /\ ReviewInv /\ GatesInv
      /\ stageIdx \in {1, 2}
      /\ \A k \in PlanNode : NodeInv(k)
      /\ n \in Stage /\ triggered[n] > 0
      /\ RetryCap \in Nat
  BY <1>1, RunningStage, OrchestrateAssumption
<1>3. PlanInv' /\ ReviewInv'
  BY <1>1, <1>2, PlanStays, NoVerdictYet
<1>4. CASE attempts[n] < RetryCap
  <2>1. /\ attempts' = [attempts EXCEPT ![n] = @ + 1]
        /\ Added(0, 0, 1) /\ Calls1({n}) /\ nodeAt' = nodeAt
    BY <1>4 DEF ExecutionThrows
  <2>2. /\ RetriesInv'
        /\ counts' \in [passed : Nat, failed : Nat, retries : Nat]
        /\ counts'.passed = counts.passed /\ counts'.failed = counts.failed
        /\ triggered' \in [PlanNode -> Nat]
        /\ \A k \in PlanNode : triggered'[k] = triggered[k] + IF k \in {n} THEN 1 ELSE 0
    <3>1. IsFiniteSet({n}) /\ Cardinality({n}) = 1 BY FS_Singleton
    <3>2. counts.passed \in Nat /\ counts.failed \in Nat BY <1>2 DEF OrchTypeOK
    <3>3. Added(0, 0, Cardinality({n})) BY <2>1, <3>1
    <3>4. counts.passed + 0 \in Nat /\ counts.failed + 0 \in Nat /\ stageIdx >= 1 BY <1>2, <3>2
    <3>5. /\ RetriesInv'
          /\ counts' \in [passed : Nat, failed : Nat, retries : Nat]
          /\ counts'.passed = counts.passed + 0 /\ counts'.failed = counts.failed + 0
          /\ triggered' \in [PlanNode -> Nat]
          /\ \A k \in PlanNode : triggered'[k] = triggered[k] + IF k \in {n} THEN 1 ELSE 0
      BY <1>1, <1>2, <2>1, <3>1, <3>3, <3>4, RetriesCount
    <3>6. QED BY <3>2, <3>5
  <2>3. OrchTypeOK'
    <3>1. attempts' \in [PlanNode -> 0 .. RetryCap]
      <4>1. attempts \in [PlanNode -> 0 .. RetryCap] BY <1>2 DEF OrchTypeOK
      <4>2. attempts[n] + 1 \in 0 .. RetryCap BY <1>2, <1>4, <4>1
      <4>3. QED BY <2>1, <4>1, <4>2
    <3>2. QED BY <1>1, <1>2, <2>1, <2>2, <3>1 DEF OrchTypeOK
  <2>4. ASSUME NEW k \in PlanNode PROVE NodeInv(k)'
    <3>1. NodeInv(k) /\ (triggered[k] > 0 => triggered'[k] > 0)
          /\ (k = n \/ triggered'[k] = triggered[k])
      BY <1>2, <2>2 DEF OrchTypeOK
    <3>2. ~Untouched(n) BY <1>1 DEF Untouched
    <3>3. QED BY <1>1, <2>1, <3>1, <3>2 DEF NodeInv, Untouched
  <2>5. GatesInv'
    BY <1>1, <1>2, <2>1, <2>2 DEF GatesInv, Judged
  <2>6. QED BY <1>3, <2>2, <2>3, <2>4, <2>5 DEF OrchIInv
<1>5. CASE ~(attempts[n] < RetryCap)
  <2>1. /\ nodeAt' = [nodeAt EXCEPT ![n] = "rejected"]
        /\ UNCHANGED <<attempts, counts, stageDetails, triggered>>
    BY <1>5 DEF ExecutionThrows
  <2>2. OrchTypeOK' /\ RetriesInv'
    BY <1>1, <1>2, <2>1 DEF OrchTypeOK, RetriesInv
  <2>3. /\ nodeAt'[n] = "rejected"
        /\ \A k \in PlanNode : k # n => nodeAt'[k] = nodeAt[k]
    BY <1>2, <2>1 DEF OrchTypeOK
  <2>4. ASSUME NEW k \in PlanNode PROVE NodeInv(k)'
    <3>1. NodeInv(k) BY <1>2
    <3>2. CASE k # n BY <1>1, <2>1, <2>3, <3>1, <3>2 DEF NodeInv, Untouched
    <3>3. CASE k = n
      <4>1. n \in taskDag /\ StageOf(n) = stageIdx BY <1>1, <1>2, RunningStage
      <4>2. QED BY <1>1, <1>2, <2>1, <2>3, <3>1, <3>3, <4>1 DEF NodeInv, StageOf
    <3>4. QED BY <3>2, <3>3
  <2>5. \A c : Judged(c)' = Judged(c)
    <3>1. \A k \in PlanNode : nodeAt'[k] \in {"gating", "settled"} <=> nodeAt[k] \in {"gating", "settled"}
      BY <1>1, <2>3
    <3>2. taskDag \subseteq PlanNode BY <1>1, RunningStage
    <3>3. QED BY <1>1, <3>1, <3>2 DEF Judged
  <2>6. GatesInv' BY <1>2, <2>1, <2>5 DEF GatesInv
  <2>7. QED BY <1>3, <2>2, <2>4, <2>6 DEF OrchIInv
<1>6. QED BY <1>4, <1>5

LEMMA AnswersWell ==
  ASSUME OrchIInv, NEW n \in PlanNode, NEW content \in Content, ExecutionAnswers(n, content)
  PROVE  OrchIInv'
<1>1. /\ orchAt = "running" /\ orchAt' = "running" /\ nodeAt[n] = "executing"
      /\ nodeAt' = [nodeAt EXCEPT ![n] = "fulfilled"]
      /\ stageResults' = [stageResults EXCEPT ![n] = content]
      /\ UNCHANGED <<taskDag, stageIdx, attempts, allResults, counts, stageDetails,
                     triggered, reviews, reviewOutcome>>
  BY DEF ExecutionAnswers
<1>2. /\ OrchTypeOK /\ PlanInv /\ RetriesInv /\ ReviewInv /\ GatesInv
      /\ stageIdx \in {1, 2} /\ taskDag \subseteq PlanNode
      /\ \A k \in PlanNode : NodeInv(k)
      /\ n \in taskDag /\ StageOf(n) = stageIdx
  BY <1>1, RunningStage
<1>3. PlanInv' /\ ReviewInv' /\ RetriesInv'
  BY <1>1, <1>2, PlanStays, NoVerdictYet DEF RetriesInv
<1>4. OrchTypeOK'
  BY <1>1, <1>2 DEF OrchTypeOK
<1>5. /\ nodeAt'[n] = "fulfilled" /\ stageResults'[n] = content
      /\ \A k \in PlanNode : k # n => nodeAt'[k] = nodeAt[k] /\ stageResults'[k] = stageResults[k]
  BY <1>1, <1>2 DEF OrchTypeOK
<1>6. ASSUME NEW k \in PlanNode PROVE NodeInv(k)'
  <2>1. NodeInv(k) BY <1>2
  <2>2. CASE k # n BY <1>1, <1>5, <2>1, <2>2 DEF NodeInv, Untouched
  <2>3. CASE k = n BY <1>1, <1>2, <1>5, <2>1, <2>3 DEF NodeInv, StageOf
  <2>4. QED BY <2>2, <2>3
<1>7. GatesInv'
  <2>1. \A k \in PlanNode : nodeAt[k] \in {"gating", "settled"} \/ nodeAt'[k] \in {"gating", "settled"} =>
          nodeAt'[k] = nodeAt[k] /\ stageResults'[k] = stageResults[k]
    BY <1>1, <1>5
  <2>2. \A c : Judged(c)' = Judged(c) BY <1>1, <1>2, <2>1 DEF Judged
  <2>3. QED BY <1>1, <1>2, <2>2 DEF GatesInv
<1>8. QED BY <1>3, <1>4, <1>6, <1>7 DEF OrchIInv

(* A finished stage is judged at once: who passes, who fails for good and  *)
(* who is called again.                                                    *)
LEMMA GatesWell ==
  ASSUME OrchIInv, AppliesGates
  PROVE  OrchIInv'
<1> DEFINE gated == (Stage \cap Gated) \ Broken
           passing == {n \in gated : stageResults[n] = "passes"}
           failing == gated \ passing
           again == IF RetryCap > 0 THEN gated \ passing ELSE {}
<1>1. /\ orchAt = "running" /\ \A n \in Stage : nodeAt[n] \in {"fulfilled", "rejected"}
      /\ UNCHANGED <<taskDag, stageIdx, stageResults, allResults, reviews, reviewOutcome>>
  BY DEF AppliesGates, StageExecuted
<1>2. /\ OrchTypeOK /\ PlanInv /\ RetriesInv /\ ReviewInv /\ GatesInv
      /\ stageIdx \in {1, 2} /\ taskDag \subseteq PlanNode
      /\ Stage = {n \in taskDag : StageOf(n) = stageIdx}
      /\ \A n \in PlanNode : NodeInv(n)
      /\ \A n \in PlanNode : nodeAt[n] \in {"executing", "fulfilled", "rejected", "gating"} =>
           n \in Stage
      /\ \A n \in Stage : triggered[n] > 0 /\ allResults[n] = "none"
  BY <1>1, RunningStage
<1>3. CASE \E n \in Stage : nodeAt[n] = "rejected"
  <2>1. orchAt' = "threw" /\ UNCHANGED <<nodeAt, attempts, counts, stageDetails, triggered>>
    BY <1>3 DEF AppliesGates
  <2>2. OrchTypeOK' /\ RetriesInv' BY <1>1, <1>2, <2>1 DEF OrchTypeOK, RetriesInv
  <2>3. PlanInv' /\ ReviewInv' BY <1>1, <1>2, <2>1, PlanStays, NoVerdictYet
  <2>4. ASSUME NEW n \in PlanNode PROVE NodeInv(n)'
    <3>1. NodeInv(n) /\ nodeAt[n] \notin {"executing", "gating"} BY <1>1, <1>2
    <3>2. QED BY <1>1, <2>1, <3>1 DEF NodeInv, Untouched
  <2>5. GatesInv' BY <1>1, <1>2, <2>1 DEF GatesInv, Judged
  <2>6. QED BY <2>2, <2>3, <2>4, <2>5 DEF OrchIInv
<1>4. CASE ~ \E n \in Stage : nodeAt[n] = "rejected"
  <2>1. /\ nodeAt' = [n \in PlanNode |-> IF n \notin Stage THEN nodeAt[n]
                                          ELSE IF n \in again THEN "gating"
                                          ELSE IF n \in Broken THEN "rejected"
                                          ELSE "settled"]
        /\ attempts' = [n \in PlanNode |-> IF n \in again THEN 0 ELSE attempts[n]]
        /\ Added(Cardinality(passing), Cardinality(failing), Cardinality(again))
        /\ Calls1(again)
        /\ orchAt' = IF Stage \cap Broken = {} THEN "running" ELSE "threw"
    BY <1>1, <1>4 DEF AppliesGates
  <2>2. \A n \in Stage : nodeAt[n] = "fulfilled" /\ stageResults[n] \in Content
    BY <1>1, <1>2, <1>4 DEF NodeInv
  <2>3. /\ passing \subseteq PlanNode /\ failing \subseteq PlanNode /\ again \subseteq failing
        /\ again \subseteq Stage /\ passing \subseteq Stage /\ failing \subseteq Stage
        /\ failing = {n \in gated : stageResults[n] = "fails"}
        /\ \A n \in again : n \in Gated \ Broken /\ stageResults[n] = "fails"
    BY <1>2, <2>2 DEF Content
  <2>4. IsFiniteSet(PlanNode)
    BY OrchestrateAssumption, FS_Interval DEF PlanNode
  <2> HIDE DEF passing, failing, again
  <2>5. /\ IsFiniteSet(passing) /\ IsFiniteSet(failing) /\ IsFiniteSet(again)
        /\ Cardinality(passing) \in Nat /\ Cardinality(failing) \in Nat
    BY <2>3, <2>4, FS_Subset, FS_CardinalityType
  <2>6. /\ RetriesInv'
        /\ counts' \in [passed : Nat, failed : Nat, retries : Nat]
        /\ counts'.passed = counts.passed + Cardinality(passing)
        /\ counts'.failed = counts.failed + Cardinality(failing)
        /\ triggered' \in [PlanNode -> Nat]
        /\ \A n \in PlanNode : triggered'[n] = triggered[n] + IF n \in again THEN 1 ELSE 0
    <3>1. counts.passed \in Nat /\ counts.failed \in Nat BY <1>2 DEF OrchTypeOK
    <3>2. counts.passed + Cardinality(passing) \in Nat /\ counts.failed + Cardinality(failing) \in Nat
      BY <2>5, <3>1
    <3>3. again \in SUBSET PlanNode /\ \A n \in again : triggered[n] > 0 BY <1>2, <2>3
    <3>4. stageIdx >= 1 /\ stageIdx' = stageIdx /\ Cardinality(passing) \in Int /\ Cardinality(failing) \in Int
      BY <1>1, <1>2, <2>5
    <3>5. QED BY <1>2, <2>1, <2>5, <3>2, <3>3, <3>4, RetriesCount
  <2>7. PlanInv' /\ ReviewInv' BY <1>1, <1>2, <2>1, PlanStays, NoVerdictYet
  <2>8. OrchTypeOK'
    <3>1. attempts' \in [PlanNode -> 0 .. RetryCap]
      <4>1. attempts \in [PlanNode -> 0 .. RetryCap] /\ 0 \in 0 .. RetryCap
        BY <1>2, OrchestrateAssumption DEF OrchTypeOK
      <4>2. QED BY <2>1, <4>1
    <3>2. nodeAt' \in [PlanNode -> {"waiting", "executing", "fulfilled", "rejected",
                                    "gating", "settled"}]
      BY <1>2, <2>1 DEF OrchTypeOK
    <3>3. QED BY <1>1, <1>2, <2>1, <2>6, <3>1, <3>2 DEF OrchTypeOK
  <2>9. ASSUME NEW n \in PlanNode PROVE NodeInv(n)'
    <3>1. NodeInv(n) BY <1>2
    <3>2. CASE n \in Stage
      <4>1. triggered'[n] > 0
        BY <1>2, <2>6, <3>2 DEF OrchTypeOK
      <4>2. /\ n \in taskDag' /\ StageOf(n) = stageIdx'
            /\ nodeAt'[n] \in {"gating", "rejected", "settled"}
            /\ stageResults'[n] \in Content
            /\ nodeAt'[n] = "gating" => n \in again
            /\ allResults'[n] = "none" /\ orchAt' \in {"running", "threw"}
        BY <1>1, <1>2, <2>1, <2>2, <3>2
      <4>3. orchAt' # "running" => GateThrew' BY <1>1, <1>2, <2>1 DEF GateThrew
      <4>4. QED BY <1>1, <2>3, <4>1, <4>2, <4>3 DEF NodeInv, StageOf
    <3>3. CASE n \notin Stage
      <4>1. nodeAt'[n] = nodeAt[n] /\ triggered'[n] = triggered[n]
        BY <1>2, <2>1, <2>3, <2>6, <3>3 DEF OrchTypeOK
      <4>2. ~(n \in taskDag /\ StageOf(n) = stageIdx) BY <1>2, <3>3
      <4>3. QED BY <1>1, <2>1, <3>1, <4>1, <4>2 DEF NodeInv, Untouched
    <3>4. QED BY <3>2, <3>3
  <2>10. ASSUME NEW c \in Content, NEW new, new = {n \in gated : stageResults[n] = c},
                IsFiniteSet(new)
         PROVE  Cardinality(Judged(c)') = Cardinality(Judged(c)) + Cardinality(new)
    <3>1. Judged(c)' = Judged(c) \cup new
      <4>1. \A n \in Stage : /\ nodeAt'[n] \in {"gating", "settled", "rejected"}
                             /\ nodeAt'[n] = "rejected" <=> n \in Broken
        BY <1>2, <2>1, <2>3
      <4>2. \A n \in taskDag \ Stage : ~(StageOf(n) = stageIdx) BY <1>2
      <4>3. ASSUME NEW n \in taskDag PROVE n \in Judged(c)' <=> n \in Judged(c) \cup new
        <5>1. CASE n \in Stage BY <1>1, <1>2, <2>2, <2>10, <4>1, <4>3, <5>1 DEF Judged
        <5>2. CASE n \notin Stage BY <1>1, <1>2, <2>10, <4>2, <4>3, <5>2 DEF Judged
        <5>3. QED BY <5>1, <5>2
      <4>4. Judged(c)' \subseteq taskDag /\ Judged(c) \cup new \subseteq taskDag
        BY <1>1, <1>2, <2>10 DEF Judged
      <4>5. QED BY <4>3, <4>4
    <3>2. Judged(c) \cap new = {}
      BY <1>1, <1>2, <2>2, <2>10 DEF Judged
    <3>3. IsFiniteSet(Judged(c))
      <4>1. Judged(c) \subseteq PlanNode BY <1>2 DEF Judged
      <4>2. QED BY <2>4, <4>1, FS_Subset
    <3>4. Cardinality(Judged(c) \cup new) = Cardinality(Judged(c)) + Cardinality(new) - Cardinality({})
      BY <2>10, <3>2, <3>3, FS_Union
    <3>5. QED BY <2>10, <3>1, <3>3, <3>4, FS_EmptySet, FS_CardinalityType
  <2>11. GatesInv'
    <3>1. /\ Cardinality(Judged("passes")') = Cardinality(Judged("passes")) + Cardinality(passing)
          /\ Cardinality(Judged("fails")') = Cardinality(Judged("fails")) + Cardinality(failing)
      BY <2>3, <2>5, <2>10 DEF Content, passing
    <3>2. QED BY <1>2, <2>6, <3>1 DEF GatesInv
  <2>12. QED BY <2>6, <2>7, <2>8, <2>9, <2>11 DEF OrchIInv
<1>5. QED BY <1>3, <1>4

(* A retry for a gate passes, is made again, or was the last.              *)
LEMMA RetryWell ==
  ASSUME OrchIInv, NEW n \in PlanNode, NEW content, GateRetryAnswers(n, content)
  PROVE  OrchIInv'
<1>1. /\ orchAt \in {"running", "threw"} /\ orchAt' = orchAt /\ nodeAt[n] = "gating"
      /\ UNCHANGED <<taskDag, stageIdx, allResults, reviews, reviewOutcome>>
  BY DEF GateRetryAnswers
<1>2. /\ OrchTypeOK /\ PlanInv /\ RetriesInv /\ ReviewInv /\ GatesInv
      /\ stageIdx \in {1, 2} /\ taskDag \subseteq PlanNode
      /\ \A k \in PlanNode : NodeInv(k)
      /\ n \in taskDag /\ StageOf(n) = stageIdx
      /\ triggered[n] > 0
  BY <1>1, RunningStage
<1>3. PlanInv' /\ ReviewInv' /\ GateThrew' = GateThrew
  BY <1>1, <1>2, PlanStays, NoVerdictYet DEF GateThrew
<1>4. n \in Gated /\ stageResults[n] = "fails" /\ allResults[n] = "none"
  BY <1>1, <1>2 DEF NodeInv
<1>5. /\ counts \in [passed : Nat, failed : Nat, retries : Nat] /\ triggered \in [PlanNode -> Nat]
      /\ attempts \in [PlanNode -> 0 .. RetryCap] /\ RetryCap \in Nat
      /\ counts.passed \in Nat /\ counts.failed \in Nat /\ stageIdx >= 1
  BY <1>2, OrchestrateAssumption DEF OrchTypeOK
<1>6. \A c : IsFiniteSet(Judged(c)) /\ Cardinality(Judged(c)) \in Nat
  <2>1. IsFiniteSet(PlanNode) BY OrchestrateAssumption, FS_Interval DEF PlanNode
  <2>2. \A c : Judged(c) \subseteq PlanNode BY <1>2 DEF Judged
  <2>3. QED BY <2>1, <2>2, FS_Subset, FS_CardinalityType
<1>7. CASE content = "passes" /\ GateRetryPasses(n) /\ nodeAt' = [nodeAt EXCEPT ![n] = "settled"]
           /\ UNCHANGED <<attempts, triggered>>
  <2>1. stageResults' = [stageResults EXCEPT ![n] = "passes"] /\ Added(1, -1, 0)
    BY <1>7 DEF GateRetryPasses
  <2>2. n \in Judged("fails") /\ n \notin Judged("passes")
    BY <1>1, <1>2, <1>4 DEF Judged
  <2>3. counts.failed + (-1) \in Nat
    <3>1. Judged("fails") # {} BY <2>2
    <3>2. Cardinality(Judged("fails")) # 0 BY <1>6, <3>1, FS_EmptySet
    <3>3. QED BY <1>2, <1>5, <3>2 DEF GatesInv
  <2>4. /\ RetriesInv'
        /\ counts' \in [passed : Nat, failed : Nat, retries : Nat]
        /\ counts'.passed = counts.passed + 1 /\ counts'.failed = counts.failed + (-1)
    <3>1. IsFiniteSet({}) /\ Cardinality({}) = 0 BY FS_EmptySet
    <3>2. Calls1({})
      <4>1. triggered = [k \in PlanNode |-> triggered[k] + 0] BY <1>5
      <4>2. QED BY <1>7, <4>1 DEF Calls1
    <3>3. Added(1, -1, Cardinality({})) BY <2>1, <3>1
    <3>4. counts.passed + 1 \in Nat /\ stageIdx' = stageIdx /\ -1 \in Int BY <1>1, <1>5
    <3>5. {} \in SUBSET PlanNode /\ \A k \in {} : triggered[k] > 0 OBVIOUS
    <3>6. OrchTypeOK /\ RetriesInv /\ stageIdx >= 1 BY <1>2, <1>5
    <3>7. QED BY <2>3, <3>1, <3>2, <3>3, <3>4, <3>5, <3>6, RetriesCount
  <2>5. /\ nodeAt'[n] = "settled" /\ stageResults'[n] = "passes"
        /\ \A k \in PlanNode : k # n => nodeAt'[k] = nodeAt[k] /\ stageResults'[k] = stageResults[k]
        /\ triggered' = triggered /\ attempts' = attempts
    BY <1>2, <1>7, <2>1 DEF OrchTypeOK
  <2>6. OrchTypeOK' BY <1>1, <1>2, <1>7, <2>1, <2>4 DEF OrchTypeOK, Content
  <2>7. ASSUME NEW k \in PlanNode PROVE NodeInv(k)'
    <3>1. NodeInv(k) BY <1>2
    <3>2. CASE k # n BY <1>1, <1>3, <2>5, <3>1, <3>2 DEF NodeInv, Untouched
    <3>3. CASE k = n BY <1>1, <1>2, <2>5, <3>1, <3>3 DEF NodeInv, StageOf, Content
    <3>4. QED BY <3>2, <3>3
  <2>8. /\ Judged("passes")' = Judged("passes") \cup {n}
        /\ Judged("fails")' = Judged("fails") \ {n}
    <3>1. \A k \in PlanNode \ {n} : nodeAt'[k] = nodeAt[k] /\ stageResults'[k] = stageResults[k]
      BY <2>5
    <3>2. ASSUME NEW k \in taskDag
          PROVE  /\ k \in Judged("passes")' <=> k \in Judged("passes") \cup {n}
                 /\ k \in Judged("fails")' <=> k \in Judged("fails") \ {n}
      <4>1. CASE k = n BY <1>1, <1>2, <1>4, <2>5, <4>1 DEF Judged
      <4>2. CASE k # n BY <1>1, <1>2, <3>1, <4>2 DEF Judged
      <4>3. QED BY <4>1, <4>2
    <3>3. \A c : Judged(c)' \subseteq taskDag /\ Judged(c) \subseteq taskDag BY <1>1 DEF Judged
    <3>4. QED BY <1>2, <3>2, <3>3
  <2>9. GatesInv'
    <3>1. Cardinality(Judged("passes") \cup {n}) = Cardinality(Judged("passes")) + 1
      BY <1>6, <2>2, FS_AddElement
    <3>2. Cardinality(Judged("fails") \ {n}) = Cardinality(Judged("fails")) - 1
      BY <1>6, <2>2, FS_RemoveElement
    <3>3. QED BY <1>2, <1>5, <1>6, <2>4, <2>8, <3>1, <3>2 DEF GatesInv
  <2>10. QED BY <1>3, <2>4, <2>6, <2>7, <2>9 DEF OrchIInv
<1>8. CASE attempts[n] + 1 < RetryCap /\ attempts' = [attempts EXCEPT ![n] = @ + 1]
           /\ Added(0, 0, 1) /\ Calls1({n}) /\ UNCHANGED <<nodeAt, stageResults>>
  <2>1. /\ RetriesInv'
        /\ counts' \in [passed : Nat, failed : Nat, retries : Nat]
        /\ counts'.passed = counts.passed + 0 /\ counts'.failed = counts.failed + 0
        /\ triggered' \in [PlanNode -> Nat]
        /\ \A k \in PlanNode : triggered'[k] = triggered[k] + IF k \in {n} THEN 1 ELSE 0
    <3>1. IsFiniteSet({n}) /\ Cardinality({n}) = 1 BY FS_Singleton
    <3>2. Added(0, 0, Cardinality({n})) BY <1>8, <3>1
    <3>3. counts.passed + 0 \in Nat /\ counts.failed + 0 \in Nat /\ stageIdx' = stageIdx BY <1>1, <1>5
    <3>4. QED BY <1>2, <1>5, <1>8, <3>1, <3>2, <3>3, RetriesCount
  <2>2. attempts' \in [PlanNode -> 0 .. RetryCap]
    <3>1. attempts[n] + 1 \in 0 .. RetryCap BY <1>5, <1>8
    <3>2. QED BY <1>5, <1>8, <3>1
  <2>3. OrchTypeOK' BY <1>1, <1>2, <1>8, <2>1, <2>2 DEF OrchTypeOK
  <2>4. ASSUME NEW k \in PlanNode PROVE NodeInv(k)'
    <3>1. NodeInv(k) /\ (triggered[k] > 0 => triggered'[k] > 0)
          /\ (k = n \/ triggered'[k] = triggered[k])
      BY <1>2, <1>5, <2>1
    <3>2. ~Untouched(n) BY <1>1 DEF Untouched
    <3>3. QED BY <1>1, <1>3, <1>8, <3>1, <3>2 DEF NodeInv, Untouched
  <2>5. GatesInv' BY <1>1, <1>2, <1>5, <1>8, <2>1 DEF GatesInv, Judged
  <2>6. QED BY <1>3, <2>1, <2>3, <2>4, <2>5 DEF OrchIInv
<1>9. CASE nodeAt' = [nodeAt EXCEPT ![n] = "settled"]
           /\ UNCHANGED <<attempts, triggered, stageResults, counts, stageDetails>>
  <2>1. /\ nodeAt'[n] = "settled"
        /\ \A k \in PlanNode : k # n => nodeAt'[k] = nodeAt[k]
    BY <1>2, <1>9 DEF OrchTypeOK
  <2>2. OrchTypeOK' /\ RetriesInv' BY <1>1, <1>2, <1>9 DEF OrchTypeOK, RetriesInv
  <2>3. ASSUME NEW k \in PlanNode PROVE NodeInv(k)'
    <3>1. NodeInv(k) BY <1>2
    <3>2. CASE k # n BY <1>1, <1>3, <1>9, <2>1, <3>1, <3>2 DEF NodeInv, Untouched
    <3>3. CASE k = n BY <1>1, <1>2, <1>4, <1>9, <2>1, <3>1, <3>3 DEF NodeInv, StageOf, Content
    <3>4. QED BY <3>2, <3>3
  <2>4. \A c : Judged(c)' = Judged(c)
    <3>1. \A k \in PlanNode : nodeAt'[k] \in {"gating", "settled"} <=> nodeAt[k] \in {"gating", "settled"}
      BY <1>1, <2>1
    <3>2. QED BY <1>1, <1>2, <1>9, <3>1 DEF Judged
  <2>5. GatesInv' BY <1>2, <1>9, <2>4 DEF GatesInv
  <2>6. QED BY <1>3, <2>2, <2>3, <2>5 DEF OrchIInv
<1>10. QED BY <1>7, <1>8, <1>9 DEF GateRetryAnswers

(* The next stage begins with all before it final, or all of it is over.   *)
LEMMA EndsWell ==
  ASSUME OrchIInv, StageEnds
  PROVE  OrchIInv'
<1>1. /\ orchAt = "running" /\ \A n \in Stage : nodeAt[n] = "settled"
      /\ allResults' = [n \in PlanNode |-> IF n \in Stage THEN stageResults[n] ELSE allResults[n]]
      /\ UNCHANGED <<taskDag, counts, reviews, reviewOutcome>>
  BY DEF StageEnds
<1>2. /\ OrchTypeOK /\ PlanInv /\ RetriesInv /\ ReviewInv /\ GatesInv
      /\ stageIdx \in {1, 2} /\ taskDag \subseteq PlanNode
      /\ Stage = {n \in taskDag : StageOf(n) = stageIdx}
      /\ \A n \in PlanNode : NodeInv(n)
      /\ \A n \in PlanNode : nodeAt[n] \in {"executing", "fulfilled", "rejected", "gating"} =>
           n \in Stage
      /\ \A n \in Stage : triggered[n] > 0 /\ allResults[n] = "none"
  BY <1>1, RunningStage
<1>3. /\ stageIdx < Len(stages) => stageIdx = 1 /\ stages[2] = {n \in taskDag : StageOf(n) = 2}
      /\ Len(stages) \in {1, 2}
  BY <1>1, <1>2, StageThatRuns
<1>4. PICK m \in 1 .. MaxIntents :
        taskDag = 0 .. m - 1 /\ Len(stages) = LastStage(m) /\ stageIdx \in 1 .. LastStage(m)
  BY <1>1, <1>2, StageThatRuns
<1>5. /\ \A n \in Stage : stageResults[n] \in Content /\ allResults'[n] = stageResults[n]
      /\ \A n \in PlanNode \ Stage : allResults'[n] = allResults[n]
      /\ allResults' \in [PlanNode -> Content \cup {"none"}]
  <2>1. \A n \in Stage : stageResults[n] \in Content BY <1>1, <1>2 DEF NodeInv
  <2>2. allResults \in [PlanNode -> Content \cup {"none"}] BY <1>2 DEF OrchTypeOK
  <2>3. QED BY <1>1, <1>2, <2>1, <2>2
<1>6. \A c \in Content : Judged(c) =
        {n \in taskDag \cap Gated : allResults'[n] = c}
  <2>1. ASSUME NEW c \in Content, NEW n \in taskDag
        PROVE  (IF allResults[n] # "none" THEN allResults[n] = c
                ELSE /\ StageOf(n) = stageIdx /\ nodeAt[n] \in {"gating", "settled"}
                     /\ stageResults[n] = c)
               <=> allResults'[n] = c
    <3>1. CASE n \in Stage BY <1>1, <1>2, <1>5, <3>1
    <3>2. CASE n \notin Stage
      <4>1. ~(StageOf(n) = stageIdx) /\ allResults'[n] = allResults[n] /\ c # "none"
        BY <1>2, <1>5, <2>1, <3>2 DEF Content
      <4>2. QED BY <4>1
    <3>3. QED BY <3>1, <3>2
  <2>2. QED BY <2>1 DEF Judged
<1>7. CASE stageIdx < Len(stages)
  <2> DEFINE nodes == {n \in taskDag : StageOf(n) = 2}
  <2>1. stageIdx = 1 /\ stages[2] = nodes BY <1>3, <1>7
  <2>2. StartsStage(stageIdx + 1, nodes) /\ orchAt' = "running"
    BY <1>7, <2>1, SMTT(20) DEF StageEnds
  <2>3. \A n \in nodes : n \in PlanNode /\ Untouched(n)
    BY <1>2, <2>1 DEF NodeInv
  <2>4. /\ RetriesInv' /\ stageIdx' = 2
        /\ nodeAt' \in [PlanNode -> {"waiting", "executing", "fulfilled", "rejected",
                                     "gating", "settled"}]
        /\ attempts' \in [PlanNode -> 0 .. RetryCap]
        /\ stageResults' \in [PlanNode -> Content \cup {"none"}]
        /\ triggered' \in [PlanNode -> Nat]
        /\ \A n \in PlanNode : /\ triggered'[n] = IF n \in nodes THEN 1 ELSE triggered[n]
                               /\ nodeAt'[n] = IF n \in nodes THEN "executing" ELSE nodeAt[n]
    <3>1. nodes \in SUBSET PlanNode /\ \A n \in nodes : triggered[n] = 0
      BY <2>3 DEF Untouched
    <3>2. counts' = counts BY <1>1
    <3> HIDE DEF nodes
    <3>3. QED BY <1>2, <2>1, <2>2, <3>1, <3>2, StageStarts
  <2>5. OrchTypeOK' BY <1>1, <1>2, <1>5, <2>2, <2>4 DEF OrchTypeOK
  <2>6. ReviewInv' BY <1>1, <1>2, <2>2, NoVerdictYet
  <2>7. PlanInv'
    <3>1. stageIdx' \in 1 .. LastStage(m) BY <1>3, <1>4, <1>7, <2>1, <2>4 DEF LastStage
    <3>2. QED BY <1>1, <1>4, <2>2, <3>1 DEF PlanInv
  <2>8. ASSUME NEW n \in PlanNode PROVE NodeInv(n)'
    <3>1. NodeInv(n) BY <1>2
    <3>2. CASE n \notin taskDag
      <4>1. Untouched(n) /\ n \notin nodes /\ n \notin Stage BY <1>2, <3>1, <3>2 DEF NodeInv
      <4>2. Untouched(n)' BY <1>5, <2>4, <4>1 DEF Untouched
      <4>3. n \notin taskDag' BY <1>1, <3>2
      <4>4. QED BY <4>2, <4>3 DEF NodeInv
    <3>3. CASE n \in nodes
      <4>1. n \in taskDag /\ StageOf(n) = 2 /\ n \notin Stage /\ allResults[n] = "none"
        BY <1>2, <2>1, <2>3, <3>3 DEF Untouched
      <4>2. /\ triggered'[n] = 1 /\ nodeAt'[n] = "executing" /\ allResults'[n] = "none"
            /\ n \in taskDag' /\ StageOf(n) = 2
        BY <1>1, <1>5, <2>4, <3>3, <4>1
      <4>3. QED BY <2>2, <2>4, <4>2 DEF NodeInv, StageOf
    <3>4. CASE n \in taskDag \ nodes
      <4>1. n \in Stage /\ StageOf(n) = 1 BY <1>2, <2>1, <3>4 DEF StageOf
      <4>2. /\ triggered'[n] > 0 /\ nodeAt'[n] = "settled" /\ allResults'[n] \in Content
            /\ n \in taskDag'
        BY <1>1, <1>2, <1>5, <2>4, <3>4, <4>1
      <4>3. QED BY <2>2, <2>4, <4>1, <4>2 DEF NodeInv, StageOf
    <3>5. QED BY <3>2, <3>3, <3>4
  <2>9. GatesInv'
    <3>1. \A n \in taskDag : allResults'[n] = "none" => nodeAt'[n] = "executing"
      <4>1. TAKE n \in taskDag
      <4>2. CASE n \in nodes BY <1>2, <2>4, <4>2
      <4>3. CASE n \notin nodes
        <5>1. n \in Stage BY <1>2, <2>1, <4>3 DEF StageOf
        <5>2. allResults'[n] # "none" BY <1>5, <5>1 DEF Content
        <5>3. QED BY <5>2
      <4>4. QED BY <4>2, <4>3
    <3>2. \A c \in Content : Judged(c)' = {n \in taskDag \cap Gated : allResults'[n] = c}
      BY <1>1, <3>1 DEF Judged, Content
    <3>3. QED BY <1>1, <1>2, <1>6, <3>2 DEF GatesInv, Content
  <2>10. QED BY <2>4, <2>5, <2>6, <2>7, <2>8, <2>9 DEF OrchIInv
<1>8. CASE ~(stageIdx < Len(stages))
  <2>1. /\ orchAt' = IF numReviewers > Len(ReviewPool) THEN "threw" ELSE "reviewing"
        /\ UNCHANGED <<stageIdx, nodeAt, attempts, stageResults, stageDetails, triggered>>
    BY <1>8 DEF StageEnds
  <2>2. stageIdx = LastStage(m)
    BY <1>2, <1>3, <1>4, <1>8
  <2>3. OrchTypeOK' BY <1>1, <1>2, <1>5, <2>1 DEF OrchTypeOK
  <2>4. RetriesInv' BY <1>1, <1>2, <2>1 DEF RetriesInv
  <2>5. PlanInv' BY <1>1, <1>4, <2>1, <2>2 DEF PlanInv
  <2>6. ReviewInv'
    <3>1. orchAt' # "returned" /\ (orchAt' = "reviewing" => ~(numReviewers > Len(ReviewPool)))
      BY <2>1
    <3>2. numReviewers \in Nat /\ Len(ReviewPool) \in Nat BY OrchestrateAssumption DEF ReviewPool
    <3>3. reviews \in [DOMAIN reviews -> ReviewReply] BY <1>2 DEF ReviewInv
    <3>4. QED BY <1>1, <3>1, <3>2, <3>3 DEF ReviewInv, MajorityDecides
  <2>7. ASSUME NEW n \in PlanNode PROVE NodeInv(n)'
    <3>1. NodeInv(n) /\ orchAt' \in {"threw", "reviewing"} BY <1>2, <2>1
    <3>2. CASE n \in Stage
      <4>1. /\ nodeAt'[n] = "settled" /\ allResults'[n] \in Content /\ triggered'[n] > 0
            /\ stageResults'[n] \in Content
            /\ n \in taskDag' /\ StageOf(n) = stageIdx'
        BY <1>1, <1>2, <1>5, <2>1, <3>2
      <4>2. QED BY <1>2, <2>1, <3>1, <4>1 DEF NodeInv, StageOf
    <3>3. CASE n \notin Stage
      <4>1. ~(n \in taskDag /\ StageOf(n) = stageIdx) /\ allResults'[n] = allResults[n]
        BY <1>2, <1>5, <3>3
      <4>2. QED BY <1>1, <2>1, <3>1, <4>1 DEF NodeInv, Untouched
    <3>4. QED BY <3>2, <3>3
  <2>8. GatesInv'
    <3>1. \A n \in taskDag : allResults'[n] \in Content
      <4>1. TAKE n \in taskDag
      <4>2. CASE n \in Stage BY <1>5, <4>2
      <4>3. CASE n \notin Stage
        <5>1. StageOf(n) < stageIdx
          <6>1. n \in taskDag /\ StageOf(n) # stageIdx BY <1>2, <4>3
          <6>2. ~(StageOf(n) > stageIdx)
            <7>1. LastStage(m) = 1 => taskDag = {0} BY <1>4, OrchestrateAssumption DEF LastStage
            <7>2. QED BY <1>2, <2>2, <7>1 DEF StageOf, LastStage
          <6>3. QED BY <1>2, <6>1, <6>2 DEF StageOf
        <5>2. allResults[n] \in Content BY <1>2, <5>1 DEF NodeInv
        <5>3. QED BY <1>2, <1>5, <4>3, <5>2
      <4>4. QED BY <4>2, <4>3
    <3>2. \A c \in Content : Judged(c)' = {n \in taskDag \cap Gated : allResults'[n] = c}
      BY <1>1, <3>1 DEF Judged, Content
    <3>3. QED BY <1>1, <1>2, <1>6, <3>2 DEF GatesInv, Content
  <2>9. QED BY <2>3, <2>4, <2>5, <2>6, <2>7, <2>8 DEF OrchIInv
<1>9. QED BY <1>7, <1>8

(* The reviewers answer, and the last answer decides.                      *)
LEMMA ReviewsWell ==
  ASSUME OrchIInv, orchAt = "reviewing",
         UNCHANGED <<taskDag, stageIdx, nodeAt, attempts, stageResults, allResults,
                     counts, stageDetails, triggered>>,
         orchAt' \in {"reviewing", "returned"}, ReviewInv',
         DOMAIN reviews' \subseteq Reviewers, reviewOutcome'.verdict \in {"none", "passed", "needs_reroute"}
  PROVE  OrchIInv'
<1>1. OrchTypeOK' /\ PlanInv' /\ RetriesInv'
  BY DEF OrchIInv, OrchTypeOK, PlanInv, RetriesInv
<1>2. GatesInv'
  BY DEF OrchIInv, GatesInv, Judged
<1>3. \A n \in PlanNode : NodeInv(n)'
  BY DEF OrchIInv, NodeInv, Untouched
<1>4. QED BY <1>1, <1>2, <1>3 DEF OrchIInv

LEMMA ReplyWell ==
  ASSUME OrchIInv, NEW r \in Reviewers, NEW heard \in ReviewReply, ReviewAnswers(r, heard)
  PROVE  OrchIInv'
<1>1. /\ orchAt = "reviewing" /\ orchAt' = orchAt /\ reviewOutcome' = reviewOutcome
      /\ reviews' = [s \in DOMAIN reviews \cup {r} |-> IF s = r THEN heard ELSE reviews[s]]
      /\ UNCHANGED <<taskDag, stageIdx, nodeAt, attempts, stageResults, allResults,
                     counts, stageDetails, triggered>>
  BY DEF ReviewAnswers
<1>2. /\ reviews \in [DOMAIN reviews -> ReviewReply] /\ DOMAIN reviews \subseteq Reviewers
      /\ reviewOutcome.verdict \in {"none", "passed", "needs_reroute"}
      /\ numReviewers <= Len(ReviewPool)
  BY <1>1 DEF OrchIInv, ReviewInv, OrchTypeOK
<1>3. /\ reviews' \in [DOMAIN reviews' -> ReviewReply]
      /\ DOMAIN reviews' \subseteq Reviewers
  BY <1>1, <1>2
<1>4. ReviewInv'
  BY <1>1, <1>2, <1>3 DEF ReviewInv, MajorityDecides
<1>5. QED BY <1>1, <1>2, <1>3, <1>4, ReviewsWell

LEMMA VerdictWell ==
  ASSUME OrchIInv, review
  PROVE  OrchIInv'
<1>1. /\ orchAt = "reviewing" /\ orchAt' = "returned" /\ reviews' = reviews
      /\ DOMAIN reviews = Reviewers
      /\ UNCHANGED <<taskDag, stageIdx, nodeAt, attempts, stageResults, allResults,
                     counts, stageDetails, triggered>>
  BY DEF review
<1>2. reviews \in [Reviewers -> ReviewReply] /\ numReviewers <= Len(ReviewPool)
  BY <1>1 DEF OrchIInv, ReviewInv
<1>3. ReviewInv'
  BY <1>1, <1>2, ReviewDecides DEF ReviewInv
<1>4. reviewOutcome'.verdict \in {"passed", "needs_reroute"}
  BY DEF review
<1>5. QED BY <1>1, <1>3, <1>4, ReviewsWell

LEMMA OrchInitHolds ==
  OrchInit => OrchIInv
<1> SUFFICES ASSUME OrchInit PROVE OrchIInv
  OBVIOUS
<1>1. OrchTypeOK
  BY OrchestrateAssumption DEF OrchInit, OrchTypeOK, NoCounts, NoOutcome, Content
<1>2. RetriesInv
  <2>1. Units(Repeats(triggered)) = {}
    <3>1. \A n \in PlanNode : 1 .. Repeats(triggered)[n] = {} BY DEF OrchInit, Repeats
    <3>2. DOMAIN Repeats(triggered) = PlanNode BY DEF Repeats
    <3>3. QED BY <3>1, <3>2 DEF Units
  <2>2. Units(StageRetries(stageDetails)) = {} BY DEF OrchInit, StageRetries, Units
  <2>3. stageDetails \in Seq(StageDetail) /\ Len(stageDetails) = 0 BY DEF OrchInit
  <2>4. counts.retries = 0 /\ stageIdx = 0 BY DEF OrchInit, NoCounts
  <2>5. QED BY <2>1, <2>2, <2>3, <2>4, FS_EmptySet DEF RetriesInv
<1>3. PlanInv /\ ReviewInv /\ \A n \in PlanNode : NodeInv(n)
  BY DEF OrchInit, PlanInv, ReviewInv, MajorityDecides, NodeInv, Untouched
<1>4. GatesInv
  <2>1. \A c : Judged(c) = {} BY DEF OrchInit, Judged
  <2>2. QED BY <2>1, FS_EmptySet DEF OrchInit, GatesInv, NoCounts
<1>5. QED BY <1>1, <1>2, <1>3, <1>4 DEF OrchIInv

LEMMA OrchNextHolds ==
  OrchIInv /\ [OrchNext]_orchVars => OrchIInv'
<1> SUFFICES ASSUME OrchIInv, [OrchNext]_orchVars PROVE OrchIInv'
  OBVIOUS
<1>1. ASSUME NEW intents \in 1 .. MaxIntents, orchestrate(intents) PROVE OrchIInv'
  BY <1>1, BeginsWell
<1>2. ASSUME NEW n \in PlanNode, ExecutionThrows(n) PROVE OrchIInv'
  BY <1>2, ThrowsWell
<1>3. ASSUME NEW n \in PlanNode, NEW content \in Content, ExecutionAnswers(n, content) PROVE OrchIInv'
  BY <1>3, AnswersWell
<1>4. ASSUME NEW n \in PlanNode, NEW content, GateRetryAnswers(n, content) PROVE OrchIInv'
  BY <1>4, RetryWell
<1>5. CASE AppliesGates BY <1>5, GatesWell
<1>6. CASE StageEnds BY <1>6, EndsWell
<1>7. ASSUME NEW r \in Reviewers, NEW heard \in ReviewReply, ReviewAnswers(r, heard) PROVE OrchIInv'
  BY <1>7, ReplyWell
<1>8. CASE review BY <1>8, VerdictWell
<1>9. CASE UNCHANGED orchVars
  BY <1>9 DEF orchVars, OrchIInv, OrchTypeOK, PlanInv, GatesInv, Judged, RetriesInv, ReviewInv,
              MajorityDecides, NodeInv, GateThrew, Untouched
<1>10. QED BY <1>1, <1>2, <1>3, <1>4, <1>5, <1>6, <1>7, <1>8, <1>9 DEF OrchNext

(* For any plan, retries and replies of reviewers, the metadata orchestrate*)
(* returns is true, no node is called before those it depends on are final *)
(* and none is left running, unless a gate throws beside it, and the       *)
(* majority of the reviewers decides.                                      *)
THEOREM OrchestratorIsRight ==
  OrchSpec => []OrchestrateInv
<1>1. ASSUME OrchIInv PROVE MetadataIsTrue
  <2> DEFINE ended == {n \in taskDag \cap Gated : allResults[n] # "none"}
             begun == {n \in taskDag : triggered[n] > 0}
  <2>1. OrchTypeOK /\ PlanInv /\ GatesInv /\ RetriesInv /\ \A n \in PlanNode : NodeInv(n)
    BY <1>1 DEF OrchIInv
  <2>2. taskDag \subseteq PlanNode BY <2>1 DEF OrchTypeOK
  <2>3. ASSUME orchAt \in {"reviewing", "returned"}
        PROVE  /\ ended = taskDag \cap Gated
               /\ counts.passed = Cardinality({n \in ended : allResults[n] = "passes"})
               /\ counts.failed = Cardinality({n \in ended : allResults[n] = "fails"})
    <3>1. PICK m \in 1 .. MaxIntents : taskDag = 0 .. m - 1 /\ stageIdx = LastStage(m)
      BY <2>1, <2>3 DEF PlanInv
    <3>2. \A n \in taskDag : allResults[n] \in Content
      <4>1. TAKE n \in taskDag
      <4>2. NodeInv(n) BY <2>1, <2>2
      <4>3. StageOf(n) = stageIdx \/ StageOf(n) < stageIdx
        BY <3>1, OrchestrateAssumption DEF StageOf, LastStage
      <4>4. QED BY <2>3, <4>2, <4>3 DEF NodeInv
    <3>3. \A c \in Content : Judged(c) = {n \in taskDag \cap Gated : allResults[n] = c}
      BY <3>2 DEF Judged, Content
    <3>4. ended = taskDag \cap Gated BY <3>2 DEF Content
    <3>5. QED BY <2>1, <3>3, <3>4 DEF GatesInv, Content
  <2>4. Units([n \in begun |-> triggered[n] - 1]) = Units(Repeats(triggered))
    <3> DEFINE few == [n \in begun |-> triggered[n] - 1]
    <3>1. triggered \in [PlanNode -> Nat] BY <2>1 DEF OrchTypeOK
    <3>2. begun \subseteq PlanNode /\ \A n \in PlanNode \ begun : triggered[n] <= 0
      BY <2>1, <2>2, <3>1 DEF NodeInv, Untouched
    <3>3. /\ few \in [begun -> Int] /\ Repeats(triggered) \in [PlanNode -> Int]
          /\ \A n \in begun : Repeats(triggered)[n] = few[n]
          /\ \A n \in PlanNode \ begun : Repeats(triggered)[n] <= 0
      BY <2>2, <3>1, <3>2 DEF Repeats
    <3> HIDE DEF begun, few
    <3>4. Units(Repeats(triggered)) = Units(few) BY <3>2, <3>3, UnitsOfNoMore
    <3>5. QED BY <3>4 DEF few
  <2>5. QED BY <2>1, <2>3, <2>4 DEF MetadataIsTrue, RetriesInv, StageRetries
<1>2. ASSUME OrchIInv PROVE StagesAreSeparate
  <2>1. OrchTypeOK /\ PlanInv /\ \A n \in PlanNode : NodeInv(n)
    BY <1>2 DEF OrchIInv
  <2>2. taskDag \subseteq PlanNode BY <2>1 DEF OrchTypeOK
  <2>3. ASSUME NEW n \in taskDag, triggered[n] > 0, NEW d \in DependsOn(n)
        PROVE  nodeAt[d] = "settled" /\ allResults[d] # "none"
    <3>1. d = 0 /\ StageOf(n) = 2 BY <2>3 DEF DependsOn, StageOf
    <3>2. ~(StageOf(n) > stageIdx) BY <2>1, <2>2, <2>3 DEF NodeInv, Untouched
    <3>3. stageIdx = 2 /\ 0 \in taskDag
      <4>1. orchAt # "idle" BY <2>1, <2>3 DEF PlanInv
      <4>2. QED BY <2>1, <3>1, <3>2, <4>1, StageThatRuns
    <3>4. NodeInv(0) /\ StageOf(0) = 1 BY <2>1, <2>2, <3>3 DEF StageOf
    <3>5. QED BY <3>1, <3>3, <3>4 DEF NodeInv, Content
  <2>4. ASSUME orchAt # "running", NEW n \in taskDag
        PROVE  /\ nodeAt[n] # "executing"
               /\ nodeAt[n] = "gating" =>
                    orchAt = "threw" /\ \E b \in taskDag \cap Broken : DependsOn(b) = DependsOn(n)
    <3>1. NodeInv(n) BY <2>1, <2>2
    <3>2. stageIdx \in {1, 2} /\ StageOf(n) \in {1, 2}
      <4>1. orchAt # "idle" BY <2>1, <2>4 DEF PlanInv
      <4>2. QED BY <2>1, <4>1, StageThatRuns DEF StageOf
    <3>3. CASE StageOf(n) = stageIdx
      <4>1. \A b : StageOf(b) = StageOf(n) => DependsOn(b) = DependsOn(n)
        BY DEF StageOf, DependsOn
      <4>2. QED BY <2>4, <3>1, <3>3, <4>1 DEF NodeInv, GateThrew
    <3>4. CASE StageOf(n) < stageIdx BY <2>4, <3>1, <3>4 DEF NodeInv
    <3>5. CASE StageOf(n) > stageIdx BY <3>1, <3>5 DEF NodeInv, Untouched
    <3>6. QED BY <3>2, <3>3, <3>4, <3>5
  <2>5. QED BY <2>3, <2>4 DEF StagesAreSeparate
<1>3. OrchIInv => OrchestrateInv
  BY <1>1, <1>2 DEF OrchestrateInv, OrchIInv, ReviewInv
<1>4. QED
  BY <1>3, OrchInitHolds, OrchNextHolds, PTL DEF OrchSpec

-----------------------------------------------------------------------------
(* The vault (workers/vault, tui/tui/src): the newest of some rows. *)

NewestOf(ids) == CHOOSE i \in ids : \A j \in ids : j <= i

LEMMA NewestExists ==
  ASSUME NEW n \in Nat, NEW ids \in SUBSET (1 .. n), ids # {}
  PROVE  NewestOf(ids) \in ids /\ \A j \in ids : j <= NewestOf(ids)
<1> DEFINE gaps == {n - i : i \in ids}
<1>1. gaps \subseteq Nat /\ gaps # {}
  <2>1. \A i \in ids : n - i \in Nat OBVIOUS
  <2>2. PICK i \in ids : TRUE OBVIOUS
  <2>3. n - i \in gaps BY <2>2
  <2>4. QED BY <2>1, <2>3
<1>2. IsWellFoundedOn(OpToRel(<, Nat), Nat) BY NatLessThanWellFounded
<1>3. PICK g \in gaps : \A h \in gaps : <<h, g>> \notin OpToRel(<, Nat)
  BY <1>1, <1>2, WFMin
<1>4. \A h \in gaps : ~(h < g) BY <1>1, <1>3 DEF OpToRel
<1>5. PICK i \in ids : g = n - i OBVIOUS
<1>6. \A j \in ids : j <= i
  <2>1. ASSUME NEW j \in ids PROVE j <= i
    <3>1. n - j \in gaps OBVIOUS
    <3>2. ~(n - j < n - i) BY <1>4, <1>5, <3>1
    <3>3. QED BY <3>2
  <2>2. QED BY <2>1
<1>7. QED BY <1>6 DEF NewestOf

(* What a payload is, and the one password that opens it. *)
LEMMA BlobOpens ==
  ASSUME NEW b \in Blob, NEW pw
  PROVE  /\ b[2].password \in Passwords /\ b[3] \in Secrets
         /\ Opens(b, pw) = (IF pw = b[2].password THEN b[3] ELSE Empty)
         /\ (Opens(b, pw) # Empty) <=> pw = b[2].password
<1>1. PICK text \in Secrets, made \in Passwords, salt \in Salt :
        b = payload_to_bytes(encrypt(text, made, salt))
  BY DEF Blob
<1>2. b = <<salt, [password |-> made, salt |-> salt], text>>
  BY <1>1 DEF payload_to_bytes, encrypt, derive_key
<1>3. b[1] = salt /\ b[2] = [password |-> made, salt |-> salt] /\ b[3] = text BY <1>2
<1>4. bytes_to_payload(b) = [salt |-> salt, auth_tag |-> [password |-> made, salt |-> salt],
                             ciphertext |-> text]
  BY <1>3 DEF bytes_to_payload
<1>5. ([password |-> made, salt |-> salt] = [password |-> pw, salt |-> salt]) <=> made = pw
  <2>1. [password |-> made, salt |-> salt].password = made
        /\ [password |-> pw, salt |-> salt].password = pw OBVIOUS
  <2>2. QED BY <2>1
<1>6. Opens(b, pw) = (IF made = pw THEN text ELSE Empty)
  BY <1>4, <1>5 DEF Opens, decrypt, derive_key
<1>7. text # Empty BY VaultAssumption
<1>8. QED BY <1>3, <1>6, <1>7

LEMMA BlobMade ==
  ASSUME NEW text \in Secrets, NEW pw \in Passwords, NEW salt \in Salt
  PROVE  /\ payload_to_bytes(encrypt(text, pw, salt)) \in Blob
         /\ payload_to_bytes(encrypt(text, pw, salt))[2].password = pw
         /\ payload_to_bytes(encrypt(text, pw, salt)) # <<>>
<1>1. payload_to_bytes(encrypt(text, pw, salt)) = <<salt, [password |-> pw, salt |-> salt], text>>
  BY DEF payload_to_bytes, encrypt, derive_key
<1>2. QED BY <1>1 DEF Blob

-----------------------------------------------------------------------------
(* One password made the canary, every worker's row and what is open.      *)
MadeBy(blob) == blob[2].password

OnePassword ==
  /\ vaultOpen # Empty => vaultCanary # <<>> /\ MadeBy(vaultCanary) = vaultOpen
  /\ \A i \in 1 .. Len(vaultRows) : vaultRows[i].by = "worker" =>
       vaultCanary # <<>> /\ MadeBy(vaultRows[i].encrypted_payload) = MadeBy(vaultCanary)

PaneLags ==
  /\ Len(paneRows) <= Len(vaultRows)
  /\ \A i \in 1 .. Len(paneRows) :
       paneRows[i] \in {vaultRows[i], [vaultRows[i] EXCEPT !.is_active = TRUE]}

VaultInv == VaultTypeOK /\ OnePassword /\ PaneLags

LEMMA VaultInitHolds == VaultInit => VaultInv
<1> SUFFICES ASSUME VaultInit PROVE VaultInv
  OBVIOUS
<1>1. vaultRows = <<>> /\ paneRows = <<>> /\ vaultCanary = <<>> /\ vaultOpen = Empty
  BY DEF VaultInit
<1>2. /\ vaultRows \in Seq(VaultRow) /\ paneRows \in Seq(VaultRow)
      /\ Len(vaultRows) = 0 /\ Len(paneRows) = 0
  BY <1>1, EmptySeq
<1>3. QED BY <1>1, <1>2 DEF VaultInv, VaultTypeOK, OnePassword, PaneLags

(* Either program adds a row: the worker under its own password. *)
LEMMA StoreKeeps ==
  ASSUME VaultInv, NEW p \in Providers, NEW s \in Secrets, NEW pw \in Passwords,
         NEW by \in {"worker", "cli"}, by = "worker" => pw = vaultOpen,
         store_key(p, s, pw, by), UNCHANGED <<vaultCanary, vaultOpen, paneRows>>
  PROVE  VaultInv'
<1> DEFINE n == Len(vaultRows)
           blob == payload_to_bytes(encrypt(s, pw, n + 1))
           row == [provider_id |-> p, encrypted_payload |-> blob, is_active |-> TRUE, by |-> by]
<1>1. n \in Nat /\ n < MaxRows /\ vaultRows' = Append(vaultRows, row) /\ vaultRows \in Seq(VaultRow)
  BY LenProperties DEF VaultInv, VaultTypeOK, store_key
<1>2. n + 1 \in Salt BY <1>1, VaultAssumption DEF Salt
<1>3. blob \in Blob /\ MadeBy(blob) = pw BY <1>2, BlobMade DEF MadeBy
<1> HIDE DEF blob
<1>4. row \in VaultRow BY <1>3 DEF VaultRow
<1>5. /\ vaultRows' \in Seq(VaultRow) /\ Len(vaultRows') = n + 1
      /\ \A i \in 1 .. n : vaultRows'[i] = vaultRows[i]
      /\ vaultRows'[n + 1] = row
  BY <1>1, <1>4, AppendProperties
<1>6. VaultTypeOK' BY <1>5 DEF VaultInv, VaultTypeOK
<1>7. row.by = by /\ row.encrypted_payload = blob OBVIOUS
<1>8. by = "worker" => vaultOpen # Empty BY VaultAssumption
<1> HIDE DEF row
<1>9. OnePassword'
  <2>1. ASSUME NEW i \in 1 .. n + 1, vaultRows'[i].by = "worker"
        PROVE  vaultCanary # <<>> /\ MadeBy(vaultRows'[i].encrypted_payload) = MadeBy(vaultCanary)
    <3>1. CASE i \in 1 .. n BY <1>5, <2>1, <3>1 DEF VaultInv, OnePassword
    <3>2. CASE i = n + 1
      <4>1. vaultRows'[i] = row /\ by = "worker" BY <1>5, <1>7, <2>1, <3>2
      <4>2. QED BY <1>3, <1>7, <1>8, <4>1 DEF VaultInv, OnePassword
    <3>3. QED BY <1>1, <3>1, <3>2
  <2>2. QED BY <1>5, <2>1 DEF VaultInv, OnePassword, MadeBy
<1>10. PaneLags'
  <2>1. Len(paneRows) \in Nat /\ Len(paneRows) <= n
    BY LenProperties DEF VaultInv, VaultTypeOK, PaneLags
  <2>2. \A i \in 1 .. Len(paneRows) : vaultRows'[i] = vaultRows[i] BY <1>1, <1>5, <2>1
  <2>3. Len(paneRows) <= n + 1 BY <1>1, <2>1
  <2>4. QED BY <1>5, <2>2, <2>3 DEF VaultInv, PaneLags
<1>11. QED BY <1>6, <1>9, <1>10 DEF VaultInv

(* A row is deactivated: its payload and who stored it stay. *)
LEMMA RemoveKeeps ==
  ASSUME VaultInv, NEW id \in 1 .. MaxRows, keys_remove(id)
  PROVE  VaultInv'
<1> DEFINE n == Len(vaultRows)
           row == [vaultRows[id] EXCEPT !.is_active = FALSE]
<1>1. /\ n \in Nat /\ vaultRows \in Seq(VaultRow) /\ DOMAIN vaultRows = 1 .. n
      /\ UNCHANGED <<vaultCanary, vaultOpen, paneRows>> /\ id \in 1 .. n
      /\ \A i \in 1 .. n : vaultRows[i] \in VaultRow
  BY LenProperties, ElementOfSeq DEF VaultInv, VaultTypeOK, keys_remove, get_key_by_id
<1>2. vaultRows' = [vaultRows EXCEPT ![id] = row]
  BY DEF keys_remove, deactivate_key
<1>3. /\ row \in VaultRow /\ row.by = vaultRows[id].by
      /\ row.encrypted_payload = vaultRows[id].encrypted_payload
  BY <1>1 DEF VaultRow
<1>4. [row EXCEPT !.is_active = TRUE] = [vaultRows[id] EXCEPT !.is_active = TRUE]
  BY <1>1 DEF VaultRow
<1>5. vaultRows[id] \in {row, [vaultRows[id] EXCEPT !.is_active = TRUE]}
  <2>1. vaultRows[id].is_active \in BOOLEAN /\ vaultRows[id] \in VaultRow BY <1>1 DEF VaultRow
  <2>2. CASE vaultRows[id].is_active = TRUE BY <2>1, <2>2 DEF VaultRow
  <2>3. CASE vaultRows[id].is_active = FALSE BY <2>1, <2>3 DEF VaultRow
  <2>4. QED BY <2>1, <2>2, <2>3
<1> HIDE DEF row
<1>6. /\ vaultRows' \in Seq(VaultRow) /\ Len(vaultRows') = n
      /\ \A i \in 1 .. n : vaultRows'[i] = IF i = id THEN row ELSE vaultRows[i]
  BY <1>1, <1>2, <1>3, ExceptSeq
<1>7. VaultTypeOK' BY <1>1, <1>6 DEF VaultInv, VaultTypeOK
<1>8. OnePassword'
  <2>1. \A i \in 1 .. n : /\ vaultRows'[i].by = vaultRows[i].by
                          /\ vaultRows'[i].encrypted_payload = vaultRows[i].encrypted_payload
    BY <1>3, <1>6
  <2>2. QED BY <1>1, <1>6, <2>1 DEF VaultInv, OnePassword, MadeBy
<1>9. PaneLags'
  <2>1. Len(paneRows) \in Nat /\ Len(paneRows) <= n
    BY LenProperties DEF VaultInv, VaultTypeOK, PaneLags
  <2>2. ASSUME NEW i \in 1 .. Len(paneRows)
        PROVE  paneRows[i] \in {vaultRows'[i], [vaultRows'[i] EXCEPT !.is_active = TRUE]}
    <3>1. paneRows[i] \in {vaultRows[i], [vaultRows[i] EXCEPT !.is_active = TRUE]} /\ i \in 1 .. n
      BY <1>1, <2>1 DEF VaultInv, PaneLags
    <3>2. CASE i = id
      <4>1. vaultRows'[i] = row BY <1>6, <3>1, <3>2
      <4>2. QED BY <1>4, <1>5, <3>1, <3>2, <4>1
    <3>3. CASE i # id BY <1>6, <3>1, <3>3
    <3>4. QED BY <3>2, <3>3
  <2>3. QED BY <1>1, <1>6, <2>1, <2>2 DEF PaneLags
<1>10. QED BY <1>7, <1>8, <1>9 DEF VaultInv

(* The canary is only rewritten under the password that made it. *)
LEMMA UnlockKeeps ==
  ASSUME VaultInv, NEW pw \in Passwords, WorkerUnlocks(pw)
  PROVE  VaultInv'
<1> DEFINE s == CHOOSE t \in Secrets : TRUE
<1>1. /\ vaultRows' = vaultRows /\ paneRows' = paneRows /\ vaultOpen' = pw
      /\ vaultCanary' = payload_to_bytes(encrypt(s, pw, 0)) /\ Verifies(pw)
  BY DEF WorkerUnlocks
<1>2. s \in Secrets BY VaultAssumption
<1>3. 0 \in Salt BY VaultAssumption DEF Salt
<1> HIDE DEF s
<1>4. vaultCanary' \in Blob /\ MadeBy(vaultCanary') = pw /\ vaultCanary' # <<>>
  BY <1>1, <1>2, <1>3, BlobMade DEF MadeBy
<1>5. vaultCanary # <<>> => MadeBy(vaultCanary) = pw
  <2>1. vaultCanary # <<>> => vaultCanary \in Blob BY DEF VaultInv, VaultTypeOK
  <2>2. QED BY <1>1, <2>1, BlobOpens DEF Verifies, MadeBy
<1>6. VaultTypeOK' BY <1>1, <1>4 DEF VaultInv, VaultTypeOK
<1>7. OnePassword' BY <1>1, <1>4, <1>5 DEF VaultInv, OnePassword
<1>8. PaneLags' BY <1>1 DEF VaultInv, PaneLags
<1>9. QED BY <1>6, <1>7, <1>8 DEF VaultInv

LEMMA VaultInvStep == VaultInv /\ [VaultNext]_vaultVars => VaultInv'
<1> SUFFICES ASSUME VaultInv, [VaultNext]_vaultVars PROVE VaultInv'
  OBVIOUS
<1>1. ASSUME NEW p \in Providers \cup {Empty}, NEW s \in Secrets \cup {Empty},
             NEW pw \in Passwords \cup {Empty}, keys_add(p, s, pw)
      PROVE  VaultInv'
  <2>1. /\ p \in Providers /\ s \in Secrets /\ pw \in Passwords
        /\ store_key(p, s, pw, "cli") /\ UNCHANGED <<vaultCanary, vaultOpen, paneRows>>
    BY <1>1 DEF keys_add
  <2>2. QED BY <2>1, StoreKeeps
<1>2. ASSUME NEW p \in Providers \cup {Empty}, NEW s \in Secrets \cup {Empty}, WorkerStores(p, s)
      PROVE  VaultInv'
  <2>1. /\ p \in Providers /\ s \in Secrets /\ vaultOpen \in Passwords
        /\ store_key(p, s, vaultOpen, "worker") /\ UNCHANGED <<vaultCanary, vaultOpen, paneRows>>
    BY <1>2 DEF WorkerStores, VaultInv, VaultTypeOK
  <2>2. QED BY <2>1, StoreKeeps
<1>3. ASSUME NEW id \in 1 .. MaxRows, keys_remove(id) PROVE VaultInv'
  BY <1>3, RemoveKeeps
<1>4. refresh_keys => VaultInv'
  <2> SUFFICES ASSUME refresh_keys PROVE VaultInv' OBVIOUS
  <2>1. /\ paneRows' = vaultRows /\ vaultRows' = vaultRows /\ vaultCanary' = vaultCanary
        /\ vaultOpen' = vaultOpen
    BY DEF refresh_keys
  <2>2. Len(vaultRows) \in Nat BY LenProperties DEF VaultInv, VaultTypeOK
  <2>3. PaneLags' BY <2>1, <2>2 DEF PaneLags
  <2>4. QED BY <2>1, <2>3 DEF VaultInv, VaultTypeOK, OnePassword
<1>5. ASSUME NEW pw \in Passwords, WorkerUnlocks(pw) PROVE VaultInv'
  BY <1>5, UnlockKeeps
<1>6. WorkerLocks => VaultInv'
  BY DEF WorkerLocks, VaultInv, VaultTypeOK, OnePassword, PaneLags
<1>7. CASE UNCHANGED vaultVars
  BY <1>7 DEF vaultVars, VaultInv, VaultTypeOK, OnePassword, PaneLags
<1>8. QED BY <1>1, <1>2, <1>3, <1>4, <1>5, <1>6, <1>7 DEF VaultNext

-----------------------------------------------------------------------------
(* What the readers see. *)

LEMMA KeyIsNewest ==
  ASSUME NEW rows, rows \in Seq(VaultRow), NEW p
  PROVE  /\ ActiveIds(rows, p) = {i \in 1 .. Len(rows) : rows[i].provider_id = p /\ rows[i].is_active}
         /\ ActiveIds(rows, p) = {} => get_key(rows, p) = 0
         /\ ActiveIds(rows, p) # {} =>
              /\ get_key(rows, p) \in ActiveIds(rows, p)
              /\ \A j \in ActiveIds(rows, p) : j <= get_key(rows, p)
<1> DEFINE ids == ActiveIds(rows, p)
<1>1. Len(rows) \in Nat /\ DOMAIN rows = 1 .. Len(rows) BY LenProperties
<1>2. ids = {i \in 1 .. Len(rows) : rows[i].provider_id = p /\ rows[i].is_active}
  BY <1>1 DEF ActiveIds
<1>3. ids \in SUBSET (1 .. Len(rows)) BY <1>2
<1>4. ids = {} => get_key(rows, p) = 0 BY DEF get_key
<1>5. ids # {} => get_key(rows, p) = NewestOf(ids) BY DEF get_key, NewestOf
<1>6. ids # {} => NewestOf(ids) \in ids /\ \A j \in ids : j <= NewestOf(ids)
  <2> HIDE DEF ids
  <2>1. QED BY <1>1, <1>3, NewestExists
<1>7. QED BY <1>2, <1>4, <1>5, <1>6

LEMMA ListingAgrees ==
  ASSUME VaultInv, vaultOpen # Empty, NEW p \in Providers
  PROVE  LET shown == keys_list(vaultOpen)
             mine == {k \in DOMAIN shown : /\ vaultRows[shown[k].id].provider_id = p
                                           /\ shown[k].key # "none"}
         IN  IF mine = {} THEN Retrieve(p) = Empty
             ELSE \E k \in mine : /\ \A j \in mine : k <= j
                                  /\ shown[k].key = Retrieve(p)
<1> DEFINE n == Len(vaultRows)
           shown == keys_list(vaultOpen)
           mine == {k \in DOMAIN shown : /\ vaultRows[shown[k].id].provider_id = p
                                         /\ shown[k].key # "none"}
           ids == ActiveIds(vaultRows, p)
           Text(i) == Opens(vaultRows[i].encrypted_payload, vaultOpen)
<1>1. /\ n \in Nat /\ DOMAIN vaultRows = 1 .. n /\ vaultRows \in Seq(VaultRow)
      /\ \A i \in 1 .. n : vaultRows[i] \in VaultRow
  BY LenProperties, ElementOfSeq DEF VaultInv, VaultTypeOK
<1>2. \A k \in 1 .. n : n + 1 - k \in 1 .. n BY <1>1
<1>3. /\ DOMAIN shown = 1 .. n
      /\ \A k \in 1 .. n :
           /\ shown[k].id = n + 1 - k
           /\ shown[k].key = IF vaultRows[n + 1 - k].is_active THEN Text(n + 1 - k) ELSE "none"
  BY <1>1 DEF keys_list, get_all_keys
<1>4. \A i \in 1 .. n : Text(i) # "none"
  <2>1. ASSUME NEW i \in 1 .. n PROVE Text(i) # "none"
    <3>1. vaultRows[i].encrypted_payload \in Blob BY <1>1 DEF VaultRow
    <3>2. Text(i) \in Secrets \cup {Empty} BY <3>1, BlobOpens
    <3>3. QED BY <3>2, VaultAssumption
  <2>2. QED BY <2>1
<1>5. /\ ids = {i \in 1 .. n : vaultRows[i].provider_id = p /\ vaultRows[i].is_active}
      /\ ids = {} => get_key(vaultRows, p) = 0
      /\ ids # {} => /\ get_key(vaultRows, p) \in ids
                     /\ \A j \in ids : j <= get_key(vaultRows, p)
  BY <1>1, KeyIsNewest
<1> HIDE DEF shown, Text, n, ids
<1>6. \A k \in 1 .. n : k \in mine <=> n + 1 - k \in ids
  BY <1>2, <1>3, <1>4, <1>5
<1>7. \A k \in mine : k \in 1 .. n BY <1>3
<1>8. CASE ids = {}
  <2>1. mine = {} BY <1>6, <1>7, <1>8
  <2>2. Retrieve(p) = Empty BY <1>5, <1>8 DEF Retrieve
  <2>3. QED BY <2>1, <2>2 DEF shown
<1>9. CASE ids # {}
  <2> DEFINE id == get_key(vaultRows, p)
             first == n + 1 - id
  <2>1. id \in 1 .. n /\ id \in ids /\ \A j \in ids : j <= id BY <1>5, <1>9
  <2> HIDE DEF id
  <2>2. first \in 1 .. n /\ n + 1 - first = id BY <1>1, <2>1
  <2>3. first \in mine BY <1>6, <2>1, <2>2
  <2>4. \A j \in mine : first <= j
    <3>1. ASSUME NEW j \in mine PROVE first <= j
      <4>1. j \in 1 .. n /\ n + 1 - j \in ids BY <1>6, <1>7
      <4>2. n + 1 - j <= id BY <2>1, <4>1
      <4>3. QED BY <1>1, <2>1, <4>1, <4>2
    <3>2. QED BY <3>1
  <2>5. shown[first].key = Text(id) BY <1>3, <1>5, <2>1, <2>2
  <2>6. Retrieve(p) = Text(id) BY <1>1, <2>1 DEF Retrieve, Text, id
  <2>7. QED BY <2>3, <2>4, <2>5, <2>6 DEF shown
<1>10. QED BY <1>8, <1>9

LEMMA VaultInvSuffices == VaultInv => WorkerKeysOpen /\ ReadersAgree
<1> SUFFICES ASSUME VaultInv PROVE WorkerKeysOpen /\ ReadersAgree
  OBVIOUS
<1>1. /\ DOMAIN vaultRows = 1 .. Len(vaultRows) /\ DOMAIN paneRows = 1 .. Len(paneRows)
      /\ Len(vaultRows) \in Nat /\ Len(paneRows) \in Nat /\ Len(paneRows) <= Len(vaultRows)
      /\ \A i \in 1 .. Len(vaultRows) : vaultRows[i] \in VaultRow
  BY LenProperties, ElementOfSeq DEF VaultInv, VaultTypeOK, PaneLags
<1>2. WorkerKeysOpen
  <2>1. ASSUME NEW pw \in Passwords, vaultCanary # <<>>, Verifies(pw),
               NEW i \in DOMAIN vaultRows, vaultRows[i].by = "worker"
        PROVE  Opens(vaultRows[i].encrypted_payload, pw) # Empty
    <3>1. vaultCanary \in Blob /\ Opens(vaultCanary, pw) # Empty
      BY <2>1 DEF VaultInv, VaultTypeOK, Verifies
    <3>2. MadeBy(vaultCanary) = pw BY <3>1, BlobOpens DEF MadeBy
    <3>3. MadeBy(vaultRows[i].encrypted_payload) = pw
      BY <1>1, <2>1, <3>2 DEF VaultInv, OnePassword
    <3>4. vaultRows[i].encrypted_payload \in Blob BY <1>1, <2>1 DEF VaultRow
    <3>5. QED BY <3>3, <3>4, BlobOpens DEF MadeBy
  <2>2. QED BY <2>1 DEF WorkerKeysOpen
<1>3. ASSUME NEW i \in DOMAIN paneRows
      PROVE  /\ i \in DOMAIN vaultRows
             /\ paneRows[i] \in {vaultRows[i], [vaultRows[i] EXCEPT !.is_active = TRUE]}
  BY <1>1 DEF VaultInv, PaneLags
<1>4. ReadersAgree BY <1>3, ListingAgrees DEF ReadersAgree
<1>5. QED BY <1>2, <1>4

(* What a new row and a removal do to the key in use. *)
LEMMA StoreMovesKey ==
  ASSUME VaultInv, VaultInv', NEW q, NEW s, NEW pw, NEW by, store_key(q, s, pw, by), NEW p
  PROVE  get_key(vaultRows', p) \in {get_key(vaultRows, p), Len(vaultRows) + 1}
<1> DEFINE n == Len(vaultRows)
<1>1. /\ n \in Nat /\ vaultRows \in Seq(VaultRow) /\ vaultRows' \in Seq(VaultRow)
      /\ Len(vaultRows') \in Nat
  BY LenProperties DEF VaultInv, VaultTypeOK
<1>2. /\ Len(vaultRows') = n + 1 /\ vaultRows'[n + 1].provider_id = q
      /\ vaultRows'[n + 1].is_active = TRUE
      /\ \A i \in 1 .. n : vaultRows'[i] = vaultRows[i]
  <2> DEFINE row == [provider_id |-> q,
                     encrypted_payload |-> payload_to_bytes(encrypt(s, pw, n + 1)),
                     is_active |-> TRUE, by |-> by]
  <2>1. vaultRows' = Append(vaultRows, row) BY DEF store_key
  <2>2. vaultRows \in Seq(VaultRow \cup {row}) /\ row \in VaultRow \cup {row}
    BY <1>1, SeqMonotonic
  <2>3. row.provider_id = q /\ row.is_active = TRUE OBVIOUS
  <2> HIDE DEF row
  <2>4. QED BY <2>1, <2>2, <2>3, AppendProperties
<1>3. /\ ActiveIds(vaultRows, p) = {i \in 1 .. n : vaultRows[i].provider_id = p /\ vaultRows[i].is_active}
      /\ ActiveIds(vaultRows', p) =
           {i \in 1 .. n + 1 : vaultRows'[i].provider_id = p /\ vaultRows'[i].is_active}
  BY <1>1, <1>2, KeyIsNewest
<1>4. CASE q = p
  <2>1. n + 1 \in ActiveIds(vaultRows', p) BY <1>1, <1>2, <1>3, <1>4
  <2>2. /\ get_key(vaultRows', p) \in ActiveIds(vaultRows', p)
        /\ n + 1 <= get_key(vaultRows', p)
    BY <1>1, <2>1, KeyIsNewest
  <2>3. get_key(vaultRows', p) \in 1 .. n + 1 BY <1>3, <2>2
  <2>4. get_key(vaultRows', p) = n + 1 BY <1>1, <2>2, <2>3
  <2>5. QED BY <2>4
<1>5. CASE q # p
  <2>1. \A i \in 1 .. n + 1 : i \in 1 .. n \/ i = n + 1 BY <1>1
  <2>2. \A i \in 1 .. n : i \in 1 .. n + 1 BY <1>1
  <2>3. ActiveIds(vaultRows', p) = ActiveIds(vaultRows, p)
    BY <1>2, <1>3, <1>5, <2>1, <2>2
  <2>4. QED BY <2>3 DEF get_key
<1>6. QED BY <1>4, <1>5

LEMMA RemovalMovesKey ==
  ASSUME VaultInv, VaultInv', NEW id \in 1 .. MaxRows, keys_remove(id), NEW p,
         get_key(vaultRows', p) # get_key(vaultRows, p)
  PROVE  /\ get_key(vaultRows', p) < get_key(vaultRows, p)
         /\ ~vaultRows'[get_key(vaultRows, p)].is_active
         /\ \A i \in DOMAIN vaultRows \ {get_key(vaultRows, p)} : vaultRows'[i] = vaultRows[i]
         /\ get_key(vaultRows', p) # 0 => vaultRows[get_key(vaultRows', p)].is_active
<1> DEFINE n == Len(vaultRows)
           before == get_key(vaultRows, p)
           after == get_key(vaultRows', p)
           old == ActiveIds(vaultRows, p)
           new == ActiveIds(vaultRows', p)
<1>1. /\ n \in Nat /\ vaultRows \in Seq(VaultRow) /\ vaultRows' \in Seq(VaultRow)
      /\ DOMAIN vaultRows = 1 .. n /\ id \in 1 .. n /\ vaultRows[id] \in VaultRow
  BY LenProperties, ElementOfSeq DEF VaultInv, VaultTypeOK, keys_remove, get_key_by_id
<1>2. /\ Len(vaultRows') = n /\ vaultRows'[id].is_active = FALSE
      /\ \A i \in 1 .. n : i # id => vaultRows'[i] = vaultRows[i]
  <2> DEFINE row == [vaultRows[id] EXCEPT !.is_active = FALSE]
  <2>1. vaultRows' = [vaultRows EXCEPT ![id] = row] BY DEF keys_remove, deactivate_key
  <2>2. row \in VaultRow /\ row.is_active = FALSE BY <1>1 DEF VaultRow
  <2> HIDE DEF row
  <2>3. QED BY <1>1, <2>1, <2>2, ExceptSeq
<1>3. /\ old = {i \in 1 .. n : vaultRows[i].provider_id = p /\ vaultRows[i].is_active}
      /\ old = {} => before = 0
      /\ old # {} => before \in old /\ \A j \in old : j <= before
  BY <1>1, KeyIsNewest
<1>4. /\ new = {i \in 1 .. n : vaultRows'[i].provider_id = p /\ vaultRows'[i].is_active}
      /\ new = {} => after = 0
      /\ new # {} => after \in new /\ \A j \in new : j <= after
  BY <1>1, <1>2, KeyIsNewest
<1> HIDE DEF old, new, before, after
<1>5. new = old \ {id} BY <1>2, <1>3, <1>4
<1>6. after # before BY DEF before, after
<1>7. old # {} BY <1>3, <1>4, <1>5, <1>6
<1>8. before = id
  <2> SUFFICES ASSUME before # id PROVE FALSE OBVIOUS
  <2>1. before \in new /\ before \in 1 .. n BY <1>3, <1>5, <1>7
  <2>2. after \in old /\ after \in 1 .. n /\ before <= after BY <1>3, <1>4, <1>5, <2>1
  <2>3. after <= before BY <1>3, <1>7, <2>2
  <2>4. QED BY <1>6, <2>1, <2>2, <2>3
<1>9. before \in 1 .. n BY <1>3, <1>7
<1>10. after < before
  <2>1. CASE new = {} BY <1>1, <1>4, <1>9, <2>1
  <2>2. CASE new # {}
    <3>1. after \in old /\ after \in 1 .. n BY <1>3, <1>4, <1>5, <2>2
    <3>2. after <= before BY <1>3, <1>7, <3>1
    <3>3. QED BY <1>6, <1>9, <3>1, <3>2
  <2>3. QED BY <2>1, <2>2
<1>11. after # 0 => vaultRows[after].is_active
  <2>1. after # 0 => after \in old BY <1>4, <1>5
  <2>2. QED BY <1>3, <2>1
<1>12. QED BY <1>1, <1>2, <1>8, <1>10, <1>11 DEF before, after

LEMMA KeyMoves ==
  ASSUME VaultInv, VaultInv', [VaultNext]_vaultVars, NEW p \in Providers,
         get_key(vaultRows', p) # get_key(vaultRows, p)
  PROVE  LET before == get_key(vaultRows, p)
             after == get_key(vaultRows', p)
         IN  \/ after = Len(vaultRows) + 1
             \/ /\ after < before
                /\ ~vaultRows'[before].is_active
                /\ \A i \in DOMAIN vaultRows \ {before} : vaultRows'[i] = vaultRows[i]
                /\ after # 0 => vaultRows[after].is_active
<1>1. ASSUME NEW q, NEW s, NEW pw, NEW by, store_key(q, s, pw, by)
      PROVE  get_key(vaultRows', p) = Len(vaultRows) + 1
  BY <1>1, StoreMovesKey
<1>2. CASE \E id \in 1 .. MaxRows : keys_remove(id)
  <2>1. PICK id \in 1 .. MaxRows : keys_remove(id) BY <1>2
  <2>2. QED BY <2>1, RemovalMovesKey
<1>3. CASE \E q \in Providers \cup {Empty}, s \in Secrets \cup {Empty} :
             \/ \E pw \in Passwords \cup {Empty} : keys_add(q, s, pw)
             \/ WorkerStores(q, s)
  BY <1>1, <1>3 DEF keys_add, WorkerStores
<1>4. vaultRows' # vaultRows OBVIOUS
<1>5. QED
  BY <1>2, <1>3, <1>4 DEF VaultNext, refresh_keys, WorkerUnlocks, WorkerLocks, vaultVars

(* For any passwords given and any number of rows, no worker's key is lost *)
(* to a password that unlocks the vault (vault.ts:31-36).                  *)
THEOREM WorkerKeysStayOpen == VaultSpec => []WorkerKeysOpen
<1>1. VaultInit => VaultInv BY VaultInitHolds
<1>2. VaultInv /\ [VaultNext]_vaultVars => VaultInv' BY VaultInvStep
<1>3. VaultInv => WorkerKeysOpen BY VaultInvSuffices
<1>4. QED BY <1>1, <1>2, <1>3, PTL DEF VaultSpec

(* The tool's listing and the worker's answer name the same key, and the   *)
(* TUI's table only lags (cli.py:117-151, vault.ts:66-86, app.py:70-84).   *)
THEOREM ListingsAgree == VaultSpec => []ReadersAgree
<1>1. VaultInit => VaultInv BY VaultInitHolds
<1>2. VaultInv /\ [VaultNext]_vaultVars => VaultInv' BY VaultInvStep
<1>3. VaultInv => ReadersAgree BY VaultInvSuffices
<1>4. QED BY <1>1, <1>2, <1>3, PTL DEF VaultSpec

(* A provider's key changes only to a new row or, when its row is removed, *)
(* back to an older active one (db.py:75-84, 104-106).                     *)
THEOREM KeyOnlyMovesBack == VaultSpec => KeyInUseMoves
<1> DEFINE Moves ==
      \A p \in Providers :
        LET before == get_key(vaultRows, p)
            after == get_key(vaultRows', p)
        IN  after # before =>
              \/ after = Len(vaultRows) + 1
              \/ /\ after < before
                 /\ ~vaultRows'[before].is_active
                 /\ \A i \in DOMAIN vaultRows \ {before} : vaultRows'[i] = vaultRows[i]
                 /\ after # 0 => vaultRows[after].is_active
<1>1. VaultInit => VaultInv BY VaultInitHolds
<1>2. VaultInv /\ [VaultNext]_vaultVars => VaultInv' BY VaultInvStep
<1>3. VaultInv /\ VaultInv' /\ [VaultNext]_vaultVars => [Moves]_vaultVars
  BY KeyMoves
<1>4. VaultSpec => [][Moves]_vaultVars
  <2> HIDE DEF Moves
  <2>1. QED BY <1>1, <1>2, <1>3, PTL DEF VaultSpec
<1>5. QED BY <1>4 DEF KeyInUseMoves
=============================================================================
