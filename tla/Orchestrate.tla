---------------------------- MODULE Orchestrate ----------------------------
(***************************************************************************)
(* One call of engram::orchestrate (workers/engram/src/orchestrate.ts): a  *)
(* request is planned as nodes, which run stage by stage, all of a stage   *)
(* at once, each with retries; the results of a stage pass quality gates,  *)
(* with retries of their own; and reviewers score what was put together    *)
(* (workers/gateway/src/peer_reviewer.ts). A content is only whether it    *)
(* passes its node's gate. Scores are counted in tenths.                   *)
(***************************************************************************)
EXTENDS Integers, Sequences, FiniteSets

CONSTANTS
  MaxIntents,           \* bounds the intents of a request
  RetryCap,             \* config.retryCap
  Gated,                \* the nodes config.gateSpecs has a gate for
  Broken,               \* those whose gate evaluateGate throws on
  numReviewers,
  consensusThreshold,   \* in tenths
  ReviewScores          \* the numbers a reviewer may write, in tenths

ASSUME OrchestrateAssumption ==
  /\ {MaxIntents, RetryCap} \subseteq Nat
  /\ numReviewers \in Nat /\ consensusThreshold \in 1 .. 10
  /\ Gated \subseteq Nat /\ Broken \subseteq Gated /\ ReviewScores \subseteq Int

VARIABLES
  orchAt,         \* "idle", "running", "reviewing", "returned" or "threw"
  taskDag,        \* the nodes of the plan
  stageIdx,       \* the stage that runs, from 1
  nodeAt,         \* where each node is in its stage
  attempts,       \* failed attempts in the loop the node is in
  stageResults,   \* node -> content, of the stage that runs
  allResults,     \* node -> content, of the stages before
  counts,         \* [passed, failed, retries]: the totals
  stageDetails,   \* for each stage begun, its nodes and its own counts
  triggered,      \* history: how often each node's function was called
  reviews,        \* the replies of the reviewers so far
  reviewOutcome   \* [verdict, consensus, recommended]

orchVars == <<orchAt, taskDag, stageIdx, nodeAt, attempts, stageResults, allResults,
              counts, stageDetails, triggered, reviews, reviewOutcome>>

PlanNode == 0 .. MaxIntents - 1
Content == {"passes", "fails"}
NoCounts == [passed |-> 0, failed |-> 0, retries |-> 0]
NoOutcome == [verdict |-> "none", consensus |-> 0, recommended |-> "none"]

(* SimpleDAGPlanner: the first intent, then all others beside each other.  *)
DependsOn(n) == IF n = 0 THEN {} ELSE {0}

(* computeStages: a node is in the stage after the last of those it        *)
(* depends on. A plan has no cycle and no unknown node.                    *)
computeStages(nodes) ==
  LET done[k \in 0 .. MaxIntents] ==
        IF k = 0 THEN {} ELSE {n \in nodes : DependsOn(n) \subseteq done[k - 1]}
      last == CHOOSE k \in 0 .. MaxIntents :
                done[k] = nodes /\ \A j \in 0 .. k - 1 : done[j] # nodes
  IN  [k \in 1 .. last |-> done[k] \ done[k - 1]]

stages == computeStages(taskDag)
Stage == stages[stageIdx]

(* createReviewWorkerPool's workers, in order. *)
ReviewPool == <<"reviewer-alpha", "reviewer-beta", "reviewer-gamma", "reviewer-delta">>
Capabilities ==
  [r \in {ReviewPool[i] : i \in DOMAIN ReviewPool} |->
     CASE r = "reviewer-alpha" -> {"reasoning", "factual_accuracy"}
       [] r = "reviewer-beta" -> {"hallucination_detection", "consistency"}
       [] r = "reviewer-gamma" -> {"completeness", "relevance"}
       [] r = "reviewer-delta" -> {"security", "robustness"}]

(* selectReviewers: the richest first, which keeps the order where all     *)
(* have two capabilities, and none that adds nothing, which none does.     *)
selectReviewers == SubSeq(ReviewPool, 1, numReviewers)
Reviewers == {selectReviewers[i] : i \in DOMAIN selectReviewers}

(* A reply has a number, has none that is found, or the call throws.       *)
ReviewReply ==
  [kind : {"number"}, score : ReviewScores] \cup [kind : {"unreadable", "throws"}, score : {0}]

OrchTypeOK ==
  /\ orchAt \in {"idle", "running", "reviewing", "returned", "threw"}
  /\ taskDag \in SUBSET PlanNode
  /\ stageIdx \in Nat
  /\ nodeAt \in [PlanNode -> {"waiting", "executing", "fulfilled", "rejected",
                              "gating", "settled"}]
  /\ attempts \in [PlanNode -> 0 .. RetryCap]
  /\ stageResults \in [PlanNode -> Content \cup {"none"}]
  /\ allResults \in [PlanNode -> Content \cup {"none"}]
  /\ counts \in [passed : Nat, failed : Nat, retries : Nat]
  /\ triggered \in [PlanNode -> Nat]
  /\ DOMAIN reviews \subseteq Reviewers
  /\ reviewOutcome.verdict \in {"none", "passed", "needs_reroute"}

OrchInit ==
  /\ orchAt = "idle" /\ taskDag = {} /\ stageIdx = 0
  /\ nodeAt = [n \in PlanNode |-> "waiting"]
  /\ attempts = [n \in PlanNode |-> 0]
  /\ stageResults = [n \in PlanNode |-> "none"]
  /\ allResults = [n \in PlanNode |-> "none"]
  /\ counts = NoCounts /\ stageDetails = <<>>
  /\ triggered = [n \in PlanNode |-> 0]
  /\ reviews = [r \in {} |-> "none"] /\ reviewOutcome = NoOutcome

(* Every counter is kept twice, for the stage and in all. *)
Added(passed, failed, retries) ==
  LET plus(c) == [c EXCEPT !.passed = @ + passed, !.failed = @ + failed, !.retries = @ + retries]
  IN  /\ counts' = plus(counts)
      /\ stageDetails' = [stageDetails EXCEPT ![stageIdx].counts = plus(@)]

Calls1(nodes) == triggered' = [n \in PlanNode |-> triggered[n] + IF n \in nodes THEN 1 ELSE 0]

(* Stage k is begun: its nodes' functions are called. *)
StartsStage(k, nodes) ==
  /\ stageIdx' = k
  /\ nodeAt' = [n \in PlanNode |-> IF n \in nodes THEN "executing" ELSE nodeAt[n]]
  /\ attempts' = [n \in PlanNode |-> IF n \in nodes THEN 0 ELSE attempts[n]]
  /\ stageResults' = [n \in PlanNode |-> "none"]
  /\ stageDetails' = Append(stageDetails, [nodes |-> nodes, counts |-> NoCounts])
  /\ Calls1(nodes)

orchestrate(intents) ==
  /\ orchAt = "idle" /\ orchAt' = "running"
  /\ taskDag' = 0 .. intents - 1
  /\ StartsStage(1, computeStages(0 .. intents - 1)[1])
  /\ UNCHANGED <<allResults, counts, reviews, reviewOutcome>>

(* A node's call throws: it is made again, or the node is given up.        *)
ExecutionThrows(n) ==
  /\ orchAt = "running" /\ nodeAt[n] = "executing"
  /\ IF attempts[n] < RetryCap
     THEN /\ attempts' = [attempts EXCEPT ![n] = @ + 1]
          /\ Added(0, 0, 1) /\ Calls1({n})
          /\ UNCHANGED nodeAt
     ELSE /\ nodeAt' = [nodeAt EXCEPT ![n] = "rejected"]
          /\ UNCHANGED <<attempts, counts, stageDetails, triggered>>
  /\ UNCHANGED <<orchAt, taskDag, stageIdx, stageResults, allResults, reviews, reviewOutcome>>

ExecutionAnswers(n, content) ==
  /\ orchAt = "running" /\ nodeAt[n] = "executing"
  /\ nodeAt' = [nodeAt EXCEPT ![n] = "fulfilled"]
  /\ stageResults' = [stageResults EXCEPT ![n] = content]
  /\ UNCHANGED <<orchAt, taskDag, stageIdx, attempts, allResults, counts, stageDetails,
                 triggered, reviews, reviewOutcome>>

(* Promise.race in place of allSettled: the first failure throws. *)
MutStageExecuted ==
  \/ \E n \in Stage : nodeAt[n] = "rejected"
  \/ \A n \in Stage : nodeAt[n] = "fulfilled"
StageExecuted == \A n \in Stage : nodeAt[n] \in {"fulfilled", "rejected"}

(* After allSettled: a node that was given up ends it all; otherwise every *)
(* gate is evaluated, and the nodes that fail theirs are called again.     *)
(* Nothing has parsed the gates: evaluateGate throws on one with a type it *)
(* does not know or a pattern that is none, which Promise.all passes on    *)
(* while the calls of the others are under way.                            *)
AppliesGates ==
  LET gated == (Stage \cap Gated) \ Broken
      passing == {n \in gated : stageResults[n] = "passes"}
      again == IF RetryCap > 0 THEN gated \ passing ELSE {}
  IN  /\ orchAt = "running" /\ StageExecuted
      /\ IF \E n \in Stage : nodeAt[n] = "rejected"
         THEN /\ orchAt' = "threw"
              /\ UNCHANGED <<nodeAt, attempts, counts, stageDetails, triggered>>
         ELSE /\ nodeAt' = [n \in PlanNode |-> IF n \notin Stage THEN nodeAt[n]
                                                ELSE IF n \in again THEN "gating"
                                                ELSE IF n \in Broken THEN "rejected"
                                                ELSE "settled"]
              /\ attempts' = [n \in PlanNode |-> IF n \in again THEN 0 ELSE attempts[n]]
              /\ Added(Cardinality(passing), Cardinality(gated \ passing), Cardinality(again))
              /\ Calls1(again)
              /\ orchAt' = IF Stage \cap Broken = {} THEN "running" ELSE "threw"
      /\ UNCHANGED <<taskDag, stageIdx, stageResults, allResults, reviews, reviewOutcome>>

(* The failure that was counted stays when the retry passes. *)
MutGateRetryPasses(n) ==
  /\ stageResults' = [stageResults EXCEPT ![n] = "passes"]
  /\ Added(1, 0, 0)
GateRetryPasses(n) ==
  /\ stageResults' = [stageResults EXCEPT ![n] = "passes"]
  /\ Added(1, -1, 0)

(* A retry for a gate answers with a content, or throws, which is caught;  *)
(* also when another's gate has ended the orchestration under it.          *)
GateRetryAnswers(n, content) ==
  /\ orchAt \in {"running", "threw"} /\ nodeAt[n] = "gating"
  /\ \/ /\ content = "passes" /\ GateRetryPasses(n)
        /\ nodeAt' = [nodeAt EXCEPT ![n] = "settled"]
        /\ UNCHANGED <<attempts, triggered>>
     \/ /\ content # "passes" /\ attempts[n] + 1 < RetryCap
        /\ attempts' = [attempts EXCEPT ![n] = @ + 1]
        /\ Added(0, 0, 1) /\ Calls1({n})
        /\ UNCHANGED <<nodeAt, stageResults>>
     \/ /\ content # "passes" /\ attempts[n] + 1 >= RetryCap
        /\ nodeAt' = [nodeAt EXCEPT ![n] = "settled"]
        /\ UNCHANGED <<attempts, triggered, stageResults, counts, stageDetails>>
  /\ UNCHANGED <<orchAt, taskDag, stageIdx, allResults, reviews, reviewOutcome>>

(* After Promise.all(gatePromises): the results are merged, and the next   *)
(* stage begins or the review; which throws where reviewers are too few.   *)
StageEnds ==
  /\ orchAt = "running" /\ \A n \in Stage : nodeAt[n] = "settled"
  /\ allResults' = [n \in PlanNode |-> IF n \in Stage THEN stageResults[n] ELSE allResults[n]]
  /\ IF stageIdx < Len(stages)
     THEN StartsStage(stageIdx + 1, stages[stageIdx + 1]) /\ UNCHANGED orchAt
     ELSE /\ orchAt' = IF numReviewers > Len(ReviewPool) THEN "threw" ELSE "reviewing"
          /\ UNCHANGED <<stageIdx, nodeAt, attempts, stageResults, stageDetails, triggered>>
  /\ UNCHANGED <<taskDag, counts, reviews, reviewOutcome>>

(* A reviewer's call of gateway::route_llm settles. *)
ReviewAnswers(r, reply) ==
  /\ orchAt = "reviewing" /\ r \in Reviewers \ DOMAIN reviews
  /\ reviews' = [s \in DOMAIN reviews \cup {r} |-> IF s = r THEN reply ELSE reviews[s]]
  /\ UNCHANGED <<orchAt, taskDag, stageIdx, nodeAt, attempts, stageResults, allResults,
                 counts, stageDetails, triggered, reviewOutcome>>

Clamped(score) == CASE score < 0 -> 0 [] score > 10 -> 10 [] OTHER -> score

(* A moderate score for what has none, nothing for a reviewer that failed. *)
ScoreOf(reply) ==
  CASE reply.kind = "throws" -> 0
    [] reply.kind = "unreadable" -> 7
    [] reply.kind = "number" -> Clamped(reply.score)

(* The k-th of the values of f in ascending order. *)
Ranked(f, k) ==
  CHOOSE v \in {f[r] : r \in DOMAIN f} :
    /\ Cardinality({r \in DOMAIN f : f[r] < v}) < k
    /\ Cardinality({r \in DOMAIN f : f[r] <= v}) >= k

(* The value before the middle. *)
Mutmedian(f) == 2 * Ranked(f, Cardinality(DOMAIN f) \div 2)

(* Twice the median, as of an even number it is a mean of two. *)
median(f) ==
  LET n == Cardinality(DOMAIN f)
  IN  IF n = 0 THEN 0 ELSE Ranked(f, (n + 1) \div 2) + Ranked(f, n \div 2 + 1)

(* The first of the pool that shares no capability with a reviewer whose   *)
(* score was too low.                                                      *)
Recommended(scores) ==
  LET failing == UNION {Capabilities[r] : r \in {s \in Reviewers : scores[s] < consensusThreshold}}
      able == {i \in DOMAIN ReviewPool : Capabilities[ReviewPool[i]] \cap failing = {}}
  IN  IF able = {} THEN "none" ELSE ReviewPool[CHOOSE i \in able : \A j \in able : i <= j]

review ==
  LET scores == [r \in Reviewers |-> ScoreOf(reviews[r])]
      consensus == median(scores)
  IN  /\ orchAt = "reviewing" /\ DOMAIN reviews = Reviewers
      /\ orchAt' = "returned"
      /\ reviewOutcome' =
           IF consensus < 2 * consensusThreshold
           THEN [verdict |-> "needs_reroute", consensus |-> consensus,
                 recommended |-> Recommended(scores)]
           ELSE [verdict |-> "passed", consensus |-> consensus, recommended |-> "none"]
      /\ UNCHANGED <<taskDag, stageIdx, nodeAt, attempts, stageResults, allResults, counts,
                     stageDetails, triggered, reviews>>

OrchNext ==
  \/ \E intents \in 1 .. MaxIntents : orchestrate(intents)
  \/ \E n \in PlanNode :
       \/ ExecutionThrows(n)
       \/ \E content \in Content : ExecutionAnswers(n, content)
       \/ \E content \in Content \cup {"throws"} : GateRetryAnswers(n, content)
  \/ AppliesGates
  \/ StageEnds
  \/ \E r \in Reviewers, reply \in ReviewReply : ReviewAnswers(r, reply)
  \/ review

OrchSpec == OrchInit /\ [][OrchNext]_orchVars

-----------------------------------------------------------------------------

(* One element for each that the numbers of a function count.              *)
Units(count) == UNION {{x} \X (1 .. count[x]) : x \in DOMAIN count}

(* What the metadata says is so, whichever nodes were called again and in  *)
(* whichever order they answered: a gate counted as failed is a node whose *)
(* content still fails it, one counted as passed a node whose content      *)
(* passes it, and every call but the first of a node is a retry            *)
(* (orchestrate.ts:309-352, 391-408).                                      *)
MetadataIsTrue ==
  LET ended == {n \in taskDag \cap Gated : allResults[n] # "none"}
      begun == {n \in taskDag : triggered[n] > 0}
  IN  /\ orchAt \in {"reviewing", "returned"} =>
           /\ ended = taskDag \cap Gated
           /\ counts.passed = Cardinality({n \in ended : allResults[n] = "passes"})
           /\ counts.failed = Cardinality({n \in ended : allResults[n] = "fails"})
      /\ counts.retries = Cardinality(Units([n \in begun |-> triggered[n] - 1]))
      /\ counts.retries = Cardinality(Units([k \in DOMAIN stageDetails |->
                                               stageDetails[k].counts.retries]))

(* A node is called only when the nodes it depends on have their final     *)
(* results, gate retries included, and when orchestrate ends, returning or *)
(* throwing, none of its calls is still under way: Promise.allSettled      *)
(* waits for them all (orchestrate.ts:282-297, 363).  But for one case: a  *)
(* gate that throws (309) ends it at once, and the retries of the gates    *)
(* evaluated with it go on.                                                *)
StagesAreSeparate ==
  /\ \A n \in taskDag : triggered[n] > 0 =>
       \A d \in DependsOn(n) : nodeAt[d] = "settled" /\ allResults[d] # "none"
  /\ orchAt # "running" => \A n \in taskDag :
       /\ nodeAt[n] # "executing"
       /\ nodeAt[n] = "gating" =>
            orchAt = "threw" /\ \E b \in taskDag \cap Broken : DependsOn(b) = DependsOn(n)

(* The verdict is that of the majority of the reviewers, where one that    *)
(* says nothing readable counts as content, and one that fails does not;   *)
(* and who is recommended did not disapprove (peer_reviewer.ts:93-141,     *)
(* orchestrate.ts:186-201).                                                *)
MajorityDecides ==
  LET approves(r) == \/ reviews[r].kind = "unreadable" /\ consensusThreshold <= 7
                     \/ reviews[r].kind = "number" /\ reviews[r].score >= consensusThreshold
      approving == {r \in Reviewers : approves(r)}
  IN  orchAt = "returned" =>
        /\ 2 * Cardinality(approving) > numReviewers => reviewOutcome.verdict = "passed"
        /\ 2 * Cardinality(approving) < numReviewers => reviewOutcome.verdict = "needs_reroute"
        /\ reviewOutcome.recommended \in Reviewers => reviewOutcome.recommended \in approving

(* The orchestrator's counts, stages and verdict are right together.       *)
OrchestrateInv == MetadataIsTrue /\ StagesAreSeparate /\ MajorityDecides
=============================================================================
