---------------------------- MODULE Distributor -----------------------------
(***************************************************************************)
(* One run of Distributor.distribute() (workers/gateway/src/distributor.ts)*)
(* over the stages computeStages returned: all nodes of a stage run at     *)
(* once, each with retries on distinct workers, and a race picks finished  *)
(* ones from an array whose entries carry their own index.                 *)
(*                                                                         *)
(* Which of several finished entries wins a race, and which of several     *)
(* capable workers was used least recently, depends on the clock: any may. *)
(***************************************************************************)
EXTENDS Naturals, Sequences, FiniteSets

CONSTANTS
  Stages,      \* the sequence of stages, each a sequence of nodes
  Workers,     \* the pool
  Capable,     \* [node -> the workers whose capabilities include what it requires]
  retryCap     \* the option of that name

Nodes == UNION {{Stages[s][i] : i \in DOMAIN Stages[s]} : s \in DOMAIN Stages}

(* computeStages makes no empty stage and puts no node into two places; a  *)
(* plan has a node.                                                        *)
ASSUME DistributorAssumption ==
  /\ Stages \in Seq(Seq(Nodes)) /\ Stages # <<>>
  /\ \A s \in DOMAIN Stages : Stages[s] # <<>>
  /\ retryCap \in Nat
  /\ Capable \in [Nodes -> SUBSET Workers]
  /\ \A s, r \in DOMAIN Stages : \A i \in DOMAIN Stages[s], j \in DOMAIN Stages[r] :
       Stages[s][i] = Stages[r][j] => s = r /\ i = j

VARIABLES
  stage,       \* the stage distribute() is in
  entries,     \* the array: [node, idx], idx being what its promise will report
  node,        \* [Nodes -> the state of its executeNodeWithRetry]
  tried,       \* [Nodes -> the workers it has tried, in order]
  results,     \* the nodes whose results were yielded, in order
  outcome      \* "running", "done", or "failed" when distribute() threw

distVars == <<stage, entries, node, tried, results, outcome>>

NodeState == {"waiting", "choosing", "running", "resolved", "rejected"}

Entries(s) == [i \in DOMAIN Stages[s] |-> [node |-> Stages[s][i], idx |-> i]]

Starts(nodes, s) ==
  [n \in Nodes |-> IF \E i \in DOMAIN Stages[s] : Stages[s][i] = n THEN "choosing" ELSE nodes[n]]

DistInit ==
  /\ stage = 1
  /\ entries = Entries(1)
  /\ node = Starts([n \in Nodes |-> "waiting"], 1)
  /\ tried = [n \in Nodes |-> <<>>]
  /\ results = <<>>
  /\ outcome = "running"

TriedBy(n) == {tried[n][k] : k \in DOMAIN tried[n]}

(* selectWorker's candidates. *)
Eligible(n) == Capable[n] \ TriedBy(n)

(* The head of the retry loop: the attempts are used up or no worker is    *)
(* left, and the node's promise rejects; or a worker is chosen.            *)
GivesUp(n) ==
  /\ node[n] = "choosing"
  /\ Len(tried[n]) > retryCap \/ Eligible(n) = {}
  /\ node' = [node EXCEPT ![n] = "rejected"]
  /\ UNCHANGED <<stage, entries, tried, results, outcome>>

Chooses(n, w) ==
  /\ node[n] = "choosing"
  /\ Len(tried[n]) <= retryCap
  /\ w \in Eligible(n)
  /\ tried' = [tried EXCEPT ![n] = Append(@, w)]
  /\ node' = [node EXCEPT ![n] = "running"]
  /\ UNCHANGED <<stage, entries, results, outcome>>

(* worker.run settles. Nothing cancels it, whatever became of the others.  *)
Runs(n, ok) ==
  /\ node[n] = "running"
  /\ node' = [node EXCEPT ![n] = IF ok THEN "resolved" ELSE "choosing"]
  /\ UNCHANGED <<stage, entries, tried, results, outcome>>

(* The entries without the one at i: the last takes its place, and the     *)
(* same without correcting the index its promise reports.                  *)
Shrink(seq) == SubSeq(seq, 1, Len(seq) - 1)

MutSwapOut(i) ==
  IF i = Len(entries) THEN Shrink(entries)
  ELSE Shrink([entries EXCEPT ![i] = entries[Len(entries)]])

SwapOut(i) ==
  IF i = Len(entries) THEN Shrink(entries)
  ELSE Shrink([entries EXCEPT ![i] = [entries[Len(entries)] EXCEPT !.idx = i]])

(* Promise.race(entries) resolves with the result of the entry at position *)
(* p and the index that entry carries; the generator's consumer takes it.  *)
Yields(p) ==
  /\ outcome = "running"
  /\ node[entries[p].node] = "resolved"
  /\ results' = Append(results, entries[p].node)
  /\ LET rest == SwapOut(entries[p].idx)
     IN  IF rest # <<>>
         THEN entries' = rest /\ UNCHANGED <<stage, node, outcome>>
         ELSE IF stage < Len(Stages)
         THEN /\ stage' = stage + 1
              /\ entries' = Entries(stage + 1)
              /\ node' = Starts(node, stage + 1)
              /\ UNCHANGED outcome
         ELSE /\ entries' = <<>>
              /\ outcome' = "done"
              /\ UNCHANGED <<stage, node>>
  /\ UNCHANGED tried

(* The race rejects: distribute() throws, and what else is running is lost. *)
Throws(p) ==
  /\ outcome = "running"
  /\ node[entries[p].node] = "rejected"
  /\ outcome' = "failed"
  /\ UNCHANGED <<stage, entries, node, tried, results>>

DistNext ==
  \/ \E n \in Nodes :
       \/ GivesUp(n)
       \/ \E w \in Workers : Chooses(n, w)
       \/ \E ok \in BOOLEAN : Runs(n, ok)
  \/ \E p \in DOMAIN entries : Yields(p) \/ Throws(p)

DistSpec == DistInit /\ [][DistNext]_distVars

-----------------------------------------------------------------------------
(* Every result is yielded exactly once, after all of the stages before,   *)
(* and a run that ends well has yielded them all: the index a promise      *)
(* carries is its place in the array through any order of swaps            *)
(* (distributor.ts:88-104). A failing node is tried on distinct capable    *)
(* workers, at most retryCap + 1 of them (134-175).                        *)
ResultsOnce ==
  /\ \A p \in DOMAIN entries : entries[p].idx = p
  /\ \A i, j \in DOMAIN results : results[i] = results[j] => i = j
  /\ \A i \in DOMAIN results : \A p \in DOMAIN entries : entries[p].node # results[i]
  /\ \A s \in DOMAIN Stages : \A k \in DOMAIN Stages[s] :
       (s < stage \/ outcome = "done") => \E i \in DOMAIN results : results[i] = Stages[s][k]
  /\ \A n \in Nodes :
       /\ Len(tried[n]) <= retryCap + 1
       /\ TriedBy(n) \subseteq Capable[n]
       /\ Cardinality(TriedBy(n)) = Len(tried[n])
=============================================================================
