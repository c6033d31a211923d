----------------------------- MODULE Discovery ------------------------------
(***************************************************************************)
(* Cluster discovery (workers/shared/cluster-discovery.ts): start polls    *)
(* once and then sets a timer, every tick of which polls again without     *)
(* waiting for the polls under way; a poll awaits the transport's list and *)
(* then, in one step, compares it with the known peers and calls the hooks. *)
(***************************************************************************)
EXTENDS Naturals, FiniteSets

CONSTANTS
  Peers,
  MaxPolls,     \* bound on the polls under way at once
  MaxTimers     \* bound on the timers set at once

ASSUME DiscoveryAssumption == {MaxPolls, MaxTimers} \subseteq Nat

VARIABLES
  peers,        \* the ids in the Map of that name
  stopped,      \* the flag of that name
  starting,     \* calls of start() awaiting their first poll
  polls,        \* the other polls awaiting the transport
  timers,       \* the intervals set and not cleared
  pollTimer,    \* 1 if the field refers to one of them, else 0
  up            \* [Peers -> calls of onNodeUp since the last stop, less onNodeDown]

discoveryVars == <<peers, stopped, starting, polls, timers, pollTimer, up>>

DiscoveryInit ==
  /\ peers = {} /\ stopped = FALSE
  /\ starting = 0 /\ polls = 0
  /\ timers = 0 /\ pollTimer = 0
  /\ up = [p \in Peers |-> 0]

start ==
  /\ starting + polls < MaxPolls
  /\ stopped' = FALSE
  /\ starting' = starting + 1
  /\ UNCHANGED <<peers, polls, timers, pollTimer, up>>

(* A poll that announces every peer it sees. *)
MutNews(list) == list

(* The peers of a list whose hook is onNodeUp, and those of onNodeDown.    *)
News(list) == list \ peers
Gone(list) == peers \ list

(* poll() after its await, which does not look at stopped: the hook is     *)
(* called for each new peer once it is in the map, then for each removed   *)
(* one once it is out of it. A hook that throws leaves the rest undone.    *)
Applies(list, throws) ==
  \E first \in SUBSET list, out \in SUBSET Gone(list) :
    /\ out # {} => first = list
    /\ IF throws THEN News(first) # {} \/ out # {}
       ELSE first = list /\ out = Gone(list)
    /\ peers' = (peers \cup first) \ out
    /\ up' = [p \in Peers |-> IF p \in News(first) THEN up[p] + 1
                              ELSE IF p \in out THEN up[p] - 1 ELSE up[p]]

(* A hook calls stop(), which empties the map; the loop goes on and enters *)
(* the listed peers that are still to come, in whatever order they are.    *)
AppliesAndStops(list) ==
  \E later \in SUBSET list :
    /\ \/ News(list) \ later # {}
       \/ Gone(list) # {} /\ later = {}
    /\ peers' = later
    /\ up' = [p \in Peers |-> IF p \in later THEN 1 ELSE 0]

(* How the rest of a poll ends: the transport fails, or a hook stops the   *)
(* cluster, or the last hook to be called throws.                          *)
PollEndings == [fails : {TRUE}, stops : {FALSE}, throws : {FALSE}]
           \cup [fails : {FALSE}, stops : BOOLEAN, throws : BOOLEAN]

(* What the transport answers: a list, or an error, which changes nothing. *)
TransportAnswers(list, e) ==
  /\ IF e.fails THEN UNCHANGED <<peers, up>>
     ELSE IF e.stops THEN AppliesAndStops(list) ELSE Applies(list, e.throws)
  /\ stopped' = (stopped \/ e.stops)

(* The timers left, and the field, after a poll in which a hook may have   *)
(* called stop().                                                          *)
TimersLeft(e) == IF e.stops THEN timers - pollTimer ELSE timers
FieldLeft(e) == IF e.stops THEN 0 ELSE pollTimer

(* start()'s own poll returns and the timer is set, also if stop() or      *)
(* another start() came in between; the field forgets an earlier timer. If *)
(* the poll throws, so does start(), and no timer is set.                  *)
FirstPollReturns(list, e) ==
  /\ starting > 0 /\ timers < MaxTimers
  /\ TransportAnswers(list, e)
  /\ starting' = starting - 1
  /\ timers' = IF e.throws THEN TimersLeft(e) ELSE TimersLeft(e) + 1
  /\ pollTimer' = IF e.throws THEN FieldLeft(e) ELSE 1
  /\ UNCHANGED polls

TimerTicks ==
  /\ timers > 0 /\ ~stopped
  /\ starting + polls < MaxPolls
  /\ polls' = polls + 1
  /\ UNCHANGED <<peers, stopped, starting, timers, pollTimer, up>>

PollReturns(list, e) ==
  /\ polls > 0
  /\ TransportAnswers(list, e)
  /\ polls' = polls - 1
  /\ timers' = TimersLeft(e)
  /\ pollTimer' = FieldLeft(e)
  /\ UNCHANGED starting

stop ==
  /\ stopped' = TRUE
  /\ timers' = timers - pollTimer
  /\ pollTimer' = 0
  /\ peers' = {}
  /\ up' = [p \in Peers |-> 0]
  /\ UNCHANGED <<starting, polls>>

DiscoveryNext ==
  \/ start
  \/ stop
  \/ TimerTicks
  \/ \E list \in SUBSET Peers, e \in PollEndings :
       FirstPollReturns(list, e) \/ PollReturns(list, e)

DiscoverySpec == DiscoveryInit /\ [][DiscoveryNext]_discoveryVars
-----------------------------------------------------------------------------
(* Who follows the hooks onNodeUp and onNodeDown since the last stop knows *)
(* the map, however many polls overlap, return late or find the cluster    *)
(* stopped, and if a hook throws or stops the cluster in the middle of a   *)
(* poll: no peer is announced twice, or lost without having been announced *)
(* (cluster-discovery.ts:156-213).  A listener of the emitter, called      *)
(* after the hook, misses the event whose hook threw.                      *)
EventsFollowPeers ==
  \A p \in Peers : up[p] = IF p \in peers THEN 1 ELSE 0
=============================================================================
