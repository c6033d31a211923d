------------------------------- MODULE Brain --------------------------------
(***************************************************************************)
(* The brain worker (workers/brain/src): threads of the worker classify    *)
(* requests with the selector chosen at start, the heuristic one or a      *)
(* model loaded by the first request that needs it. The number of messages *)
(* is 1 or 2, which is all the heuristic looks at; what the model writes   *)
(* and how the environment fails is arbitrary.                             *)
(***************************************************************************)
EXTENDS Naturals

CONSTANT Threads

ASSUME ThreadsAssumption == "nobody" \notin Threads

VARIABLES
  selector,    \* the class of the selector in use; "none" before the start
  models,      \* how often the assignment to _model was made
  lockHolder,  \* who holds _load_lock
  place,          \* each thread's place in classify
  messages,    \* the number of messages of its request
  answer       \* what it returned last

brainVars == <<selector, models, lockHolder, place, messages, answer>>

Classification == {"SIMPLE", "COMPLEX", "UNKNOWN", "free text"}
Source == {"heuristic", "brain-fallback", "llamacpp", "llamacpp-error",
           "llamacpp-parse-error"}
Reply(c, s) == [classification |-> c, source |-> s]
NoReply == [classification |-> "none", source |-> "none"]

BrainTypeOK ==
  /\ selector \in {"none", "HeuristicSelector", "LLAMACppSelector"}
  /\ models \in Nat
  /\ lockHolder \in Threads \cup {"nobody"}
  /\ place \in [Threads -> {"idle", "classify", "lock", "load", "generate", "parse"}]
  /\ messages \in [Threads -> 1 .. 2]
  /\ answer \in [Threads -> [classification : Classification, source : Source] \cup {NoReply}]

BrainInit ==
  /\ selector = "none" /\ models = 0 /\ lockHolder = "nobody"
  /\ place = [t \in Threads |-> "idle"]
  /\ messages = [t \in Threads |-> 1]
  /\ answer = [t \in Threads |-> NoReply]

(* build_selector: an unknown kind, or a model selector that cannot be     *)
(* made, gives the heuristic one.                                          *)
build_selector(kind, importable) ==
  /\ selector = "none"
  /\ selector' = IF kind = "slm" /\ importable THEN "LLAMACppSelector" ELSE "HeuristicSelector"
  /\ UNCHANGED <<models, lockHolder, place, messages, answer>>

HeuristicClass(n) == IF n <= 1 THEN "SIMPLE" ELSE "COMPLEX"

(* The thread leaves classify with an answer. *)
Returns(t, reply) ==
  /\ place' = [place EXCEPT ![t] = "idle"]
  /\ answer' = [answer EXCEPT ![t] = reply]
  /\ UNCHANGED <<selector, messages>>

(* Any exception out of the selector: main.py answers for it. *)
FallsBack(t) == Returns(t, Reply(HeuristicClass(messages[t]), "brain-fallback"))

Goes(t, where) ==
  /\ place' = [place EXCEPT ![t] = where]
  /\ UNCHANGED <<selector, messages, answer>>

Called(t, n) ==
  /\ selector # "none"
  /\ place[t] = "idle"
  /\ place' = [place EXCEPT ![t] = "classify"]
  /\ messages' = [messages EXCEPT ![t] = n]
  /\ answer' = [answer EXCEPT ![t] = NoReply]
  /\ UNCHANGED <<selector, models, lockHolder>>

HeuristicClassifies(t) ==
  /\ place[t] = "classify" /\ selector = "HeuristicSelector"
  /\ Returns(t, Reply(HeuristicClass(messages[t]), "heuristic"))
  /\ UNCHANGED <<models, lockHolder>>

(* _load_model's first look at _model, without the lock. *)
LooksForModel(t) ==
  /\ place[t] = "classify" /\ selector = "LLAMACppSelector"
  /\ Goes(t, IF models > 0 THEN "generate" ELSE "lock")
  /\ UNCHANGED <<models, lockHolder>>

(* Without the second look. *)
MutTakesLock(t) ==
  /\ place[t] = "lock" /\ lockHolder = "nobody"
  /\ lockHolder' = t
  /\ Goes(t, "load")
  /\ UNCHANGED models

(* The second look, under the lock, which is given back at once if another *)
(* thread has loaded the model.                                            *)
TakesLock(t) ==
  /\ place[t] = "lock" /\ lockHolder = "nobody"
  /\ IF models > 0
     THEN Goes(t, "generate") /\ UNCHANGED lockHolder
     ELSE Goes(t, "load") /\ lockHolder' = t
  /\ UNCHANGED models

(* The end of the with block. Loading ends with the model; with an         *)
(* exception classify handles (the import fails, the file is missing); or  *)
(* with one it does not (the constructor of Llama raises).                 *)
Loads(t, how) ==
  /\ place[t] = "load"
  /\ lockHolder' = "nobody"
  /\ CASE how = "loaded" -> Goes(t, "generate") /\ models' = models + 1
       [] how = "handled" -> /\ Returns(t, Reply("UNKNOWN", "llamacpp-error"))
                             /\ UNCHANGED models
       [] how = "escapes" -> FallsBack(t) /\ UNCHANGED models

(* The model runs without the lock, for any number of threads at a time. *)
Generates(t, fails) ==
  /\ place[t] = "generate"
  /\ IF fails THEN Returns(t, Reply("UNKNOWN", "llamacpp-error")) ELSE Goes(t, "parse")
  /\ UNCHANGED <<models, lockHolder>>

(* The text is JSON of a dict, whose classification is taken as it is; not *)
(* JSON or with a confidence that is no number; or JSON of something that  *)
(* has no get, an AttributeError.                                          *)
Parses(t, text) ==
  /\ place[t] = "parse"
  /\ CASE text \in Classification -> Returns(t, Reply(text, "llamacpp"))
       [] text = "not JSON" -> Returns(t, Reply("UNKNOWN", "llamacpp-parse-error"))
       [] text = "not a dict" -> FallsBack(t)
  /\ UNCHANGED <<models, lockHolder>>

BrainNext ==
  \/ \E kind \in {"heuristic", "slm", "other"}, i \in BOOLEAN : build_selector(kind, i)
  \/ \E t \in Threads :
       \/ \E n \in 1 .. 2 : Called(t, n)
       \/ HeuristicClassifies(t)
       \/ LooksForModel(t)
       \/ TakesLock(t)
       \/ \E how \in {"loaded", "handled", "escapes"} : Loads(t, how)
       \/ \E fails \in BOOLEAN : Generates(t, fails)
       \/ \E text \in Classification \cup {"not JSON", "not a dict"} : Parses(t, text)

BrainSpec == BrainInit /\ [][BrainNext]_brainVars
-----------------------------------------------------------------------------
(* However many requests arrive before the model is there, it is loaded at *)
(* most once, by the thread that holds the lock, and every way out of      *)
(* loading gives the lock back (llamacpp_selector.py:59-79).               *)
ModelIsLoadedOnce ==
  /\ models <= 1
  /\ \A t \in Threads : place[t] = "load" <=> lockHolder = t
  /\ \A t \in Threads : place[t] = "load" => models = 0
  /\ \A t \in Threads : place[t] \in {"generate", "parse"} => models = 1
=============================================================================
