# Formal models of aigency-router-v2

TLA+ modules for the parts of aigency-router-v2 that have behaviour worth checking:

- the routing core: the III engine (`iii-engine/src/engine.ts`) and the gateway worker's
  routing of LLM requests (`workers/gateway/src`);
- the services beside it: key vault, Python SDK client, brain worker, task distributor, rate
  limiter, tier cache, cluster discovery, engram's orchestrator with its peer review;
- the Python tools kept in the repository for its coding agents: the scripts that edit, check
  and pack presentations and Word documents, drive LibreOffice and fill PDF forms
  (`.agents/skills`), and the BMad scripts that merge settings and group sources (`.agent`,
  `_bmad`).

TLC checks each module on small instances. The safety properties of the router's parts, of the
services beside it, and of the tools for presentations, LibreOffice and PDF forms are also
proved with TLAPS, for every value of the constants: see "What is proved".

## The system

Everything of the router runs over one **engine** process. Workers (gateway, vault, translator,
engram, ...) connect to it by WebSocket, register functions and triggers, and call
each other's functions through it. HTTP clients talk to the engine, which invokes
the worker that announced an HTTP trigger and turns what the worker writes on a
**streaming channel** into the response. The **gateway** is the worker behind
`/v1/chat/completions`: it resolves a model to a chain of providers, optionally
refuses providers that cost money or have used up their free tier, and tries the
rest in order. The agents' **tools** do not talk to the router: each is a script that reads
and writes files, and what one leaves is what the next finds.

### Inventory

| Component | State | Operations | What is hard | What makes it correct |
|---|---|---|---|---|
| Engine: worker registry | `workers`, each worker's functions and triggers, `httpTriggerWorker` | connect, close, register/unregister function, trigger type, trigger; `engine::workers::register` | a close between any two registrations; a socket that is closing but still in the map | the remembered HTTP worker is connected |
| Engine: call router | `pending` (own calls, with timers), `workerInvocations` (forwarded calls, without), sockets | `trigger`, HTTP routing, forwarding, `invocationresult`, timeout, shutdown | late answers, timeouts, closing sockets and shutdown in any order; values captured in one handler and used in a later one | tables hold exactly the unanswered calls; each call settles once |
| Engine: SLA metrics | totals, entry per function and worker name | start and end of a call | the name can change during a call | totals agree with the fate of the calls |
| Engine: channels | `channels`, and per channel the buffer, its byte count, readers, `writerClosed`, abandon timer | create, attach writer/reader, frame, close, dispose, abandon | late readers, a writer that closes first, the timer against a late reader | bounded buffer, nothing lost, twice or out of order, nobody left waiting, channel dropped |
| Engine: HTTP bridge | the handler's `statusCode`, `responseHeaders`, `headersSet`, the response | reader socket events, the invocation's promise | six callbacks in any order around one response | the response is a beginning of the stream, whole if nothing failed; one head; it ends |
| Gateway: routing | per request: chain, position, failures; the usage table | chat completion, with or without the engram pipeline, `route_llm`, zero-cost check, failover, streaming, heal, recording of use | requests interleave at every `await`; check and record are far apart; a restart with other limits | failover in order, only admitted providers, bounded overshoot, a used-up provider stays so, every request answered |
| Gateway: rate limiter | token buckets, at most `maxKeys` | consume, reset | eviction at the limit; a clock that steps back | a key never gets more than its tokens |
| Gateway: tier cache | cached tiers, probes under way | get, probe, refresh | a refresh beside a probe under way, and beside another refresh | one probe per provider; a known tier is not lost to a failing probe |
| Gateway: distributor | running nodes, workers tried | distribute, retry | results in completion order, swap-removal in a race | each node yields one result, stages in order |
| Vault | table of encrypted keys, canary, the unlocked password, the rows on screen | unlock, lock, store, retrieve; the tool's add, list, remove | two programs and a view on one file; several active rows of a provider | all readers agree on a provider's key; what a worker stored can be read |
| Python SDK client | one call's retries and body | completion, stream, quota | retries against errors; a body cut by lines it does not know | paid calls repeated only for 5xx; a stream is a prefix |
| Brain | the selector, the model, a lock | classify | first requests meet in the loading | loaded once, the lock given back |
| Cluster discovery | peer map, timer | start, stop, poll | overlapping polls; stop during a poll; hooks that throw or stop it | who follows the hooks knows the map |
| Engram: orchestrate | results and counters of the stages, the reviews | execute, gate, retry, review | a stage's nodes retry beside each other on shared counters; one of them fails, or its gate throws; reviews that cannot be read | the metadata is true, stages do not overlap, the majority of reviewers decides |
| Skill: presentations | the unpacked package | unpack, add a slide, list, unlist, clean, validate, pack | scripts and an editor in any order on one directory; parts that refer to one another | what passes the checks opens; cleaning loses nothing in use |
| Skill: documents | `document.xml`, four comment files | unpack and simplify, edit, comment, validate, pack | an author's tracked changes around others'; a comment in four files | the changes can be taken back; comments resolve |
| Skill: LibreOffice | shim, macro, profile in shared directories | accept changes, recalculate | scripts at once set up the same files without a lock; writes that fail | a script finds its set-up whole; errors are counted once |
| Skill: PDF forms | fields, or boxes by coordinates | read, fill, check boxes, draw | wrong entry among right ones, entries without a value; two coordinate systems | whole or not at all; checked boxes stay apart |
| BMad: settings | layers of TOML files | resolve, list | four layers, merged by structure; files edited between calls | the last layer wins, nothing lost or doubled |
| BMad: distillator | none | group sources | grouping by names while files come by paths | every source in one group |
| Engram's gates, healers and evaluation, cluster registry and offload, gateway lifecycle, health, dashboard stream, probes, reporters, HTTP middleware | - | - | see "Not modelled" | - |
| Sugar-db, selector, translator, provider-clients, TypeScript SDK, dashboard, deployment | tables; configuration | append, look up, call | I/O | - |

The rest of the tree is documentation, prompts, and copies of the scripts above for other
agents; a script is modelled once.

### How the parts interact

Engine and workers exchange JSON messages over one socket per worker. A handler
runs to completion in the engine's single thread, so it is one action; between
handlers anything can happen. An HTTP request lives in a chain of handlers: the
request's arrival reads the worker, the end of its body reads the function and
creates the channel, the opening of the engine's own reader socket sends the
invocation. The worker then writes the response on the channel, independently of
the answer to the invocation.

The gateway's handlers are `async`: every `await` lets other requests run. They
share the usage table (SQLite, synchronous) and nothing else: a `FailoverEngine`
is made per route. The rate limiter, tier cache and distributor are objects of the gateway that
share no state with a route or with each other, and the vault, the brain, the orchestrator and the discovery are reached by
messages only; so each is a module of its own.

The vault's worker, its command line tool and its terminal view share one SQLite file. The
tools share directories: the unpacked package (pptx, docx), and `/tmp` with LibreOffice's
profile, where several scripts may be at work at once.

## The modules

| Module | Models | Extends |
|---|---|---|
| `Registry` | worker registry | |
| `SlaMetrics` | `recordInvocationStart`, `recordInvocationEnd` as operators | |
| `Engine` | the call router, with `Registry` and `SlaMetrics` | `Registry` |
| `CallLedger` | what the router promises, abstractly | |
| `Channel` | one streaming channel with any readers | |
| `HttpBridge` | one HTTP request over its channel | `Channel` |
| `Gateway` | concurrent requests through the gateway | |
| `RateLimiter` | the token buckets of the gateway | |
| `TierCache` | the cache of provider tiers, with callers, probes and refresh runs | |
| `Distributor` | one run of `distribute()` | |
| `Vault` | one vault file with worker, tool and view | |
| `AgentClient` | one call of the Python SDK's client | |
| `Brain` | threads that classify | |
| `Discovery` | one worker's view of its cluster | |
| `Orchestrate` | one call of `engram::orchestrate` | |
| `OoxmlValidator` | the checks of `validators/base.py` on a package | |
| `PptxPackage` | the life of an unpacked presentation | `OoxmlValidator` |
| `DocxRedlines` | tracked changes as operators: simplifying, comparing, validating | |
| `DocxComments` | a document's comments: what is done to them and checked of them | `OoxmlValidator` |
| `DocxPackage` | the life of an unpacked document: its text, beside its comments | `DocxRedlines`, `DocxComments` |
| `Soffice` | scripts that run LibreOffice, several at once | |
| `BmadConfig` | layered settings and the catalogue of skills | |
| `DistillerSources` | which files arguments stand for, and their groups | |
| `PdfForms` | forms with fields, and forms with boxes | |
| `EngineProofs`, `ChannelProofs`, `BridgeProofs`, `GatewayProofs` | the proofs about `Engine` and its metrics; `Channel`; `HttpBridge`; `Gateway` and `TierCache` | these, `TLAPS`; `BridgeProofs` also `ChannelProofs` |
| `ServiceProofs` | the proofs about `Brain`, `Discovery`, `Distributor`, `AgentClient`, `RateLimiter`, `Orchestrate`, `Vault` | these, `LoopLemmas` |
| `ToolProofs` | the proofs about `PptxPackage`, `Soffice`, `PdfForms`, `DistillerSources`, `BmadConfig` | these, `LoopLemmas` |
| `DocxProofs` | the proofs about `DocxPackage`, its text and its comments | this, `LoopLemmas` |
| `LoopLemmas` | the least of a set of numbers, and what loops keep and compute | `TLAPS` |
| `MC...` | small instances | the modules they check |

Modules compose where the code does: `Engine` over `Registry` and `SlaMetrics`, `HttpBridge`
over `Channel`, the packages over the validator. `MCServices` and `MCTools` put modules side by
side that share nothing: a behaviour picks one of them and takes its steps only, so that one
run explores each of them completely and their state spaces add up instead of multiplying.

### Correspondence

**Registry, Engine.** Ids are numbers in the order of connection, because the code
iterates JavaScript `Map`s, which keep insertion order: "the first worker that has
registered f" is a minimum. `ws[w]` distinguishes `closing` (the socket is no longer
OPEN but its `close` handler has not run, so the worker is still in the map) from
`closed`. `pending`, `timers` and `workerInvocations` are the code's tables as sets of
calls; `inbox[w]` stands for what a worker has received and may still answer, at any
time and with any outcome. `outcome` is history: how the caller sees the call. It is
never read by an action except to know where a call is in its handlers (`idle`,
`routing`, `connecting`). `renamedInFlight` is history only. `phase` is `shuttingDown` and
the progress of `shutdown()`. The three look-ups of an HTTP request are three actions
(`HttpArrives`, `HttpBodyRead`, `HttpReaderOpens`) because each reads state the next may
find changed.

**Channel.** Frames carry a number, so that equal ones can be told apart, and a size;
`received[r]` is what was sent to reader r. The flush in `attachChannelReader` waits for
the socket to open if it is not; the `ws` library hands it over open, so it is one step.
One writer attaches, as the SDK opens one per channel.

**HttpBridge.** A channel whose only reader is the engine's own socket. Its two ends have
their own states: `reader[HttpReader]` is the server end, `conn` the client end with
`open`, `message`, `close` and `error` events; `consumed` is how many of the frames have
arrived. The invocation is its promise; `Engine` says when it settles. `crashed` is an
exception in an event handler, which ends the process since the repository installs no
handler for it. A write after `end` may or may not raise one, depending on whether the
response has been flushed: the model has both.

**Gateway.** `phase` says at which `await` a request's handler is suspended. A failed
provider appends to `failures` and moves on; `Succeed` records the use and either answers
or starts the next task of a request with several intents. Providers stand for
`provider/model` entries, since no chain of the code names a provider twice. What a
provider answers is one of text, nothing, or an error. Tasks of one request resolve the same model to the same chain. `usage` and `rowLimit` are the
usage table, `tierConfig` the limits set when enforcement starts; a row takes its limit when it
is inserted. A limit is a number of requests, as in the code (see "Noted while modelling"); tokens are
left out. With the engram pipeline (`EngramPipeline`) a chat request waits for the brain
(`classifying`) and, if it is complex, for the engram worker (`orchestrating`), whose answer is
passed on before any provider is checked; a simple one, and a call that throws, go on as without
the pipeline. `Restarts` ends the requests under way and may change the settings; the table is a
file and stays.

**RateLimiter.** `buckets` and the `Map`'s insertion `order`. Tokens are counted in 1/`windowMs`
of a token, so that the code's fractions are integers. `now` is `Date.now()`, which may step
back; `granted` and `madeAt` are history for the property.

**TierCache.** `cache` holds a tier and whether it is still fresh; `inFlight` and `probing` the
callers' probes, `settled` those whose promise is resolved while its `finally` has not run;
`refresh[r]` a run of `refreshAll`, at the provider it has reached. The refresh calls `doProbe`
past `inFlight`, and caches what it returned in a later step: other continuations run in between.

**Distributor.** `entries` is the array given to `Promise.race`: each entry has the node and the
index its promise will report, which the code corrects when it moves the last entry. A node is
`choosing` or `running` an attempt, `resolved` or `rejected`. Which finished entry wins and which
capable worker is chosen depends on the clock, so any may.

**Vault.** A row's place in `vaultRows` is its rowid. A payload opens under the password it was
made with. The tool's password is not compared with the canary, the worker's is. `paneRows` is
what the terminal view read last. The three programs are taken to use one file, as they do when
they are given the same path; their default paths may differ.

**AgentClient.** `_request`'s loop one attempt at a time, with what `urlopen` raises or returns;
`answers` and `waited` are history of the attempts and pauses. Reading and parsing the body may
raise, for a plain answer as for a stream (`ReadRaises`). A body is a sequence of lines, which the
generator consumes when asked.

**Brain.** `place[t]` is where a thread is in `classify` and `_load_model`, on either side of
the lock; every exception is an alternative of the step where the code raises it.

**Discovery.** `polls` counts polls waiting for the transport, `starting` those of `start()`,
which set the timer when they return; `up` counts the calls of the hooks `onNodeUp` and
`onNodeDown`. A hook may throw, which leaves the rest of a poll undone (`Applies`), or call
`stop()`, which empties the map while the loop goes on (`AppliesAndStops`). A listener of the
emitter is called after the hook, and so misses the event whose hook threw.

**Orchestrate.** `nodeAt` says at which `await` a node's function is: `executing` in the first
loop, `gating` in the retries for its gate, `settled` after it. A content is only whether it
passes the gate, except that a gate may throw (`Broken`): `orchestrate` throws with it, at once, and
the retries begun with it go on. `counts` are the totals, `stageDetails` the same for each stage, pushed by the
code at the end of a stage; `triggered` is history. A review is a number, unreadable, or throws;
scores are tenths, as thresholds are. `review` is the rest of `PeerReviewer.review` after all
reviewers have settled.

**OoxmlValidator, PptxPackage.** `pkg` is a directory: its parts, each part's relationships and
the ids its XML uses, the slide list, the declared parts, and at most one slip of an editor,
known by the check that sees it. Every function of `base.py` and `pptx.py` that can fail a
package is an operator of its name. `clean.py` takes one action per round of its loop
(`CleanRound`), so that its end is reached by the code's own condition. `printed` holds the
slide list entries `add_slide.py` printed and nobody has inserted yet; the editor may also insert a
mistaken one (`MistypesSldId`). A relationship's type passes the validator if the expected word
occurs in it (`TypesNaming`, base.py:447), and its target may be written from the package's
root (`FromRoot`), which the validator resolves and `clean.py` does not (`RelativeTargets`).

**DocxRedlines, DocxComments, DocxPackage.** A paragraph is what stands in the file one after the other: runs, marks,
and the starts and ends of changes, where the code has a tree of elements; text is a sequence of
words. `Seen` reads a paragraph from its start and knows the open changes and every word with its element,
its formatting and the changes it is under: both the code's comparison and the properties are about those.
An element stands in the paragraph itself, as `simplify_redlines.py` asks, where nothing is open (`AtTop`), and
neighbours of one parent are neighbours in the sequence. The editor's moves (`EditText`) replace one element
of a paragraph (`IsNode`), rightly or wrongly: a deletion with or without its change, another's
insertion deleted inside or thrown away, and so on. The four comment files are sets of ids with the parts that
declare and relate them; `AddComment` writes `comments.xml` first and may stop before the rest,
as the code does at an unknown parent. Comments and text meet only in the verdict of the checks:
`DocxComments` has the actions with any verdict that good comments allow, and each action of
`DocxPackage` is one of them with what it does to the text and with the verdict on both.

What `pack.py` checks is the directory; the file it writes is condensed
afterwards (`_condense_xml`), which takes texts of blanks only out of every element but `w:t`, and
`validate.py` may then be run on that file (`ValidateFile`).

**Soffice.** `script[s].at` is where a script is; `shim` is missing, partly written, compiled from an
empty source (`hollow`) or whole, and is shared, as are its source and LibreOffice's profile with the
macro. `write_text` is two steps, the file emptied and then written, each of which may fail, as may
gcc. How LibreOffice ends (`Endings`) is arbitrary, and says nothing of the document: the shim itself
ends it with code 0 (soffice.py:171-172), as does a second LibreOffice on the same profile. Only `recalc.py` reads the workbook; a cell may
hold several error texts and is counted for the first.

**BmadConfig.** A TOML document is a function from paths to tables, arrays and scalars; a file may
be missing or unreadable. `deep_merge` says path by path what the code's recursion through nested
tables comes to: `MCMergeByPath` in `MCTools` has TLC compare the two over all triples of the
instance's files. An edit voids what was said before, so `answer`, `settings` and `catalog` always speak
of the files as they are.

**DistillerSources.** One action, from arguments to groups: a program without state between
calls. A name is known by the name it is named after (`Companion`). Each loop of the code is a
function of the number of passes.

**PdfForms.** A form of fields with widgets, or a page with boxes. Boxes are in the two
coordinate systems the scripts convert between. An entry of the answer file may have no value: it is
checked for its field and page, and fills nothing in.

Left out everywhere: payloads, logging, telemetry, latencies, authentication keys; of the tools
the text of XML, what they print, and the schema files (a part satisfies its schema, or not, or
as little as the original did).

## What is checked

| Run | Instance | Result |
|---|---|---|
| `engine` | 2 workers, 2 calls, 3 registration messages, 1 function, 460,518 states (calls symmetric) | `EngineInv`, `SlaAgreesWithOutcomes`, `HttpWorkerIsConnected` hold; `Engine` implements `CallLedger` |
| `engine_live` | 2 workers, 1 call, 4 registration messages, no symmetry | every engine call settles (`EngineCallsSettle`) |
| `engine_ready` | 2 workers | **violated**: `/ready` is 503 with an HTTP worker connected |
| `engine_shutdown` | 2 workers, 1 forwarded call | **violated**: shutdown does not wait for it |
| `channel` | 2 readers, 4 frames of size 1 or 2, buffer of 3 | bounded buffer, whole stream, nobody waits, channel dropped |
| `bridge` | 4 frames of 3 kinds, buffer of 2 | response follows stream, complete on success, cut only by failure, ended by the writer's close |
| `bridge_head` | the same | **violated**: the head is written twice |
| `gateway` | 2 requests of up to 2 tasks, 3 providers, limits 1 or 2, 1 restart, the engram pipeline on, 607,487 states | failover in order, only admitted providers, overshoot in requests bounded, a used-up provider stays so, all answered |
| `gateway_quota` | the same, without restart and pipeline | **violated**: a provider is used beyond its limit |
| `services` | eight services, each alone, 635,145 states | the thirteen properties of the services hold |
| `tools` | six tools, each alone, 649,647 states | the ten properties of the tools hold |
| `pptx_clean` | a deck with shapes drawn on a chart | **violated**: `clean.py` takes the relationships of a drawing that stays |

**Why the bounds are enough.** Two workers are the least for forwarding (the caller is
skipped) and for the remembered HTTP worker to be replaced; three messages let one worker
register, rename itself and unregister, or one announce a trigger and the other replace it;
with one call the runs allow four, so that both can register a function and a trigger. Two calls are the
least for tables to hold different fates at once. `MaxWorkers` and `MaxMessages` only bound
the model: connections use fresh ids and messages do not change meaning with their number.
A buffer of 3 against frames of 1 and 2 fills exactly, overflows with room left, and empties
again; two readers are the least for one to leave while the other stays. Two requests with
two tasks are the least for both ways past a limit: two requests checked together, and one
request recorded twice. The chain has the paid provider between two free ones, so that two are
admitted and one is not. One restart (`MaxRestarts`) with two settings of limits raises a limit,
lowers it, or turns enforcement on or off, with rows of the old limit in the table. With the engram
pipeline on, a request that it lets fall through behaves as one without it, so the run covers both.

Services: three rows (`MaxRows`) are the least for a provider's key to be replaced, removed and brought
back beside another provider's; two passwords the least for a wrong one. Three threads let one
load, one wait for the lock and one arrive after it. A stage of three nodes is the least where the entry
moved into the winner's place is not the only one left, and a second stage shows the order;
`retryCap` 1 with three workers has a node give up with and without a worker left. One bucket
(`maxKeys`) for two keys evicts at each change of key; `MaxNow` equals a window, so that a bucket fills
up again. Two refresh runs, two probes (`MaxProbes`) and two known providers let each kind
overlap with the other on one provider. Three polls and two timers (`MaxPolls`, `MaxTimers`)
let an older poll return after a newer one and after a stop. The default of three retries is
the code's. Three intents make a stage of one node and a stage of two with gates that retry beside
each other; the fourth (`MaxIntents`) adds a node to that stage whose gate throws (`Broken`); two retries (`RetryCap`) let one fail and the next pass; three of the
four reviewers leave one to recommend, with scores below, above and out of range. A body of three lines (`MaxLines`) has one before and one after a line that ends the stream.

Tools: six edits (`MaxEdits`) let a slide be added, listed, another taken off, the deck cleaned,
spoilt and packed; the deck has room for a third slide, so that a removed number is used
again. Paragraphs of up to three nodes are the least where two neighbours could be joined
across a third; two to three edits combine any two of the editor's moves around a comment and a
reply. Two `accept_changes` and one `recalc` cover each pair of programs over one shim and one profile; two cells and two errors
the least for a count and for a cell with both. One skill name under three roots, two overrides
(`MaxOverrides`), three levels, with an override that puts a scalar where the others have a table. Three arguments (`MaxInputs`) of seven kinds, a pattern among them, put a base and
two companions in every order. Two boxes on a grid of three lines meet in a corner, an edge, an
area or not at all; two entries (`MaxEntries`) are the least for a wrong one among right ones, and for
one field given twice.

**Deadlock.** `Engine`, `Channel` and `HttpBridge` stop where the code does: the engine exits,
a channel is over, a response has ended. So do a distribution, a script and a filled form, and
`services`, `tools` and `pptx_clean` therefore allow a stop. In `Gateway` a slot is always free
again, and deadlock is checked.

### Properties

- `EngineInv`: `pending` holds exactly the engine's own unanswered calls, each with a live
  timer; `workerInvocations` exactly the unanswered forwarded ones; workers hold only calls
  sent to them.
- `SlaAgreesWithOutcomes`: the totals and the per-function entries add up to the fates of the
  calls; the end of a call may be lost, never counted twice, and only after a rename.
- `HttpWorkerIsConnected`, `EngineCallsSettle`, `ImplementsLedger`: see the table.
- `ChannelInv`, `WholeStreamIsRead`, `NoReaderWaitsForNothing`, `ClosedChannelIsDropped`.
- `BridgeInv`, `SuccessIsComplete`, `OnlyFailureCutsStream`, `WriterCloseEndsResponse`.
- `GatewayInv`: providers noted as failed are exactly those before the current one; under
  enforcement only admitted providers are called. `RequestOvershootIsBounded`: a limit above 0, of
  requests, is exceeded by less than tasks times requests under way; of tokens nothing is bounded. `ExhaustedStaysExhausted`: whatever restarts and new
  settings follow. `RequestsAreAnswered`: only a restart takes a request without an answer.
- `WorkerKeysOpen`: whoever can unlock the vault can read every key a worker stored.
  `ReadersAgree`: the tool and the worker agree on what a provider's key is, and the view shows
  rows with their own ids. `KeyInUseMoves`: the key in use changes only to a new row, or back to
  an older one that was never removed.
- `RetriesAreJustified`: a completion is paid for again only after a 5xx, at most `max_retries`
  times, with doubling pauses. `StreamIsPrefix`: what a stream yields is the data lines in order,
  up to the first line that is not one.
- `ModelIsLoadedOnce`; `ResultsOnce` (each result once, stages in order, distinct workers);
  `GrantsAreBounded` (never more than a full bucket and what accrued since it was made).
- `CallersShareProbe`, `KnownTierIsKept`: one probe per provider for all callers, and a known
  tier is lost only in one gap: a refresh run whose probe failed when nothing was cached, and which resumes
  after another has succeeded.
- `EventsFollowPeers`: who follows `onNodeUp` and `onNodeDown` knows the peer map, also if a hook
  throws or stops the cluster.
- `OrchestrateInv`, of three: `MetadataIsTrue`: gates counted as passed or failed are the nodes whose final content does, and
  retries are the calls beyond the first. `StagesAreSeparate`: no node is called before those it
  depends on are final, and nothing is under way when the call ends, unless a gate threw. `MajorityDecides`: so it
  does, and who is recommended did not disapprove.
- `PackedIsSound`: in a presentation that passes, every entry of the slide list leads to a part that
  exists and is declared, a slide if `add_slide.py` printed the entry; nothing leads nowhere and nothing
  is left over. `CleanIsComplete`: `clean.py` leaves nothing it finds unreferenced, no
  declaration without a part, and takes nothing the presentation names, but by a target from the root.
- `SimplifyKeepsText`: unpacking loses, reorders and restyles no word and moves none under
  another's change. `PackedIsRedlined`: rejecting the author's changes in the directory that was
  checked shows the original text; in the packed file the same but for blanks, and the same if
  `validate.py` passed the file itself.
  `PackedCommentsResolve`: every marker has one comment, every comment its entries, every reply
  its parent.
- `OfficeRunIsSound`: a script starts LibreOffice with a whole macro and, where it needs one, a whole
  shim, unless another script is writing them or has failed at it; `recalc.py` counts every cell
  with an error once.
- `SettingsInv`: `LayersResolve` (at every path the last layer that says anything of it decides;
  arrays of items with codes add up, nothing lost or doubled) and
  `CatalogAgreesWithResolver` (both programs speak of the same files). `GroupsCoverFiles`.
  `FilledFormInv`: `FormIsFilledWhole` and `CheckedBoxesStayApart`.

Each has a mutant, a plausible bug in the code it is about (an operator `Mut...` next to the
definition it replaces), under which TLC finds it violated.

### Fairness

- `Engine`: timers fire, a request's body arrives and its local socket opens or fails, the
  shutdown wait ends. Nothing is assumed of workers.
- `Channel`, `HttpBridge`: a started close completes, the abandon timer fires, sent frames
  arrive. Nothing is assumed of the worker or of the invocation.
- `Gateway`: whatever a handler awaits returns or throws. That holds for calls through the
  engine, which time out; for the provider's HTTP call it is an assumption, since the code
  sets no timeout for it.
- The services and tools have safety properties only and need none.

### Findings

1. `/ready` (engine.ts:274): when the remembered HTTP worker closes, no other is looked for.
   README.md:35 of the engine promises 200 "if at least one HTTP trigger worker is connected".
2. Shutdown (engine.ts:183) looks only at `pending`; protocol.md:84 says it waits for in-flight
   invocations, and forwarded ones are in flight too.
3. The head of a response is written twice (engine.ts:890 and 934, then 925): after a failed
   invocation or a socket error `headersSet` is still false when `close` arrives, and
   `writeHead` throws where nothing catches it.
4. The free-tier limit (http-handler.ts:460, recorded at 519 and 585) is exceeded by requests
   that were admitted earlier and by the later tasks of a request; docs/OPERATIONS.md:286 says
   that all requests are refused once the limit is reached. (In tokens, which lines 77-79 of the same
   document say the limit is of, it is not looked at at all: see below.)
5. `clean.py:145` removes the relationships of every chart, diagram or drawing that no *slide*
   refers to, also of a drawing that stays because a chart refers to it; the picture the drawing
   showed is unreferenced then and goes in the next round. Its header (line 11) speaks of "Orphaned .rels files
   for deleted resources".

### Noted while modelling

Behaviour the models have as the code has it, for which there is no run of its own:

- The limits of the free tier: docs/OPERATIONS.md:77-79 says "Total tokens allowed before the circuit
  breaker opens", the code compares them with `request_count` (usage_tracker.ts:118-134). Tokens are
  added up (`token_count`, 64-75), for streams as 0, and read by no check, so that nothing bounds them.
  The properties count requests, as the code does. A limit of 0 never exhausts (130).
- Validators (`base.py`): the type of a relationship passes if the expected word occurs in it (447), so
  an entry of the slide list may lead to a layout or a master; a part without a `.rels` file is
  passed over whatever ids it uses; slides are not held to a schema.
- Relationship targets beginning with `/` are accepted by the validator (332), but `clean.py` drops
  them (40-46, 119-123, 162-166): what only they name is removed, a listed slide too, and the
  relationship stays and leads nowhere. `CleanIsComplete` has the exception, and the decks of shape
  "rooted" show it.
- `pack.py` condenses each file after the checks (56-58, 108-128): a text of blanks only in any element
  but `w:t` goes, that of `w:delText` too, so that a deletion of blanks alone cannot be taken back from
  the packed file. `PackedIsRedlined` says so; `validate.py` on the packed file sees it.
- Two runs of `add_slide.py` before either entry is inserted print the same slide id; the
  validator's unique-id check is what catches it.
- `validate.py` repairs a packed file only in its temporary copy; it repairs `durableId`, while its
  help names `paraId` too.
- The redlining check passes a document in which its author has no change at all, so an edit
  made without tracking passes as well. `PackedIsRedlined` is about documents with changes of the author.
- `comment.py` refuses an unknown parent after it has written the comment: the comment stays,
  without entries in the other three files.
- `accept_changes.py` (76-80) and `recalc.py` (94) count a time-out as success, and look at nothing but
  the return code otherwise; that LibreOffice has stored the document is not known from either.
  The set-up of the macro does not catch a time-out.
- A macro cut short by a failed write counts as set up from then on, as its name is in the file
  (accept_changes.py:95); so does a shim that gcc left half written (soffice.py:54).
- `suggest_groups` keys files by name: of two of the same name in different folders one is
  dropped. `GroupsCoverFiles` assumes distinct names.
- `check_bounding_boxes.py` stops reporting at twenty messages, never short of the first.
- The Python SDK's stream ends at the first comment or event line, without an error.
- A gate that throws (orchestrate.ts:309) rejects the whole call while the other nodes of the stage
  go on calling; evaluated after its own retries it is caught (343) and costs an attempt only.
- `distributor.ts` makes `retryCap + 1` attempts.
- `orchestrate.ts`: the verdict of the review and the recommended worker are only returned;
  `needs_reroute` re-routes nothing (peer_reviewer.ts:5 speaks of triggering it), and the
  "re-routed workers" of line 14 are the same function called again. A review that cannot be read
  counts as 0.7, the default threshold, so it approves. And the reviewers see nothing of what they
  review: they are sent `JSON.stringify` (177) of an object whose results are a `Map` (392-394), which
  writes `{}`; texts are not modelled, so no run shows it.
- The cooldowns of `failover.ts` (99-114) never take effect: the engine that keeps them is made for
  one route (index.ts:206), and no chain names a provider twice. The model leaves them out.
- A provider's row is never reset: a free tier that is used up is so for good, with the limit it
  was first used under, also after the limit has been raised.

## What is proved

`EngineProofs`, for any number of connections, calls, functions and names, from
`BoundsAssumption` (the bounds are naturals) and `FnAssumption` (the two built-in routes name
functions):

- **`EngineInvariant`**: `Spec => []EngineInv`. `EngineInv` is inductive. `PendingIsUnanswered`
  and `ForwardedIsUnanswered` carry the argument; `CallShape` is needed because the handlers of
  an HTTP request hand the call's target from one to the next, and `InboxWasSent` because an
  answer must concern a call that was sent. One lemma per action or kind of action.
- **`HttpWorkerConnected`**: `Spec => []HttpWorkerIsConnected`, inductive by itself: only the
  close handler takes a worker out of the map, and it forgets it.
- **`EngineImplementsLedger`**: `Spec => ImplementsLedger`. Under `EngineInv` every action is an
  `Issue`, `Refuse`, `Drop` or `End` of the ledger or leaves it alone; the lemmas about
  `SlaMetrics` say by how much the totals move.
- **`MetricsAgree`**: `Spec => []SlaAgreesWithOutcomes`. `SlaInv` adds that the calls counted as
  begun are those ended and those in `pending`, and that, as long as no worker was renamed
  during a call, each pending call still has its entry, so that its end will find it. Sums over
  the entries are stated as the cardinality of a set with one element per unit (`SumOf`), which
  grows by one element when a number does.

`ChannelProofs`, for any readers, frames and buffer size, from `ChannelAssumption`:

- **`ReadersAreReleased`**: `ChannelSpec => []NoReaderWaitsForNothing`. It is not inductive: the
  writer's close handler leaves the readers alone if frames are buffered, and otherwise closes
  those in `readWss`. `ReleaseInv` adds what makes that right: every socket that is not gone is in
  `readWss`, no reader is attached while frames are buffered, and the flag follows the socket.
- **`BufferStaysInBounds`**: the byte count stays within the limit, from the same invariant.
- **`ChannelIsSound`**: `ChannelSpec => []ChannelInv`. `StreamInv` adds that the byte count is the
  sum of the buffered sizes, that what a reader received and what is buffered are increasing in
  the frames' ids, and that nothing buffered is older than what an attached reader has.
- **`LateReadersLoseNothing`**: `ChannelSpec => []WholeStreamIsRead`, from its last conjunct: as
  long as nothing disturbed the stream, either all of it is buffered or one attached reader has
  all of it.

`BridgeProofs`, from the same assumption and the two that make the reader the engine's own and
say which frames set the head:

- **`BridgeImplementsChannel`**: `BridgeSpec => ChannelSpec`. Every action of the bridge is one of
  its channel's or leaves the channel alone, so what `ChannelProofs` shows holds of the bridge.
- **`ResponseIsFaithful`**, **`SuccessLeavesNothingOut`**: `BridgeSpec => []BridgeInv` and
  `[]SuccessIsComplete`. `ResponseInv` says how far the response is: its body is made of
  exactly the body frames among those that have arrived, its head of the last control frames
  among them, of those before the first body frame once it is sent; and a close that follows no
  failure finds every frame arrived. That the frames which arrive are those written comes from `StreamInv`.
- **`StreamIsOnlyCutByFailure`**: `BridgeSpec => []OnlyFailureCutsStream`.

`GatewayProofs`, for any requests under way, providers, chains, limits, tasks and restarts, from
`GatewayAssumption` (chains are sequences of providers, limits naturals):

- **`FailoverIsInOrder`**: `GatewaySpec => []GatewayInv`. `TriedInOrder` and
  `OnlyAdmittedAreTried` speak of the awaits after the zero-cost check only; `GatewayIInv` adds
  what a request's locals hold before and after it: no failures before the first call, only free
  providers among those admitted so far, no reply before the end, and cleared locals in a free slot.
  It is stated per request, and a step of one leaves the others alone, so that each
  lemma is about one request and one action.
- **`OvershootBounded`**: `GatewaySpec => []RequestOvershootIsBounded`. Once a provider is used up, each
  request admitted before still owes it at most one use per task left. `QuotaInv` says that uses
  and what is owed together stay below the limit plus tasks times requests; a step turns something owed into a use,
  or gives it up, and after exhaustion nothing new is owed, as the check refuses the provider.
- **`ExhaustedForGood`**: the action property `ExhaustedStaysExhausted`. No step takes back a use,
  or changes the limit of a row that has one (`RowsGrow`), restarts included.

And about the tier cache, for any providers, refresh runs and number of probes (`TierAssumption`: the
known providers are a sequence of providers):

- **`OneProbePerProvider`**: `TierSpec => []CallersShareProbe`. Inductive with the types:
  refresh runs never touch `inFlight`.
- **`KnownTierKept`**: the action property `KnownTierIsKept`. It rests on `RunsHaveResults`: a run
  under way is at a provider of the list, and one about to cache brings an entry `doProbe`
  returned. Every other step that writes the cache writes a tier that was probed.

`ServiceProofs`, for any threads (`ThreadsAssumption`: "nobody" is none of them), peers, polls
and timers (`DiscoveryAssumption`), stages of distinct nodes (`DistributorAssumption`), retries
(`ClientAssumption`), capacity, window and number of keys (`LimiterAssumption`), intents, gates
and reviewers (`OrchestrateAssumption`):

- **`BrainTypeCorrect`**, **`ModelLoadedOnce`**: `BrainSpec => []ModelIsLoadedOnce`. `BrainIInv`
  is the type invariant with the property: a thread is in the locked part exactly if it holds the lock, and the
  model count moves only there, after the second look.
- **`ListenerKnowsPeers`**: `DiscoverySpec => []EventsFollowPeers`, with the types of the
  counters. Polls apply their difference to the map as it is when they return, in one step; that is the
  whole reason overlapping polls do no harm to the events. `AppliesKeeps` and `AnswersKeep` say that a hook
  that throws or stops the cluster in between leaves the two together.
- **`ResultsComeOnce`**: `DistSpec => []ResultsOnce`. `DistInv` has three parts: each entry of
  the array carries its own index, which the swap with the last entry renews
  (`ArrayInPlace`); the nodes yielded and those still in the array are apart and together
  make up the stages so far (`YieldedOnce`); and the workers a node was tried on are distinct.
- **`OnlyFailuresAreRetried`**, **`ChunksAreAPrefix`**: `ClientSpec => []RetriesAreJustified` and
  `[]StreamIsPrefix`, from `ClientInv`: every answer but the last was a 5xx, and the time
  slept is `2^retries - 1`; what was yielded are the first lines of the body, all data.
- **`GrantsStayBounded`**: `LimiterSpec => []GrantsAreBounded`. `LimiterInv` bounds, for each
  bucket, what it granted and what it holds together by a full bucket and what accrued up
  to its last refill. The map's keys and their order of insertion agree, so eviction drops a bucket whole.
- **`OrchestratorIsRight`**: `OrchSpec => []OrchestrateInv`. `OrchIInv` describes the nodes by their stage
  (later ones untouched, earlier ones settled), counts the gates of the nodes judged so far, finished or not, and
  the retries as calls beyond the first, once over the nodes and once over the stages. The lemma
  `TwoStages` computes `computeStages` by giving the function its recursive definition
  describes; `MedianIsMajority` shows by counting ranks what the median of the scores decides.

And about the vault, for any passwords, providers and secrets, and rows up to a bound:

- **`WorkerKeysStayOpen`**, **`ListingsAgree`**: `VaultSpec => []WorkerKeysOpen` and
  `[]ReadersAgree`, from `VaultInv`: the worker encrypts only under the password the canary was
  made with (`OnePassword`), and the view shows rows as they were, with their own ids, at most
  since deactivated (`PaneLags`).
- **`KeyOnlyMovesBack`**: the action property `KeyInUseMoves`. A row is only added at the end or
  deactivated, so the newest active row of a provider changes to a new row or to an older one.

`ToolProofs`, for any slides, other parts, scripts, spreadsheet cells, forms, boxes, listings
and settings files, from `SlideAssumption`, `OfficeAssumption`, `FormAssumption` (boxes are
drawn on the page), `DistillerAssumption` (an argument stands for a sequence of files) and
`BmadAssumption` (a file that parses is a document: only tables have something below):

- **`PackedDeckOpens`**, **`CleaningIsComplete`**: `PptxSpec => []PackedIsSound` and
  `[]CleanIsComplete`. `PptxInv` says that every step keeps a deck: presentation
  and layout are there, slides keep their relationships, and only what once was a slide can be
  missing; and where `clean.py` stands tells what it has made sure of.
- **`RunsHaveTheirSetUp`**: `OfficeSpec => []OfficeRunIsSound`. `OfficeInv` follows each
  script through its set-up, whatever the others do to the shared files. A macro that is less than whole
  has a script that writes it or failed at it. As long as nobody failed at the shim, nobody
  builds it, or one script does and has a source of its own, or there are more builders than sources
  to remove, so that one of them is bound to fail;
  `EachCellCountsOnce` shows that `recalc.py`'s counts add up to the cells with an error.
- **`FormsAreFilledRight`**: `FormSpec => []FilledFormInv`. `FormInv` says that texts are made of
  the boxes as they are, which once drawn are not changed, and that a passed check is about
  them. `LaterEntriesWin` shows that the loop over the answers ends with the last one for each field;
  `TextIsPlaced` that both conversions keep boxes apart.
- **`GroupsCoverFilesHolds`**: `DistillerSpec => []GroupsCoverFiles`. `GroupsInv` is the loop's
  invariant after n files of distinct names: a group is opened by a companion and holds nothing but its
  companions and the document itself, which is in a group once one is open for it. `LoopKeeps` and `LoopComputes`
  are what is needed of loops in general: a pass that keeps a set of states has a function
  of the number of passes, and what every pass keeps holds at the end.

- **`SettingsResolve`**: `BmadSpec => []SettingsInv`. `BmadInv` says that what was answered is what
  the programs make of the files as they are. `MergeAtPath` is the merge's whole effect at one path;
  `FollowsNext` adds one layer on top: either it says nothing of the path, or it ends what the
  layers below said, or its array joins theirs, of which `MergeArraysByCode` says what comes out.

`DocxProofs`, for any words, authors, comments and original documents, from `DocxAssumption`
(originals are made of well-formed paragraphs as Word writes them: struck out text and no other stands in
`w:delText`, and Me struck out nothing that another did):

- **`CommentsResolve`**: `CommentsSpec => []PackedCommentsResolve`, and so of `DocxPackage`, of
  which each step is one of `DocxComments` by its definition. `NotesInv` numbers the comments,
  says which of them have their entries, and that relationships and declarations are written
  together; the checks are needed for what comments and files cannot promise each other: markers, unique
  ids, and files that a comment which failed did not write.
- **`SimplifyingKeepsText`**: `DocxSpec => []SimplifyKeepsText`. `TextInv` says that a document is made of
  well-formed tokens whatever is done to it. What a loop over a sequence computes is a pass
  (`PassComputes`, `LoopIsPass`): its value after one element more. `SameTokensRead` and
  `RunsRead` then say that a paragraph is read alike after the merge of neighbouring changes and
  of neighbouring runs: an end and a start of the same change cancel out, and `Together` that two runs of
  one formatting are read as one; `ConsolidatedWords` that the texts joined are the same words.
- **`PackedTextIsRedlined`**: `DocxSpec => []PackedIsRedlined`. The validator compares less than
  the property says: what the original and the document hold in `w:t`, of Me's insertions none
  and of Me's deletions all. `RedlineInv` says why that is enough. Every word stays *told*,
  whatever the editor does, slips included (`EditedTold`): one in `w:delText` is struck out or Me's
  own insertion, and Me strikes out nothing another has, so that no word can hide from the
  comparison in an element it does not read; the converse, that no struck out word stands in
  `w:t`, is not kept, and is what `validate_deletions` is for (`DeletionsValid`). And nobody but Me comes
  to have more changes than the original has (`EditedCounts`, `SimplifiedCounts`), so that the
  author `infer_author` finds is always Me (`InferredIsMe`) and the comparison is of the right
  changes. `TextIsShown` then says that both compared texts are what the documents show with Me's
  changes rejected. `validate_insertions` is not needed for it.

Some of these arguments need the least of a set of numbers, the step that stands for an
induction: it is taken from the library's fact that a well-founded relation has minimal elements,
or from the finiteness facts about subsets. A recursive function is computed by naming the function it must be.

Only model-checked:

- everything with fairness (`EngineCallsSettle`, `ClosedChannelIsDropped`,
  `WriterCloseEndsResponse`, `RequestsAreAnswered`), which this prover cannot express;
- the types of the modules put side by side in `MCServices` and `MCTools`, where each module's
  theorem needs only its own (`BrainTypeCorrect`; the invariants above contain the others).

## Plan

Done: the engine with ledger, metrics, channels and bridge; the gateway's routing, limiter, tier
cache and distributor, and its restarts; vault, Python client, brain, discovery, orchestrator; the skills' presentation,
document, LibreOffice and PDF scripts; the BMad scripts; thirty-seven theorems. What would come next:

1. **Cluster registry and offload** over `Discovery`; the TypeScript SDK beside `AgentClient`.
2. **Gateway, continued**: the heal race; requests of several keys.
3. Theorems about the components to come; of those there are, only liveness and the composed types
   are left to TLC.

## What is not modelled

Text work (classification by heuristics, what gates and healers look for in a text, model
translation) is data without protocol. Probes, quota monitor, cost reporter, health and the
dashboard stream read and report; nothing of the router depends on them. The drain at shutdown
is one race of a promise against a timer. The dashboard, TUI (but for its vault view),
deployment scripts and telemetry store are I/O around the system. Scripts of the skills that
only draw or print (thumbnails, form images) have no state; the copies of scripts under the
other agents' directories are the same files. The real `iii-sdk` is an external package; the
repository holds only its types, so worker behaviour is whatever the engine may receive.
`PROJECT.json` lists every component with its status, and every hazard with the property that
covers it or the reason why none does.

## Running

    tlc -workers 2 -config MCEngine.cfg MCEngine
    tlc -workers 2 -config MCChannel.cfg MCChannel
    tlc -workers 2 -config MCHttpBridge.cfg MCHttpBridge
    tlc -workers 2 -config MCGateway.cfg MCGateway
    tlc -workers 2 -config MCServices.cfg MCServices
    tlc -workers 2 -config MCTools.cfg MCTools
    tlc -workers 2 -config MCPptxClean.cfg MCPptx
    tlapm EngineProofs.tla
    tlapm ChannelProofs.tla
    tlapm BridgeProofs.tla
    tlapm GatewayProofs.tla
    tlapm ServiceProofs.tla
    tlapm ToolProofs.tla
    tlapm DocxProofs.tla
    tlapm LoopLemmas.tla

The other configurations (`MCEngineLive`, `MCEngineReady`, `MCEngineShutdown`,
`MCHttpBridgeHead`, `MCGatewayQuota`) run on the same modules.
