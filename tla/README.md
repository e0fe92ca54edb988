# Costguard: TLA+ specifications, model checking and proofs

Costguard is an LLM gateway: an HTTP server that routes OpenAI-style requests to
providers, with retries, a fallback provider and circuit breakers in between, a
response cache and monthly budgets in front, and metering and a monthly report
behind. These modules specify it from the configuration file to the last byte of an
answer: the state it keeps, the order of its steps, and what interrupts them. Paths below are relative to
`src/`; a bare file name is in `internal/gateway/`.

- [Inventory](#inventory)
- [Modules](#modules)
- [Runs](#runs)
- [Fairness](#fairness)
- [Proofs](#proofs)
- [Where documentation and code disagree](#where-documentation-and-code-disagree)
- [Not modelled](#not-modelled)
- [Left to do](#left-to-do)

## Inventory

Every request is a goroutine of the HTTP server. Requests share the objects of
the left column; nothing else synchronises them.

| Component | State | Operations | Interacts with | Hard behaviour | What makes it correct |
|---|---|---|---|---|---|
| Circuit breaker (`internal/breaker/breaker.go`) | state, failure counter, trip time, probe slot | `Allow`, `RecordSuccess`, `RecordFailure` | asked before and told after every provider call | outcomes arrive long after the state moved on; the probe slot is a lock without an owner | tripped means shedding load; one probe per trip; the slot never leaks; recovery |
| Breaker registry (`internal/breaker/registry.go`) | map provider -> breaker, policy overrides | `For`, `SetPolicy` | call path; start-up | lookup and creation are two critical sections | one breaker per provider, running its current policy |
| Call path (`provider.go`, `retry.go`) | per request: target, attempt, error | breaker gate, retry loop, outcome recording, fallback | breakers, health tracker, providers | disconnects during calls and backoffs; retries after a trip; two breakers per request | bounded calls; no call for a departed client or after an answer; answered once, by whom it says |
| Response cache (`internal/cache/memory.go`) | map key -> entry with expiry | `Get`, `Set` | proxy | `Get` decides between two locks; eviction | behaves as an atomic, bounded store with a time to live |
| Budget service (`internal/budget/service.go`) | none (reads the usage table) | `CheckMonthlyBudget`, `CheckRequestBudget` | usage store, proxy | check and charge are a provider call apart | bounded overshoot |
| Budget alerts (`alerts.go`, `internal/alert/`) | rows of `budget_alerts` | `emitMonthlyBudgetAlertOnce`, `emitAgentBudgetAlertOnce` | notifier, database | lookup, e-mail and row are three steps; restarts; turn of the month | alerts are true, delivered, eventually sent, rarely twice |
| Metering (`metering.go`, `internal/usage/`, `internal/metering/`) | rows of `usage_records` | `meterResponse`, `meterFailedResponse`, `Save`, spend queries | every endpoint, budgets | saved with the request's own context | every answer charged once, to the month and tags it belongs to |
| Proxy pipeline (`proxy.go`) | per request | hints, routing, budget, cache, call, store | all of the above | order of the stages; stale reads between them | stages compose |
| Audio, speech, embeddings (`audio.go`, `speech.go`, `embeddings.go`) | per request | as proxy, shorter | budgets, call path | differ in which checks they make | same guarantees as the proxy |
| Stream metering (`stream_meter.go`, `streaming.go`) | line buffer, usage seen, done flag | `Read`, `Close`, `finish` | adapters, handlers, metering | lines split over reads, overflow, order of usage and `[DONE]`, departing clients | billed as delivered, and no stream left unsettled |
| Health tracker (`internal/health/tracker.go`) | ring of outcomes per provider | `Record`, `Snapshot(s)` | call path, admin | wrap-around | last window of calls, in order |
| Monthly report (`internal/report/`) | rows of `monthly_reports` | scheduler tick, four queries, send, mark | notifier, usage store, admin endpoint | usage grows between the queries; several instances; restart between the steps | sections agree; no month lost; repeats explained |
| Pricing (`internal/metering/`) | constant tables, configured prices | `NormalizeProvider`, `NormalizeModel`, `LookupPrice`, `EstimateCost` | router, metering | prefixes that hide one another | the price configured for a model is the model's price |
| Router, provider registry, catalog (`internal/router`, `internal/providers`) | set at start-up | `PickProvider`, `Get`, `ModelSupported` | proxy | ties, missing providers, unpriced models | a permitted provider is chosen, none better passed over |
| Provider adapters (`internal/providers/*`) | per call | request and stream translation | call path, stream metering | a translator goroutine behind a pipe; streaming state machines | no goroutine left behind; the usage reported arrives |
| Configuration (`internal/config/`) | none | `Load` | start-up | references to the environment; checks made twice, differently | what it accepts can be wired |
| Wiring (`internal/app/app.go`, `cmd/api`) | registry, catalog, policies, modes | `New`, `Run` | everything | Go's map order; start-up run and shutdown beside requests | a serving gateway has its providers; a restart changes nothing |
| Feedback (`internal/feedback`) | append-only file | `Append`, read | HTTP endpoint | concurrent append and read | no torn record |
| Server, admin views, logging, notifiers, migrations | none of their own | | | shutdown with requests open | |

`PROJECT.json` lists the same components with their status, and under `hazards`
the places in the code where these behaviours bite.

## Modules

`--` is EXTENDS, `~>` is a refinement mapping (`INSTANCE ... WITH`), `..>` composes by
contract.

```
BreakerOps -- Breaker --------- BreakerProofs, MCBreaker
     \------- CallPath -------- CallProofs, MCCallPath      ~> Failover
              BreakerRegistry - BreakerProofs, MCBreakerRegistry
              MemoryCache ----- CacheProofs, MCMemoryCache   ~> TTLCache
              SpendGate ------- SpendProofs, MCSpendGate
Pricing -- Router -- Startup -- StartupProofs, MCStartup
              Stream ---------- StreamProofs, MCStream
              Reporting ------- ReportProofs, MCReporting
              Proxy ----------- ProxyProofs, MCProxy
                ..> Router, SpendGate, Failover, TTLCache, Stream
```

**BreakerOps** is the breaker object as operators from a breaker and a policy to
the next breaker. Each Go method holds the mutex throughout (the `Disabled` and
`TripOn` tests before the lock read immutable fields), so a method is one atomic
step. The trip time and the clock are kept as their difference, saturating at the
cooldown; the failure counter saturates at `FailureCap`.

**Breaker** runs callers against one object: `Allow`, then an upstream call of any
length, then `Success` or `Failure(category)`. `stale` records which running
calls were admitted before the last trip, and `call` which hold the probe; both are
history, no guard of the program reads them. `Heal` is the environment's promise
for the liveness properties. `Streaming` are the callers whose call has no timeout.

**BreakerRegistry** splits `For` where the code releases the lock: `Found`/`Missed`
under the read lock, `FoundLate`/`Create` under the write lock. A request looks the
breaker up twice, as `callThroughBreaker` does. A Breaker object is its allocation
number; its contents are the other modules' business.

**CallPath** is `callProviderWithFallback`, `callThroughBreaker`,
`callSingleProvider` and `callWithRetry`:

| pc | in the code |
|---|---|
| `gate` | before `Allow` (`Admit`, `Reject`) |
| `loop` | top of the retry loop: context test, registry lookup (`GiveUp`, `NotFound`, `Call`) |
| `upstream` | inside the adapter's `Do` (`Reply`) |
| `backoff` | the `select` between timer and context (`BackoffOver`, `BackoffCancelled`) |
| `record` | back in `callThroughBreaker` (`Record`), then fallback or return (`Conclude`) |
| `done` | the caller has its answer (`Return`) |

Errors are grouped by how `gatewayErrorCategoryAndType`,
`isRetryableProviderError` and the retry conditions treat them. The registry of
breakers is a function here, which `BreakerRegistry` justifies when `SetPolicy` is
called before the server starts, as `internal/app/app.go` does. `failed` is
the part of the health tracker the properties need. Backoff durations are
abstracted: a backoff lasts until its timer fires. Embeddings call
`callSingleProvider` without breaker or fallback and are not submitted here.
`Failover` is the contract: answered once at most, after at most one failover, the answer
attributed to whom it came from.

**MemoryCache** splits `Get` at its locks; `Set` is one critical section. The time
`Get` reads first is a variable of its own, as it is used after waiting for the
lock. `Fetched`/`FetchFailed` are the proxy's part between `Get` and `Set`
(provider call and `cacheEntryFromResponse`). Go's map iteration picks the evicted
entry, hence a nondeterministic victim. `TTLCache` is the abstract cache, with a
`Get` that is one atomic step.

**SpendGate** is the money path: `CheckMonthlyBudget` and the 80/90% alerts, one
`CheckRequestBudget` query per scope, the 100% and agent alerts, the call, the usage
record. Chat requests do all of it, audio and speech only the request check,
embeddings none. The database (`spend`, `sent`) and the inbox (`delivered`)
survive a `Crash`. Costs are small numbers; the 80% and 90% marks are rounded up to
whole amounts (`Trigger`). One team, one project and one agent stand for each map of
limits: requests of different teams do not share a sum.

**Pricing** is `internal/metering`. A name is the tuple of its parts, so that a
prefix test of the normalisers is a prefix of tuples; the table's rates are
thousandths of a dollar per million tokens, so they are integers. **Router** is
`router.Router` with the catalog it asks and the routing stage of `Proxy` (mode
hints, provider hints, the exact mapping, the match by model name, the local audio
servers, the embedding provider). Both change nothing: Router is a set of operators
on the wiring, a record of what start-up left behind.

**Startup** is the life of that record: `config.Load` with its references to the
environment, validation and usability test; `app.New` with its four registration
loops, each ranging over a Go map in any order (`todo` is what it has not reached);
retry and breaker policies, modes in lower case, the embedding provider; the
database that does not answer; and `Restart` with the same file. `before` remembers
where the previous process sent each request.

**Stream** is one streamed answer. Its processes are those of the code: the
provider; the translator goroutine of the Anthropic or Gemini adapter with the
`io.Pipe` it writes to; the `StreamMeter`; the handler that copies and closes; the
goroutine that saves the record.

| Action | in the code |
|---|---|
| `Send`, `End`, `Break`, `Leave`, `Cancel` | the provider and the client, and what a cancelled context does to the body |
| `Translate`, `TranslatorEnds` | one turn of the translator's scanner loop, with its writes; the end of the goroutine |
| `Read` | one more piece of what a `StreamMeter.Read` got: buffering, the end of a line, `processLine`, `finish` on `[DONE]` |
| `ReadReturns` | the end of `inspect`, with the cap on the line buffer; the handler's write to the client |
| `ReadEnds`, `Close` | end of file or error; `StreamMeter.Close` |
| `Save`, `SaveFails` | `meterStreamingUsage` on its detached context; an insert that fails is logged and the record is lost |
| `Exit` | the process ends: `Shutdown` (`internal/app/app.go:741-743`) waits ten seconds for handlers and not at all for that goroutine |

A line is a number of pieces, the last of which ends it and stands for what it
says, and a read gets any number of them up to `MaxRead`: lines arrive whole, cut or
several at a time, within the meter's buffer or over it. The meter holds its state for
itself between the pieces of one read, so taking them one by one adds interleavings
and removes none. An OpenAI answer is a sequence of pieces, a translated one a
sequence of events; `sent` and `taken` count either. A Gemini event with several
parts is taken for several events with one part each.

**Reporting** runs any number of gateway
processes on one database. Each has a scheduler thread, which is also the start-up
run, and an admin thread for the report by hand; a thread looks up the month, makes
the four queries one at a time, sends, and marks. Requests go on saving records,
stamped with the time they ended. Shutdown cancels the scheduler, waits for open
handlers and gives up after its timeout; a crash keeps only the database.

**Proxy** composes the stages for one request of each kind, by their contracts:

| pc | stage, and the module whose contract it uses |
|---|---|
| `idle` | `Arrive` with a selected provider (Router), or `Refuse` (routing, SpendGate) |
| `lookup` | the cache (TTLCache); `Evict` may drop an entry at any time; a hit carries who gave it |
| `call` | `Answered` by the selected provider or the fallback (Failover), or by the local audio server; a 200 to a chat may be declared an event stream (`sse`) or not, whatever was asked for |
| `meter`, `save` | which answers leave a usage record, for whom and at what cost; the insert may fail |
| `stream` | an event stream is passed on and ends (Stream); it is never stored |
| `store`, `done` | the answer is stored, and replied |

Each module has its mutations beside the definitions they replace, commented as
such. They are what a plausible bug would make of the definition, and show that the
properties notice it.

## Runs

Each with the bounds that make the interesting cases happen:

| Run | Shows | Bounds and why they are enough |
|---|---|---|
| `MCBreaker` | `StateConsistent`, `LoadShed`, `OneProbePerTrip`, `SlotHasOwner`, `ClosedByProbeOrStale`; `ProbeResolves`: half-open with a timed probe ends; `Recovery` once the provider is healthy | 3 callers, one of them streaming: one trips, one is late, one probes. Threshold 2 and cooldown 2 distinguish "below", "at" and "elapsed"; the counter is capped at 4, past the threshold |
| `MCBreakerRegistry` | `CurrentPolicy`: no stale policy is registered; `OutcomeReachesGate` | 2 goroutines, 2 providers, 4 allocations: both create, `SetPolicy` discards, both create again |
| `MCCallPath` | `ProbeSlotHasOwner` whatever ends a call; `TrippedSheds` directly and through the fallback; `BoundedCalls`; `OpenHasFailedCall`; `NoWastedCall` for a departed client or after an ok; `ImplementsFailover` | 2 requests; a primary with 2 attempts and threshold 2, a fallback with 1 attempt (given as 0) and threshold 1, and an unregistered provider whose breaker is disabled, all directly routable |
| `MCMemoryCache` | `BoundedAndFresh`, `LiveEntriesKept`, `ImplementsTTLCache` | 2 threads, 3 keys, room for 2, time to live 1, clock to 4: entries expire, are refreshed and evicted during a `Get` |
| `MCSpendGate` | `OvershootBounded` by what is in flight; `AlertsAreTrue` | 2 requests, all three kinds, four limits, two tag sets, two months, a cost that crosses two thresholds at once |
| `MCSpendGate_alerts` | `MarkedWasDelivered`, `DuplicatesBounded`, `CrossingAnnounced` | 2 requests, 1 fault, 1 restart, one month; limit 5 and cost 4 cross first 80%, then everything |
| `MCStartup` | `ServingIsWired`; `RoutingSound` against files and prices; `RoutesSurviveRestart` | over 300 files and 6 environments: settings empty, blank, malformed or taken from the environment, two names in a section, one name in two sections, priorities, prices, two spellings of a mode |
| `MCStartup_price` | must find `ConfiguredPriceUsed` violated (below) | the shipped price of one model |
| `MCStream` | `BillSound`: the bill is that of the lines delivered, and what the provider reported when it all arrived; `EveryStreamSettled`: the record of a stream that is left, or that ends for a client that reads on, is made or its insert has failed, and nobody waits at the pipe | 13 answers of 3 families, lines of 1 to 5 pieces against a buffer of 2 and reads of up to 3, among them a usage report and a `[DONE]` longer than the buffer; garbled and oversized events, usage after the end; both endpoints; a client that stops reading, an insert that fails, a process that ends |
| `MCReporting` | `ReportsSound`: sections agree up to what was in flight, a month is marked only after delivery, repeats have a cause; `EventuallyReported` | 2 instances of 2 threads, 1 request, 2 months, 1 usage record, 1 failure, stop or report by hand; with one record no total can be behind by more than what is in flight, and that half of `ReportsSound` rests on its theorem |
| `MCProxy` | `CacheSound`, `BilledOnce` | a request for a chat beside one for another chat, for the same one routed to the fallback, or of any other kind (except `responses`, which differ from `stream` in nothing here); 2 providers, one the fallback; transcription at the local server, speech at a provider; time to live 1, clock to 2; 8 million states, under three minutes |
| `MCProxy_reuse` | must find `NoCrossProviderReuse` violated (below) | as above |

Bounds of the models, all named in the modules: `FailureCap`, `MaxBreakers`,
`MaxTime`, `MaxMonth`, `MaxCrashes`, `MaxFaults`, `MaxRecords`, `MaxEvents`.
Reporting counts the rows saved (`saved`) only to keep to `MaxRecords`.
`attempt` and `calls` of CallPath need none: the retry loop ends and `Return` resets
them. SpendGate's `spend` needs none either: it grows only until every budget is
spent and the requests in flight are done, because embeddings and media cost
nothing. Symmetry is used only in runs without liveness properties.

## Fairness

- `Breaker`: the clock runs; clients keep asking (without traffic nothing closes a
  breaker, since open turns half-open only inside `Allow`); a call returns where the
  adapter's `http.Client` has a timeout. The clients that stream from Anthropic and
  Gemini have none (`internal/providers/anthropic/client.go:65`,
  `internal/providers/gemini/client.go:57`), nor has the server, so nothing is
  assumed of the callers in `Streaming`. `ProbeResolves` is about episodes whose
  probe has a timeout, and `Recovery` has the premise that no streaming call holds
  the slot for good. A streaming probe to a provider that stays silent does hold it
  as long as its client waits, and all other load is shed meanwhile. All weak.
- `CallPath`: none. That every request is answered would rest on the same timeouts,
  and is not claimed; `ImplementsFailover` is the safety of the contract.
- `SpendGate`: an arrived request carries on, and chat requests keep arriving. This
  takes the calls to have a timeout, and the database and the mail server to answer,
  if only with an error (`internal/notify/smtp_sender.go:45` sets no deadline). An
  alert that failed is repeated only by a later request. No fairness on faults,
  restarts or the calendar.
- `Stream`: goroutines that can run do, an insert succeeds or fails, and a cancelled
  request takes its body with it. The provider owes nothing, not even an end. The
  handler's write returns for certain only once the client has left:
  `internal/server/http.go:19-23` sets no `WriteTimeout`. `EveryStreamSettled` is
  therefore about the clients that leave and, under the premise `ClientReads`, the
  streams that end or break for a client that does not stop reading.
- `Reporting`: goroutines run, the ticker fires, the server comes up after its
  start-up run, the database and the mail server answer. Nothing makes anybody start
  the process or keep it up; `EventuallyReported` assumes an instance that stays up.
- `Proxy`, `Startup`, `BreakerRegistry`, `MemoryCache`: none, only safety is claimed.

## Proofs

Every theorem holds for all values of the constants that satisfy the named
assumptions of its module. An invariant is proved by an inductive one that is
shown to hold initially and to be kept by each action, with one lemma per action
(`...Keeps`, `...Inv`, `...Preserves`); lemmas named `...Effect` say what a helper
does to an object and are cited instead of its definition.

| Module | Theorems | Inductive invariant, and why it is needed |
|---|---|---|
| `BreakerProofs` | `TypeCorrect`, `FieldsAgree` (`StateConsistent`), `LoadIsShed`, `TripHandsOutOneProbe`, `SlotNeverLeaks`, `ClosingEvidence` | `IInv`: type, `StateConsistent`, `LoadShed` and `OneProbePerTrip` together. Which calls may be fresh depends on the state, which state an outcome leads to depends on slot and counter; none is inductive alone |
| | `RegistryTypeCorrect`, `PolicyInForce`, `OutcomeReachesItsGate` | `RegistryInv`, of the registry: its types, the policy in force, and `GateKept`: from the gate to the outcome, the breaker that admitted a goroutine is the registered one, unless `SetPolicy` has replaced it since |
| `CallProofs` | `TypeCorrect`, `SlotHasOwner`, `BreakersShed`, `CallsBounded`, `CallsAreWanted`, `OpenForAReason`, `Refinement` | per request where it is, what it has counted and whom it answers with (`Located`, `Counted`, `Answered`); per provider the breaker's own invariant. `Refinement` is `ImplementsFailover` |
| `CacheProofs` | `TypeCorrect`, `CacheBoundedAndFresh`, `LiveEntriesStay`, `Refinement` (`ImplementsTTLCache`) | the bound with the finiteness its cardinality needs, and what a thread between the two locks of `Get` knows (`ThreadInv`) |
| `SpendProofs` | `AlertsTellTheTruth`, `NothingMarkedUnsent` | `Announces`: what a request still has to announce is true of the month it read. It stays true while the request waits, since spend only grows; a row follows only a delivery |
| | `TypeCorrect`, `OvershootAlwaysBounded` | `Within`: the spend of a budget, plus the highest cost for each request that has passed its check and is not yet billed, is below the limit plus the highest cost for every request. A check that passes buys room for one more answer; a month that has not begun has no spend |
| | `DuplicatesAlwaysBounded` | `Accounted`: until the row exists, the deliveries are paid for by requests about to file it, by faults, or by requests an earlier crash ended; once it exists only those that had already looked can send |
| `ReportProofs` | `ReportsInOrder`, `NothingMarkedUnsent` | `SoFar`, `InTheMaking`: the sections queried so far are in order and none exceeds the table, whose past months only grow |
| | `TypeCorrect`, `SectionsAlwaysAgree` | `Behind`: how far a total is behind the table of its month, plus the records of that month still to be saved (`Pending`), is at most the number of requests. Once a month is over no request is stamped with it, so a save moves one from the second to the first |
| | `DeliveriesAlwaysExplained`, `ReportsAlwaysSound` | `CountInv`: before the mark, deliveries are matched by schedulers about to mark or by causes (failures, stops, reports by hand); after it, only the schedulers already past their look can add one |
| `StreamProofs` | `TypeCorrect` | `TypeInv`: with the types, the shape of what is in the pipe (whole lines) and which answers have one |
| | `DeliveredIsBilled` | `Buffered`: the pieces in the line buffer, or given up on, came after the last line that ended, so a line that overflows it is a long one. `Metered`: usage and text of the meter are those of the lines before, but for long ones. Neither is inductive without the other: which lines may be missing is known only while they are in the buffer |
| | `BillAlwaysSound` | `Expected`: the usage the provider has reported so far is in the meter, or in the chunks still in the pipe; the translator's memory is what the last `message_start` said (`Followed`). With `Metered` this gives both halves of `BillSound` |
| `StartupProofs` | `WiredWhenServing` | `NoneMissed`: every usable entry a loop has passed is available, or the process has exited; so the one `Load` insisted on is there when the loops end |
| | `TypeCorrect`, `RestartsKeepRoutes` | `BuiltInv`: the registry and the catalog built so far are those of the sections and entries reached so far, the later section winning a shared name (`RegistrySoFar`, `CatalogSoFar`). When the loops end this describes exactly one registry and one catalog (`OneRegistry`, `OneCatalog`), so the map order has left no trace and `before` was computed on the same wiring |
| | `RoutingAlwaysSound` | from `BuiltInv`: priorities are integers and every price that is known differs from the one for "no price", so of two candidates one sorts before the other (`BeforeIsTotal`); there are at most two, hence a first, and none beats it |
| `ProxyProofs` | `TypeCorrect`, `CacheNeverLies`, `EveryAnswerBilledOnce` | `StoreSound` (each entry under the key of the request it answered), `HitSound` (an answer keeps the entry it was made of), `RequestSound` (who may answer, and that only a 200 to a chat is an event stream), `Ledger` (records by place in the pipeline) |

Assumptions worth naming: in `Breaker` threshold and cooldown are positive, and in
`CallPath` an enabled breaker trips on both categories, which `DefaultPolicy`
(`internal/breaker/breaker.go:33`) and `internal/app/app.go:506-512` ensure. In
`Breaker`, for a category outside `TripOn` the slot may stay taken, hence the
condition in `SlotHasOwner`. In `SpendGate` and `Reporting` the requests and
instances are finite sets and the costs have a maximum: the bounds count them.
`NameOrder` of `Router` lists the provider names once each, as sorting them does.
`FileAssumption` of `Startup` says that it lists every configured name, that
priorities are whole numbers (`int` in the code), and that a configured rate is not
the number by which the model says "no price", for which `InputPricePer1M`
(`internal/metering/lookup.go`) has a second result. `SizeAssumption` of `Stream`
says that a line buffer and a read hold something (`maxLineBufSize` is 1 MB, the
handlers read 4 KB or 32 KB), `EstimateAssumption` that estimates are not negative
(they are lengths divided by four, and costs of images), and `ScriptAssumption` that
an answer is a sequence of events or of pieces. `RateAssumption` of `Pricing` is a
fact about the constant table of the module and not a parameter: TLC evaluates it,
the provers do not open the `@@` the table is written with.

`ReportsSound` is the conjunction of `SectionsAgree` (of which `ReportsInOrder` is a
part) and `DeliveriesExplained` (of which `NothingMarkedUnsent` is one). The two
counting bounds of `SpendProofs` and the two of `ReportProofs` follow one scheme: a
sum of a counter and the cardinality of a set of requests or instances does not
rise, because a step that raises the counter takes its actor out of the set.

`BillSound` compares the meter's counters with a sum and a last report over the
lines delivered, both over sequences of any length. The library's induction theorems
take a predicate, which the provers cannot instantiate; `HasLeast`, `HasGreatest` and
`SetInduction` of `StreamProofs` take a set of numbers in its place and follow from
the well-foundedness of `<`. With them, a sum over a sequence is that of its front
and its last element (`SumAppend`), and the last report up to `n + 1` is the event's
own or the one before (`UsageInAppend`, `ReportsGrow`).

Only model-checked:

- liveness, which under fairness is out of the prover's reach: `ProbeResolves`,
  `Recovery`, `CrossingAnnounced`, `EveryStreamSettled`, `EventuallyReported`;
- `ConfiguredPriceUsed` and `NoCrossProviderReuse`, which do not hold (next section).

## Where documentation and code disagree

`MCStartup_price` must find `ConfiguredPriceUsed` violated: `NormalizeModel`
(`internal/metering/model_normalizer.go:23`) tries `gpt-5.4-` before `gpt-5.4-mini`,
so the mini model is billed and routed at the price of `gpt-5.4`, whatever
`config.json` says of it. `PROJECT.json` quotes the lines.

`MCProxy_reuse` must find `NoCrossProviderReuse` violated: `README.md:168` has cache
keys include the provider "to prevent cross-provider reuse", but the key is made of
the provider selected (`proxy.go:292`) and the answer is stored under it whoever gave
it (`proxy.go:392`). An answer of the fallback is served as the primary's until it
expires, and the record of such a hit names the primary (`proxy.go:304`).
`CacheSound` states what holds: the answer is the primary's or its fallback's;
`BilledOnce` asks only of a provider's own answer that its record names who gave it.

The models show more, and state what does hold in its place:

- A late success closes an open breaker at once (`internal/breaker/breaker.go:108`),
  without the half-open probe `README.md:125` describes. `ClosedByProbeOrStale` names
  both ways.
- A late outcome frees the slot of a running probe, and a second probe follows after
  the next trip, against the comment at `internal/breaker/breaker.go:73-75`.
  `OneProbePerTrip` counts per trip.
- Disconnecting clients trip the breaker of a provider that never failed
  (`README.md:128,152`). `OpenHasFailedCall` speaks of the time before the first
  client leaves.
- Refreshing a key in a full cache evicts another live one
  (`internal/cache/memory.go:57`). `LiveEntriesKept` allows it for a `Set` into a full
  store.
- Embeddings consult no budget (`README.md:429`).

Weaker than a reader of the documentation might expect: the "hard" monthly limit is
passed by the cost of what is in flight (`OvershootBounded`); a retry after a backoff
does not ask the breaker again, so it may go upstream while the breaker is open
(`TrippedSheds` speaks of requests admitted since the trip); a gateway built without
a logger marks an alert as sent when its e-mail failed (`HasLog` in
`MarkedWasDelivered`; the application always sets a logger); a usage record saved
with the request's own context is lost when the client leaves before it is saved
(`BilledOnce` exempts a failed insert, and a 200 whose body metering cannot parse,
`metering.go:176-186`); the record of a stream is lost when its insert fails or the
process ends first (`EveryStreamSettled` asks only that it was tried); of several embedding providers, and of two
spellings of a mode, Go's map order picks one anew at each start
(`RoutesSurviveRestart` exempts both).

## Not modelled

- Translation of requests and of answers that are not streamed, multipart bodies,
  how a cache key is computed, log lines, the wording of e-mails: data without
  control.
- Admin views and `Stats` methods only read. Of the health tracker only whether a
  provider has failed is kept; its ring of outcomes decides nothing.
- The feedback log is an append under one mutex and a reader that skips what it
  cannot parse; nothing else reads it.
- Durations: a backoff, its jitter and a `Retry-After` (`retry.go:51`) only decide
  how long a timer step is delayed.
- A panic inside an adapter, which would leave a probe slot taken (`provider.go:216`),
  is not a step of `CallPath`: recovery from it is in the standard library.
- The connection pool and SQL are trusted: a query is atomic or fails without
  effect, so a save that is reported as failed but was committed does not occur.
- Logging, migrations and the manual tools are I/O.

## Left to do

The ring buffer of the health tracker against a bounded sequence; the feedback log
with a reader beside two writers; the arithmetic of retries against a reference
definition.
