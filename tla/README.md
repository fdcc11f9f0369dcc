# Labubu in TLA+

Labubu receives OTLP traces, logs and metrics of LLM applications, keeps them
in a local store, computes what they cost, raises alerts on them and serves a
web client.  This directory holds TLA+ modules translated from its Go source,
the TLC configurations that check them on small instances, and proofs that
TLAPS checks for every instance.

## 1. Inventory

```
 OTLP clients                           browser / API clients
     |                                          |
 Receiver --Ingest--> Pipeline            API handlers
  gRPC, HTTP          channel + worker     | |  |   |
     |                    |InsertSpans     | |  |   dashboards/*.json
     | logs, metrics      v                v |  v
     +----------------> Store (SQLite) <-----+  RuleStore (alerting.json)
                        |   ^                      ^
     UpdateTraceCost ---+   +--- Purge loop        |
     (goroutine per batch)  +--- ListTraces --- alert Engine --> SMTP
```

| Component | State it keeps | Operations | What is hard | What makes it correct |
|---|---|---|---|---|
| Ingest pipeline (`internal/pipeline`) | closed flag, channel, worker's pending slice | Ingest, worker (receive, tick, flush), Shutdown | the closed check and the send are apart; a flush fails for one batch; Shutdown races both | every accepted batch is handed to the store once, in order, before Shutdown returns |
| Receiver (`internal/receiver/otlp.go`) | running handlers, answers | Export over gRPC, POST over HTTP, Shutdown with a timeout | a request of several groups is refused half way; clients send again; handlers outlive the timeout | what an answer says is true of the pipeline and, once the process ended, of the store |
| SQLite store (`internal/storage/sqlite_store.go`) | spans, traces, model_pricing and four more tables; one mutex | InsertSpans, UpdateTraceCost, Purge, DeleteTraces, pricing, start with seeds and backfill, reads | batches of a trace in any cut and order, sent twice; a goroutine per batch; statements committed one by one; stops between them | rows of the tables belong together; tokens and cost of a trace are those of its spans; nothing is left without a cost for good |
| Aggregation (`chdb_query.go`, merge in InsertSpans) | none | aggregateTraces, mergeTotalTokens | roots before or after their children | the row does not depend on how spans were cut into batches |
| Rule store and alert API (`internal/alerting/store.go`, `api.go`) | rules, states, history; one file rewritten at each change | rule create, update, delete; state and history writes; load, Close | update reads and writes apart; a write cut off; Close outside the lock | a deleted rule stays deleted; a restart finds the states |
| Alert engine (`internal/alerting/engine.go`, `setup.go`) | last evaluation per rule, events of a cycle | evaluate, state machine per rule and trace, notify, record | time, windows, rules changed meanwhile, kills between save and send | users are told what the state machine knows, once, after for_duration |
| Diagnosis (`trace_handler.go`) | in-flight set, stored results | diagnose, read | cached answer, call of a model, deletion in between | one call per request burst; a result belongs to a stored trace |
| LLM configurations | rows, at most one default | create, update, delete | two statements per change | one default |
| Dashboards (`dashboard_handler.go`) | index file, panel files | create, rename, delete, panels | read, change and write without a lock | no change is lost; panels belong to a dashboard |
| Import, export (`trace_handler.go`) | none | export; import: look up each trace of a batch, then store the batch | an answer of the store that means two things; traces that come and go meanwhile | traces that were there are left alone, the others are stored |
| Metrics store, PromQL subset (`internal/metrics`, `metrics_handler.go`, `metrics_translator.go`) | rows (a library, on disk or not); an index of label sets in memory | insert in two steps, select, rate, increase, aggregation, ratio, downsampling | the index trails the rows and is lost at a restart; gaps, resets, missing labels, the edge of a range | what was stored is found; groups add up to the whole; no point of a range is left out |
| Agent statistics, session context, token buckets, price of a span | none | pure functions | ties in time, parents that are missing or in a loop, subagents, several spellings, a sum that wraps | counts add up; a subagent is not the main agent; spelling does not matter |
| Logs | rows | insert, list, counts, purge | a level given as number or text | a log is found by its level in every store |
| In-memory store (`memstore.go`) | maps and slices under one mutex; settings also in `memstore.json` | the Store interface | a file written in place, failed and cut off writes; totals kept beside the spans | a restart finds the settings; its answers are those of the SQLite store |
| Queries (`sqlite_store.go`, `memstore.go`, the handlers' parameters) | none | lists, pages, sessions, cost summaries | two stores, two ways of computing | the same content gives the same answers |
| chDB store | the same tables in another library | the Store interface | reads and writes in statements of their own | the same as the SQLite store |
| Process (`cmd/labubu/main.go`) | deferred stops, retention loop | start, signal, stop | order of the stops | nothing accepted is lost at a signal |
| Router, gzip, OpenAPI, config, logger, MCP server, Python wrapper, web client | none | text and dispatch | none | not a matter for a state machine |

`PROJECT.json` lists all of them with their status, and every hazard at its
line.

## 2. Modules

| Module | Models | Correspondence |
|---|---|---|
| `DeliveryLog` | what the pipeline promises | a log of accepted batches, how many were delivered, and whether it stopped |
| `Pipeline` | `pipeline.go` | callers, worker and main are processes with a program counter; `closed`, `chanOpen`, `buf` and `pending` are the Go variables; the check and the send of Ingest are two actions, a flush is one step per batch |
| `Receiver` | the trace handlers of `otlp.go` and the stops of `main.go` | `P == INSTANCE Pipeline` with the requests as callers and the groups of their attempts as batches; its actions conjoin those of the pipeline.  HTTP bodies may never end; Shutdown waits for handlers, HTTP with a timeout |
| `TraceAggregate` | `aggregateTraces` and the merge in `InsertSpans` | the loop as a fold (`FoldSpans`), the row it computes as a definition over the batch (`Aggregate`), `Merge` |
| `TraceStore` | `sqlite_store.go`, the writes | EXTENDS TraceAggregate: tables are functions; a transaction or a single statement is one action; `busy` is the writer inside a call of several statements, which holds the mutex |
| `Queries` | the reads of `sqlite_store.go` and `memstore.go`, the parameters of the handlers | EXTENDS TraceAggregate, Sublists: every read twice, as the loop of one store (`Mem...`) and the statement of the other (`Sql...`), over the same tables; an order SQL or Go leaves open is a set of answers |
| `MemStore` | `memstore.go`, the writes | EXTENDS Queries: a call is one action, for the mutex is held throughout; `file` is `memstore.json` and `promised` what it should hold |
| `Sublists` | the loop over a slice that keeps some entries (`DeleteTraces` in `memstore.go`, `DeleteDashboard`) | `Picked`, a recursive function over the positions |
| `SessionStats` | `agent_stats.go`, `session_context.go` | EXTENDS Queries: loops as folds, shares and means as pairs |
| `Translation` | the translation of spans and logs, `tokens.go`, `pricing.go` | attributes are functions; a token count is a number modulo `WordSize` |
| `Metrics` | `internal/metrics`, `metrics_translator.go`, `metrics_handler.go` | `rows` is the library's table, `known` and `names` the index; an Insert is two actions; the functions of a query are operators over sequences of points with fractions as values |
| `RuleStore` | `alerting/store.go`, `alerting/api.go` | memory as functions; `file` says how the file differs from it (not at all, empty, torn, or an older copy); a PUT is two actions |
| `AlertEngine` | `alerting/engine.go`, `alerting/setup.go` | EXTENDS RuleStore: the loop's program counter, its copy of the rules, the traces it fetched, its events; time in ticks of 15 seconds |
| `Diagnosis` | `DiagnoseTrace` in `trace_handler.go`, LLM configurations and their tables | each handler is a process, each call of the store one step; a snapshot is the set of spans it lists; a configuration is its `is_default`.  `era` (how often a trace was deleted) and `current` (the stored result was up to date when the request came) are history |
| `Dashboards` | `dashboard_handler.go` | a request is its steps on the files: read, empty, write; and then answered (`Reply`); `alone` (no two changes overlapped), `outcomes` (the lists the answers given allow) and `stray` (panels posted to a dashboard that was not there, or left by a RemoveAll that failed) are history |
| `TraceImport` | export, delete and import in `trace_handler.go` | the import looks up one trace a step and stores a batch in another; others ingest and delete in between |
| `Computations` | | EXTENDS SessionStats, Translation: a behaviour puts the input of one pure part together item by item; what each part must compute, over the whole input |
| `MC*` | | instances for TLC; `MCComputations` runs `Computations` and `Metrics` together |
| `PipelineProofs`, `ReceiverProofs`, `TraceStoreProofs`, `MemStoreProofs`, `AlertProofs`, `DiagnosisProofs`, `DashboardsProofs` | | theorems about the module each extends; `MemStoreProofs` also about `Computations`, `DashboardsProofs` about `Metrics` |
| `FoldLemmas` | | lemmas about sums, maxima and picked entries, for the three that need them |

Mutants stand beside the definition they mutate and say what they break; no
specification uses them.

What each abstraction leaves out:

* Batches, spans, traces, rules and models are model values or records of what
  the properties tell apart.  A span has its trace, id, root flag, start, end,
  tokens (or none), session and model; names, attributes and events are left
  out.  A price is one number per token, so a span's cost is tokens times
  price; the formula with its cache buckets is in `Translation`.  Prices are in
  units finer than the 1e-6 a cost is rounded to (`Unit`, `Rounded`), so a small
  cost may become 0.
* `tokens = NoValue` is NULL; `cost = NoValue` is NULL.  `count` is the uint16
  of the source, taken modulo `CountModulus`.
* In `TraceStore` a stop may come between any two statements, but not inside a
  transaction: that is SQLite's promise.  Every statement of UpdateTraceCost, of
  Purge and of the backfill may fail, with what the code makes of it (it goes on
  after the update of a span, returns after the others); `lost` and `torn`
  remember which spans and traces that left behind.  An error in the middle of a
  result set, which the code does not ask for (`rows.Err`), is left out.
* In `Queries` the four buckets of a span are one number.  A text search is a
  relation between texts and what is searched for, one for the loop
  (`ContainsText`) and one for the statement (`Like`), which finds more only of a
  text with a wildcard (`Wild`).  Left out are the rounding of the costs of
  spans and the currencies of the cost summary.
* In `Diagnosis` a span does not change once it is there; logs, which only
  travel into the prompt, and what the model says are left out.  A client may
  leave at any step, after which the store calls of its request fail.
* In `AlertEngine` an evaluation lasts less than a tick, while sending mail may
  take any number of them.  `now` differs from its tick by a little, so
  instants exactly n ticks apart compare either way (`Elapsed`); each counter
  stops where no comparison with it changes any more (`Aged`).  Whether a trace meets a
  rule's conditions is one bit that may flip at any time.
* In `Metrics` the text of a query is a record of what the parser reads from
  it; the library keeps the rows it was given or, after a crash, a beginning of
  them.
* In `Dashboards` `os.WriteFile` is two steps, for it empties the file first;
  panels are the fields their validation reads.

## 3. Runs

The passing runs take between a few seconds and two minutes each.

| Run | Instance | Shows |
|---|---|---|
| `pipeline` | 2 callers, 3 batches, channel of 2, fair | accepted batches are delivered once, in order; Shutdown drains; late calls are refused; the pipeline implements `DeliveryLog`, so a Shutdown returns |
| `receiver` | a gRPC and an HTTP request of two groups, the second sent twice, channel of 2, fair | answers are true; only a handler that outlives the timeout may panic; what was answered with success reaches the store; a signal ends the process unless a gRPC client never finishes its message, and requests that were read are answered |
| `trace_store` | 2 traces, 3 batches sent once, retention of one, prices 0 and half a unit, 2 faults, each a stop, a cut off request or a failed statement | no span is left without a cost and nobody to compute it; rows belong together |
| `trace_store_settle` | 1 trace, 2 batches, each sent up to twice, prices as before, 1 such fault, fair | tokens and cost settle on those of the spans; every span is costed in the end |
| `alert` | 1 rule with for_duration 2 and an interval of 2 or 3 that a user changes, no fault, fair | users are told what the states say and all of it is recorded; one sample never fires; rules are evaluated again and again; deleted ones fall silent |
| `alert_faults` | for_duration 1, interval 1, a crowd of other traces; one failed fetch or save, and one stop of any kind during which requests go on | nobody is told twice of the same alert; a deleted rule stays deleted |
| `alert_debounce` | for_duration 3, interval 1 | a pair fires before its condition has held for for_duration (violation) |
| `diagnosis` | 2 handlers, 1 trace of up to 2 spans that is deleted once, 2 configurations, fair | one call of the model at a time; no older result over a newer one; no call for what is stored already; no trace in flight for good; one default |
| `dashboards` | 2 requests at a time, 2 dashboards, 1 panel, 2 names, 2 faults | as long as no changes overlap a list shows what the answers allow; a delete leaves a panel only where RemoveAll reported an error; nothing comes back that nobody held |
| `mem_store` | 5 writing calls of any kind, 4 batches of 2 traces, 2 models, 1 configuration, 1 fault | the row of a trace is that of its spans; costs add up; settings survive; in every state its answers to some forty queries are those of the SQL, but for what `StoresAgree` exempts |
| `computations` | every input of up to 3 or 4 items for each pure part; 6 metric requests, retention and 1 restart in any order | rows, statistics, context, tokens, prices and queries are what their definitions over the whole input say |
| `trace_import` | 2 traces of which one is exported, deleted and imported | the import reports success and the trace is not there (violation) |

Bounds.  `MaxSends`, `MaxOps`, `MaxChanges`, `MaxFaults`, `MaxStops`, the number
of tries of a request and the batches bound how often the environment acts;
nothing else is bounded, so every run explores all interleavings of its
instance.  Two batches of one trace, two callers and two traces are enough for
every pairwise race the modules have: every shared variable is guarded by one
mutex or owned by one goroutine, and a third party would only repeat what the
second does.

* Retention keeps one trace of two, so that it really deletes.  A cost of
  `Unit`, four, is one: at the default price of one a single token costs nothing
  after rounding, two cost one unit.
* The `alert` run has a for_duration of two ticks, so that an evaluation can
  fall strictly inside it, and intervals of two and three, so that the interval
  check matters and a change of the interval too; `alert_faults` explores every
  order of one failure and one stop with everything else, for which the shortest
  durations do.
* `diagnosis` deletes its trace once (`MaxEra`), so that a result of the trace's
  first life can meet its second, and has two spans, so that a snapshot can
  fall between.
* `dashboards` treats ids, names and handlers as interchangeable (no code or
  property compares them but for equality); two dashboards make a lost change,
  one panel an orphan.
* `mem_store` needs a price, two batches, a deletion or a recalculation and a
  read for its longest case, which five calls contain.  Its batches make a
  trace whose earliest span comes last, a second root, two traces of one session
  and a model nobody priced.
* In `computations` a behaviour extends the input of one part or acts on the
  metrics.  A run of three calls, an error between two successes and a
  subagent's child under a root need three or four items.  `MaxWalk` is 6 where
  the source has 500, above every chain of four spans; `WordSize` is 8 where it
  has 2^32, so that sums wrap; the lookback of five minutes is 4 steps and the
  tolerance of a reference 2.  Seven rows (`MaxRows`) hold two points of each of
  two metrics and a histogram.

Deadlock is not checked where a run may really stop: when the process has ended
or the bounded inputs are used up.

Fairness.  Goroutines that are runnable run (weak fairness on the worker, on the
steps of a call that holds the mutex, on the boot of the store, on the alert
loop); goroutines that compete for the mutex get it (strong fairness: Go hands a
mutex to a waiter that starves); the ticker ticks.  HTTP's stop ends by its
timeout.  For `alert` a mail server answers or breaks the connection in the
end; `smtp.SendMail` has no timeout of its own, so this is an assumption about
the server.  A diagnosis handler runs on, and its model answers or fails within
the 60 seconds of its context.  Clients, users, price changes and faults are
never fair.  `Dashboards`, `MemStore`, `TraceImport` and the computations promise
nothing in time and have no fairness.

### Where code and docs disagree

Two disagreements between the code and what is written about it have a run;
`PROJECT.json` quotes each line.  An alert may fire before its condition has
held for `for_duration` (`FiresOnlyAfterHolding`).  In the default store GetTrace
fails for a trace that is not there, which the import takes for one that is, so
it imports nothing new (`NewTracesAreImported`).

Others were met while modelling and have no run of their own.

Traces and costs:

* `docs/architecture.md:120` closes the pipeline before the receiver;
  `cmd/labubu/main.go:169` stops the receiver first.  `Receiver` models the
  code's order, and `SuccessReachesStore` relies on it.
* A later batch of children erases the root span id of a trace in the SQLite
  store (`sqlite_store.go:377`); the comment on the same merge at `chdb.go:192`
  keeps it.  `RowOfBatch` leaves the root out, and `RowFitsSpans` asks only that
  a root the row names is stored.
* `GracefulStop` has no deadline (`otlp.go:104`): a gRPC client that never finishes
  its message keeps the process from ending, though `main.go:170` gives the
  receiver five seconds.  `NothingHangs` speaks of the process from when no such
  message is missing; an HTTP body that never ends does not matter.
* `docs/architecture.md:634` says that seeds do not overwrite what is there; a
  restart writes them over prices the user set (`SeedModel` does so too).
* A trace whose calls come to cost nothing, at a price of zero or rounded, keeps
  the cost it had (`NothingToCost`, the early return at `sqlite_store.go:1355`):
  the overview then shows another cost than the breakdown by model.
  `CostsReconcile` exempts such a trace (`Free`) and says that no other differs.
* A failed update of a span's cost is ignored (`sqlite_store.go:1350`), so the
  trace is charged for a span that has no cost; other errors of UpdateTraceCost
  are only logged by its callers, and nobody tries again before the next start
  (`lost`, `torn`).
* A batch whose InsertSpans fails was answered with success already and is not
  tried again (`failed` in `Pipeline`); `span_count` is a uint16 and wraps;
  `cleanup_interval: 0s` makes the retention loop's ticker panic.

Alerting:

* The fetcher's window is interval + for_duration (`engine.go:118`), so a trace
  may have left it when for_duration is over and its pair stays pending for
  good; the state machine at `docs/architecture.md:421` goes on to firing.
* `RuleStore.Close` copies the memory under the lock and writes the copy outside
  it, so a restart after an orderly shutdown may find older alert states
  (`CloseReads`, `CloseWrites`).  A request that outlives the ten seconds main
  gives the API (`main.go:236`) may even be answered in between: a rule that is
  deleted just then comes back with the restart.  `DeletedStaysDeleted` exempts
  it: such a deletion is not in `confirmed`.
* A delete whose save fails is answered with an error (`api.go:193`), but the rule
  is gone from memory and from the list; it comes back with the next start unless
  another change has been saved since.
* `alerting.json` is written in place: a kill in the middle leaves it empty or
  cut off, and the next start begins with no rules (`file` is then `Empty` or
  `Torn`).
* A state that cannot be saved is kept in memory and no event follows: the pair
  is firing and nobody is told of it, now or later
  (`NotificationMatchesState` is checked without this fault).
* A start from an older or empty file begins anew, so it may tell users of an
  alert they know; `FiringDoesNotRefire` counts from the last such start.

Diagnosis and configurations:

* A diagnosis whose client left is computed to the end, as the comment at
  `trace_handler.go:393` says, but stored with the request's context
  (`:420`), that is, not stored.
* `Purge` deletes no diagnosis, and a diagnosis that ends after `DeleteTraces`
  is stored, so results of traces that are gone can be read.
* A request that looked for a stored result before another one stored it
  computes it again; only results that were there when it came spare the call.
* An error of RemoveAll is only logged (`dashboard_handler.go:353`): the dashboard
  is deleted, and the panels that could not be removed stay for good
  (`NoOrphanPanels` exempts them and says that nothing else leaves any).
* `UpdateLLMConfig` with an unknown id, or cut off between its statements,
  leaves no default at all.

Stores, statistics and metrics:

* Asked for a trace that is not there, the SQLite store answers with an error
  and the in-memory store with nil: the API says 500 or 404.
* What a session cost only the SQLite store tells (`sqlite_store.go:750`); the
  in-memory store leaves the field empty (`memstore.go:631`).  It says `mixed` of
  a session with one currency too, if a trace of it has no cost, for an empty
  currency counts (`SqlCurrency`).  It rounds the mean duration and the rate of
  errors, the in-memory store does not (`SqlFigures`, `MemFigures`).
* The SQLite store takes `%` and `_` in a search text for wildcards
  (`sqlite_store.go:1895`, `1947`, `1979`), `containsSubstring` takes them as
  they are (`Wild`).
* A failed write of `memstore.json` is answered with an error although the
  change is visible until the next start; a delete likewise.
* The duration of a trace in the in-memory store does not grow when its range
  grows at its start (`RowIsAggregate` allows it to fall short).
* `agent_stats.go:10` promises identical results from every store; calls that
  start in the same millisecond are taken in the order the store returns them
  (`ToolSpans` is a set).  The mean of retries is over the tools that were
  called, not over all types.
* The comment at `metrics_handler.go:618` picks the closest point of a step; the
  code averages those around it (`Downsample`).
* The order in which `metrics_translator.go:82` says labels override one another
  is not the order in which it merges them (`MergeLabels` follows the code).
* A ratio applies the function, window and aggregation of its left side to both
  (`ParseRatio`); windows are read in minutes only.

## 4. Proofs

`PipelineProofs` proves, for any callers, batches and channel size, type
correctness, `InOrderOnce`, `ShutdownDrains`, `LateCallsRefused` and that the
pipeline refines `DeliveryLog` (safety).  The inductive invariant says where
every accepted batch is: written, in the worker's slice or in the channel, in
this order and nowhere twice, together with what each program counter implies
for `closed` and `chanOpen`.  Without the last part a send after the close could
not be excluded.

`ReceiverProofs` proves, for any requests, group counts, retries and channel
size, `AnswersAreTrue`, `PanicOnlyAfterTimeout` and `SuccessReachesStore`, by
composition.  First `Counted`, the invariant of the counters of the requests,
shows that what a handler ingests is one of the batches, so every step of the
receiver is one of the pipeline or leaves it alone
(`ReceiverImplementsPipeline`); the theorems of `PipelineProofs`, instantiated
with the requests as callers, then hold of the composition and are used like
any other fact.  On top of them `Stops` says what each stage of the shutdown has
left behind, `Attempts` what a handler's last call of Ingest says of the groups
of its attempt, and `NothingAhead` that nothing of a later attempt is accepted
yet, without which a retry could find its groups taken.  Assumptions:
`SizeAssumption`, `MaxTriesAssumption`, `BufSizeAssumption`, `NoBatchAssumption`.

`FoldLemmas` is about what the modules compute with the community modules' folds:
a finite set has a maximum, a sum does not depend on the order it is taken in,
and a sum over parts, renamed or without its zeros is the sum of the whole.
The induction is over finite sets and naturals, stated with a set where the
library has an operator (`SubsetInduction`, `NatInSet`): a set that holds every
subset of S whose smaller subsets it holds, holds S.  For each recursion there
is a lemma that it has a solution and that two solutions agree (`SolutionExists`,
`PicksExist`; `LoopExists` in `MemStoreProofs`), which is what the operator's
CHOOSE needs.

`TraceStoreProofs` proves five properties for any batches, traces, models,
prices, resends and faults.

* `CostIsOwed` and `SpansHaveTraces`.  The invariant of the first couples the
  uncosted spans with the goroutines, the backfill's list and the plan of the
  update under way; what makes it inductive is that a plan begun for a trace
  names *every* span of that trace that has no cost (`PlanOfTrace`), since the
  plan and the statements run under one mutex.  A statement that fails moves the
  span it leaves behind to `lost`.  The second needs to know at which statement
  Purge is.
* `TokensSettle` and `CostsReconcile`.  `TableInv` says that both tables are made
  of what batches brought and that every trace has spans, `PlanInv` that what an
  update is about to write is what the tables say.  `TokensInv` and `CostsInv`
  say of each row that its sum is that of its spans or that it is not settled
  (a goroutine, the backfill or an update under way is about to correct it).  They
  are not inductive without their second half: a row that says anything but zero
  has a span with tokens, because an update of a trace without such spans writes
  nothing, and would leave the row wrong for good.  An update that finds nothing
  to charge has found every call of the trace costed at nothing (`Free`).
* `RowFitsSpans`: `RootInv`, `RangeInv` and `CountInv` say of each row that the
  root it names is a stored root, that it covers the range of its spans exactly,
  and that it counts at least each of them.  The last needs a bound on what was
  counted so far (the batches sent, each as often as it was), so that the uint16
  did not wrap.

Their hypotheses are stated where they are needed and hold in every instance
(`Instance` in `MCTraceStore` is evaluated).  `SpansAreFinal`: a span that is sent
again is the same, for it is sent once it has ended.  `StartsAreSet`: no span
starts at 0, which the merge takes for a start that is not set.  `CountsFit`: the
spans of a trace, counted as often as they may be sent, do not exceed a uint16.
Beside these, the assumptions on the constants say that batches are sequences of
spans, not empty, and prices, units, cutoffs and bounds naturals (`ContentAssumption`,
`SequenceAssumption`, `PriceAssumption`, `RetentionAssumption`, `BoundAssumption`);
TLC evaluates them in every run.

`MemStoreProofs` proves `SettingsSurvive`, which is inductive as it stands (each
call writes the file, fails before it opens it, or cuts it off), and what memory
says of its content:

* `LoopIsAggregate`: the loop of aggregateTraces over any sequence of spans leaves
  the row `Aggregate` reads off the whole, its duration included.  After n turns
  the row tells of the first n spans (`After`).
* `AnyCutIsTheWhole`: cut anywhere and merged as the SQLite store does, the rows
  of the two parts have the count, range, tokens and session of the whole, for
  spans that do not start at 0.  With the former this is `RowOfBatch` for every
  input (`RowsAreRead`).
* `RowIsAggregate`, with the invariant `RowsFit`: each row `Tells` of the positions
  its trace's spans have in memory, and its duration is within the range.  `Tells`
  states what `Max`, `Min` and the sum compute by their defining facts, so that the
  merge of two rows (`JoinedTells`) and the renumbering that a purge or a deletion
  does (`TellsRenumbered`, from what `Picked` lists) preserve it.
* `CostSummaryAddsUp`, with `CostsFit`: only spans with tokens have a cost, and a
  trace that is not `stale` costs what its spans do.  A sum over traces, one over
  their spans and one over the spans' models or services are then the same.
* `StoresAgree`, for all queries, pages and sizes.  `ReadInv` collects what
  the reads rely on: `TypeInv`, `RowsFit`, `CostsFit`, `ServicesFit` (a service a
  row names is listed) and `LogsOK`.  A clause selects what the loop lets through
  (`ClauseIs`); LIMIT and OFFSET cut the slice the loop does (`SamePage`); a trace
  has the prompt of its one root because `RowsFit` says which span that is
  (`SamePrompt`); the groups of a summary are renamed; the loop over the traces of
  a session, whose running sums, first and last `Summed` states over the traces
  visited so far, ends with what GROUP BY computes (`SameSums`); one page after
  another is the list, each entry once (`PagesShowAll`, `PartsCount`).  Five
  premises stand inside the property, where the stores really differ without
  them: traces with one root (`OneRoot`), no span that arrived twice
  (`NoSpanTwice`), no negative duration (`Lasting`), severities asked for in
  upper case and a search text without wildcards.  With a wildcard what the loop
  finds the statement finds too (`Searches`).  Of a session both tell the same
  sums, and SQL's quotients are the nearest to those of memory (`FiguresMatch`,
  `RoundedIsNear`); its cost is exempt.  `TraceListsAlwaysAgree`,
  `CostSummariesAlwaysAgree` and `LogListsAgree` say the same of any filter there
  is, not only of those the property chooses.

Assumptions: `TextAssumption` (what contains a text is LIKE it, and what is LIKE
a text without wildcards contains it), `ContentAssumption` (spans have their
fields, an id, and naturals for times and tokens), `PricesAssumption`, `LogsAssumption` (times are naturals, the
receiver writes severities in upper case), `ValuesAssumption` (NULL is none of the
numbers, statuses and ids) and `QueriesAssumption` (page numbers and sizes are
integers, ranges those of the handler).

`MemStoreProofs` also proves four of the computations for any input, not only
for the few items TLC puts together.  `InputFits` is the invariant: every item is
one of those its position may hold.

* `RowsAreRead`: see `AnyCutIsTheWhole`.  `RowsAssumption`: spans are well formed
  and do not start at 0.
* `ContextIsTheMainAgents`.  `Chain` is the sequence of spans `OwnerInvoke` climbs,
  and `Above`, a least set closed under parents, is what lies on it.  The nearest
  invoking span is the root exactly if the root is the only one on the chain.
  That 500 steps reach the root of any tree of at most 500 spans is a pigeonhole
  argument (`ChainIsShort`): a chain that visits a span twice is in a loop and
  never gets there.  `TreesAssumption`: the ids of a tree are its positions, which
  do not exceed `MaxWalk`.
* `SpellingNeverMatters`.  What is read under a list of keys is the value at the
  first place whose key counts (`Reads`, `FirstPlace`).  Neither the copy that the
  receiver makes under the standard key nor another spelling changes what is there
  to be read first (`NormalizedReads`, `RenamedReads`).  `AliasesAssumption`: a
  fallback belongs to one standard key and is none itself; `LabelsAssumption`: the
  labels of severities are in upper case.
* `StatsAreAlwaysExact`.  The folds over the tool calls are followed step by step:
  after n calls of a tool, as many were retried as `RetriedBy` says and `Failing`
  at the end have failed in a row (`RetriedNext`); after n calls of a session,
  the run under way is the last run, and the longest run of each tool is the
  longer of it and what was entered (`LoopRight`, `LoopStepIsRight`).  The figures
  of the tools then add up because each call is of one tool (`CallsCount`,
  `PartsCountIn`), and no more errors are retried than there are
  (`RetriesAreErrors`).  That a session without errors gets no advice needs an
  order of its tools to exist (`OrderExists`).  `CallsAssumption`: a success is not
  an error, and a tool call names its tool.

`AlertProofs` proves three properties for any rules, traces, clients and
durations. `DeletedStaysDeleted` holds whatever goes wrong. Only a restart could
bring a rule back, for an update writes no rule that is gone: the invariant
`Copies` says that the file, when it does not hold the memory, and the copy in
Close's hands may be older than the memory in every respect, but have no rule
whose deletion was confirmed. A failed save turns the file into such a copy
(`Kept`), the clock ages it, and a deletion is confirmed only when the file has
just been written and Close has no copy. `NotificationMatchesState` is proved
without faults and for kinds of notifiers that are all handled, as the run
checks it (with others it is false). Its invariant `Matched` says of every pair
that what was last said of it, in the queue or before it, is "firing" exactly if
its state is (`Known`, over `LastIs`); a step of the loop then appends one event
(`AppendedWord`, with the case analysis of `Drive` in `DriveSays`), sends the
head or takes it off. `FiringSeenTwice` is proved without faults, for durations
of which one is the largest, intervals that users change at any time (`Shortest`
is the least they may choose, and `Kinded` says that the rule being evaluated
has one of them) and a `None` that is no number. The invariant `Gaps` relates
two clocks of a pair: since it was last seen not to hold, and since its rule was
last evaluated. The first is never behind the second, and a pair that is pending
is at least the shortest interval ahead, because the evaluation that made it
pending was one interval after the one that had seen it not to hold. While a
rule is being evaluated its clock is already reset, so the pairs that still wait
in the batch have to be one such interval further ahead than the rest
(`Waiting`).

`AlertProofs` then proves `FiringDoesNotRefire` for any rules, traces, clients and
durations and with every fault of the model.  `Sent` says that a pair whose alert
was sent is firing, and one whose alert is queued is firing, was not sent and is
queued once.  It needs `Cycle` (what is queued for a pair was queued by a rule and a
trace that this cycle does not visit again, and an ended process has an empty
queue), `TypedStates` (the statuses in memory, in Close's copy and in the file are
the four the state machine knows) and `Copies` for the form of the copies.

`DiagnosisProofs` proves type correctness, `OneCallPerTrace`,
`AtMostOneDefault`, `NewerDiagnosisWins` and `CurrentResultSparesTheCall` for any
handlers, traces, spans and deletions.  The first rests on `Exclusion`: who is
past the in-flight check is in the set.  The action properties rest on `Order`,
which puts the three snapshots of a trace in line: what is stored is older than
what a handler carries, which is older than the trace as it is.  It is inductive
only together with `Exclusion`, for a second handler could carry a newer
snapshot past the first.  Assumptions: `EraAssumption` and `NoneAssumption`.

`DashboardsProofs` proves `GoneForGood`, `LoneChangesApply` and `NoOrphanPanels` for
any handlers, ids, panels and faults.  `Steps` sums up what a step does to one
request, whichever the handler.  `IdsInv` says that the index, and every copy of
it that a request holds, lists an id once and only ids that were returned; so a
deleted dashboard can return only from a copy that is still held.  `AloneInv`
says what holds while no two changes overlap.  `outcomes` is made from the answers
alone: `Made` is what a change that went well does to any list, `CutOff` what is
left by one that did not.  Between changes what a list shows is one of them; while
a change is under way (`Serving`) one of them is what it began from, of which it
has done the part its step says, and its copy fits what it will make.
Acknowledged, it leads to `Made` of that one, otherwise to `Made` or `CutOff`.
The panels are never compared with a second copy of themselves: what a step does
to the files is related to what it does to a list by `Shown`, which hides the
panels of dashboards that are not listed and those that do not parse
(`ShowsDropped`, `ShowsWritten`, `ShowsWithout`, `ShowsParts`).  What the loop of a delete leaves
of the list is an induction over its turns (`PickedIs`).  Assumptions: a file that
is empty or broken is no list (`FileAssumption`), and no panel anyone posts
(`ConfigAssumption`).

`DashboardsProofs` then proves three properties of `Metrics` for any requests, any
number of restarts and any retention.  `CompletedIsFound` (`IndexedIsFound`) rests
on `MetricsInv`: the label set of every row in `since` is in the index, with its
labels and values, and the row is among the rows.  A query without labels then
selects it (`SelectFinds`), and at its time it is the nearest.
`IncreaseIsComplete` (`RangeIsComplete`) follows the points of a series through
the three operators of a range query: the increase keeps a point that has one a
window before it (`DeltaIs`), the grid shows a step that has a point near it
(`DownsampleIs`), and what is read begins a lookback before the range
(`IncreaseIs`); its lemma `IncreaseIsShown` says so of any range and any step.

`NothingIsLost` (`GroupsAddUp`) has three parts.  That groups combine into what
their series do is proved for any finite set of series with whole values: the
points at a time, each with its series and place, are split by the key of a
group; each group has one point per time (`MergeIs`), the sum, the maximum or
the minimum of its part (`CombinedIs`); and the summary of the parts'
summaries is that of the whole (`SummaryOfParts`), which is unique
(`OneSummary`).  The property compares both ways, so a point that only one side
has would break it.  What a query reads is such a set (`SelectIsWhole`), and
increase keeps it so (`DeltaIsWhole`).  A ratio multiplies back since the lower
point is one of those at the same time and not zero (`QuotientIs`).  The bucket
of a count needs an invariant stronger than the property: it has to come
*before* the count (`Bucketed`), for a crash keeps a beginning of the rows and
could else cut it off; requests, which are flattened lists of lists, have it
(`FlattenBuckets`), and retention keeps it since both rows have one time.

Assumptions: `RequestsAssumption` (a request becomes a sequence of rows, each of a
metric with a name), `ListsAssumption` (its parts are lists), `ValuesAssumption`
(values are finite, and measured in the least step of a float64, so that they
are whole; their sums are exact, the rounding of a float64 is left out),
`NoNameAssumption` (no name is not the name of a function) and `ReachAssumption`
(windows, lookback and tolerance are naturals, the last not zero).

Only model-checked:

* Liveness (`NothingHangs`, `EventuallyCosted`, `EvaluatedAgain`,
  `QuietAfterDelete`, `FlightsLand`) and the fairness part of the refinement of
  `DeliveryLog`: the prover knows neither ENABLED nor fairness.

No safety invariant of a run is left to the model checker alone.

## 5. Plan

What is left, in this order:

1. `StoreSpec`, an abstract store of spans and settings, with `TraceStore` and
   `MemStore` as implementations; so far the two are compared by their answers.
2. The composition of pipeline, store and retention, for what becomes of an
   accepted batch whose insert fails.
3. The chDB store, once it implements the interface again.

## 6. Not modelled

The bytes of OTLP and JSON, SMTP, the web client, the MCP server and the Python
wrapper, configuration parsing, logging, gzip and OpenAPI text: they keep no
state that other parts rely on.  The chDB store lacks a method the Store
interface has (GetCostSummary), so no program can be built with it from this
source; the aggregation it shares with the SQLite store is modelled.  Of the
SQLite log table only the queries are modelled, its writes being single
statements; its migration of old databases is not.
