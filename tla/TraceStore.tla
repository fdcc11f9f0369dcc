----------------------------- MODULE TraceStore -----------------------------
(***************************************************************************)
(* internal/storage/sqlite_store.go, the traces, spans and model_pricing   *)
(* tables of the default build, with the callers that write them: the      *)
(* pipeline worker (InsertSpans), the goroutine every InsertSpans starts   *)
(* (UpdateTraceCost), the retention loop (Purge), the API (DeleteTraces,   *)
(* model pricing, recalc) and the start of the process (seeds, backfill).  *)
(*                                                                         *)
(* Every writer holds the store's mutex.  InsertSpans and DeleteTraces are *)
(* one transaction, the pricing calls one statement: each is one action.   *)
(* UpdateTraceCost and Purge are several statements, each committed on its *)
(* own: the process or the request may end between two of them, and each   *)
(* may fail.                                                               *)
(***************************************************************************)
EXTENDS TraceAggregate

CONSTANTS
  Traces,        (* trace ids                                             *)
  Batches,       (* the batches InsertSpans is called with                *)
  Content,       (* their spans: per batch a sequence of records [trace,  *)
                 (* id, root, start, end, tokens, session, model]         *)
  Models,        (* the models that may be priced                         *)
  Prices,        (* the prices a user may set, in units so fine that...   *)
  Unit,          (* so many are one of a cost, which is rounded to 1e-6   *)
  DefaultPrice,  (* config.go's defaults: a price or NoValue, per model   *)
  ConfigPrice,   (* the configuration file's                              *)
  Cutoffs,       (* what now - MaxAge may be when Purge runs; 0: no limit *)
  MaxCount,      (* the retention's trace count; 0: no limit              *)
  MaxSends,      (* bound: how often a batch is sent, first time included *)
  MaxFaults      (* bound: crashes, cut off requests, failed statements   *)

Maybe(S) == S \cup {NoValue}

ASSUME ContentAssumption ==
  \A b \in Batches : \A i \in DOMAIN Content[b] :
    LET sp == Content[b][i]
    IN  /\ sp.trace \in Traces /\ sp.root \in BOOLEAN
        /\ sp.start \in Nat /\ sp.end \in Nat
        /\ sp.tokens \in Maybe(Nat) /\ sp.model \in Maybe(Models)
ASSUME SequenceAssumption == \A b \in Batches : Len(Content[b]) \in Nat \ {0}
                               /\ DOMAIN Content[b] = 1 .. Len(Content[b])
ASSUME RetentionAssumption == Cutoffs \subseteq Nat /\ MaxCount \in Nat
ASSUME BoundAssumption == MaxSends \in Nat
ASSUME PriceAssumption ==
  /\ Prices \subseteq Nat /\ Unit \in Nat \ {0}
  /\ DefaultPrice \in [Models -> Maybe(Nat)]
  /\ ConfigPrice \in [Models -> Maybe(Nat)]

VARIABLES
  spans,    (* span rows by <<trace id, span id>>: the span and its cost  *)
  traces,   (* trace rows by trace id                                     *)
  pricing,  (* model_pricing: the price per model, or NoValue             *)
  busy,     (* the writer inside a call of several statements, or Idle    *)
  jobs,     (* per trace: calls of UpdateTraceCost InsertSpans started    *)
  recalc,   (* the traces the running recalc request has still to update  *)
  phase,    (* "down", "boot" (inside NewChDBStore) or "up"               *)
  backlog,  (* the traces backfillSpanCost has still to update            *)
  seeds,    (* the models main has still to seed                          *)
  torn,     (* history: traces whose last update or purge was incomplete  *)
  lost,     (* history: spans the last update of their trace failed on    *)
  sent, faults

tables == <<spans, traces, pricing>>
process == <<phase, backlog, seeds>>
vars == <<spans, traces, pricing, busy, jobs, recalc, phase, backlog, seeds,
          torn, lost, sent, faults>>

Idle == [op |-> "none"]
SpansOf(t) == {k \in DOMAIN spans : k[1] = t}
KeysOf(b) == {<<Content[b][i].trace, Content[b][i].id>> : i \in DOMAIN Content[b]}
TracesOf(b) == {k[1] : k \in KeysOf(b)}
Of(b, t) == {i \in DOMAIN Content[b] : Content[b][i].trace = t}
RowOf(b, t) == AggregateAt(Content[b], Of(b, t))
Priced == {m \in Models : pricing[m] # NoValue}
PriceOf(m) == IF m \in Priced THEN pricing[m] ELSE NoValue

(* A span UpdateTraceCost has yet to cost: it has tokens and a NULL cost. *)
Uncosted == {k \in DOMAIN spans : spans[k].tokens # NoValue /\ spans[k].cost = NoValue}

-----------------------------------------------------------------------------
Init ==
  /\ spans = << >>
  /\ traces = << >>
  /\ pricing = [m \in Models |-> NoValue]
  /\ busy = Idle
  /\ jobs = [t \in Traces |-> 0]
  /\ recalc = {}
  /\ phase = "down"
  /\ backlog = {}
  /\ seeds = {}
  /\ torn = {} /\ lost = {}
  /\ sent = [b \in Batches |-> 0]
  /\ faults = 0

(* The row INSERT OR REPLACE leaves for a span that a batch holds once or *)
(* more: its last occurrence, with no cost.                               *)
SpanRow(b, k) ==
  LET ss == Content[b]
      sp == ss[Max({i \in DOMAIN ss : <<ss[i].trace, ss[i].id>> = k})]
  IN  [root |-> sp.root, start |-> sp.start, end |-> sp.end,
       tokens |-> sp.tokens, model |-> sp.model, cost |-> NoValue]

SpansWith(b) ==
  [k \in DOMAIN spans \cup KeysOf(b) |->
     IF k \in KeysOf(b) THEN SpanRow(b, k) ELSE spans[k]]

TracesWith(b) ==
  [t \in DOMAIN traces \cup TracesOf(b) |->
     IF t \notin TracesOf(b) THEN traces[t]
     ELSE IF t \in DOMAIN traces THEN Merge(traces[t], RowOf(b, t))
     ELSE RowOf(b, t)]

(* Mutant of InsertSpans: only traces that are new are costed. *)
InsertSpansCostsNewTraces(b) ==
  /\ phase = "up"
  /\ busy = Idle
  /\ sent[b] < MaxSends
  /\ sent' = [sent EXCEPT ![b] = @ + 1]
  /\ spans' = SpansWith(b)
  /\ traces' = TracesWith(b)
  /\ jobs' = [t \in Traces |->
                IF t \in TracesOf(b) \ DOMAIN traces THEN jobs[t] + 1 ELSE jobs[t]]
  /\ UNCHANGED <<pricing, busy, recalc, process, torn, lost, faults>>

(* One transaction, then a goroutine that costs every trace of the batch. *)
InsertSpans(b) ==
  /\ phase = "up"
  /\ busy = Idle
  /\ sent[b] < MaxSends
  /\ sent' = [sent EXCEPT ![b] = @ + 1]
  /\ spans' = SpansWith(b)
  /\ traces' = TracesWith(b)
  /\ jobs' = [t \in Traces |-> IF t \in TracesOf(b) THEN jobs[t] + 1 ELSE jobs[t]]
  /\ UNCHANGED <<pricing, busy, recalc, process, torn, lost, faults>>

-----------------------------------------------------------------------------
(* UpdateTraceCost: the reads, then one UPDATE per span, then the trace's. *)
Rounded(n) == (n + Unit \div 2) \div Unit
SpanCost(sp) ==
  IF PriceOf(sp.model) = NoValue THEN 0 ELSE Rounded(sp.tokens * PriceOf(sp.model))

LLMSpans(t) == {k \in SpansOf(t) : spans[k].tokens # NoValue}
TraceTokens(t) == SumFunction([k \in LLMSpans(t) |-> spans[k].tokens])
TraceCost(t) == SumFunction([k \in LLMSpans(t) |-> SpanCost(spans[k])])

CostPlan(t, caller) ==
  [op |-> "cost", trace |-> t, caller |-> caller,
   todo |-> {[key |-> k, cost |-> SpanCost(spans[k])] : k \in LLMSpans(t)},
   tokens |-> TraceTokens(t), total |-> TraceCost(t),
   unpriced |-> \E k \in LLMSpans(t) : PriceOf(spans[k].model) = NoValue]

(* An update of ts is not complete: what their rows say may be stale. *)
TornWith(ts) == torn \cup (ts \cap DOMAIN traces)

(* The reads succeed.  What a recalc does nobody is owed. *)
Begin(t, caller) ==
  /\ busy' = CostPlan(t, caller)
  /\ torn' = torn \ ({t} \cap DOMAIN traces)
  /\ lost' = IF caller = "recalc" THEN lost ELSE lost \ SpansOf(t)

(* A read fails: the update returns, and only its error says so. *)
BeginFails(t) ==
  /\ faults < MaxFaults
  /\ faults' = faults + 1
  /\ torn' = TornWith({t})
  /\ lost' = lost \cup (Uncosted \cap SpansOf(t))
  /\ UNCHANGED busy

JobDue(t) ==
  /\ phase = "up" /\ busy = Idle /\ jobs[t] > 0
  /\ jobs' = [jobs EXCEPT ![t] = @ - 1]
  /\ UNCHANGED <<tables, recalc, process, sent>>

JobBegin(t) == JobDue(t) /\ Begin(t, "job") /\ UNCHANGED faults
JobFails(t) == JobDue(t) /\ BeginFails(t)

CostSpan ==
  /\ busy.op = "cost"
  /\ \E c \in busy.todo :
       /\ spans' = [k \in DOMAIN spans |->
                      IF k = c.key THEN [spans[k] EXCEPT !.cost = c.cost] ELSE spans[k]]
       /\ busy' = [busy EXCEPT !.todo = @ \ {c}]
  /\ UNCHANGED <<traces, pricing, jobs, recalc, process, torn, lost, sent, faults>>

(* The error of a span's UPDATE is dropped: the next span follows. *)
CostSpanFails ==
  /\ busy.op = "cost" /\ faults < MaxFaults
  /\ faults' = faults + 1
  /\ \E c \in busy.todo :
       /\ busy' = [busy EXCEPT !.todo = @ \ {c}]
       /\ lost' = IF busy.caller = "recalc" THEN lost ELSE lost \cup {c.key}
  /\ torn' = TornWith({busy.trace})
  /\ UNCHANGED <<tables, jobs, recalc, process, sent>>

(* Nothing cost anything and every model is priced: only the tokens are set. *)
NothingToCost == busy.total = 0 /\ ~busy.unpriced

(* Mutant of CostedRow: the trace's tokens are left as they are. *)
CostedRowCostOnly(row) ==
  IF ~NothingToCost THEN [row EXCEPT !.cost = busy.total] ELSE row

CostedRow(row) ==
  IF ~NothingToCost THEN [row EXCEPT !.tokens = busy.tokens, !.cost = busy.total]
  ELSE IF busy.tokens > 0 THEN [row EXCEPT !.tokens = busy.tokens]
  ELSE row

CostTrace ==
  /\ busy.op = "cost" /\ busy.todo = {}
  /\ traces' = [t \in DOMAIN traces |->
                  IF t = busy.trace THEN CostedRow(traces[t]) ELSE traces[t]]
  /\ busy' = Idle
  /\ UNCHANGED <<spans, pricing, jobs, recalc, process, torn, lost, sent, faults>>

(* The UPDATE of the trace fails; the callers drop the error. *)
CostTraceFails ==
  /\ busy.op = "cost" /\ busy.todo = {} /\ (NothingToCost => busy.tokens > 0)
  /\ faults < MaxFaults
  /\ faults' = faults + 1
  /\ busy' = Idle
  /\ torn' = TornWith({busy.trace})
  /\ UNCHANGED <<tables, jobs, recalc, process, lost, sent>>

-----------------------------------------------------------------------------
(* Purge: by age, by count, then the spans whose trace is gone. *)
DeleteTraceRows(gone) == traces' = [t \in DOMAIN traces \ gone |-> traces[t]]

PurgeByAge(cutoff) ==
  /\ phase = "up" /\ busy = Idle
  /\ DeleteTraceRows({t \in DOMAIN traces : traces[t].start < cutoff})
  /\ busy' = [op |-> "purgeCount"]
  /\ UNCHANGED <<spans, pricing, jobs, recalc, process, torn, lost, sent, faults>>

(* ORDER BY start_time_ms DESC LIMIT MaxCount: ties in any order. *)
Newest(kept) ==
  /\ Cardinality(kept) = MaxCount
  /\ \A t \in kept, u \in DOMAIN traces \ kept : traces[t].start >= traces[u].start

PurgeByCount ==
  /\ busy.op = "purgeCount"
  /\ IF MaxCount > 0 /\ Cardinality(DOMAIN traces) > MaxCount
     THEN \E kept \in SUBSET DOMAIN traces :
            Newest(kept) /\ DeleteTraceRows(DOMAIN traces \ kept)
     ELSE UNCHANGED traces
  /\ busy' = [op |-> "purgeSpans"]
  /\ UNCHANGED <<spans, pricing, jobs, recalc, process, torn, lost, sent, faults>>

PurgeOrphans ==
  /\ busy.op = "purgeSpans"
  /\ spans' = [k \in {k \in DOMAIN spans : k[1] \in DOMAIN traces} |-> spans[k]]
  /\ busy' = Idle
  /\ torn' = torn \cap DOMAIN traces
  /\ UNCHANGED <<traces, pricing, jobs, recalc, process, lost, sent, faults>>

(* Spans whose trace row is gone: what Purge leaves when it is cut off. *)
Orphaned == {k[1] : k \in DOMAIN spans} \ DOMAIN traces

(* The second or the third statement fails: Purge returns what it has done. *)
PurgeFails ==
  /\ busy.op \in {"purgeCount", "purgeSpans"}
  /\ faults < MaxFaults
  /\ faults' = faults + 1
  /\ busy' = Idle
  /\ torn' = torn \cup Orphaned
  /\ UNCHANGED <<tables, jobs, recalc, process, lost, sent>>

(* Mutant of DeleteTraces: the spans stay. *)
DeleteTracesKeepsSpans(ids) ==
  /\ phase = "up" /\ busy = Idle
  /\ DeleteTraceRows(ids)
  /\ UNCHANGED <<spans, pricing, busy, jobs, recalc, process, torn, lost, sent, faults>>

DeleteTraces(ids) ==
  /\ phase = "up" /\ busy = Idle
  /\ spans' = [k \in {k \in DOMAIN spans : k[1] \notin ids} |-> spans[k]]
  /\ DeleteTraceRows(ids)
  /\ torn' = torn \ ids
  /\ UNCHANGED <<pricing, busy, jobs, recalc, process, lost, sent, faults>>

-----------------------------------------------------------------------------
(* The model pricing API. *)
UpsertModelPricing(m, p) ==
  /\ phase = "up" /\ busy = Idle
  /\ pricing' = [pricing EXCEPT ![m] = p]
  /\ UNCHANGED <<spans, traces, busy, jobs, recalc, process, torn, lost, sent, faults>>

DeleteModelPricing(m) ==
  /\ phase = "up" /\ busy = Idle /\ m \in Priced
  /\ pricing' = [pricing EXCEPT ![m] = NoValue]
  /\ UNCHANGED <<spans, traces, busy, jobs, recalc, process, torn, lost, sent, faults>>

(* recalc lists the traces, then updates them one call after the other. *)
RecalcList ==
  /\ phase = "up" /\ busy = Idle /\ recalc = {} /\ DOMAIN traces # {}
  /\ recalc' = DOMAIN traces
  /\ UNCHANGED <<tables, busy, jobs, process, torn, lost, sent, faults>>

RecalcBegin(t) ==
  /\ t \in recalc /\ busy = Idle
  /\ recalc' = recalc \ {t}
  /\ Begin(t, "recalc")
  /\ UNCHANGED <<tables, jobs, process, sent, faults>>

(* It goes on with the next trace when a read fails. *)
RecalcFails(t) ==
  /\ t \in recalc /\ busy = Idle /\ faults < MaxFaults
  /\ recalc' = recalc \ {t}
  /\ faults' = faults + 1
  /\ UNCHANGED <<tables, busy, jobs, process, torn, lost, sent>>

(* What is cut off when the writer inside a call stops half way. *)
CutOff == IF busy.op = "cost" THEN TornWith({busy.trace}) ELSE torn

(* The client of recalc goes away: the request's context fails the rest. *)
RecalcCancelled ==
  /\ faults < MaxFaults
  /\ faults' = faults + 1
  /\ \/ recalc # {} /\ UNCHANGED <<busy, torn>>
     \/ busy.op = "cost" /\ busy.caller = "recalc" /\ busy' = Idle /\ torn' = CutOff
  /\ recalc' = {}
  /\ UNCHANGED <<tables, jobs, process, lost, sent>>

-----------------------------------------------------------------------------
(* NewChDBStore: the defaults are written over the table, then every trace *)
(* with an uncosted span is updated before the store is handed to main.    *)
Opened ==
  /\ phase = "down"
  /\ phase' = "boot"
  /\ pricing' = [m \in Models |->
                   IF DefaultPrice[m] # NoValue THEN DefaultPrice[m] ELSE pricing[m]]
  /\ UNCHANGED <<spans, traces, busy, jobs, recalc, seeds, sent>>

(* Mutant of Open: no backfill. *)
OpenWithoutBackfill ==
  /\ Opened
  /\ lost' = {}
  /\ UNCHANGED <<backlog, torn, faults>>

Open ==
  /\ Opened
  /\ backlog' = {k[1] : k \in Uncosted}
  /\ lost' = {}
  /\ UNCHANGED <<torn, faults>>

(* The backfill cannot read which spans have no cost: it does nothing. *)
OpenFails ==
  /\ Opened
  /\ faults < MaxFaults
  /\ faults' = faults + 1
  /\ lost' = Uncosted
  /\ torn' = TornWith({k[1] : k \in Uncosted})
  /\ UNCHANGED backlog

BackfillDue(t) ==
  /\ phase = "boot" /\ t \in backlog /\ busy = Idle
  /\ backlog' = backlog \ {t}
  /\ UNCHANGED <<tables, jobs, recalc, phase, seeds, sent>>

BackfillBegin(t) == BackfillDue(t) /\ Begin(t, "backfill") /\ UNCHANGED faults
BackfillFails(t) == BackfillDue(t) /\ BeginFails(t)

(* Mutant of Serve: the backfill is not waited for. *)
ServeAtOnce ==
  /\ phase = "boot"
  /\ phase' = "up"
  /\ seeds' = {m \in Models : ConfigPrice[m] # NoValue}
  /\ UNCHANGED <<tables, busy, jobs, recalc, backlog, torn, lost, sent, faults>>

Serve ==
  /\ phase = "boot" /\ backlog = {} /\ busy = Idle
  /\ phase' = "up"
  /\ seeds' = {m \in Models : ConfigPrice[m] # NoValue}
  /\ UNCHANGED <<tables, busy, jobs, recalc, backlog, torn, lost, sent, faults>>

(* main seeds the configured prices once the API already serves. *)
SeedModel(m) ==
  /\ m \in seeds /\ busy = Idle
  /\ seeds' = seeds \ {m}
  /\ pricing' = [pricing EXCEPT ![m] = ConfigPrice[m]]
  /\ UNCHANGED <<spans, traces, busy, jobs, recalc, phase, backlog, torn, lost, sent, faults>>

(* The process ends, by a crash or a signal: goroutines end where they are. *)
Stop ==
  /\ phase # "down" /\ faults < MaxFaults
  /\ faults' = faults + 1
  /\ phase' = "down"
  /\ busy' = Idle
  /\ jobs' = [t \in Traces |-> 0]
  /\ recalc' = {} /\ backlog' = {} /\ seeds' = {}
  /\ torn' = CutOff \cup Orphaned
  /\ UNCHANGED <<tables, lost, sent>>

-----------------------------------------------------------------------------
CostStep == CostSpan \/ CostTrace
PurgeStep == PurgeByCount \/ PurgeOrphans
BootStep == Serve \/ (\E t \in Traces : BackfillBegin(t))
JobStep == \E t \in Traces : JobBegin(t)
SeedStep == \E m \in Models : SeedModel(m)
ErrorStep ==
  \/ CostSpanFails \/ CostTraceFails \/ PurgeFails \/ OpenFails
  \/ \E t \in Traces : JobFails(t) \/ BackfillFails(t) \/ RecalcFails(t)
RecalcStep == RecalcList \/ (\E t \in Traces : RecalcBegin(t)) \/ RecalcCancelled
ApiStep ==
  \/ \E ids \in SUBSET Traces : ids # {} /\ DeleteTraces(ids)
  \/ \E m \in Models, p \in Prices : UpsertModelPricing(m, p)
  \/ \E m \in Models : DeleteModelPricing(m)

Next ==
  \/ \E b \in Batches : InsertSpans(b)
  \/ \E cutoff \in Cutoffs : PurgeByAge(cutoff)
  \/ JobStep \/ CostStep \/ PurgeStep \/ RecalcStep \/ ApiStep
  \/ Open \/ BootStep \/ SeedStep \/ Stop \/ ErrorStep

Spec == Init /\ [][Next]_vars

(* A goroutine that holds the mutex or waits for nothing else runs on.    *)
(* One that waits for the mutex gets it however often others take it:     *)
(* Go's mutex is handed to a waiter that starves.                         *)
Fairness ==
  /\ WF_vars(CostStep) /\ WF_vars(PurgeStep) /\ WF_vars(BootStep)
  /\ SF_vars(SeedStep)
  /\ \A t \in Traces : SF_vars(JobBegin(t))

LiveSpec == Spec /\ Fairness

-----------------------------------------------------------------------------
(* What some of the properties need of the constants.  A span is sent     *)
(* once it has ended, so one that is sent again is the same; nothing      *)
(* starts at 0, which the merge takes for a start that is not set; and    *)
(* the spans of a trace, counted as often as they may be sent, do not     *)
(* exceed a uint16.                                                       *)
SpansAreFinal ==
  \A b, c \in Batches : \A i \in DOMAIN Content[b], j \in DOMAIN Content[c] :
    /\ Content[b][i].trace = Content[c][j].trace
    /\ Content[b][i].id = Content[c][j].id
    => Content[b][i] = Content[c][j]
StartsAreSet == \A b \in Batches : \A i \in DOMAIN Content[b] : Content[b][i].start # 0
CountsFit ==
  /\ IsFiniteSet(Batches)
  /\ \A t \in Traces :
       SumFunction([b \in Batches |-> MaxSends * Cardinality(Of(b, t))]) < CountModulus

(* Every span with tokens that has no cost yet is owed one: a goroutine   *)
(* that InsertSpans started, or the backfill of the next start, will cost *)
(* it, unless it got to it and a statement failed; then the next start    *)
(* owes it again.  A recalc that is running does not count, its client    *)
(* may go away.  (InsertSpans, UpdateTraceCost, backfillSpanCost)         *)
CostIsOwed ==
  \A k \in Uncosted :
    \/ phase = "down"
    \/ jobs[k[1]] > 0
    \/ k[1] \in backlog
    \/ busy.op = "cost" /\ busy.caller # "recalc" /\ \E c \in busy.todo : c.key = k
    \/ k \in lost

(* The spans of a trace that was deleted go with it.  A Purge that was    *)
(* cut off half way leaves some, until the next one or a deletion.        *)
(* (Purge, DeleteTraces)                                                  *)
SpansHaveTraces ==
  busy.op \notin {"purgeCount", "purgeSpans"} =>
    \A k \in DOMAIN spans : k[1] \in DOMAIN traces \cup torn

Known(v) == IF v = NoValue THEN 0 ELSE v
SpanTokens(t) == SumFunction([k \in SpansOf(t) |-> Known(spans[k].tokens)])
SpanCosts(t) == SumFunction([k \in SpansOf(t) |-> Known(spans[k].cost)])

(* No writer is about to update trace t, and the last one was not cut off. *)
Settled(t) == phase = "up" /\ busy = Idle /\ jobs[t] = 0 /\ t \notin torn

(* Once the goroutines are done, the tokens of a trace are those of its   *)
(* spans, even if a batch was sent twice or the process stopped before    *)
(* they ran.  (mergeTotalTokens, UpdateTraceCost, backfillSpanCost)       *)
TokensSettle ==
  \A t \in DOMAIN traces :
    Settled(t) => Known(traces[t].tokens) = SpanTokens(t)

(* Every call of a model in trace t is costed, at nothing. *)
Free(t) == LLMSpans(t) # {} /\ \A k \in LLMSpans(t) : spans[k].cost = 0

(* Then the cost of a trace is that of its spans too: the overview of the *)
(* cost page and its breakdown by model agree.  Only a trace all of whose *)
(* calls cost nothing, at a price of 0 or rounded, may still show a cost  *)
(* it had before.  (UpdateTraceCost, GetCostSummary)                      *)
CostsReconcile ==
  \A t \in DOMAIN traces :
    Settled(t) => Known(traces[t].cost) = SpanCosts(t) \/ Free(t)

(* The root that the row of a trace names is a root span that is stored.  *)
(* As long as nothing was cut off, the row covers the range of its spans  *)
(* exactly and counts every one; a batch that was sent again counts       *)
(* again.  (the merge in InsertSpans, Purge, DeleteTraces)                *)
RowFitsSpans ==
  /\ \A t \in DOMAIN traces :
       traces[t].root # NoValue =>
         <<t, traces[t].root>> \in DOMAIN spans /\ spans[<<t, traces[t].root>>].root
  /\ faults = 0 /\ busy = Idle =>
       \A t \in DOMAIN traces :
         /\ traces[t].start = Min({spans[k].start : k \in SpansOf(t)})
         /\ traces[t].end = Max({spans[k].end : k \in SpansOf(t)})
         /\ traces[t].count >= Cardinality(SpansOf(t))

(* A span with tokens is costed in the end, or the process stops, or the *)
(* statements that would have costed it failed: with each start the       *)
(* promise holds again.  (InsertSpans, backfillSpanCost)                  *)
EventuallyCosted ==
  \A k \in UNION {KeysOf(b) : b \in Batches} :
    k \in Uncosted ~> (k \notin Uncosted \/ k \in lost \/ phase = "down")
=============================================================================
