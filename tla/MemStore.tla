------------------------------ MODULE MemStore ------------------------------
(***************************************************************************)
(* internal/storage/memstore.go, the store of builds without SQLite and    *)
(* chDB: everything is kept in maps and slices under one mutex, so a call  *)
(* is one action.  Prices, LLM configurations and diagnosis results are    *)
(* also written to memstore.json, in place, by every call that changes     *)
(* them; spans, traces and logs end with the process.                      *)
(*                                                                         *)
(* Tables, rows and queries are those of Queries.  A price is a rate per   *)
(* token in a currency, and the rounding of the costs of spans is left     *)
(* out.  A root span has a name; a result is "full" while it has the spans *)
(* it was computed from, which are not written.                            *)
(***************************************************************************)
EXTENDS Queries, Integers

CONSTANTS
  Batches,    (* what InsertSpans is called with ...                      *)
  Content,    (* ... the resource's service and the spans of each         *)
  LogBatches, (* the sequences of records InsertLogs is called with       *)
  Models,
  Prices,     (* prices a user may set: [rate, currency]                 *)
  Configs,    (* ids of LLM configurations                                *)
  Keys,       (* API keys in full ...                                     *)
  Masked,     (* ... and as the API shows them                            *)
  Cutoffs,    (* what now - maxAge may be; 0: no limit                    *)
  Counts,     (* what maxCount may be; 0: no limit                        *)
  MaxLogs,    (* bound: log records in the store                          *)
  MaxOps,     (* bound: calls that write                                  *)
  MaxFaults,  (* bound: failed writes of the file, ends of the process    *)
  TraceQueries, SessionQueries, LogQueries, Ranges, (* what is asked      *)
  PageNumbers, PageSizes (* the page and its size, as a request names them *)

SpanFields == {"trace", "id", "root", "start", "end", "tokens", "session", "model"}

ASSUME ContentAssumption ==
  \A b \in Batches :
    LET ss == Content[b].spans
    IN  /\ ss \in Seq({ss[i] : i \in DOMAIN ss})
        /\ \A i \in DOMAIN ss : SpanFields \subseteq DOMAIN ss[i] /\ IsSpan(ss[i])
ASSUME PricesAssumption == \A p \in Prices : p.rate \in Nat

(* The receiver derives a severity from its number or in upper case. *)
IsRecord(l) == l.time \in Nat /\ Upper[l.severity] = l.severity
ASSUME LogsAssumption ==
  \A ls \in LogBatches : /\ ls \in Seq({ls[i] : i \in DOMAIN ls})
                         /\ \A i \in DOMAIN ls : IsRecord(ls[i])

(* NULL is no number, status or id; a range is one of CostRange. *)
ASSUME ValuesAssumption == NoValue \notin Int \cup {OK, ERROR} \cup Prompted /\ OK # ERROR
ASSUME QueriesAssumption ==
  /\ PageNumbers \subseteq Int /\ PageSizes \subseteq Int
  /\ \A r \in Ranges : r[1] \in Nat /\ r[2] \in Nat \ {0}

VARIABLES
  spans,     (* in the order of their arrival, each with its cost         *)
  traces,    (* the row per trace                                         *)
  services, logs,
  settings,  (* [pricing, configs, results]                               *)
  file,      (* memstore.json: settings, or Missing, Emptied or Torn      *)
  phase,     (* "down" or "up"                                            *)
  promised,  (* history: the settings as of the last call that succeeded  *)
  cut,       (* history: a write of the file was cut off since            *)
  stale,     (* history: traces whose cost may not be that of their spans *)
  ops, faults

data == <<spans, traces, services, logs, stale>>
vars == <<spans, traces, services, logs, settings, file, phase, promised, cut,
          stale, ops, faults>>

Missing == [state |-> "missing"]
Emptied == [state |-> "empty"]
Torn == [state |-> "torn"]
NoSettings == [pricing |-> << >>, configs |-> << >>, results |-> << >>]
Written(s) == [state |-> "written",
               settings |-> [s EXCEPT !.results = [t \in DOMAIN @ |-> "bare"]]]
Contents == IF file.state = "written" THEN file.settings ELSE NoSettings

Init ==
  /\ spans = << >> /\ traces = << >> /\ services = {} /\ logs = << >>
  /\ settings = NoSettings /\ promised = NoSettings
  /\ file = Missing /\ cut = FALSE
  /\ phase = "down"
  /\ stale = {} /\ ops = 0 /\ faults = 0

Call == phase = "up" /\ ops < MaxOps /\ ops' = ops + 1
Fault == faults < MaxFaults /\ faults' = faults + 1

Put(f, k, v) == [x \in DOMAIN f \cup {k} |-> IF x = k THEN v ELSE f[x]]
Without(f, S) == [x \in DOMAIN f \ S |-> f[x]]
At(ss, T) == {i \in DOMAIN ss : ss[i].trace \in T}
TheirSpans(ss, T) == Picked(ss, At(ss, T))

-----------------------------------------------------------------------------
(* Costs. *)
Billed(sp) == Given(sp.tokens) /\ sp.model \in DOMAIN settings.pricing
Bill(ss, t) == {i \in DOMAIN ss : ss[i].trace = t /\ Billed(ss[i])}
CostOf(sp) == sp.tokens * settings.pricing[sp.model].rate
BillTotal(ss, t) == SumFunction([i \in Bill(ss, t) |-> CostOf(ss[i])])

(* The first currency there is. *)
BillCurrency(ss, t) ==
  LET Of(i) == settings.pricing[ss[i].model].currency
      I == {i \in Bill(ss, t) : Of(i) # NoValue}
  IN  IF I = {} THEN NoValue ELSE Of(Min(I))

(* Every stored span of a trace in T that can be billed gets its cost ... *)
WithCosts(ss, T) ==
  [i \in DOMAIN ss |-> IF ss[i].trace \in T /\ Billed(ss[i])
                       THEN [ss[i] EXCEPT !.cost = CostOf(ss[i])] ELSE ss[i]]

(* ... and a trace with such a span their sum; one without keeps its cost. *)
WithTotals(tt, ss, T) ==
  [t \in DOMAIN tt |-> IF t \in T /\ Bill(ss, t) # {}
                       THEN [tt[t] EXCEPT !.cost = BillTotal(ss, t),
                                          !.currency = BillCurrency(ss, t)]
                       ELSE tt[t]]

-----------------------------------------------------------------------------
(* Mutant of MemMerge: the status is the batch's, whether it has a root. *)
MemMergeAnyStatus(old, new) ==
  LET longer == new.end > old.end
      start == IF new.start < old.start THEN new.start ELSE old.start
      counted == [old EXCEPT !.count = (@ + new.count) % CountModulus,
                             !.start = start,
                             !.end = IF longer THEN new.end ELSE @,
                             !.duration = IF longer THEN new.end - start ELSE @,
                             !.tokens = AddTokens(@, new.tokens),
                             !.status = new.status]
  IN  IF new.root = NoValue THEN counted
      ELSE [counted EXCEPT !.root = new.root, !.rootName = new.rootName,
                           !.session = IF new.session # NoValue THEN new.session ELSE @]

(* The row of a batch into the stored one: what describes the root is the *)
(* batch's if it has one, the resource stays that of the first batch, and *)
(* the duration follows the end of the range only.                        *)
MemMerge(old, new) ==
  LET longer == new.end > old.end
      start == IF new.start < old.start THEN new.start ELSE old.start
      counted == [old EXCEPT !.count = (@ + new.count) % CountModulus,
                             !.start = start,
                             !.end = IF longer THEN new.end ELSE @,
                             !.duration = IF longer THEN new.end - start ELSE @,
                             !.tokens = AddTokens(@, new.tokens)]
  IN  IF new.root = NoValue THEN counted
      ELSE [counted EXCEPT !.root = new.root, !.rootName = new.rootName,
                           !.status = new.status,
                           !.session = IF new.session # NoValue THEN new.session ELSE @]

TracesOf(b) == {Content[b].spans[i].trace : i \in DOMAIN Content[b].spans}
RowOf(b, t) ==
  Put(Put(FoldSpans(TheirSpans(Content[b].spans, {t})), "service", Content[b].service),
      "currency", NoValue)

Merged(b) ==
  [t \in DOMAIN traces \cup TracesOf(b) |->
     IF t \notin TracesOf(b) THEN traces[t]
     ELSE IF t \in DOMAIN traces THEN MemMerge(traces[t], RowOf(b, t))
     ELSE RowOf(b, t)]
Arrived(b) == [i \in DOMAIN Content[b].spans |->
                 Put(Content[b].spans[i], "cost", NoValue)]

(* A cost no price accounts for any more stays on its span, and is not in *)
(* the sum.                                                               *)
Outdated(ss, t) == \E i \in DOMAIN ss : /\ ss[i].trace = t /\ Given(ss[i].cost)
                                       /\ ~Billed(ss[i])

(* Mutant of InsertSpans: only the spans of the batch are costed. *)
InsertSpansCostsBatch(b) ==
  LET tt == Merged(b)
      all == spans \o Arrived(b)
      T == {t \in TracesOf(b) : Given(tt[t].tokens)}
  IN  /\ Call
      /\ spans' = spans \o WithCosts(Arrived(b), T)
      /\ traces' = WithTotals(tt, all, T)
      /\ services' = services \cup ({Content[b].service} \ {NoValue})
      /\ stale' = {t \in stale \cup T :
                     IF t \in T /\ Bill(all, t) # {} THEN Outdated(all, t) ELSE t \in stale}
      /\ UNCHANGED <<logs, settings, file, phase, promised, cut, faults>>

InsertSpans(b) ==
  LET tt == Merged(b)
      all == spans \o Arrived(b)
      T == {t \in TracesOf(b) : Given(tt[t].tokens)}
  IN  /\ Call
      /\ spans' = WithCosts(all, T)
      /\ traces' = WithTotals(tt, all, T)
      /\ services' = services \cup ({Content[b].service} \ {NoValue})
      /\ stale' = {t \in stale \cup T :
                     IF t \in T /\ Bill(all, t) # {} THEN Outdated(all, t) ELSE t \in stale}
      /\ UNCHANGED <<logs, settings, file, phase, promised, cut, faults>>

InsertLogs(ls) ==
  /\ Call
  /\ Len(logs \o ls) <= MaxLogs
  /\ logs' = logs \o ls
  /\ UNCHANGED <<spans, traces, services, settings, file, phase, promised, cut, stale,
                 faults>>

(* The recalculation sets the trace's cost and leaves those of its spans. *)
UpdateTraceCost(t) ==
  /\ Call
  /\ t \in DOMAIN traces
  /\ traces' = WithTotals(traces, spans, {t})
  /\ stale' = IF traces'[t].cost = traces[t].cost THEN stale ELSE stale \cup {t}
  /\ UNCHANGED <<spans, services, logs, settings, file, phase, promised, cut, faults>>

-----------------------------------------------------------------------------
(* Retention.  By age, then all but the newest maxCount, ties in any order. *)
KeptByCount(young, maxCount) ==
  IF maxCount = 0 \/ Cardinality(young) <= maxCount THEN {young}
  ELSE {S \in kSubset(maxCount, young) :
          \A t \in S, u \in young \ S : traces[t].start >= traces[u].start}

Keep(kept) ==
  /\ traces' = [t \in kept |-> traces[t]]
  /\ spans' = TheirSpans(spans, kept)
  /\ stale' = stale \cap kept

(* Results, logs and the names of the services stay. *)
Purge(cutoff, maxCount) ==
  /\ Call
  /\ \E kept \in KeptByCount({t \in DOMAIN traces : traces[t].start >= cutoff}, maxCount) :
       Keep(kept)
  /\ UNCHANGED <<services, logs, settings, file, phase, promised, cut, faults>>

PurgeLogs(cutoff) ==
  /\ Call
  /\ cutoff > 0
  /\ logs' = Picked(logs, {i \in DOMAIN logs : logs[i].time >= cutoff})
  /\ UNCHANGED <<spans, traces, services, settings, file, phase, promised, cut, stale,
                 faults>>

-----------------------------------------------------------------------------
(* The settings change in memory; then the file is written in place.  The *)
(* call fails if the file cannot be opened or is not written to its end.  *)
Save(s) ==
  /\ settings' = s
  /\ \/ file' = Written(s) /\ promised' = Written(s).settings /\ cut' = FALSE
        /\ UNCHANGED faults
     \/ Fault /\ UNCHANGED <<file, promised, cut>>
     \/ Fault /\ file' = Torn /\ cut' = TRUE /\ UNCHANGED promised
  /\ UNCHANGED phase

(* The process ends, here inside a call that was writing the file. *)
End ==
  /\ phase' = "down" /\ settings' = NoSettings
  /\ spans' = << >> /\ traces' = << >> /\ services' = {} /\ logs' = << >> /\ stale' = {}
Interrupted ==
  /\ Fault
  /\ End
  /\ file' \in {Emptied, Torn} /\ cut' = TRUE /\ UNCHANGED promised

Change(s) ==
  /\ Call
  /\ \/ Save(s) /\ UNCHANGED data
     \/ Interrupted

(* Mutant of DeleteTraces: the file is left as it is. *)
DeleteTracesUnsaved(ids) ==
  /\ Call
  /\ Keep(DOMAIN traces \ ids)
  /\ logs' = Picked(logs, {i \in DOMAIN logs : logs[i].trace \notin ids})
  /\ settings' = [settings EXCEPT !.results = Without(@, ids)]
  /\ promised' = Written(settings').settings
  /\ UNCHANGED <<services, file, phase, cut, faults>>

DeleteTraces(ids) ==
  /\ Call
  /\ \/ /\ Keep(DOMAIN traces \ ids)
        /\ logs' = Picked(logs, {i \in DOMAIN logs : logs[i].trace \notin ids})
        /\ Save([settings EXCEPT !.results = Without(@, ids)])
        /\ UNCHANGED services
     \/ Interrupted

UpsertModelPricing(m, p) == Change([settings EXCEPT !.pricing = Put(@, m, p)])
DeleteModelPricing(m) == Change([settings EXCEPT !.pricing = Without(@, {m})])

(* A new default takes the place of the old. *)
Demoted(configs, c) ==
  [i \in DOMAIN configs |->
     IF c.default THEN [configs[i] EXCEPT !.default = FALSE] ELSE configs[i]]

CreateLLMConfig(id, c) ==
  Change([settings EXCEPT !.configs = Put(Demoted(settings.configs, c), id, c)])

(* A masked key stands for the one that is stored. *)
UpdateLLMConfig(id, c) ==
  /\ id \in DOMAIN settings.configs
  /\ LET key == IF c.key = Masked THEN settings.configs[id].key ELSE c.key
     IN  Change([settings EXCEPT !.configs =
                   Put(Demoted(settings.configs, c), id, [c EXCEPT !.key = key])])

DeleteLLMConfig(id) == Change([settings EXCEPT !.configs = Without(@, {id})])

UpsertDiagnosisResult(t) == Change([settings EXCEPT !.results = Put(@, t, "full")])

-----------------------------------------------------------------------------
(* A file that is missing or empty is no settings; a torn one an error. *)
Open ==
  /\ phase = "down"
  /\ file # Torn
  /\ phase' = "up"
  /\ settings' = Contents
  /\ UNCHANGED <<data, file, promised, cut, ops, faults>>

(* A shutdown writes the file once more; a crash does not. *)
Close ==
  /\ phase = "up"
  /\ End
  /\ file' = Written(settings) /\ promised' = Written(settings).settings /\ cut' = FALSE
  /\ UNCHANGED <<ops, faults>>
Crash ==
  /\ phase = "up"
  /\ Fault
  /\ End
  /\ UNCHANGED <<file, promised, cut, ops>>

AllTraces == UNION {TracesOf(b) : b \in Batches}

Next ==
  \/ \E b \in Batches : InsertSpans(b)
  \/ \E ls \in LogBatches : InsertLogs(ls)
  \/ \E t \in DOMAIN traces : UpdateTraceCost(t)
  \/ \E cutoff \in Cutoffs : PurgeLogs(cutoff) \/ \E n \in Counts : Purge(cutoff, n)
  \/ \E ids \in SUBSET AllTraces \ {{}} : DeleteTraces(ids)
  \/ \E m \in Models : DeleteModelPricing(m) \/ \E p \in Prices : UpsertModelPricing(m, p)
  \/ \E id \in Configs :
       \/ DeleteLLMConfig(id)
       \/ \E c \in [default : BOOLEAN, key : Keys] : CreateLLMConfig(id, c)
       \/ \E c \in [default : BOOLEAN, key : Keys \cup {Masked}] : UpdateLLMConfig(id, c)
  \/ \E t \in AllTraces : UpsertDiagnosisResult(t)
  \/ Open \/ Close \/ Crash
Spec == Init /\ [][Next]_vars

-----------------------------------------------------------------------------
(* In whatever batches the spans of a trace arrive, and whatever is        *)
(* deleted in between, its row is the one a single batch of the spans that *)
(* are stored would have had, but for the duration, which may fall short   *)
(* of the range, and for its cost and resource.                            *)
(* (memstore.go, the merge in InsertSpans, Purge, DeleteTraces)            *)
RowIsAggregate ==
  /\ DOMAIN traces = {spans[i].trace : i \in DOMAIN spans}
  /\ \A t \in DOMAIN traces :
       LET whole == AggregateAt(spans, At(spans, {t}))
       IN  /\ \A f \in {"root", "rootName", "status", "session", "count", "start",
                        "end", "tokens"} : traces[t][f] = whole[f]
           /\ traces[t].duration <= traces[t].end - traces[t].start

(* The shares of the models, and those of the services, add up to the      *)
(* total cost of the traces, as long as no price changed between the       *)
(* costing of a trace and that of its spans.                               *)
(* (memstore.go, GetCostSummary, with InsertSpans and UpdateTraceCost)     *)
CostSummaryAddsUp ==
  \A by \in {"model", "service"} :
    LET summary == MemCostSummary(traces, spans, 0, 0, by)
        costly == {t \in DOMAIN traces : Given(traces[t].cost)}
    IN  costly \cap stale = {} =>
          summary.cost = Total(DOMAIN summary.groups, LAMBDA g : summary.groups[g].cost)

(* What the file holds is what the last successful call left: a restart    *)
(* finds every price, configuration and result, whether they were changed  *)
(* one by one or went with their traces, unless a write was cut off.       *)
(* (memstore.go, writeJSONLocked and its callers)                          *)
SettingsSurvive == ~cut => Contents = promised

(* What the two ways to read have in common, of one content.  A page of    *)
(* the trace list is the same if no trace has two roots (the prompt of one *)
(* with several is another root's), the cost summary if no span arrived    *)
(* twice (only the SQLite store forgets the first).  A search finds the    *)
(* same unless its text holds a wildcard of LIKE, then SQL may find more.  *)
(* (memstore.go and sqlite_store.go, ListTraces, GetCostSummary)           *)
OneRoot(t) == Cardinality({i \in DOMAIN spans : spans[i].trace = t /\ spans[i].root}) <= 1
NoSpanTwice == \A i, j \in DOMAIN spans : i # j => spans[i].id # spans[j].id

TraceListsAgree(q, page, size) ==
  /\ \A t \in DOMAIN traces :
       MemSelects(traces[t], q) => Selected(Columns(traces[t]), TraceClauses(q))
  /\ q.name \notin Wild /\ (\A t \in DOMAIN traces : OneRoot(t)) =>
       MemListTraces(traces, spans, q, page, size)
         = SqlListTraces(traces, spans, q, page, size)
CostSummariesAgree(from, to, by) ==
  NoSpanTwice =>
     MemCostSummary(traces, spans, from, to, by) = SqlCostSummary(traces, spans, from, to, by)

(* Two lists of logs, of a query that writes the severity as they do. *)
LogListsMatch(q, page, size) ==
  (Given(q.severity) => Upper[q.severity] = q.severity) =>
    /\ \A i \in DOMAIN logs : MemLogSelects(logs[i], q) => SqlLogSelects(logs[i], q)
    /\ q.body \notin Wild =>
         MemListLogs(logs, q, page, size) = SqlListLogs(logs, q, page, size)

TracesMatch(t) ==
  LET mem == MemGetTrace(traces, spans, t)
      sql == SqlGetTrace(traces, spans, t)
  IN  /\ ReadStatus(TRUE, mem) = 404 <=> ReadStatus(TRUE, sql) = 500
      /\ sql.found => mem.spans = sql.spans /\ mem.session = sql.session

ListsAgree ==
  /\ \A n \in PageNumbers, m \in PageSizes :
       /\ \A q \in TraceQueries : TraceListsAgree(q, PageOf(n), SizeOf(m))
       /\ \A q \in LogQueries : LogListsMatch(q, PageOf(n), SizeOf(m))
  /\ \A by \in {"model", "service"}, r \in Ranges : CostSummariesAgree(r[1], r[2], by)
  /\ \A t \in AllTraces : TracesMatch(t)
  /\ SqlGetServices(traces) \subseteq services

(* Of spans that end before they start, the longest is 0 in memory and *)
(* negative in SQL.                                                    *)
Lasting == \A t \in DOMAIN traces : traces[t].duration >= 0
(* What is told of a session, but for its cost, which memory never tells:  *)
(* the same sums, and SQL's quotients are memory's, to the nearest unit.   *)
Nearest(r, f) ==
  \A n \in {2 * (r[1] * f[2] - r[2] * f[1])} : -f[2] <= n /\ n <= f[2]
SameFigures(mem, sql) ==
  /\ mem.session = sql.session /\ mem.sums = sql.sums
  /\ Nearest(sql.average, mem.average) /\ Nearest(sql.rate, mem.rate)
SamePages(a, b) ==
  /\ a.total = b.total /\ DOMAIN a.items = DOMAIN b.items
  /\ \A i \in DOMAIN a.items : SameFigures(a.items[i], b.items[i])
Paired(S, T, Same(_, _)) ==
  (\A a \in S : \E b \in T : Same(a, b)) /\ (\A b \in T : \E a \in S : Same(a, b))

SessionListsMatch(q, page, size) ==
  Paired(MemListSessions(traces, q, page, size), SqlListSessions(traces, q, page, size),
        SamePages)
SessionsMatch(s, page, size) ==
  LET Same(a, b) ==
        /\ SameFigures(a.session, b.session)
        /\ (\A t \in TracesIn(traces, s) : OneRoot(t)) => a.items = b.items
  IN  Paired(MemGetSession(traces, spans, s, page, size),
            SqlGetSession(traces, spans, s, page, size), Same)
SessionsAgree ==
  Lasting =>
    \A q \in SessionQueries, n \in PageNumbers, m \in PageSizes :
      /\ \A t \in DOMAIN traces :
           MemMatches(traces[t], q) => Selected(traces[t], SessionClauses(q))
      /\ q.name \notin Wild => SessionListsMatch(q, PageOf(n), SizeOf(m))
      /\ \A a \in MemListSessions(traces, q, PageOf(n), SizeOf(m)) :
           \A i \in DOMAIN a.items :
             LET s == a.items[i].session
             IN  /\ SessionsMatch(s, PageOf(n), SizeOf(m))
                 /\ \A d \in SqlGetSession(traces, spans, s, PageOf(n), SizeOf(m)) :
                      SameFigures(a.items[i], d.session)

With(f, v, q) == [q EXCEPT ![f] = v]
NoLogFilter ==
  [severity |-> NoValue, event |-> NoValue, body |-> NoValue, trace |-> NoValue,
   span |-> NoValue, from |-> 0, to |-> 0, asc |-> FALSE]

(* Turning the pages of a list shows the list. *)
PagesShow(list, size) ==
  FlattenSeq([p \in 1 .. Len(list) + 1 |-> MemPage(list, p, size)]) = list
(* The logs of a trace, on a page that has room for them. *)
LogsOfTrace(t) ==
  LET counts == LogCountsByTrace(logs, t)
      q == With("asc", TRUE, With("trace", t, NoLogFilter))
      listed == MemListLogs(logs, q, 1, Len(logs) + 1)
  IN  /\ LogsByTrace(logs, t) = {a.items : a \in listed}
      /\ \A a \in listed : a.total = SumFunction(counts)
PagesPartition ==
  /\ \A m \in PageSizes :
       /\ \A o \in Newest(traces, DOMAIN traces) : PagesShow(o, SizeOf(m))
       /\ \A o \in Sorted(logs, DOMAIN logs, TRUE) : PagesShow(o, SizeOf(m))
  /\ \A t \in AllTraces : Given(t) => LogsOfTrace(t)
  /\ \A e \in LogEventNames(logs) :
       \A a \in SqlListLogs(logs, With("event", e, NoLogFilter), 1, 1) : a.items # << >>

(* Of the same content the two stores give the same answers to every query *)
(* of traces, sessions and logs: the same totals, the same pages but for   *)
(* the order of equal times, the prompts of traces with one root, the      *)
(* costs of traces whose spans arrived once.  Of a session only the SQLite *)
(* store tells what it cost, and it rounds the mean duration and the rate  *)
(* of errors; a search text with a wildcard of LIKE may find more there.   *)
(* Only it forgets the name of a service, and fails when a trace is not    *)
(* there.  A filter of the session list selects sessions, not traces: the  *)
(* figures of a session are those of its page.  Turning the pages shows    *)
(* every entry once.  The logs of a trace are the pages of the log list    *)
(* with the trace as its filter, the counts of its spans add up to them,   *)
(* and every event the filter offers has a log.                            *)
(* (storage.go, Store; the List and Get methods of memstore.go and         *)
(* sqlite_store.go)                                                        *)
StoresAgree == ListsAgree /\ SessionsAgree /\ PagesPartition
=============================================================================
