------------------------------ MODULE Metrics ------------------------------
(***************************************************************************)
(* internal/metrics, receiver/metrics_translator.go and the Prometheus     *)
(* queries of internal/api/metrics_handler.go.  The rows are kept by the   *)
(* library tstorage, on disk or in memory; which label sets a metric has   *)
(* been seen with is an index in memory only, written after the rows and   *)
(* under a lock of its own.                                                *)
(*                                                                         *)
(* A name is a base and a suffix, a set of labels a function, a value a    *)
(* fraction <<n, d>>, a time a number of steps of the clock, a row [name,  *)
(* labels, at, value].  The text of a query and the regular expressions it *)
(* is read with are left out: an expression is a record.                   *)
(***************************************************************************)
EXTENDS Integers, Sequences, SequencesExt, Sublists

CONSTANTS
  NoName,     (* "", and what is not given                                *)
  Inf,        (* the bound of the last bucket of a histogram              *)
  Requests,   (* the requests to store metrics                            *)
  Persistent, (* whether the rows are on disk                             *)
  Window,     (* Select of an instant query: this long back ...           *)
  Ahead,      (* ... and this much further than its time                  *)
  Lookback,   (* how much earlier rows are read for rate and increase     *)
  Tolerance,  (* how far from its time a reference may be                 *)
  MaxRows,    (* bound: rows ever stored                                  *)
  MaxStops    (* bound: ends of the process                               *)

VARIABLES
  rows,     (* tstorage: the rows in the order of their arrival           *)
  known,    (* metricIdx: the label sets per metric                       *)
  names,    (* labelIdx: the values per label, and the metrics            *)
  pending,  (* calls of Insert that stored their rows and have yet to     *)
            (* update the index                                           *)
  since,    (* history: the rows of calls that completed since the start  *)
  stored, stops

indexes == <<known, names>>
metricVars == <<rows, known, names, pending, since, stored, stops>>

NoIndex == << >>
Under(f, k) == IF k \in DOMAIN f THEN f[k] ELSE {}
(* The sets of f, with the second of each pair under its first. *)
Entered(f, pairs) ==
  [k \in DOMAIN f \cup {e[1] : e \in pairs} |->
     Under(f, k) \cup {e[2] : e \in {x \in pairs : x[1] = k}}]

MetricsInit ==
  /\ rows = << >> /\ known = NoIndex /\ names = NoIndex
  /\ pending = << >> /\ since = {} /\ stored = 0 /\ stops = 0

-----------------------------------------------------------------------------
(* Insert: the rows first, and no index if they are refused. *)
InsertRows(ps) ==
  /\ stored + Len(ps) <= MaxRows
  /\ stored' = stored + Len(ps)
  /\ \/ rows' = rows \o ps /\ pending' = Append(pending, ps)
     \/ UNCHANGED <<rows, pending>>
  /\ UNCHANGED <<indexes, since, stops>>

LabelSets(ps) == {<<p.name, p.labels>> : p \in Range(ps)}
LabelPairs(p) == {<<"__name__", p.name>>} \cup {<<l, p.labels[l]>> : l \in DOMAIN p.labels}

(* Mutant of IndexPoints: only the first label set of a metric is indexed. *)
IndexPointsOnce(i) ==
  LET ps == pending[i]
      First(m) == ps[Min({k \in DOMAIN ps : ps[k].name = m})]
      new == {m \in {p.name : p \in Range(ps)} : m \notin DOMAIN known}
  IN  /\ known' = Entered(known, {<<m, First(m).labels>> : m \in new})
      /\ names' = Entered(names, UNION {LabelPairs(p) : p \in Range(ps)})
      /\ since' = since \cup (Range(ps) \cap Range(rows))
      /\ pending' = RemoveAt(pending, i)
      /\ UNCHANGED <<rows, stored, stops>>

IndexPoints(i) ==
  LET ps == pending[i]
  IN  /\ known' = Entered(known, LabelSets(ps))
      /\ names' = Entered(names, UNION {LabelPairs(p) : p \in Range(ps)})
      /\ since' = since \cup (Range(ps) \cap Range(rows))
      /\ pending' = RemoveAt(pending, i)
      /\ UNCHANGED <<rows, stored, stops>>

(* The process ends and another starts: the index is empty.  What a crash  *)
(* leaves of the rows is a beginning of them, nothing if memory held them. *)
Reopen ==
  /\ stops < MaxStops
  /\ stops' = stops + 1
  /\ \E n \in IF Persistent THEN 0 .. Len(rows) ELSE {0} : rows' = SubSeq(rows, 1, n)
  /\ known' = NoIndex /\ names' = NoIndex /\ pending' = << >> /\ since' = {}
  /\ UNCHANGED stored

(* Retention drops the rows before a time; the index keeps their labels. *)
Expire(t) ==
  /\ \E i \in DOMAIN rows : rows[i].at < t
  /\ rows' = Picked(rows, {i \in DOMAIN rows : rows[i].at >= t})
  /\ since' = {r \in since : r.at >= t}
  /\ UNCHANGED <<indexes, pending, stored, stops>>

-----------------------------------------------------------------------------
(* Select: the rows with exactly these labels, in the order of their time; *)
(* without labels, those of every label set the index knows, or those of   *)
(* no labels.                                                              *)
Point(r) == [at |-> r.at, value |-> r.value]
Before(i, j) == rows[i].at < rows[j].at \/ (rows[i].at = rows[j].at /\ i < j)
Matching(m, labels, from, to) ==
  {i \in DOMAIN rows : /\ rows[i].name = m /\ rows[i].labels = labels
                       /\ from <= rows[i].at /\ rows[i].at <= to}
SelectWithLabels(m, labels, from, to) ==
  LET I == Matching(m, labels, from, to)
      InPlace(k) == CHOOSE i \in I : Cardinality({j \in I : Before(j, i)}) = k - 1
  IN  IF I = {} THEN {}
      ELSE {[labels |-> labels, points |-> [k \in 1 .. Cardinality(I) |-> Point(rows[InPlace(k)])]]}

Select(m, labels, from, to) ==
  LET sets == IF labels # << >> \/ Under(known, m) = {} THEN {labels} ELSE known[m]
  IN  UNION {SelectWithLabels(m, ls, from, to) : ls \in sets}

LabelNames == DOMAIN names \cup {"__name__"}
LabelValues(l) == Under(names, l)

-----------------------------------------------------------------------------
(* Fractions. *)
Whole(n) == <<n, 1>>
Plus(a, b) == <<a[1] * b[2] + b[1] * a[2], a[2] * b[2]>>
Minus(a, b) == <<a[1] * b[2] - b[1] * a[2], a[2] * b[2]>>
Over(a, b) == IF b[1] < 0 THEN <<-a[1] * b[2], -(a[2] * b[1])>>
                          ELSE <<a[1] * b[2], a[2] * b[1]>>
Less(a, b) == a[1] * b[2] < b[1] * a[2]
Same(a, b) == a[1] * b[2] = b[1] * a[2]
SumOf(vs) == FoldLeft(Plus, Whole(0), vs)
MeanOf(vs) == Over(SumOf(vs), Whole(Len(vs)))
Distance(a, b) == IF a < b THEN b - a ELSE a - b
Values(ps) == [i \in DOMAIN ps |-> ps[i].value]

(* The first of the points nearest to t. *)
Nearest(ps, t) ==
  Min({i \in DOMAIN ps : \A j \in DOMAIN ps : Distance(ps[i].at, t) <= Distance(ps[j].at, t)})
ClosestPoint(ps, t) == ps[Nearest(ps, t)]

(* rate and increase: what a point has grown by since the one nearest to   *)
(* a window before it, unless that is too far off; a counter that fell is  *)
(* one that did not grow.                                                  *)
References(ps, t) == {i \in DOMAIN ps : Distance(ps[i].at, t) < Tolerance}
Growth(p, q) == IF Less(p.value, q.value) THEN Whole(0) ELSE Minus(p.value, q.value)
Delta(ps, window, perSecond) ==
  LET kept == Picked(ps, {i \in DOMAIN ps : References(ps, ps[i].at - window) # {}})
      Value(p) == Growth(p, ClosestPoint(ps, p.at - window))
  IN  [i \in DOMAIN kept |->
         [at |-> kept[i].at,
          value |-> IF perSecond THEN Over(Value(kept[i]), Whole(window)) ELSE Value(kept[i])]]

(* sum, avg, max and min over the series of a group, time by time. *)
Combined(agg, vs) ==
  CASE agg = "sum" -> SumOf(vs)
    [] agg = "avg" -> MeanOf(vs)
    [] agg = "max" -> vs[CHOOSE i \in DOMAIN vs : \A j \in DOMAIN vs : ~Less(vs[i], vs[j])]
    [] agg = "min" -> vs[CHOOSE i \in DOMAIN vs : \A j \in DOMAIN vs : ~Less(vs[j], vs[i])]
MergeByTime(ps, agg) ==
  LET times == {ps[i].at : i \in DOMAIN ps}
      InPlace(k) == CHOOSE t \in times : Cardinality({u \in times : u < t}) = k - 1
      At(t) == Values(Picked(ps, {i \in DOMAIN ps : ps[i].at = t}))
  IN  [k \in 1 .. Cardinality(times) |->
         [at |-> InPlace(k), value |-> Combined(agg, At(InPlace(k)))]]

GroupKey(s, by) == IF by # NoName /\ by \in DOMAIN s.labels THEN s.labels[by] ELSE NoName

(* Mutant of Aggregation: series without the label belong to no group. *)
AggregationDropsUnlabelled(series, agg, by) ==
  LET Own(k) == SetToSeq({s \in series : GroupKey(s, by) = k})
      All(k) == FlattenSeq([i \in DOMAIN Own(k) |-> Own(k)[i].points])
      labelled == {s \in series : by = NoName \/ by \in DOMAIN s.labels}
  IN  {[labels |-> IF by = NoName THEN << >> ELSE [l \in {by} |-> k],
        points |-> MergeByTime(All(k), agg)] : k \in {GroupKey(s, by) : s \in labelled}}

Aggregation(series, agg, by) ==
  LET Own(k) == SetToSeq({s \in series : GroupKey(s, by) = k})
      All(k) == FlattenSeq([i \in DOMAIN Own(k) |-> Own(k)[i].points])
  IN  {[labels |-> IF by = NoName THEN << >> ELSE [l \in {by} |-> k],
        points |-> MergeByTime(All(k), agg)] : k \in {GroupKey(s, by) : s \in series}}

(* Two series of the same labels, where both have a point and the lower    *)
(* one is not zero.                                                        *)
Quotient(n, d) ==
  LET At(t) == {i \in DOMAIN d.points : d.points[i].at = t}
      Below(t) == d.points[Max(At(t))].value
      Divides(t) == At(t) # {} /\ Below(t)[1] # 0
      kept == Picked(n.points, {i \in DOMAIN n.points : Divides(n.points[i].at)})
  IN  [labels |-> n.labels,
       points |-> [i \in DOMAIN kept |->
                     [at |-> kept[i].at, value |-> Over(kept[i].value, Below(kept[i].at))]]]
Ratio(num, den) ==
  {r \in {Quotient(nd[1], nd[2]) : nd \in {x \in num \X den : x[1].labels = x[2].labels}} :
     r.points # << >>}

(* One value per step, the mean of what lies within half a step of it, if  *)
(* anything does.                                                          *)
Downsample(ps, from, to, step) ==
  LET Around(t) == Values(Picked(ps, {i \in DOMAIN ps : Distance(ps[i].at, t) <= step \div 2}))
      grid == [k \in 1 .. ((to - from) \div step) + 1 |-> from + (k - 1) * step]
      kept == Picked(grid, {k \in DOMAIN grid : Around(grid[k]) # << >>})
  IN  [i \in DOMAIN kept |-> [at |-> kept[i], value |-> MeanOf(Around(kept[i]))]]

-----------------------------------------------------------------------------
(* Queries.  An expression is a metric with labels, in rate or increase or *)
(* neither, in an aggregation or not: [name, labels, func, window, unit,   *)
(* agg, by].  Windows are read in minutes; another is no window, and, with *)
(* no labels before it, is taken for a part of the name.                   *)
ParseSingleExpr(e) ==
  IF e.func = NoName THEN [e EXCEPT !.window = 0]
  ELSE IF e.unit = "m" THEN e
  ELSE [e EXCEPT !.window = 0, !.name = IF e.labels = << >> THEN NoName ELSE @]

(* A ratio is computed on both sides as its left side says. *)
ParseRatio(left, right) ==
  LET num == ParseSingleExpr(left)
      den == ParseSingleExpr(right)
  IN  [name |-> den.name, labels |-> den.labels, func |-> num.func, window |-> num.window,
       unit |-> num.unit, agg |-> num.agg, by |-> num.by,
       num |-> num.name, numLabels |-> num.labels]

Computed(q, series) ==
  LET grown == IF q.window = 0 THEN series
               ELSE {[s EXCEPT !.points = Delta(@, q.window, q.func = "rate")] : s \in series}
  IN  IF q.agg = NoName THEN grown ELSE Aggregation(grown, q.agg, q.by)

SeriesOf(q, from, to) ==
  LET Read(m, labels) ==
        IF m = NoName THEN {} ELSE Computed(q, Select(m, labels, from, to))
  IN  IF "num" \in DOMAIN q THEN Ratio(Read(q.num, q.numLabels), Read(q.name, q.labels))
      ELSE Read(q.name, q.labels)

(* Mutant of Back: nothing is read from before the range. *)
BackNever(q) == 0
Back(q) == IF q.func = NoName THEN 0 ELSE Lookback

InstantQuery(q, t) ==
  {[labels |-> s.labels, point |-> ClosestPoint(s.points, t)] :
     s \in {s \in SeriesOf(q, t - Window - Back(q), t + Ahead) : s.points # << >>}}

RangeQuery(q, from, to, step) ==
  {r \in {[labels |-> s.labels, values |-> Downsample(s.points, from, to, step)] :
            s \in SeriesOf(q, from - Back(q), to)} : r.values # << >>}

-----------------------------------------------------------------------------
(* What a request of the OTLP API becomes.  The labels of the resource are *)
(* overridden by those of the scope and these by a point's own, unless     *)
(* they are empty; the service is a label under two names.                 *)
Filled(f) == [l \in {x \in DOMAIN f : f[x] # NoName} |-> f[l]]
MergeLabels(resource, scope, attributes) ==
  Filled(attributes) @@ Filled(scope) @@ Filled(resource)
ResourceLabels(resource) ==
  IF "service.name" \in DOMAIN resource
  THEN [l \in {"service"} |-> resource["service.name"]] @@ resource ELSE resource

AllLabels(r, dp) == MergeLabels(ResourceLabels(r.resource), r.scope, dp.labels)
WithName(base, suffix, labels, at, value) ==
  [name |-> <<base, suffix>>, labels |-> labels, at |-> at, value |-> value]

NumberToPoints(n, ls, dp) == <<WithName(n, "", ls, dp.at, dp.value)>>

(* The labels ls with l set to v. *)
Labelled(l, v, ls) == [x \in {l} \cup DOMAIN ls |-> IF x = l THEN v ELSE ls[x]]
CountOf(counts) == Whole(FoldLeft(LAMBDA x, y : x + y, 0, counts))

(* Buckets count what is not above their bound, and there is one without a *)
(* bound if there is a count for it.                                       *)
HistogramToPoints(n, ls, dp) ==
  LET upTo(i) == CountOf(SubSeq(dp.counts, 1, i))
      bounded == Min({Len(dp.bounds), Len(dp.counts)})
      Bucket(le, i) == WithName(n, "_bucket", Labelled("le", le, ls), dp.at, upTo(i))
  IN  [i \in 1 .. bounded |-> Bucket(dp.bounds[i], i)]
      \o (IF Len(dp.counts) > Len(dp.bounds)
          THEN <<Bucket(Inf, Len(dp.bounds) + 1)>> ELSE << >>)
      \o (IF dp.sum # NoName THEN <<WithName(n, "_sum", ls, dp.at, dp.sum)>> ELSE << >>)
      \o <<WithName(n, "_count", ls, dp.at, dp.count)>>

SummaryToPoints(n, ls, dp) ==
  <<WithName(n, "_sum", ls, dp.at, dp.sum), WithName(n, "_count", ls, dp.at, dp.count)>>
  \o [i \in DOMAIN dp.quantiles |->
        WithName(n, "", Labelled("quantile", dp.quantiles[i].quantile, ls), dp.at,
                 dp.quantiles[i].value)]

(* A request: a sequence of [resource, scope, metrics], a metric: [kind,   *)
(* name, points].  What is of another kind is left out.                    *)
DataToPoints(r, m) ==
  LET To(dp) == CASE m.kind \in {"gauge", "sum"} -> NumberToPoints(m.name, AllLabels(r, dp), dp)
                  [] m.kind = "histogram" -> HistogramToPoints(m.name, AllLabels(r, dp), dp)
                  [] m.kind = "summary" -> SummaryToPoints(m.name, AllLabels(r, dp), dp)
                  [] OTHER -> << >>
  IN  FlattenSeq([i \in DOMAIN m.points |-> To(m.points[i])])
TranslateMetrics(req) ==
  FlattenSeq([k \in DOMAIN req |->
    FlattenSeq([i \in DOMAIN req[k].metrics |-> DataToPoints(req[k], req[k].metrics[i])])])

(* A request without points is answered at once. *)
IngestOTLP(req) ==
  LET ps == TranslateMetrics(req) IN ps # << >> /\ InsertRows(ps)

MetricsNext ==
  \/ \E req \in Requests : IngestOTLP(req)
  \/ \E i \in DOMAIN pending : IndexPoints(i)
  \/ \E t \in {rows[i].at + 1 : i \in DOMAIN rows} : Expire(t)
  \/ Reopen
MetricsSpec == MetricsInit /\ [][MetricsNext]_metricVars

-----------------------------------------------------------------------------
(* What a request becomes is a list of rows, each of a metric with a name. *)
ASSUME RequestsAssumption ==
  \A req \in Requests :
    LET ps == TranslateMetrics(req)
    IN  /\ ps \in Seq({ps[i] : i \in DOMAIN ps})
        /\ \A i \in DOMAIN ps : ps[i].at \in Int /\ ps[i].name # NoName
(* A value is a multiple of the least that float64 tells apart, in which it *)
(* is measured.                                                            *)
IsWhole(v) == v = Whole(v[1]) /\ v[1] \in Int
ASSUME ValuesAssumption ==
  \A req \in Requests :
    LET ps == TranslateMetrics(req) IN \A i \in DOMAIN ps : IsWhole(ps[i].value)
(* A request is a list of lists of lists of points. *)
IsList(s) == s \in Seq({s[i] : i \in DOMAIN s})
ASSUME ListsAssumption ==
  \A req \in Requests :
    /\ IsList(req)
    /\ \A k \in DOMAIN req :
         /\ IsList(req[k].metrics)
         /\ \A i \in DOMAIN req[k].metrics :
              LET m == req[k].metrics[i]
              IN  /\ IsList(m.points)
                  /\ \A j \in DOMAIN m.points :
                       LET dp == m.points[j]
                       IN  /\ m.kind = "histogram" => IsList(dp.bounds) /\ IsList(dp.counts)
                           /\ m.kind = "summary" => IsList(dp.quantiles)
ASSUME NoNameAssumption == NoName \notin {"rate", "increase", "sum", "avg", "max", "min"}
ASSUME ReachAssumption ==
  Window \in Nat /\ Ahead \in Nat /\ Lookback \in Nat /\ Tolerance \in Nat \ {0}

(* A query without labels finds every row of every call that completed     *)
(* since the start, whatever label sets came in what order, at any time it *)
(* answers with the nearest of its rows, and the label API offers each of  *)
(* their labels and values.  What was stored before the start it finds     *)
(* only once the same labels have come again.                              *)
(* (tstorage_store.go, Insert and Select; InstantQuery)                    *)
Plain(m) == ParseSingleExpr([name |-> m, labels |-> << >>, func |-> NoName, window |-> 0,
                             unit |-> "m", agg |-> NoName, by |-> NoName])
IndexedIsFound ==
  \A r \in since :
    /\ \E s \in Select(r.name, << >>, r.at, r.at) :
         s.labels = r.labels /\ Point(r) \in Range(s.points)
    /\ \E s \in InstantQuery(Plain(r.name), r.at) : s.labels = r.labels /\ s.point.at = r.at
    /\ r.name \in LabelValues("__name__")
    /\ \A l \in DOMAIN r.labels : l \in LabelNames /\ r.labels[l] \in LabelValues(l)

(* A query over a range computes the increase at every point it shows that *)
(* has a point to compare it with, the first of the range included: what   *)
(* lies a window before the range is read too, up to the fixed lookback,   *)
(* and a point near one of the steps is not left out.                      *)
(* (RangeQuery, applyDelta and downsamplePoints)                           *)
Increase(m, w) == ParseSingleExpr([Plain(m) EXCEPT !.func = "increase", !.window = w])
Shows(p, from, to, step) ==
  \E k \in 0 .. (to - from) \div step : Distance(p.at, from + k * step) <= step \div 2
ShownIn(series, p, step) ==
  \E s \in series : /\ s.labels = p.labels
                    /\ \E i \in DOMAIN s.values : Distance(p.at, s.values[i].at) <= step \div 2
RangeIsComplete ==
  \A p, r \in since :
    LET w == p.at - r.at
    IN  r.name = p.name /\ r.labels = p.labels /\ w \in 1 .. Lookback =>
          \A from \in r.at .. p.at, to \in p.at .. p.at + Ahead, step \in 1 .. 3 :
            Shows(p, from, to, step)
              => ShownIn(RangeQuery(Increase(p.name, w), from, to, step), p, step)

(* What groups of series are combined into combines into what the series   *)
(* are, whatever the label, also where series lack it.                     *)
(* (applyAggregation and mergePointsByTimestamp)                           *)
Asked(m, func, window, agg, by) ==
  ParseSingleExpr([Plain(m) EXCEPT !.func = func, !.window = window, !.agg = agg, !.by = by])
PointsIn(series) == UNION {Range(s.points) : s \in series}
GroupsCombine(m, func, window, agg, by, from, to) ==
  PointsIn(Aggregation(SeriesOf(Asked(m, func, window, agg, by), from, to), agg, NoName))
    = PointsIn(SeriesOf(Asked(m, func, window, agg, NoName), from, to))

(* A ratio, times what is below it, is what is above it.  (applyRatio)     *)
RatiosMultiplyBack(above, below, from, to) ==
  \A r \in SeriesOf(ParseRatio(above, below), from, to) : \A p \in Range(r.points) :
    \E n \in SeriesOf(above, from, to), m \in SeriesOf(below, from, to) :
      /\ n.labels = r.labels /\ m.labels = r.labels
      /\ \E x \in Range(n.points), y \in Range(m.points) :
           /\ x.at = p.at /\ y.at = p.at
           /\ Same(x.value, <<p.value[1] * y.value[1], p.value[2] * y.value[2]>>)

(* The last bucket of a histogram is as high as its count, if the counts   *)
(* of those who send it add up, and is there whenever the count is,        *)
(* whatever a crash has cut off.  (histogramToPoints)                      *)
AddsUp(dp) == Len(dp.counts) = Len(dp.bounds) + 1 /\ dp.count = CountOf(dp.counts)
OnlyHistograms(n) ==
  \A req \in Requests : \A k \in DOMAIN req : \A i \in DOMAIN req[k].metrics :
    LET m == req[k].metrics[i]
    IN  m.name = n => m.kind = "histogram" /\ \A j \in DOMAIN m.points : AddsUp(m.points[j])
CountHasBucket(r) ==
  \E s \in Select(<<r.name[1], "_bucket">>, Labelled("le", Inf, r.labels), r.at, r.at) :
    Point(r) \in Range(s.points)

(* Nothing is lost between what is stored and what is shown together.      *)
GroupsAddUp ==
  LET first == Min({rows[i].at : i \in DOMAIN rows})
      last == Max({rows[i].at : i \in DOMAIN rows})
  IN  /\ \A m \in DOMAIN known, by \in DOMAIN names, agg \in {"sum", "max", "min"},
            func \in {NoName, "increase"} :
           GroupsCombine(m, func, 2, agg, by, first, last)
      /\ \A n, d \in DOMAIN known, agg \in {NoName, "sum"} :
           RatiosMultiplyBack(Asked(n, NoName, 0, agg, "service"),
                              Asked(d, NoName, 0, agg, "service"), first, last)
      /\ \A i \in DOMAIN rows :
           rows[i].name[2] = "_count" /\ OnlyHistograms(rows[i].name[1]) => CountHasBucket(rows[i])
=============================================================================
