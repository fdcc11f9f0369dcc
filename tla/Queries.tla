------------------------------ MODULE Queries ------------------------------
(***************************************************************************)
(* The read side of internal/storage, twice: what memstore.go computes by  *)
(* loops over its maps and slices, and what sqlite_store.go asks SQL for.  *)
(* Both are operators of the same tables: tt, the row of every trace, ss,  *)
(* the spans in the order of their arrival, and logs.                      *)
(*                                                                         *)
(* A row is one of TraceAggregate with the service its resource names and  *)
(* the currency of its cost.  The four token buckets of a span are one     *)
(* number.  A root span's name is its id.  NoValue is NULL or "", and a    *)
(* filter that is not given is NoValue or 0.                               *)
(***************************************************************************)
EXTENDS TraceAggregate, FiniteSets, Sublists

CONSTANTS
  OK, ERROR, (* statuses                                               *)
  Failed,    (* the ids of spans whose status is ERROR                    *)
  Prompted,  (* the ids of spans with gen_ai.input.messages               *)
  Upper,     (* severities in any case, each with its upper case form     *)
  ContainsText,    (* containsSubstring: <<text, q>>: the text contains q *)
             (* whatever the case of ASCII letters                        *)
  Like,      (* <<text, q>> if SQLite says text LIKE '%q%' ...            *)
  Wild,      (* ... which takes _ and % in q for wildcards: such q        *)
  Mixed      (* what stands for several currencies                        *)

(* LIKE folds the case of ASCII letters too, and a wildcard matches itself. *)
ASSUME TextAssumption ==
  /\ ContainsText \subseteq Like
  /\ \A p \in Like : p \in ContainsText \/ p[2] \in Wild

Given(v) == v \notin {0, NoValue}
StatusOf(row) == IF row.status \in Failed THEN ERROR ELSE OK

(* A sort without a key for ties, over a map or a table: S in any order   *)
(* that has nothing before what comes Before it.                          *)
Orders(S, Before(_, _)) ==
  {s \in SetToSeqs(S) : \A i, j \in DOMAIN s : i < j => ~Before(s[j], s[i])}

-----------------------------------------------------------------------------
(* Requests.  A parameter that cannot be parsed is as if it was not given, *)
(* and a page that makes no sense is the first, of twenty.                 *)
Parsed(q, invalid) == [f \in DOMAIN q |-> IF f \in invalid THEN NoValue ELSE q[f]]
PageOf(n) == IF n < 1 THEN 1 ELSE n
SizeOf(n) == IF n < 1 \/ n > 100 THEN 20 ELSE n

(* One trace or one session: its id is malformed, the store fails, it has  *)
(* none, or it answers.                                                    *)
ReadStatus(wellFormed, a) ==
  CASE ~wellFormed -> 400
    [] wellFormed /\ a.error -> 500
    [] wellFormed /\ ~a.error -> IF a.found THEN 200 ELSE 404

Least(a, b) == IF a < b THEN a ELSE b

(* Mutant of MemPage: the pages are counted from zero. *)
MemPageFromZero(s, page, size) ==
  LET start == Least(page * size, Len(s))
  IN  SubSeq(s, start + 1, Least(start + size, Len(s)))

(* A slice of the list, with both ends clamped. *)
MemPage(s, page, size) ==
  LET start == Least((page - 1) * size, Len(s))
  IN  SubSeq(s, start + 1, Least(start + size, Len(s)))

(* LIMIT size OFFSET (page - 1) * size. *)
SqlPage(s, page, size) ==
  LET offset == (page - 1) * size
      rows == {i \in DOMAIN s : offset < i /\ i <= offset + size}
  IN  [i \in 1 .. Cardinality(rows) |-> s[offset + i]]

-----------------------------------------------------------------------------
(* WHERE clauses: a filter that is given adds one, and a row is selected  *)
(* if no column a clause names is NULL or fails it.  The texts LIKE looks *)
(* at may be empty but are never NULL.                                    *)
Clause(column, op, v) ==
  IF Given(v) THEN {[column |-> column, op |-> op, value |-> v]} ELSE {}
Satisfies(row, c) ==
  LET v == row[c.column]
  IN  CASE c.op = "=" -> v = c.value
        [] c.op = ">=" -> v # NoValue /\ v >= c.value
        [] c.op = "<=" -> v # NoValue /\ v <= c.value
        [] c.op = "LIKE" -> <<v, c.value>> \in Like
Selected(row, clauses) == \A c \in clauses : Satisfies(row, c)

(* The columns of the traces table the filters look at. *)
Columns(row) == [row EXCEPT !.status = StatusOf(row)]

TraceClauses(q) ==
  UNION {Clause("service", "=", q.service), Clause("status", "=", q.status),
         Clause("rootName", "LIKE", q.name), Clause("start", ">=", q.from),
         Clause("start", "<=", q.to), Clause("duration", ">=", q.minDuration),
         Clause("duration", "<=", q.maxDuration), Clause("count", ">=", q.minCount),
         Clause("count", "<=", q.maxCount), Clause("cost", ">=", q.minCost),
         Clause("cost", "<=", q.maxCost)}

SessionClauses(q) ==
  UNION {Clause("service", "=", q.service), Clause("session", "LIKE", q.name),
         Clause("start", ">=", q.from), Clause("start", "<=", q.to)}

LogClauses(q) ==
  UNION {Clause("severity", "=", q.severity), Clause("event", "=", q.event),
         Clause("body", "LIKE", q.body), Clause("trace", "=", q.trace),
         Clause("span", "=", q.span), Clause("time", ">=", q.from),
         Clause("time", "<=", q.to)}

-----------------------------------------------------------------------------
(* ListTraces: newest first, with the prompt of the root span. *)
(* Mutant of MemSelects: a trace without a cost passes the upper bound. *)
MemSelectsUncosted(row, q) ==
  /\ Given(q.service) => row.service = q.service
  /\ Given(q.status) => StatusOf(row) = q.status
  /\ Given(q.name) => <<row.rootName, q.name>> \in ContainsText
  /\ Given(q.from) => row.start >= q.from
  /\ Given(q.to) => row.start <= q.to
  /\ Given(q.minDuration) => row.duration >= q.minDuration
  /\ Given(q.maxDuration) => row.duration <= q.maxDuration
  /\ Given(q.minCount) => row.count >= q.minCount
  /\ Given(q.maxCount) => row.count <= q.maxCount
  /\ Given(q.minCost) => row.cost # NoValue /\ row.cost >= q.minCost
  /\ Given(q.maxCost) => row.cost = NoValue \/ row.cost <= q.maxCost

MemSelects(row, q) ==
  /\ Given(q.service) => row.service = q.service
  /\ Given(q.status) => StatusOf(row) = q.status
  /\ Given(q.name) => <<row.rootName, q.name>> \in ContainsText
  /\ Given(q.from) => row.start >= q.from
  /\ Given(q.to) => row.start <= q.to
  /\ Given(q.minDuration) => row.duration >= q.minDuration
  /\ Given(q.maxDuration) => row.duration <= q.maxDuration
  /\ Given(q.minCount) => row.count >= q.minCount
  /\ Given(q.maxCount) => row.count <= q.maxCount
  /\ Given(q.minCost) => row.cost # NoValue /\ row.cost >= q.minCost
  /\ Given(q.maxCost) => row.cost # NoValue /\ row.cost <= q.maxCost

Newest(tt, T) == Orders(T, LAMBDA t, u : tt[t].start > tt[u].start)
Oldest(tt, T) == Orders(T, LAMBDA t, u : tt[t].start < tt[u].start)
Numbers(s, Of(_)) == [i \in DOMAIN s |-> Of(s[i])]

(* The last root span that arrived with one. *)
MemPrompt(ss, t) ==
  LET I == {i \in DOMAIN ss : ss[i].trace = t /\ ss[i].root /\ ss[i].id \in Prompted}
  IN  IF I = {} THEN NoValue ELSE ss[Max(I)].id
(* The span the row names as its root, if it is stored and has one. *)
SqlPrompt(tt, ss, t) ==
  IF tt[t].root \in Prompted /\ \E i \in DOMAIN ss : ss[i].trace = t /\ ss[i].id = tt[t].root
  THEN tt[t].root ELSE NoValue

MemItem(tt, ss, t) == [trace |-> t, row |-> tt[t], prompt |-> MemPrompt(ss, t)]
SqlItem(tt, ss, t) == [trace |-> t, row |-> tt[t], prompt |-> SqlPrompt(tt, ss, t)]

(* The answers a request may get. *)
MemListTraces(tt, ss, q, page, size) ==
  LET found == {t \in DOMAIN tt : MemSelects(tt[t], q)}
  IN  {[total |-> Cardinality(found),
        items |-> Numbers(MemPage(s, page, size), LAMBDA t : MemItem(tt, ss, t))] :
         s \in Newest(tt, found)}
SqlListTraces(tt, ss, q, page, size) ==
  LET found == {t \in DOMAIN tt : Selected(Columns(tt[t]), TraceClauses(q))}
  IN  {[total |-> Cardinality(found),
        items |-> Numbers(SqlPage(s, page, size), LAMBDA t : SqlItem(tt, ss, t))] :
         s \in Newest(tt, found)}

SqlGetServices(tt) == {tt[t].service : t \in DOMAIN tt} \ {NoValue}

(* GetTrace.  The memory store describes a trace by its last root span in *)
(* the order of their starts, or by its first span, and answers nil if it *)
(* has none; the SQLite store takes the row, and fails if there is none.  *)
Nil == [error |-> FALSE, found |-> FALSE]
MemGetTrace(tt, ss, t) ==
  LET I == {i \in DOMAIN ss : ss[i].trace = t}
      last == CHOOSE i \in I : /\ ss[i].root
                               /\ \A j \in I : ss[j].root => ss[j].start <= ss[i].start
      head == IF \E i \in I : ss[i].root THEN last
              ELSE CHOOSE i \in I : \A j \in I : ss[i].start <= ss[j].start
  IN  IF I = {} THEN Nil
      ELSE [error |-> FALSE, found |-> TRUE, spans |-> {ss[i].id : i \in I},
            count |-> Cardinality(I), start |-> ss[head].start,
            duration |-> ss[head].end - ss[head].start,
            root |-> IF ss[head].root THEN ss[head].id ELSE NoValue,
            session |-> IF t \in DOMAIN tt THEN tt[t].session ELSE NoValue]
SqlGetTrace(tt, ss, t) ==
  IF t \notin DOMAIN tt THEN [error |-> TRUE, found |-> FALSE]
  ELSE [error |-> FALSE, found |-> TRUE,
        spans |-> {ss[i].id : i \in {j \in DOMAIN ss : ss[j].trace = t}},
        count |-> tt[t].count, start |-> tt[t].start, duration |-> tt[t].duration,
        root |-> tt[t].root, session |-> tt[t].session]

-----------------------------------------------------------------------------
(* Sessions.  A filter says which sessions appear; what is told of one is *)
(* about all of its traces.                                               *)
MemMatches(row, q) ==
  /\ row.session # NoValue
  /\ Given(q.service) => row.service = q.service
  /\ Given(q.name) => <<row.session, q.name>> \in ContainsText
  /\ Given(q.from) => row.start >= q.from
  /\ Given(q.to) => row.start <= q.to

TracesIn(tt, s) == {t \in DOMAIN tt : tt[t].session = s}

(* The loop over the traces of a session, and its start. *)
NewSummary(row) ==
  [traces |-> 0, tokens |-> NoValue, duration |-> 0, longest |-> 0, errors |-> 0,
   first |-> row.start, last |-> row.start]
AddTrace(sum, row) ==
  [sum EXCEPT !.traces = @ + 1,
              !.tokens = AddTokens(@, row.tokens),
              !.duration = @ + row.duration,
              !.longest = IF row.duration > @ THEN row.duration ELSE @,
              !.errors = IF row.status \in Failed THEN @ + 1 ELSE @,
              !.first = IF row.start < @ THEN row.start ELSE @,
              !.last = IF row.start > @ THEN row.start ELSE @]
Summarise(tt, T) ==
  LET s == SetToSeq(T)
  IN  FoldLeft(LAMBDA sum, t : AddTrace(sum, tt[t]), NewSummary(tt[s[1]]), s)

(* What an answer says of a session: memory leaves the quotients as they   *)
(* are, and never sets a cost.                                             *)
MemFigures(s, sum) ==
  [session |-> s, sums |-> sum, average |-> <<sum.duration, sum.traces>>,
   rate |-> <<sum.errors, sum.traces>>, cost |-> NoValue, currency |-> NoValue]

(* Mutant of MemSessions: only the matching traces are summed up. *)
MemSessionsFiltered(tt, q) ==
  LET matched == {t \in DOMAIN tt : MemMatches(tt[t], q)}
  IN  [s \in {tt[t].session : t \in matched} |-> Summarise(tt, matched \cap TracesIn(tt, s))]

(* The sessions that match, with what the list says of them. *)
MemSessions(tt, q) ==
  LET matched == {t \in DOMAIN tt : MemMatches(tt[t], q)}
  IN  [s \in {tt[t].session : t \in matched} |-> Summarise(tt, TracesIn(tt, s))]

(* Last active first; of one session, its traces from the oldest. *)
LastActive(list) == Orders(DOMAIN list, LAMBDA s, r : list[s].last > list[r].last)
MemListSessions(tt, q, page, size) ==
  LET list == MemSessions(tt, q)
  IN  {[total |-> Cardinality(DOMAIN list),
        items |-> Numbers(MemPage(o, page, size), LAMBDA s : MemFigures(s, list[s]))] :
         o \in LastActive(list)}
MemGetSession(tt, ss, s, page, size) ==
  IF TracesIn(tt, s) = {} THEN {Nil}
  ELSE {[error |-> FALSE, found |-> TRUE,
         session |-> MemFigures(s, Summarise(tt, TracesIn(tt, s))),
         items |-> Numbers(MemPage(o, page, size), LAMBDA t : MemItem(tt, ss, t))] :
          o \in Oldest(tt, TracesIn(tt, s))}

(* GROUP BY session_id: the sum of no value but NULL is NULL. *)
SqlSum(S, V(_)) ==
  LET known == {x \in S : V(x) # NoValue}
  IN  IF known = {} THEN NoValue ELSE SumFunction([x \in known |-> V(x)])
SqlSummary(tt, T) ==
  [traces |-> Cardinality(T),
   tokens |-> SqlSum(T, LAMBDA t : tt[t].tokens),
   duration |-> SqlSum(T, LAMBDA t : tt[t].duration),
   longest |-> Max({tt[t].duration : t \in T}),
   errors |-> Cardinality({t \in T : StatusOf(tt[t]) = ERROR}),
   first |-> Min({tt[t].start : t \in T}), last |-> Max({tt[t].start : t \in T})]

(* round(avg(duration_ms)), and the rate of errors to four digits, both    *)
(* not negative; the cost of all, in the currency of all: "" is one too.   *)
RoundedTo(n, m, unit) == <<(2 * unit * n + m) \div (2 * m), unit>>
SqlCurrency(tt, T) ==
  LET known == {tt[t].currency : t \in T}
  IN  IF Cardinality(known) > 1 THEN Mixed ELSE CHOOSE c \in known : TRUE
SqlFigures(tt, s) ==
  LET T == TracesIn(tt, s)
      sums == SqlSummary(tt, T)
  IN  [session |-> s, sums |-> sums, average |-> RoundedTo(sums.duration, sums.traces, 1),
       rate |-> RoundedTo(sums.errors, sums.traces, 10000),
       cost |-> SqlSum(T, LAMBDA t : tt[t].cost), currency |-> SqlCurrency(tt, T)]

SqlSessions(tt, q) ==
  LET matched == {t \in DOMAIN tt : /\ tt[t].session # NoValue
                                    /\ Selected(tt[t], SessionClauses(q))}
  IN  [s \in {tt[t].session : t \in matched} |-> SqlSummary(tt, TracesIn(tt, s))]
SqlListSessions(tt, q, page, size) ==
  LET list == SqlSessions(tt, q)
  IN  {[total |-> Cardinality(DOMAIN list),
        items |-> Numbers(SqlPage(o, page, size), LAMBDA s : SqlFigures(tt, s))] :
         o \in LastActive(list)}
SqlGetSession(tt, ss, s, page, size) ==
  IF TracesIn(tt, s) = {} THEN {Nil}
  ELSE {[error |-> FALSE, found |-> TRUE, session |-> SqlFigures(tt, s),
         items |-> Numbers(SqlPage(o, page, size), LAMBDA t : SqlItem(tt, ss, t))] :
          o \in Oldest(tt, TracesIn(tt, s))}

(* The spans and roots the statistics of a session are computed from. *)
SpansIn(tt, ss, s) == Picked(ss, {i \in DOMAIN ss : ss[i].trace \in TracesIn(tt, s)})
RootByTrace(tt, s) == [t \in TracesIn(tt, s) |-> tt[t].root]

-----------------------------------------------------------------------------
(* GetCostSummary: what the traces in a range cost, and what each model   *)
(* or service has its share in.                                           *)
(* The range a request is about, if it is valid: both ends of its own, in  *)
(* order, or a period that began some time ago.                            *)
CostRange(from, to, period, now, Age) ==
  IF from = NoValue /\ to = NoValue
  THEN {<<now - Age[p], now>> : p \in {period} \cap DOMAIN Age}
  ELSE {r \in {<<from, to>>} : NoValue \notin {from, to} /\ from <= to}

Total(S, V(_)) == SumFunction([x \in S |-> IF V(x) = NoValue THEN 0 ELSE V(x)])
Group(S, Key(_), Trace(_), Cost(_), Tokens(_)) ==
  [k \in {Key(x) : x \in S} |->
     LET own == {x \in S : Key(x) = k}
     IN  [cost |-> Total(own, Cost), tokens |-> Total(own, Tokens),
          traces |-> Cardinality({Trace(x) : x \in own})]]

MemCostSummary(tt, ss, from, to, by) ==
  LET costly == {t \in DOMAIN tt : /\ Given(from) => tt[t].start >= from
                                   /\ Given(to) => tt[t].start <= to
                                   /\ Given(tt[t].cost)}
      counted == {i \in DOMAIN ss : ss[i].trace \in costly /\ ss[i].tokens # NoValue}
      Key(i) == IF by = "service" THEN tt[ss[i].trace].service ELSE ss[i].model
  IN  [cost |-> Total(costly, LAMBDA t : tt[t].cost), traces |-> Cardinality(costly),
       tokens |-> Total(counted, LAMBDA i : ss[i].tokens),
       groups |-> Group(counted, Key, LAMBDA i : ss[i].trace, LAMBDA i : ss[i].cost,
                        LAMBDA i : ss[i].tokens)]

(* The spans table: a span that arrives again takes the place of the old. *)
SqlSpans(ss) ==
  {ss[i] : i \in {i \in DOMAIN ss : \A j \in i + 1 .. Len(ss) :
                                      ss[j].trace # ss[i].trace \/ ss[j].id # ss[i].id}}
SqlCostSummary(tt, ss, from, to, by) ==
  LET costly == {t \in DOMAIN tt : /\ tt[t].start >= from /\ tt[t].start <= to
                                   /\ tt[t].cost # NoValue /\ tt[t].cost > 0}
      counted == {sp \in SqlSpans(ss) : sp.trace \in costly /\ sp.tokens # NoValue}
      Key(sp) == IF by = "service" THEN tt[sp.trace].service ELSE sp.model
  IN  [cost |-> Total(costly, LAMBDA t : tt[t].cost), traces |-> Cardinality(costly),
       tokens |-> Total(counted, LAMBDA sp : sp.tokens),
       groups |-> Group(counted, Key, LAMBDA sp : sp.trace, LAMBDA sp : sp.cost,
                        LAMBDA sp : sp.tokens)]

-----------------------------------------------------------------------------
(* Logs.  The memory store folds the case of a severity, SQL does not. *)
MemLogSelects(l, q) ==
  /\ Given(q.severity) => Upper[l.severity] = Upper[q.severity]
  /\ Given(q.event) => l.event = q.event
  /\ Given(q.body) => <<l.body, q.body>> \in ContainsText
  /\ Given(q.trace) => l.trace = q.trace
  /\ Given(q.span) => l.span = q.span
  /\ Given(q.from) => l.time >= q.from
  /\ Given(q.to) => l.time <= q.to
SqlLogSelects(l, q) == Selected(l, LogClauses(q))

Sorted(logs, I, asc) ==
  Orders(I, LAMBDA i, j : IF asc THEN logs[i].time < logs[j].time
                                 ELSE logs[i].time > logs[j].time)
MemListLogs(logs, q, page, size) ==
  LET found == {i \in DOMAIN logs : MemLogSelects(logs[i], q)}
  IN  {[total |-> Cardinality(found), items |-> MemPage(s, page, size)] :
         s \in Sorted(logs, found, q.asc)}
SqlListLogs(logs, q, page, size) ==
  LET found == {i \in DOMAIN logs : SqlLogSelects(logs[i], q)}
  IN  {[total |-> Cardinality(found), items |-> SqlPage(s, page, size)] :
         s \in Sorted(logs, found, q.asc)}

LogsOf(logs, t) == {i \in DOMAIN logs : logs[i].trace = t}
LogsByTrace(logs, t) == Sorted(logs, LogsOf(logs, t), TRUE)
LogCountsByTrace(logs, t) ==
  [s \in {logs[i].span : i \in LogsOf(logs, t)} |->
     Cardinality({i \in LogsOf(logs, t) : logs[i].span = s})]
LogEventNames(logs) == {logs[i].event : i \in DOMAIN logs} \ {NoValue}
=============================================================================
