----------------------------- MODULE MCMemStore -----------------------------
(* A small instance of MemStore, and the queries its answers are compared on. *)
EXTENDS MemStore

CONSTANTS t1, t2, m1, m2, svcA, s1, e1, c1, k1, x, y, INFO, info, USD, word, glob

Span(t, i, root, from, to, tokens, session, model) ==
  [trace |-> t, id |-> i, root |-> root, start |-> from, end |-> to,
   tokens |-> tokens, session |-> session, model |-> model]

(* A trace whose root ends first and whose earliest call comes last, of a  *)
(* model nobody may have priced; another in the same session, without a    *)
(* service; and a second root for the first.                               *)
SomeBatches ==
  [first |-> [service |-> svcA,
              spans |-> <<Span(t1, 1, FALSE, 3, 5, 2, NoValue, m1),
                          Span(t1, 2, TRUE, 2, 4, NoValue, s1, NoValue)>>],
   late |-> [service |-> NoValue,
             spans |-> <<Span(t1, 3, FALSE, 1, 2, 1, NoValue, m2)>>],
   again |-> [service |-> NoValue,
              spans |-> <<Span(t1, 4, TRUE, 4, 7, NoValue, NoValue, NoValue),
                          Span(t2, 5, FALSE, 3, 4, 1, NoValue, m1)>>],
   other |-> [service |-> NoValue,
              spans |-> <<Span(t2, 6, TRUE, 2, 3, NoValue, s1, NoValue)>>]]

SomeLogs ==
  {<<[trace |-> t1, span |-> 1, time |-> 1, severity |-> INFO, event |-> e1, body |-> x],
     [trace |-> t2, span |-> 5, time |-> 2, severity |-> ERROR, event |-> NoValue,
      body |-> y]>>}
Canonical == [v \in {INFO, info, ERROR} |-> IF v = ERROR THEN ERROR ELSE INFO]

SomePrices == {[rate |-> 1, currency |-> USD]}

(* A word that some texts contain, and a wildcard that is like every text. *)
SomeTexts == {<<text, word>> : text \in {2, 4, s1, x}}
AllTexts == SomeTexts \cup {<<text, glob>> : text \in {2, 4, 6, s1, x, y, NoValue}}

-----------------------------------------------------------------------------
NoFilter ==
  [f \in {"service", "status", "name", "from", "to", "minDuration", "maxDuration",
          "minCount", "maxCount", "minCost", "maxCost"} |-> NoValue]
SomeTraceQueries ==
  {With(f, v, NoFilter) : f \in {"from", "to", "minDuration", "maxDuration", "minCount",
                                  "maxCount", "minCost", "maxCost"}, v \in {2, 3}}
  \cup {[f \in DOMAIN NoFilter |-> 0], With("service", svcA, NoFilter), With("status", ERROR, NoFilter),
        With("name", word, NoFilter), With("name", glob, NoFilter),
        With("to", 2, With("status", OK, NoFilter))}
SomeSessionQueries ==
  {NoFilter, With("service", svcA, NoFilter), With("name", word, NoFilter), With("name", glob, NoFilter),
   With("from", 2, NoFilter), With("to", 1, NoFilter)}
SomeLogQueries ==
  {NoLogFilter, With("asc", TRUE, NoLogFilter), With("severity", ERROR, NoLogFilter),
   With("event", e1, NoLogFilter), With("body", word, NoLogFilter), With("body", glob, NoLogFilter),
   With("trace", t2, NoLogFilter), With("span", 1, NoLogFilter),
   With("from", 2, NoLogFilter), Parsed(With("to", 1, NoLogFilter), {"trace"})}
SomeRanges == UNION ({CostRange(from, to, "7d", 3, [p \in {"7d"} |-> 2]) :
                    from, to \in {NoValue} \cup 1 .. 3})
=============================================================================
