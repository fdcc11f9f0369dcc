--------------------------- MODULE TraceAggregate ---------------------------
(***************************************************************************)
(* internal/storage: how the row of a trace is computed from the spans of  *)
(* a batch, and merged with the row already stored (aggregateTraces and    *)
(* the middle of sqliteStore.InsertSpans).                                 *)
(*                                                                         *)
(* A span is a record of what the row depends on.  A name or a status is   *)
(* represented by the identifier of the span it was taken from.  NoValue   *)
(* stands for NULL, the zero span id and the empty string.                 *)
(***************************************************************************)
EXTENDS Naturals, Sequences, SequencesExt

CONSTANTS
  NoValue,      (* NULL, "", the zero span id                             *)
  CountModulus  (* span_count is a uint16: 65536                          *)

ASSUME CountModulusAssumption == CountModulus \in Nat \ {0}
ASSUME NoValueAssumption == NoValue \notin Nat

(* Only the parent's id is ever zero; times and tokens are unsigned. *)
IsSpan(sp) ==
  /\ sp.id # NoValue /\ sp.root \in BOOLEAN /\ sp.start \in Nat /\ sp.end \in Nat
  /\ sp.tokens \in Nat \cup {NoValue}

(* The tokens two partial sums give together; NULL only if both are. *)
AddTokens(a, b) ==
  CASE a = NoValue -> b
    [] b = NoValue -> a
    [] OTHER -> a + b

(* The row the loop of aggregateTraces starts from at a trace's first span. *)
NewRow(sp) ==
  [root |-> NoValue, rootName |-> NoValue, status |-> sp.id,
   session |-> NoValue, count |-> 0, start |-> sp.start, end |-> sp.end,
   duration |-> sp.end - sp.start, tokens |-> NoValue, cost |-> NoValue]

(* Mutant of AddSpan: a root span is taken only if there was none. *)
AddSpanFirstRoot(row, sp) ==
  LET start == IF sp.start < row.start THEN sp.start ELSE row.start
      longer == sp.end > row.end
      first == sp.root /\ row.root = NoValue
      session == IF first /\ sp.session # NoValue THEN sp.session ELSE row.session
  IN  [row EXCEPT !.root = IF first THEN sp.id ELSE @,
                  !.rootName = IF first THEN sp.id ELSE @,
                  !.status = IF first THEN sp.id ELSE @,
                  !.session = session,
                  !.count = (@ + 1) % CountModulus,
                  !.start = start,
                  !.end = IF longer THEN sp.end ELSE @,
                  !.duration = IF longer THEN sp.end - start ELSE @,
                  !.tokens = AddTokens(@, sp.tokens)]

(* One turn of that loop.  The duration follows the end of the range only. *)
AddSpan(row, sp) ==
  LET start == IF sp.start < row.start THEN sp.start ELSE row.start
      longer == sp.end > row.end
      session == IF sp.root /\ sp.session # NoValue THEN sp.session ELSE row.session
  IN  [row EXCEPT !.root = IF sp.root THEN sp.id ELSE @,
                  !.rootName = IF sp.root THEN sp.id ELSE @,
                  !.status = IF sp.root THEN sp.id ELSE @,
                  !.session = session,
                  !.count = (@ + 1) % CountModulus,
                  !.start = start,
                  !.end = IF longer THEN sp.end ELSE @,
                  !.duration = IF longer THEN sp.end - start ELSE @,
                  !.tokens = AddTokens(@, sp.tokens)]

(* aggregateTraces for one trace, as the loop runs it. *)
FoldSpans(ss) == FoldLeft(AddSpan, NewRow(ss[1]), ss)

-----------------------------------------------------------------------------
(* The same row, read off the positions I of the trace's spans in ss. *)
Starts(ss, I) == {ss[i].start : i \in I}
Ends(ss, I) == {ss[i].end : i \in I}
Roots(ss, I) == {i \in I : ss[i].root}
SessionRoots(ss, I) == {i \in Roots(ss, I) : ss[i].session # NoValue}
Counted(ss, I) == {i \in I : ss[i].tokens # NoValue}

RootOf(ss, I) == IF Roots(ss, I) = {} THEN NoValue ELSE ss[Max(Roots(ss, I))].id
SessionOf(ss, I) ==
  IF SessionRoots(ss, I) = {} THEN NoValue ELSE ss[Max(SessionRoots(ss, I))].session
TokensOf(ss, I) ==
  IF Counted(ss, I) = {} THEN NoValue
                         ELSE SumFunction([i \in Counted(ss, I) |-> ss[i].tokens])

(* The duration is the one of the range when its end last grew. *)
DurationOf(ss, I) ==
  LET last == Min({i \in I : ss[i].end = Max(Ends(ss, I))})
  IN  ss[last].end - Min(Starts(ss, {i \in I : i <= last}))

AggregateAt(ss, I) ==
  [root |-> RootOf(ss, I), rootName |-> RootOf(ss, I),
   status |-> IF Roots(ss, I) = {} THEN ss[Min(I)].id ELSE RootOf(ss, I),
   session |-> SessionOf(ss, I), count |-> Cardinality(I) % CountModulus,
   start |-> Min(Starts(ss, I)), end |-> Max(Ends(ss, I)), duration |-> DurationOf(ss, I),
   tokens |-> TokensOf(ss, I), cost |-> NoValue]
Aggregate(ss) == AggregateAt(ss, DOMAIN ss)

(* Mutant of Merge: the later of the two starts. *)
MergeTakesLaterStart(old, new) ==
  LET start == IF old.start > new.start THEN old.start ELSE new.start
      end == IF old.end > new.end THEN old.end ELSE new.end
  IN  [new EXCEPT !.session = IF @ = NoValue THEN old.session ELSE @,
                  !.count = (@ + old.count) % CountModulus,
                  !.start = start, !.end = end, !.duration = end - start,
                  !.tokens = AddTokens(old.tokens, @),
                  !.cost = old.cost]

(* The merge of a batch's row into the stored one.  The root span id and  *)
(* the status are the batch's, whatever was stored.                       *)
Merge(old, new) ==
  LET start == IF old.start < new.start /\ old.start # 0 THEN old.start ELSE new.start
      end == IF old.end > new.end THEN old.end ELSE new.end
      keepName == old.root # NoValue /\ new.root = NoValue
  IN  [new EXCEPT !.rootName = IF keepName THEN old.rootName ELSE @,
                  !.session = IF @ = NoValue THEN old.session ELSE @,
                  !.count = (@ + old.count) % CountModulus,
                  !.start = start,
                  !.end = end,
                  !.duration = end - start,
                  !.tokens = AddTokens(old.tokens, @),
                  !.cost = old.cost]
=============================================================================
