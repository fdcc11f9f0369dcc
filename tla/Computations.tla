---------------------------- MODULE Computations ----------------------------
(***************************************************************************)
(* The computations over what was received: the row of a trace over its    *)
(* spans, the statistics of a session over its tool calls, its context     *)
(* over a tree of spans, the tokens and the price over attributes, the     *)
(* severity over log records.  A behaviour extends the input of one of     *)
(* them item by item; what is computed is compared with its definition     *)
(* over the whole input.                                                   *)
(***************************************************************************)
EXTENDS SessionStats, Translation

CONSTANTS
  Inputs,     (* per computation and position, what an item may be         *)
  Label,     (* a severity, and a session id                              *)
  Pricings

VARIABLES kind, input

AllOf(p) == IF p \in DOMAIN Inputs THEN UNION {Inputs[p][n] : n \in DOMAIN Inputs[p]} ELSE {}

(* Every span but a root has some parent, which may not be there; the ids *)
(* of a tree are its positions.  It is no deeper than chains are followed. *)
ASSUME RowsAssumption == \A sp \in AllOf("row") : IsSpan(sp) /\ sp.start # 0
ASSUME CallsAssumption ==
  /\ OK # ERROR
  /\ \A sp \in AllOf("calls") : sp.tool # NoValue /\ sp.start \in Nat
ASSUME TreesAssumption ==
  /\ MaxWalk \in Nat
  /\ "tree" \in DOMAIN Inputs =>
       \A n \in DOMAIN Inputs["tree"] : \A sp \in Inputs["tree"][n] :
         /\ n \in 1 .. MaxWalk /\ sp.id = n /\ sp.trace = 1
         /\ sp.invoke \in BOOLEAN /\ sp.start \in Nat

(* The labels of severities are in upper case, that of none is its own. *)
ASSUME LabelsAssumption ==
  /\ Label \notin {0, NoValue} /\ Unspecified \in DOMAIN NumberLabel
  /\ \A l \in {Label} \cup Range(NumberLabel) \cup Range(TextLabel) : Upper[l] = l
  /\ NumberLabel[Unspecified] # Label
  /\ \A lr \in AllOf("log") : lr.number \in DOMAIN NumberLabel
                           /\ lr.text \in DOMAIN TextLabel \cup {Nothing}

InputInit == kind \in DOMAIN Inputs /\ input = << >>
Extend ==
  /\ Len(input) + 1 \in DOMAIN Inputs[kind]
  /\ \E item \in Inputs[kind][Len(input) + 1] : input' = Append(input, item)
  /\ UNCHANGED kind
InputSpec == InputInit /\ [][Extend]_<<kind, input>>

-----------------------------------------------------------------------------
(* The row of a trace is what can be read off its spans as a whole: the    *)
(* last root wins, the range covers every span, the tokens are the sum.    *)
(* However they are cut into two batches, the merge of the two rows has    *)
(* the count, the range, the tokens and the session of the whole.          *)
(* (aggregateTraces, and the merge in sqliteStore.InsertSpans)             *)
RowOfBatch ==
  kind = "row" /\ input # << >> =>
    /\ FoldSpans(input) = Aggregate(input)
    /\ \A k \in 1 .. Len(input) - 1 :
         LET merged == Merge(Aggregate(SubSeq(input, 1, k)),
                             Aggregate(SubSeq(input, k + 1, Len(input))))
         IN  \A f \in {"count", "start", "end", "tokens", "session"} :
               merged[f] = Aggregate(input)[f]

(* The errors of a tool that count as retries are those that only errors   *)
(* separate from a success of the same tool; its loop is its longest run   *)
(* among all calls.  The tools add up to the session, and no advice is     *)
(* given on a session without errors and without a run of three.           *)
(* (computeAgentStats, generateInsights)                                   *)
Retried(own) ==
  {i \in DOMAIN own : \E j \in i + 1 .. Len(own) :
     own[j].status = OK /\ \A k \in i .. j - 1 : own[k].status = ERROR}
Runs(calls, tool) ==
  {n \in 0 .. Len(calls) : \E i \in 0 .. Len(calls) - n :
     \A k \in i + 1 .. i + n : calls[k].tool = tool}
ToolsAreExact(calls, usage) ==
  \A t \in DOMAIN usage :
    /\ usage[t].retries = Cardinality(Retried(CallsOf(calls, t)))
    /\ usage[t].maxLoop = Max(Runs(calls, t))
ToolsAddUp(calls, stats) ==
  LET usage == stats.usage
  IN  /\ stats.total = Len(calls)
      /\ stats.total = Total(DOMAIN usage, LAMBDA t : usage[t].calls)
      /\ stats.successful = Total(DOMAIN usage, LAMBDA t : usage[t].success[1])
      /\ stats.retries[1] = Total(DOMAIN usage, LAMBDA t : usage[t].retries)
      /\ stats.retries[1] + stats.successful <= stats.total
      /\ stats.maxLoop = Max({usage[t].maxLoop : t \in DOMAIN usage})
NothingToAdvise(stats) ==
  (\A i \in DOMAIN input : input[i].status = OK) /\ stats.maxLoop < 3
    => Insights(stats) = {<< >>}
StatsAreExact ==
  kind = "calls" /\ input # << >> => \A calls \in ToolSpans(input) :
    LET stats == AgentStats(<<input[1].status>>, input, calls)
    IN  /\ Len(calls) = Len(input)
        /\ ToolsAreExact(calls, stats.usage)
        /\ ToolsAddUp(calls, stats)
        /\ NothingToAdvise(stats)

(* A span counts for the context of the main agent exactly if it lies      *)
(* under the root of the trace, which invokes an agent, and under no other *)
(* span that does: the spans of a subagent never count.                    *)
(* (computeSessionContextSpans)                                            *)
Parents(i) == {input[i].parent} \cap DOMAIN input
Above(i) ==
  {j \in DOMAIN input : \A S \in SUBSET DOMAIN input :
     i \in S /\ (\A k \in S : Parents(k) \subseteq S) => j \in S}
MainAgent(root) ==
  {i \in DOMAIN input : /\ Given(input[i].tokens)
                        /\ {j \in Above(i) : input[j].invoke} = {root}}
ContextIsMainAgent ==
  kind = "tree" => \A root \in {i \in DOMAIN input : input[i].parent = NoValue} :
    LET tt == [t \in {1} |-> [session |-> Label, root |-> root]]
    IN  \A o \in ContextOrders(RootByTrace(tt, Label), SpansIn(tt, input, Label)) :
          {o[k] : k \in DOMAIN o} = MainAgent(root) /\ Len(o) = Cardinality(MainAgent(root))

(* Whatever an agent calls its attributes, the tokens, the model and the   *)
(* price are the same, and the tokens derived from the attributes that are *)
(* stored are those of the attributes that came.  A log is found by its    *)
(* level in both stores, be the level given as a number or as a text.      *)
(* (normalizeAttributes, DeriveTokenBuckets, translateLogRecord)           *)
Attrs == [k \in {input[i].key : i \in DOMAIN input} |->
            input[Min({i \in DOMAIN input : input[i].key = k})].value]
Meaning(attrs) ==
  LET ps == [trace |-> 1, id |-> 1, parent |-> NoValue, start |-> 2, end |-> 1,
             status |-> OK, attrs |-> attrs]
      sp == TranslateSpans(<<NilSpan, ps>>)[1]
  IN  <<sp.tokens, sp.model, CalculateTraceCost(<<sp>>, Pricings)>>
Renamed(attrs, k, f) ==
  [x \in (DOMAIN attrs \ {k}) \cup {f} |-> IF x = f THEN attrs[k] ELSE attrs[x]]
Found(severity) ==
  LET l == [severity |-> severity]
      query == [severity |-> Label, event |-> NoValue, body |-> NoValue, trace |-> NoValue,
                span |-> NoValue, from |-> 0, to |-> 0]
  IN  MemLogSelects(l, query) /\ SqlLogSelects(l, query)
Level(lr) ==
  CASE lr.number # Unspecified -> NumberLabel[lr.number]
    [] lr.number = Unspecified /\ lr.text # Nothing -> TextLabel[lr.text]
    [] OTHER -> NoValue
Stored(lr) ==
  TranslateLogs(<<[attrs |-> << >>, scopes |-> <<[attrs |-> << >>, records |-> <<lr>>]>>]>>)[1]
SpellingDoesNotMatter ==
  /\ kind = "attributes" =>
       /\ DeriveTokenBuckets(NormalizeAttributes(Attrs)) = DeriveTokenBuckets(Attrs)
       /\ \A k \in DOMAIN AttrAliases \cap DOMAIN Attrs : \A f \in Range(AttrAliases[k]) :
            Range(AttrAliases[k]) \cap DOMAIN Attrs = {}
              => Meaning(Renamed(Attrs, k, f)) = Meaning(Attrs)
  /\ kind = "log" => \A i \in DOMAIN input :
       Level(input[i]) = Label <=> Found(Stored(input[i]).severity)
=============================================================================
