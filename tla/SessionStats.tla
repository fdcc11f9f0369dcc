---------------------------- MODULE SessionStats ----------------------------
(***************************************************************************)
(* What the session page computes from the spans of a session:             *)
(* computeAgentStats with its insights, and computeSessionContextSpans.    *)
(*                                                                         *)
(* A span is [id, trace, parent, status, start, tool, invoke, tokens]; its *)
(* tool is NoValue unless it is a tool call, invoke says whether its name  *)
(* contains ".invoke".  A rate or an average is a pair <<sum, number>>.    *)
(***************************************************************************)
EXTENDS Queries

CONSTANT MaxWalk  (* how far a parent chain is followed: 500 *)

Rate(n, of) == IF of = 0 THEN <<0, 1>> ELSE <<n, of>>

-----------------------------------------------------------------------------
(* The tool calls by their start; calls of one start may come in any order. *)
ToolSpans(ss) ==
  {[k \in DOMAIN o |-> ss[o[k]]] :
     o \in Orders({i \in DOMAIN ss : ss[i].tool # NoValue},
                  LAMBDA i, j : ss[i].start < ss[j].start)}
CallsOf(calls, tool) == Picked(calls, {i \in DOMAIN calls : calls[i].tool = tool})
Successes(calls) == Cardinality({i \in DOMAIN calls : calls[i].status = OK})

(* Mutant of RetryStep: errors add up until a success, whatever is between. *)
RetryStepUnbroken(acc, sp) ==
  CASE sp.status = ERROR -> [acc EXCEPT !.errors = @ + 1]
    [] sp.status = OK -> [errors |-> 0, retries |-> acc.retries + acc.errors]
    [] OTHER -> acc

(* Retries are errors in a row that a success ends. *)
RetryStep(acc, sp) ==
  CASE sp.status = ERROR -> [acc EXCEPT !.errors = @ + 1]
    [] sp.status = OK /\ acc.errors > 0 -> [errors |-> 0, retries |-> acc.retries + acc.errors]
    [] OTHER -> [acc EXCEPT !.errors = 0]
Retries(calls) == FoldLeft(RetryStep, [errors |-> 0, retries |-> 0], calls).retries

(* The longest run of each tool: a run is entered when it ends. *)
EndRun(acc) ==
  [acc EXCEPT !.longest = [t \in DOMAIN @ \cup {acc.tool} |->
     IF t = acc.tool /\ (t \notin DOMAIN @ \/ acc.run > @[t]) THEN acc.run ELSE @[t]]]
LoopStep(acc, sp) ==
  IF sp.tool = acc.tool THEN [acc EXCEPT !.run = @ + 1]
                        ELSE [EndRun(acc) EXCEPT !.tool = sp.tool, !.run = 1]
MaxLoops(calls) ==
  IF calls = << >> THEN << >>
  ELSE EndRun(FoldLeft(LoopStep, [tool |-> calls[1].tool, run |-> 1, longest |-> << >>],
                       Tail(calls))).longest

(* What is told of a session, whose traces have these statuses.  The mean  *)
(* of the retries is over the tools that had any.                          *)
AgentStats(statuses, ss, calls) ==
  LET tools == {calls[i].tool : i \in DOMAIN calls}
      loops == MaxLoops(calls)
      retried == {t \in tools : Retries(CallsOf(calls, t)) > 0}
  IN  [traceSuccess |-> Rate(Cardinality({i \in DOMAIN statuses : statuses[i] = OK}), Len(statuses)),
       spanPerTrace |-> Rate(Len(ss), Len(statuses)),
       total |-> Len(calls), successful |-> Successes(calls),
       toolSuccess |-> Rate(Successes(calls), Len(calls)),
       retries |-> Rate(Total(tools, LAMBDA t : Retries(CallsOf(calls, t))),
                        Cardinality(retried)),
       loopDepth |-> Rate(Total(DOMAIN loops, LAMBDA t : loops[t]), Cardinality(DOMAIN loops)),
       maxLoop |-> IF loops = << >> THEN 0 ELSE Max({loops[t] : t \in tools}),
       usage |-> [t \in tools |->
                    [calls |-> Len(CallsOf(calls, t)),
                     success |-> Rate(Successes(CallsOf(calls, t)), Len(CallsOf(calls, t))),
                     retries |-> Retries(CallsOf(calls, t)), maxLoop |-> loops[t]]]]

(* At most four pieces of advice, tools by the number of their calls. *)
Below(rate, n, of) == rate[1] * of < n * rate[2]
Deep(stats, t) == stats.usage[t].maxLoop >= 3
Poor(stats, t) == Below(stats.usage[t].success, 8, 10) /\ stats.usage[t].calls >= 3
Say(what, names) == [i \in DOMAIN names |-> <<what, names[i]>>]
Advice(stats, names) ==
  Say("loop", Picked(names, {i \in DOMAIN names : Deep(stats, names[i])}))
  \o Say("unreliable", Picked(names, {i \in DOMAIN names : Poor(stats, names[i])}))
  \o (IF Below(stats.traceSuccess, 7, 10) /\ stats.traceSuccess[1] > 0
      THEN <<<<"traces", NoValue>>>> ELSE << >>)
  \o (IF stats.retries[1] > stats.retries[2] THEN <<<<"retries", NoValue>>>> ELSE << >>)
Insights(stats) ==
  {SubSeq(Advice(stats, names), 1, Least(4, Len(Advice(stats, names)))) :
     names \in Orders(DOMAIN stats.usage,
                      LAMBDA t, u : stats.usage[t].calls > stats.usage[u].calls)}

-----------------------------------------------------------------------------
(* The context of the main agent.  Spans are found by their id alone, the  *)
(* last of an id; Nil stands for no span.                                  *)
NoSpan == [id |-> NoValue, invoke |-> FALSE]
ById(ss, id) ==
  LET I == {i \in DOMAIN ss : ss[i].id = id}
  IN  IF I = {} THEN NoSpan ELSE ss[Max(I)]

(* Mutant of OwnerInvoke: the invoke span farthest up the chain. *)
OwnerInvokeFarthest(ss, sp) ==
  LET at[n \in Nat] ==
        IF n = 0 THEN sp
        ELSE IF at[n - 1].id = NoValue \/ at[n - 1].parent = NoValue THEN NoSpan
        ELSE ById(ss, at[n - 1].parent)
      I == {n \in 0 .. MaxWalk - 1 : at[n].invoke}
  IN  IF I = {} THEN NoSpan ELSE at[Max(I)]

(* The nearest span up the parent chain, itself included, that invokes an *)
(* agent.                                                                 *)
OwnerInvoke(ss, sp) ==
  LET at[n \in Nat] ==
        IF n = 0 THEN sp
        ELSE IF at[n - 1].id = NoValue \/ at[n - 1].parent = NoValue THEN NoSpan
        ELSE ById(ss, at[n - 1].parent)
      I == {n \in 0 .. MaxWalk - 1 : at[n].invoke}
  IN  IF I = {} THEN NoSpan ELSE at[Min(I)]

ContextSpans(rootByTrace, ss) ==
  {i \in DOMAIN ss :
     /\ Given(ss[i].tokens)
     /\ ss[i].trace \in DOMAIN rootByTrace
     /\ OwnerInvoke(ss, ss[i]) # NoSpan
     /\ OwnerInvoke(ss, ss[i]).id = rootByTrace[ss[i].trace]}
ContextOrders(rootByTrace, ss) ==
  Orders(ContextSpans(rootByTrace, ss), LAMBDA i, j : ss[i].start < ss[j].start)
=============================================================================
