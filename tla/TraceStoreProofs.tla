-------------------------- MODULE TraceStoreProofs --------------------------
(***************************************************************************)
(* Proofs about TraceStore, for any traces, batches, models and prices.    *)
(***************************************************************************)
EXTENDS TraceStore, FoldLemmas, TLAPS

-----------------------------------------------------------------------------
SpanRows ==
  [root : BOOLEAN, start : Nat, end : Nat, tokens : Maybe(Nat),
   model : Maybe(Models), cost : Maybe(Nat)]

(* What the steps below need of the types. *)
TypeInv ==
  /\ \A k \in DOMAIN spans : k[1] \in Traces /\ spans[k] \in SpanRows
  /\ pricing \in [Models -> Maybe(Nat)]
  /\ jobs \in [Traces -> Nat]
  /\ busy.op = "cost" => /\ {"op", "caller", "todo"} \subseteq DOMAIN busy
                         /\ \A c \in busy.todo : c.cost \in Nat

Inv == TypeInv /\ CostIsOwed /\ SpansHaveTraces

(* The row a batch leaves for one of its spans: known trace, no cost. *)
LEMMA RowOfBatch ==
  ASSUME NEW b \in Batches, NEW k \in KeysOf(b)
  PROVE  k[1] \in Traces /\ SpanRow(b, k) \in SpanRows
<1> DEFINE ss == Content[b]
           At == {i \in DOMAIN ss : <<ss[i].trace, ss[i].id>> = k}
<1>1. PICK j \in DOMAIN ss : k = <<ss[j].trace, ss[j].id>>
  BY DEF KeysOf
<1>2. At \subseteq Nat /\ At # {} /\ Len(ss) \in Nat /\ \A i \in At : i <= Len(ss)
  BY <1>1, SequenceAssumption
<1>3. Max(At) \in At
  <2> HIDE DEF At
  <2> QED BY <1>2, MaxInSet
<1>4. Max(At) \in DOMAIN ss
  BY <1>3
<1>5. LET sp == ss[Max(At)]
      IN  /\ sp.trace \in Traces /\ sp.root \in BOOLEAN
          /\ sp.start \in Nat /\ sp.end \in Nat
          /\ sp.tokens \in Maybe(Nat) /\ sp.model \in Maybe(Models)
  BY <1>4, ContentAssumption
<1>6. k[1] \in Traces
  BY <1>1, ContentAssumption
<1>7. NoValue \in Maybe(Nat)
  BY DEF Maybe
<1> QED
  BY <1>5, <1>6, <1>7 DEF SpanRow, SpanRows

(* What is rounded is a natural number, and nothing stays nothing. *)
LEMMA RoundedNat ==
  ASSUME NEW n \in Nat
  PROVE  Rounded(n) \in Nat /\ (n = 0 => Rounded(n) = 0)
<1>1. Unit \in Nat \ {0}
  BY PriceAssumption
<1> DEFINE h == Unit \div 2
<1>2. h \in Nat /\ h < Unit
  BY <1>1
<1> HIDE DEF h
<1>3. (n + h) \div Unit \in Nat
  BY <1>1, <1>2
<1>4. n = 0 => (n + h) \div Unit = 0
  BY <1>1, <1>2
<1> QED BY <1>3, <1>4 DEF Rounded, h

(* What UpdateTraceCost computes for a span is a cost, never NULL. *)
LEMMA CostOfSpan ==
  ASSUME TypeInv, NEW k \in DOMAIN spans, spans[k].tokens # NoValue
  PROVE  SpanCost(spans[k]) \in Nat
<1>1. spans[k].tokens \in Nat
  BY DEF TypeInv, SpanRows, Maybe
<1>2. PriceOf(spans[k].model) \in Maybe(Nat)
  BY DEF TypeInv, PriceOf, Priced, Maybe
<1> DEFINE n == spans[k].tokens
           p == PriceOf(spans[k].model)
<1>3. p # NoValue => p \in Nat
  BY <1>2 DEF Maybe
<1> HIDE DEF n, p
<1>4. p # NoValue => Rounded(n * p) \in Nat
  <2>1. \A x, y \in Nat : x * y \in Nat
    OBVIOUS
  <2> QED BY <1>1, <1>3, <2>1, RoundedNat DEF n
<1> QED
  BY <1>4 DEF SpanCost, n, p

(* A plan covers every uncosted span of its trace. *)
LEMMA PlanOfTrace ==
  ASSUME TypeInv, NEW t \in Traces, NEW caller
  PROVE  LET plan == CostPlan(t, caller)
         IN  /\ {"op", "caller", "todo"} \subseteq DOMAIN plan
             /\ plan.op = "cost" /\ plan.caller = caller
             /\ \A c \in plan.todo : c.cost \in Nat
             /\ \A k \in Uncosted : k[1] = t => \E c \in plan.todo : c.key = k
<1> DEFINE todo == {[key |-> k, cost |-> SpanCost(spans[k])] : k \in LLMSpans(t)}
<1>1. /\ {"op", "caller", "todo"} \subseteq DOMAIN CostPlan(t, caller)
      /\ CostPlan(t, caller).op = "cost" /\ CostPlan(t, caller).caller = caller
      /\ CostPlan(t, caller).todo = todo
  BY DEF CostPlan
<1>2. \A c \in todo : c.cost \in Nat
  <2>1. \A k \in LLMSpans(t) : SpanCost(spans[k]) \in Nat
    BY CostOfSpan DEF SpansOf, LLMSpans
  <2> QED BY <2>1
<1>3. ASSUME NEW k \in Uncosted, k[1] = t PROVE \E c \in todo : c.key = k
  <2>1. k \in LLMSpans(t)
    BY <1>3 DEF Uncosted, SpansOf, LLMSpans
  <2>2. [key |-> k, cost |-> SpanCost(spans[k])] \in todo
    BY <2>1
  <2> QED BY <2>2
<1> HIDE DEF todo
<1> QED
  BY <1>1, <1>2, <1>3

-----------------------------------------------------------------------------
(* The store starts empty. *)
LEMMA InitInv == Init => Inv
BY PriceAssumption DEF Init, Inv, TypeInv, CostIsOwed, Uncosted, SpansHaveTraces, Idle, Maybe

(* A batch that is written: every span it brings has a goroutine to come. *)
LEMMA InsertPreserves ==
  ASSUME Inv, NEW b \in Batches, InsertSpans(b)
  PROVE  Inv'
<1>1. /\ spans' = SpansWith(b) /\ traces' = TracesWith(b) /\ busy = Idle /\ busy' = busy
      /\ torn' = torn /\ lost' = lost
      /\ pricing' = pricing /\ backlog' = backlog /\ phase' = phase
  BY DEF InsertSpans, process
<1>2. DOMAIN spans' = DOMAIN spans \cup KeysOf(b)
  BY <1>1 DEF SpansWith
<1>3. \A k \in KeysOf(b) : spans'[k] = SpanRow(b, k)
  BY <1>1, <1>2 DEF SpansWith
<1>4. \A k \in DOMAIN spans \ KeysOf(b) : spans'[k] = spans[k]
  BY <1>1, <1>2 DEF SpansWith
<1>5. /\ jobs' \in [Traces -> Nat]
      /\ \A t \in Traces : jobs'[t] >= jobs[t]
      /\ \A t \in Traces \cap TracesOf(b) : jobs'[t] > 0
  BY DEF InsertSpans, Inv, TypeInv
<1>6. \A k \in KeysOf(b) : k[1] \in TracesOf(b)
  BY DEF TracesOf
<1>7. TypeInv'
  <2>1. \A k \in DOMAIN spans' : k[1] \in Traces /\ spans'[k] \in SpanRows
    BY <1>2, <1>3, <1>4, RowOfBatch DEF Inv, TypeInv
  <2> QED
    BY <1>1, <1>5, <2>1 DEF Inv, TypeInv, Idle
<1>8. CostIsOwed'
  <2> SUFFICES ASSUME NEW k \in Uncosted', phase' # "down",
                      ~(jobs'[k[1]] > 0), k[1] \notin backlog', k \notin lost'
               PROVE  FALSE
    BY DEF CostIsOwed
  <2>1. k \in DOMAIN spans' /\ k[1] \in Traces
    BY <1>7 DEF Uncosted, TypeInv
  <2>2. k \notin KeysOf(b)
    BY <1>5, <1>6, <2>1
  <2>3. k \in Uncosted
    BY <1>2, <1>4, <2>1, <2>2 DEF Uncosted
  <2>4. ~(jobs[k[1]] > 0)
    BY <1>5, <2>1 DEF Inv, TypeInv
  <2> QED
    BY <1>1, <2>3, <2>4 DEF Inv, CostIsOwed, Idle
<1>9. SpansHaveTraces'
  <2>1. DOMAIN traces' = DOMAIN traces \cup TracesOf(b)
    BY <1>1 DEF TracesWith
  <2> QED
    BY <1>1, <1>2, <1>6, <2>1 DEF Inv, SpansHaveTraces, Idle
<1> QED
  BY <1>7, <1>8, <1>9 DEF Inv

(* UpdateTraceCost that begins: a goroutine's or the backfill's takes over *)
(* what it was counted for, a recalc's leaves it to them.                 *)
LEMMA BeginPreserves ==
  ASSUME Inv, NEW t \in Traces,
         JobBegin(t) \/ BackfillBegin(t) \/ RecalcBegin(t)
  PROVE  Inv'
<1>1. PICK caller \in {"job", "backfill", "recalc"} :
        /\ Begin(t, caller)
        /\ jobs' \in [Traces -> Nat]
        /\ \A u \in Traces \ {t} : jobs'[u] = jobs[u]
        /\ backlog \subseteq backlog' \cup {t}
        /\ caller = "recalc" => jobs' = jobs /\ backlog' = backlog
  <2>1. CASE JobBegin(t)
    BY <2>1 DEF JobBegin, JobDue, Inv, TypeInv, process
  <2>2. CASE BackfillBegin(t)
    BY <2>2 DEF BackfillBegin, BackfillDue, Inv, TypeInv
  <2>3. CASE RecalcBegin(t)
    BY <2>3 DEF RecalcBegin, Inv, TypeInv, process
  <2> QED
    BY <2>1, <2>2, <2>3
<1>2. spans' = spans /\ traces' = traces /\ pricing' = pricing /\ phase' = phase
      /\ busy = Idle
  BY DEF JobBegin, JobDue, BackfillBegin, BackfillDue, RecalcBegin, tables, process
<1>3. /\ {"op", "caller", "todo"} \subseteq DOMAIN busy'
      /\ busy'.op = "cost" /\ busy'.caller = caller
      /\ \A c \in busy'.todo : c.cost \in Nat
      /\ \A k \in Uncosted : k[1] = t => \E c \in busy'.todo : c.key = k
  BY <1>1, PlanOfTrace DEF Inv, Begin
<1>4. TypeInv'
  BY <1>1, <1>2, <1>3 DEF Inv, TypeInv
<1>5. CostIsOwed'
  <2> SUFFICES ASSUME NEW k \in Uncosted', phase' # "down"
               PROVE  \/ jobs'[k[1]] > 0
                      \/ k[1] \in backlog'
                      \/ /\ busy'.op = "cost" /\ busy'.caller # "recalc"
                         /\ \E c \in busy'.todo : c.key = k
                      \/ k \in lost'
    BY DEF CostIsOwed
  <2>1. k \in Uncosted /\ k[1] \in Traces
    BY <1>2 DEF Uncosted, Inv, TypeInv
  <2>2. jobs[k[1]] > 0 \/ k[1] \in backlog \/ k \in lost
    BY <1>2, <2>1 DEF Inv, CostIsOwed, Idle
  <2>3. k \in lost /\ (k[1] # t \/ caller = "recalc") => k \in lost'
    BY <1>1 DEF Begin, SpansOf
  <2> QED
    BY <1>1, <1>3, <2>1, <2>2, <2>3
<1>6. SpansHaveTraces'
  BY <1>1, <1>2, <1>3 DEF Inv, SpansHaveTraces, Idle, Begin
<1> QED
  BY <1>4, <1>5, <1>6 DEF Inv

(* One that cannot read gives up its spans, a recalc's nothing. *)
LEMMA BeginFailsPreserves ==
  ASSUME Inv, NEW t \in Traces,
         JobFails(t) \/ BackfillFails(t) \/ RecalcFails(t)
  PROVE  Inv'
<1>1. /\ jobs' \in [Traces -> Nat]
      /\ \A u \in Traces \ {t} : jobs'[u] = jobs[u]
      /\ backlog \subseteq backlog' \cup {t}
      /\ \/ lost' = lost /\ jobs' = jobs /\ backlog' = backlog
         \/ lost' = lost \cup (Uncosted \cap SpansOf(t))
  <2>1. CASE JobFails(t)
    BY <2>1 DEF JobFails, JobDue, BeginFails, Inv, TypeInv, process
  <2>2. CASE BackfillFails(t)
    BY <2>2 DEF BackfillFails, BackfillDue, BeginFails, Inv, TypeInv
  <2>3. CASE RecalcFails(t)
    BY <2>3 DEF RecalcFails, Inv, TypeInv, process
  <2> QED
    BY <2>1, <2>2, <2>3
<1>2. /\ spans' = spans /\ traces' = traces /\ pricing' = pricing /\ phase' = phase
      /\ busy = Idle /\ busy' = Idle /\ torn \subseteq torn'
  BY DEF JobFails, JobDue, BackfillFails, BackfillDue, RecalcFails, BeginFails, TornWith,
         tables, process
<1>3. TypeInv'
  BY <1>1, <1>2 DEF Inv, TypeInv, Idle
<1>4. CostIsOwed'
  <2> SUFFICES ASSUME NEW k \in Uncosted', phase' # "down"
               PROVE  jobs'[k[1]] > 0 \/ k[1] \in backlog' \/ k \in lost'
    BY DEF CostIsOwed
  <2>1. k \in Uncosted /\ k[1] \in Traces /\ (k[1] = t => k \in SpansOf(t))
    BY <1>2 DEF Uncosted, Inv, TypeInv, SpansOf
  <2>2. jobs[k[1]] > 0 \/ k[1] \in backlog \/ k \in lost
    BY <1>2, <2>1 DEF Inv, CostIsOwed, Idle
  <2> QED
    BY <1>1, <2>1, <2>2
<1>5. SpansHaveTraces'
  BY <1>2 DEF Inv, SpansHaveTraces, Idle
<1> QED
  BY <1>3, <1>4, <1>5 DEF Inv

(* One span is costed: it is owed nothing more, the others what they were. *)
LEMMA CostSpanPreserves ==
  ASSUME Inv, CostSpan
  PROVE  Inv'
<1>1. PICK c \in busy.todo :
        /\ spans' = [k \in DOMAIN spans |->
                       IF k = c.key THEN [spans[k] EXCEPT !.cost = c.cost] ELSE spans[k]]
        /\ busy' = [busy EXCEPT !.todo = @ \ {c}]
  BY DEF CostSpan
<1>2. /\ busy.op = "cost" /\ traces' = traces /\ pricing' = pricing /\ jobs' = jobs
      /\ phase' = phase /\ backlog' = backlog /\ torn' = torn /\ lost' = lost
  BY DEF CostSpan, process
<1>3. c.cost \in Nat
  BY <1>2 DEF Inv, TypeInv
<1>4. DOMAIN spans' = DOMAIN spans
  BY <1>1
<1>5. \A k \in DOMAIN spans : k # c.key => spans'[k] = spans[k]
  BY <1>1
<1>6. c.key \in DOMAIN spans => spans'[c.key] \in SpanRows /\ spans'[c.key].cost \in Nat
  <2> SUFFICES ASSUME c.key \in DOMAIN spans
               PROVE  spans'[c.key] \in SpanRows /\ spans'[c.key].cost \in Nat
    OBVIOUS
  <2>1. spans'[c.key] = [spans[c.key] EXCEPT !.cost = c.cost]
    BY <1>1
  <2>2. spans[c.key] \in SpanRows
    BY DEF Inv, TypeInv
  <2> QED
    BY <1>3, <2>1, <2>2 DEF SpanRows, Maybe
<1>7. /\ {"op", "caller", "todo"} \subseteq DOMAIN busy'
      /\ busy'.op = busy.op /\ busy'.caller = busy.caller /\ busy'.todo = busy.todo \ {c}
  <2>1. {"op", "caller", "todo"} \subseteq DOMAIN busy
    BY <1>2 DEF Inv, TypeInv
  <2> QED
    BY <1>1, <2>1
<1>8. TypeInv'
  <2>1. \A k \in DOMAIN spans' : k[1] \in Traces /\ spans'[k] \in SpanRows
    BY <1>4, <1>5, <1>6 DEF Inv, TypeInv
  <2>2. \A d \in busy'.todo : d.cost \in Nat
    BY <1>2, <1>7 DEF Inv, TypeInv
  <2> QED
    BY <1>2, <1>7, <2>1, <2>2 DEF Inv, TypeInv
<1>9. CostIsOwed'
  <2> SUFFICES ASSUME NEW k \in Uncosted', phase' # "down"
               PROVE  \/ jobs'[k[1]] > 0
                      \/ k[1] \in backlog'
                      \/ /\ busy'.op = "cost" /\ busy'.caller # "recalc"
                         /\ \E d \in busy'.todo : d.key = k
                      \/ k \in lost'
    BY DEF CostIsOwed
  <2>0. \A n \in Nat : n # NoValue
    BY NoValueAssumption
  <2>1. k \in DOMAIN spans /\ k # c.key
    BY <1>4, <1>6, <2>0 DEF Uncosted
  <2>2. k \in Uncosted
    BY <1>5, <2>1 DEF Uncosted
  <2>3. CASE \E d \in busy.todo : d.key = k /\ busy.caller # "recalc"
    BY <1>2, <1>7, <2>1, <2>3
  <2>4. CASE jobs[k[1]] > 0 \/ k[1] \in backlog \/ k \in lost
    BY <1>2, <2>4
  <2> QED
    BY <1>2, <2>2, <2>3, <2>4 DEF Inv, CostIsOwed
<1>10. SpansHaveTraces'
  BY <1>2, <1>4, <1>7 DEF Inv, SpansHaveTraces
<1> QED
  BY <1>8, <1>9, <1>10 DEF Inv

(* One whose UPDATE fails is lost until its trace is updated again. *)
LEMMA CostSpanFailsPreserves ==
  ASSUME Inv, CostSpanFails
  PROVE  Inv'
<1>1. PICK c \in busy.todo :
        /\ busy' = [busy EXCEPT !.todo = @ \ {c}]
        /\ lost' = IF busy.caller = "recalc" THEN lost ELSE lost \cup {c.key}
  BY DEF CostSpanFails
<1>2. /\ busy.op = "cost" /\ spans' = spans /\ traces' = traces /\ pricing' = pricing
      /\ jobs' = jobs /\ phase' = phase /\ backlog' = backlog /\ torn \subseteq torn'
  BY DEF CostSpanFails, TornWith, tables, process
<1>3. /\ {"op", "caller", "todo"} \subseteq DOMAIN busy'
      /\ busy'.op = busy.op /\ busy'.caller = busy.caller /\ busy'.todo = busy.todo \ {c}
  <2>1. {"op", "caller", "todo"} \subseteq DOMAIN busy
    BY <1>2 DEF Inv, TypeInv
  <2> QED
    BY <1>1, <2>1
<1>4. TypeInv'
  <2>1. \A d \in busy'.todo : d.cost \in Nat
    BY <1>2, <1>3 DEF Inv, TypeInv
  <2> QED
    BY <1>2, <1>3, <2>1 DEF Inv, TypeInv
<1>5. CostIsOwed'
  <2> SUFFICES ASSUME NEW k \in Uncosted', phase' # "down"
               PROVE  \/ jobs'[k[1]] > 0
                      \/ k[1] \in backlog'
                      \/ /\ busy'.op = "cost" /\ busy'.caller # "recalc"
                         /\ \E d \in busy'.todo : d.key = k
                      \/ k \in lost'
    BY DEF CostIsOwed
  <2>1. k \in Uncosted
    BY <1>2 DEF Uncosted
  <2>2. CASE busy.caller # "recalc" /\ \E d \in busy.todo : d.key = k
    BY <1>1, <1>2, <1>3, <2>2
  <2>3. CASE jobs[k[1]] > 0 \/ k[1] \in backlog \/ k \in lost
    BY <1>1, <1>2, <2>3
  <2> QED
    BY <1>2, <2>1, <2>2, <2>3 DEF Inv, CostIsOwed
<1>6. SpansHaveTraces'
  BY <1>2, <1>3 DEF Inv, SpansHaveTraces
<1> QED
  BY <1>4, <1>5, <1>6 DEF Inv

(* The other steps leave the cost of every span as it is, and none of them *)
(* gives up a cost that is owed without ending the process.               *)
LEMMA CostTracePreserves ==
  ASSUME Inv, CostTrace \/ CostTraceFails
  PROVE  Inv'
<1>1. /\ spans' = spans /\ pricing' = pricing /\ jobs' = jobs /\ phase' = phase
      /\ backlog' = backlog /\ busy' = Idle /\ busy.todo = {} /\ busy.op = "cost"
      /\ torn \subseteq torn' /\ lost' = lost
  BY DEF CostTrace, CostTraceFails, TornWith, tables, process
<1>2. DOMAIN traces' = DOMAIN traces
  BY DEF CostTrace, CostTraceFails, tables
<1>3. TypeInv'
  BY <1>1 DEF Inv, TypeInv, Idle
<1>4. CostIsOwed'
  BY <1>1 DEF Inv, CostIsOwed, Uncosted
<1>5. SpansHaveTraces'
  BY <1>1, <1>2 DEF Inv, SpansHaveTraces
<1> QED
  BY <1>3, <1>4, <1>5 DEF Inv

(* Purge and DeleteTraces only take spans away, together with their trace. *)
LEMMA DeletePreserves ==
  ASSUME Inv,
         \/ \E cutoff \in Cutoffs : PurgeByAge(cutoff)
         \/ PurgeByCount
         \/ PurgeOrphans
         \/ PurgeFails
         \/ \E ids \in SUBSET Traces : DeleteTraces(ids)
  PROVE  Inv'
<1>1. /\ pricing' = pricing /\ jobs' = jobs /\ phase' = phase /\ backlog' = backlog
      /\ lost' = lost /\ busy.op # "cost" /\ busy'.op # "cost"
  <2>1. CASE \E cutoff \in Cutoffs : PurgeByAge(cutoff)
    BY <2>1 DEF PurgeByAge, process, Idle
  <2>2. CASE PurgeByCount
    BY <2>2 DEF PurgeByCount, process
  <2>3. CASE PurgeOrphans
    BY <2>3 DEF PurgeOrphans, process, Idle
  <2>4. CASE \E ids \in SUBSET Traces : DeleteTraces(ids)
    BY <2>4 DEF DeleteTraces, process, Idle
  <2>5. CASE PurgeFails
    BY <2>5 DEF PurgeFails, tables, process, Idle
  <2> QED
    BY <2>1, <2>2, <2>3, <2>4, <2>5
<1>2. DOMAIN spans' \subseteq DOMAIN spans /\ \A k \in DOMAIN spans' : spans'[k] = spans[k]
  BY DEF PurgeByAge, PurgeByCount, PurgeOrphans, PurgeFails, DeleteTraces, tables
<1>3. TypeInv'
  BY <1>1, <1>2 DEF Inv, TypeInv
<1>4. CostIsOwed'
  BY <1>1, <1>2 DEF Inv, CostIsOwed, Uncosted
<1>5. SpansHaveTraces'
  <2>1. CASE \E cutoff \in Cutoffs : PurgeByAge(cutoff)
    BY <2>1 DEF PurgeByAge, SpansHaveTraces
  <2>2. CASE PurgeByCount
    BY <2>2 DEF PurgeByCount, SpansHaveTraces
  <2>3. CASE PurgeOrphans
    BY <2>3 DEF PurgeOrphans, SpansHaveTraces
  <2>4. CASE \E ids \in SUBSET Traces : DeleteTraces(ids)
    BY <2>4 DEF DeleteTraces, DeleteTraceRows, Inv, SpansHaveTraces, Idle
  <2>5. CASE PurgeFails
    BY <2>5 DEF PurgeFails, Orphaned, tables, SpansHaveTraces
  <2> QED
    BY <2>1, <2>2, <2>3, <2>4, <2>5
<1> QED
  BY <1>3, <1>4, <1>5 DEF Inv

(* Prices change, by the API, by the seeds or when the store is opened. *)
LEMMA PricingPreserves ==
  ASSUME Inv,
         \/ \E m \in Models, p \in Prices : UpsertModelPricing(m, p)
         \/ \E m \in Models : DeleteModelPricing(m) \/ SeedModel(m)
  PROVE  Inv'
<1>1. /\ spans' = spans /\ traces' = traces /\ jobs' = jobs /\ phase' = phase
      /\ backlog' = backlog /\ torn' = torn /\ lost' = lost /\ busy' = busy
  BY DEF UpsertModelPricing, DeleteModelPricing, SeedModel, process
<1>2. pricing' \in [Models -> Maybe(Nat)]
  BY PriceAssumption
     DEF UpsertModelPricing, DeleteModelPricing, SeedModel, Inv, TypeInv, Maybe
<1> QED
  BY <1>1, <1>2 DEF Inv, TypeInv, CostIsOwed, Uncosted, SpansHaveTraces

(* The store is opened: the backlog is the traces of the uncosted spans,   *)
(* unless they cannot be read.                                            *)
LEMMA OpenPreserves ==
  ASSUME Inv, Open \/ OpenFails
  PROVE  Inv'
<1>1. /\ spans' = spans /\ traces' = traces /\ jobs' = jobs /\ busy' = busy
      /\ torn \subseteq torn'
      /\ \/ backlog' = {k[1] : k \in Uncosted}
         \/ lost' = Uncosted
  BY DEF Open, OpenFails, Opened, TornWith
<1>2. pricing' \in [Models -> Maybe(Nat)]
  BY PriceAssumption DEF Open, OpenFails, Opened, Inv, TypeInv
<1>3. Uncosted' = Uncosted
  BY <1>1 DEF Uncosted
<1>4. TypeInv' /\ SpansHaveTraces'
  BY <1>1, <1>2 DEF Inv, TypeInv, SpansHaveTraces
<1> QED
  BY <1>1, <1>3, <1>4 DEF Inv, CostIsOwed

(* Recalc lists its traces or is cut off; the store begins to serve; the  *)
(* process ends.                                                          *)
LEMMA ProcessPreserves ==
  ASSUME Inv, RecalcList \/ RecalcCancelled \/ Serve \/ Stop
  PROVE  Inv'
<1>1. spans' = spans /\ traces' = traces /\ pricing' = pricing
  BY DEF RecalcList, RecalcCancelled, Serve, Stop, tables
<1>2. CASE RecalcList
  BY <1>1, <1>2 DEF RecalcList, process, Inv, TypeInv, CostIsOwed, Uncosted, SpansHaveTraces
<1>3. CASE RecalcCancelled
  <2>1. /\ jobs' = jobs /\ phase' = phase /\ backlog' = backlog /\ torn \subseteq torn'
        /\ lost' = lost
        /\ \/ busy' = busy
           \/ busy' = Idle /\ busy.op = "cost" /\ busy.caller = "recalc"
    BY <1>3 DEF RecalcCancelled, process, CutOff, TornWith
  <2> QED
    BY <1>1, <2>1 DEF Inv, TypeInv, CostIsOwed, Uncosted, SpansHaveTraces, Idle
<1>4. CASE Serve
  BY <1>1, <1>4 DEF Serve, Inv, TypeInv, CostIsOwed, Uncosted, SpansHaveTraces, Idle
<1>5. CASE Stop
  <2>1. jobs' \in [Traces -> Nat] /\ phase' = "down" /\ busy' = Idle /\ Orphaned \subseteq torn'
    BY <1>5 DEF Stop
  <2> QED
    BY <1>1, <2>1
       DEF Inv, TypeInv, CostIsOwed, Uncosted, SpansHaveTraces, Orphaned, Idle
<1> QED
  BY <1>2, <1>3, <1>4, <1>5

(* A step that changes nothing keeps the invariant. *)
LEMMA StutterPreserves == Inv /\ UNCHANGED vars => Inv'
BY DEF Inv, TypeInv, CostIsOwed, Uncosted, SpansHaveTraces, vars

(* Every step of the store keeps the invariant. *)
LEMMA StepInv == Inv /\ [Next]_vars => Inv'
<1> SUFFICES ASSUME Inv, [Next]_vars PROVE Inv'
  OBVIOUS
<1>1. CASE UNCHANGED vars
  BY <1>1, StutterPreserves
<1>2. ASSUME NEW b \in Batches, InsertSpans(b) PROVE Inv'
  BY <1>2, InsertPreserves
<1>3. CASE JobStep \/ BootStep
  BY <1>3, BeginPreserves, ProcessPreserves DEF JobStep, BootStep
<1>4. CASE CostStep
  BY <1>4, CostSpanPreserves, CostTracePreserves DEF CostStep
<1>5. CASE PurgeStep \/ \E cutoff \in Cutoffs : PurgeByAge(cutoff)
  BY <1>5, DeletePreserves DEF PurgeStep
<1>6. CASE RecalcStep
  BY <1>6, BeginPreserves, ProcessPreserves DEF RecalcStep
<1>7. CASE ApiStep
  BY <1>7, DeletePreserves, PricingPreserves DEF ApiStep
<1>8. CASE SeedStep
  BY <1>8, PricingPreserves DEF SeedStep
<1>9. CASE Open \/ Stop
  BY <1>9, OpenPreserves, ProcessPreserves
<1>10. CASE ErrorStep
  BY <1>10, BeginFailsPreserves, CostSpanFailsPreserves, CostTracePreserves, DeletePreserves,
     OpenPreserves DEF ErrorStep
<1> QED
  BY <1>1, <1>2, <1>3, <1>4, <1>5, <1>6, <1>7, <1>8, <1>9, <1>10 DEF Next

(* Every reachable state of the store satisfies the invariant. *)
LEMMA Invariance == Spec => []Inv
BY InitInv, StepInv, PTL DEF Spec

-----------------------------------------------------------------------------
(* Every span with tokens and no cost is owed one, whatever the batches,   *)
(* the resends, the price changes, the purges and the moments the process  *)
(* stops: a goroutine, the backfill or an update under way will cost it,   *)
(* unless a statement failed since the start that was to do it.            *)
THEOREM NoCostForgotten == Spec => []CostIsOwed
BY Invariance, PTL DEF Inv

(* No span outlives its trace, but for a Purge that was cut off. *)
THEOREM NoSpanWithoutTrace == Spec => []SpansHaveTraces
BY Invariance, PTL DEF Inv

-----------------------------------------------------------------------------
(* What a row of the tables may hold; a span's is that of a span of a batch. *)
TraceRows(row) ==
  /\ {"root", "start", "end", "count", "tokens", "cost"} \subseteq DOMAIN row
  /\ row.start \in Nat /\ row.end \in Nat /\ row.count \in Nat
  /\ row.tokens \in Maybe(Nat) /\ row.cost \in Maybe(Nat)
IsCopyOf(k, row, sp) ==
  /\ k = <<sp.trace, sp.id>>
  /\ row.root = sp.root /\ row.start = sp.start /\ row.end = sp.end
  /\ row.tokens = sp.tokens /\ row.model = sp.model

(* Both tables are those of batches, every trace has a span, and only a    *)
(* store that is served has a writer or a goroutine.                       *)
TableInv ==
  /\ IsFiniteSet(DOMAIN spans)
  /\ \A k \in DOMAIN spans :
       /\ \E b \in Batches : \E i \in DOMAIN Content[b] : IsCopyOf(k, spans[k], Content[b][i])
       /\ spans[k].tokens = NoValue => spans[k].cost = NoValue
  /\ \A t \in DOMAIN traces : t \in Traces /\ TraceRows(traces[t]) /\ SpansOf(t) # {}
  /\ sent \in [Batches -> 0 .. MaxSends] /\ faults \in Nat
  /\ phase = "down" => busy = Idle /\ recalc = {}
  /\ phase = "up" => backlog = {}

(* Nothing is believed of the row of trace t, if it has one. *)
Doubted(t) == t \in DOMAIN traces => t \in torn

(* A step leaves the trace that is being costed in doubt. *)
LeftInDoubt == busy.trace \in DOMAIN traces' => busy.trace \in torn'

(* A writer that costs a trace holds what the tables say of it, and costs  *)
(* its spans as planned, unless one of the statements failed.              *)
PlanInv ==
  busy.op = "cost" =>
    /\ DOMAIN busy = {"op", "trace", "caller", "todo", "tokens", "total", "unpriced"}
    /\ busy.tokens = TraceTokens(busy.trace) /\ busy.total = TraceCost(busy.trace)
    /\ busy.unpriced <=> \E k \in LLMSpans(busy.trace) : PriceOf(spans[k].model) = NoValue
    /\ \A k \in LLMSpans(busy.trace) :
         \/ spans[k].cost = SpanCost(spans[k])
         \/ \E c \in busy.todo : c.key = k
         \/ Doubted(busy.trace)
    /\ \A c \in busy.todo : /\ c.key \in LLMSpans(busy.trace)
                            /\ c.cost = SpanCost(spans[c.key])

(* A trace whose row is not that of its spans is being costed, or has a    *)
(* span that is yet to be, or was cut off; and what its row says was paid  *)
(* or used, a span of it used.                                             *)
Unsettled(t) ==
  \/ t \in torn
  \/ \E k \in Uncosted : k[1] = t
  \/ busy.op = "cost" /\ busy.trace = t
Used(t) == \E k \in LLMSpans(t) : spans[k].tokens # 0
LLMCosts(t) == SumFunction([k \in LLMSpans(t) |-> Known(spans[k].cost)])
TokensInv ==
  \A t \in DOMAIN traces :
    /\ Known(traces[t].tokens) = TraceTokens(t) \/ Unsettled(t)
    /\ Known(traces[t].tokens) # 0 => Used(t)
CostsInv ==
  \A t \in DOMAIN traces :
    /\ Known(traces[t].cost) = LLMCosts(t) \/ Unsettled(t) \/ Free(t)
    /\ Known(traces[t].cost) # 0 => Used(t)

(* A span without a cost will get one, or its row is not to be believed.   *)
OwedInv ==
  \A k \in Uncosted :
    \/ phase = "down" \/ jobs[k[1]] > 0 \/ k[1] \in backlog
    \/ busy.op = "cost" /\ \E c \in busy.todo : c.key = k
    \/ Doubted(k[1])

(* The root a row names is a stored root, whatever was cut off. *)
RootInv ==
  \A t \in DOMAIN traces :
    traces[t].root # NoValue =>
      <<t, traces[t].root>> \in DOMAIN spans /\ spans[<<t, traces[t].root>>].root
Sent(t) == SumFunction([b \in Batches |-> sent[b] * Cardinality(Of(b, t))])
Covers(row, t) ==
  /\ \E k \in SpansOf(t) : spans[k].start = row.start
  /\ \A k \in SpansOf(t) : row.start <= spans[k].start
  /\ \E k \in SpansOf(t) : spans[k].end = row.end
  /\ \A k \in SpansOf(t) : spans[k].end <= row.end
RangeInv == faults = 0 => torn = {} /\ \A t \in DOMAIN traces : Covers(traces[t], t)
CountInv ==
  faults = 0 =>
    \A t \in DOMAIN traces :
         /\ Cardinality(SpansOf(t)) <= traces[t].count /\ traces[t].count <= Sent(t)

-----------------------------------------------------------------------------
(* The positions of a batch are finitely many. *)
LEMMA BatchPositions ==
  ASSUME NEW b \in Batches
  PROVE  /\ Len(Content[b]) \in Nat /\ DOMAIN Content[b] = 1 .. Len(Content[b])
         /\ IsFiniteSet(DOMAIN Content[b])
<1> DEFINE n == Len(Content[b])
           D == DOMAIN Content[b]
<1>1. n \in Nat /\ D = 1 .. n
  BY SequenceAssumption
<1> HIDE DEF n, D
<1>2. 1 \in Int /\ n \in Int
  BY <1>1
<1>3. IsFiniteSet(1 .. n)
  BY ONLY <1>2, FS_Interval
<1>4. IsFiniteSet(D)
  BY ONLY <1>1, <1>3
<1> QED BY <1>1, <1>4 DEF n, D

(* The positions of a trace in a batch, and the keys they give. *)
LEMMA OfTrace ==
  ASSUME NEW b \in Batches, NEW t
  PROVE  /\ Of(b, t) \subseteq DOMAIN Content[b]
         /\ Of(b, t) \subseteq Nat /\ IsFiniteSet(Of(b, t))
         /\ Len(Content[b]) \in Nat /\ \A i \in Of(b, t) : i <= Len(Content[b])
         /\ t \in TracesOf(b) <=> Of(b, t) # {}
         /\ TracesOf(b) \subseteq Traces
         /\ \A i \in Of(b, t) : <<t, Content[b][i].id>> \in KeysOf(b)
         /\ \A k \in KeysOf(b) : k[1] = t => \E i \in Of(b, t) : k = <<t, Content[b][i].id>>
<1>1. /\ Len(Content[b]) \in Nat /\ DOMAIN Content[b] = 1 .. Len(Content[b])
      /\ IsFiniteSet(DOMAIN Content[b])
  BY BatchPositions
<1>2. Of(b, t) \subseteq DOMAIN Content[b]
  BY DEF Of
<1>3. IsFiniteSet(Of(b, t))
  BY <1>1, <1>2, FS_Subset
<1>4. \A i \in Of(b, t) : <<t, Content[b][i].id>> \in KeysOf(b)
  BY DEF Of, KeysOf
<1>5. \A k \in KeysOf(b) : k[1] = t => \E i \in Of(b, t) : k = <<t, Content[b][i].id>>
  BY DEF Of, KeysOf
<1>6. TracesOf(b) \subseteq Traces
  BY ContentAssumption DEF TracesOf, KeysOf
<1>7. ASSUME NEW i \in Of(b, t) PROVE t \in TracesOf(b)
  <2>1. <<t, Content[b][i].id>>[1] = t
    OBVIOUS
  <2>2. \E k \in KeysOf(b) : k[1] = t
    BY ONLY <1>4, <1>7, <2>1
  <2> QED BY <2>2 DEF TracesOf
<1>8. t \in TracesOf(b) => Of(b, t) # {}
  BY <1>5 DEF TracesOf
<1> QED BY <1>1, <1>2, <1>3, <1>4, <1>5, <1>6, <1>7, <1>8

(* The row a batch leaves for a span is that of its last occurrence; of   *)
(* every occurrence, if spans are final.                                  *)
LEMMA SpanOfBatch ==
  ASSUME NEW b \in Batches, NEW k \in KeysOf(b)
  PROVE  /\ SpanRow(b, k).cost = NoValue
         /\ \E i \in DOMAIN Content[b] : IsCopyOf(k, SpanRow(b, k), Content[b][i])
<1> DEFINE ss == Content[b]
           At == {i \in DOMAIN ss : <<ss[i].trace, ss[i].id>> = k}
<1>1. PICK j \in DOMAIN ss : k = <<ss[j].trace, ss[j].id>>
  BY DEF KeysOf
<1>2. At \subseteq Nat /\ At # {} /\ Len(ss) \in Nat /\ \A i \in At : i <= Len(ss)
  BY <1>1, SequenceAssumption
<1>3. Max(At) \in At
  <2> HIDE DEF At
  <2> QED BY <1>2, MaxInSet
<1> DEFINE last == Max(At)
           sp == ss[last]
<1>4. last \in DOMAIN ss /\ k = <<sp.trace, sp.id>>
  BY ONLY <1>3
<1>5. SpanRow(b, k) = [root |-> sp.root, start |-> sp.start, end |-> sp.end,
                       tokens |-> sp.tokens, model |-> sp.model, cost |-> NoValue]
  BY DEF SpanRow
<1> HIDE DEF last
<1>6. IsCopyOf(k, SpanRow(b, k), sp) /\ SpanRow(b, k).cost = NoValue
  BY ONLY <1>4, <1>5 DEF IsCopyOf
<1> HIDE DEF sp
<1>7. \E i \in DOMAIN Content[b] : sp = Content[b][i]
  BY <1>4 DEF sp
<1> QED BY <1>6, <1>7

(* If spans are final, a stored span is every span sent with its id. *)
LEMMA SpansOfBatch ==
  ASSUME SpansAreFinal, NEW b \in Batches, NEW i \in DOMAIN Content[b], NEW k, NEW row,
         k = <<Content[b][i].trace, Content[b][i].id>>,
         \E c \in Batches : \E j \in DOMAIN Content[c] : IsCopyOf(k, row, Content[c][j])
  PROVE  IsCopyOf(k, row, Content[b][i])
BY DEF SpansAreFinal, IsCopyOf

(* The types of the row of a batch, and what its fields are. *)
LEMMA RowType ==
  ASSUME NEW b \in Batches, NEW t \in TracesOf(b)
  PROVE  LET row == RowOf(b, t)
             ss == Content[b]
             I == Of(b, t)
         IN  /\ TraceRows(row)
             /\ DOMAIN row = {"root", "rootName", "status", "session", "count", "start",
                              "end", "duration", "tokens", "cost"}
             /\ row.cost = NoValue
             /\ row.start \in {ss[i].start : i \in I} /\ \A i \in I : row.start <= ss[i].start
             /\ row.end \in {ss[i].end : i \in I} /\ \A i \in I : row.end >= ss[i].end
             /\ row.count = Cardinality(I) % CountModulus
             /\ row.root # NoValue => \E i \in I : row.root = ss[i].id /\ ss[i].root
             /\ Known(row.tokens) # 0 => \E i \in I : ss[i].tokens \notin {0, NoValue}
             /\ (\A i \in I : ss[i].tokens = NoValue) => row.tokens = NoValue
<1> DEFINE row == RowOf(b, t)
           ss == Content[b]
           I == Of(b, t)
<1>1. /\ I \subseteq Nat /\ I # {} /\ IsFiniteSet(I) /\ Len(ss) \in Nat
      /\ I \subseteq DOMAIN ss /\ \A i \in I : i <= Len(ss)
  BY OfTrace
<1>2. \A i \in I : ss[i].start \in Nat /\ ss[i].end \in Nat /\ ss[i].tokens \in Maybe(Nat)
  BY <1>1, ContentAssumption
<1>3. /\ DOMAIN row = {"root", "rootName", "status", "session", "count", "start",
                       "end", "duration", "tokens", "cost"}
      /\ row.cost = NoValue /\ row.start = Min(Starts(ss, I)) /\ row.end = Max(Ends(ss, I))
      /\ row.count = Cardinality(I) % CountModulus /\ row.root = RootOf(ss, I)
      /\ row.tokens = TokensOf(ss, I)
  BY DEF RowOf, AggregateAt
<1> HIDE DEF row, ss, I
<1>4. row.start \in Starts(ss, I) /\ \A x \in Starts(ss, I) : row.start <= x
  <2>1. Starts(ss, I) \in SUBSET Nat /\ Starts(ss, I) # {}
    BY <1>1, <1>2 DEF Starts
  <2> QED BY <1>3, <2>1, MinInSet
<1>5. row.end \in Ends(ss, I) /\ \A x \in Ends(ss, I) : x <= row.end
  <2>1. Ends(ss, I) \in SUBSET Nat /\ Ends(ss, I) # {}
    BY <1>1, <1>2 DEF Ends
  <2>2. IsFiniteSet(Ends(ss, I))
    <3> DEFINE f == [i \in I |-> ss[i].end]
    <3>1. IsFiniteSet({f[i] : i \in I})
      BY <1>1, FiniteImage
    <3>2. Ends(ss, I) = {f[i] : i \in I}
      BY DEF Ends
    <3> QED BY <3>1, <3>2
  <2> QED BY <1>3, <2>1, <2>2, FiniteMax
<1>6. row.root # NoValue => \E i \in I : row.root = ss[i].id /\ ss[i].root
  <2> SUFFICES ASSUME Roots(ss, I) # {}
               PROVE  \E i \in I : RootOf(ss, I) = ss[i].id /\ ss[i].root
    BY <1>3 DEF RootOf
  <2>1. Roots(ss, I) \in SUBSET Nat /\ \A i \in Roots(ss, I) : i <= Len(ss)
    BY <1>1 DEF Roots
  <2>2. Max(Roots(ss, I)) \in Roots(ss, I)
    BY <1>1, <2>1, MaxInSet
  <2> QED BY <2>2 DEF RootOf, Roots
<1>7. /\ row.tokens \in Maybe(Nat)
      /\ Known(row.tokens) # 0 => \E i \in I : ss[i].tokens \notin {0, NoValue}
      /\ (\A i \in I : ss[i].tokens = NoValue) => row.tokens = NoValue
  <2> DEFINE f == [i \in Counted(ss, I) |-> ss[i].tokens]
  <2>1. CASE Counted(ss, I) = {}
    BY <1>3, <2>1 DEF TokensOf, Known, Maybe, Counted
  <2>2. CASE Counted(ss, I) # {}
    <3>1. IsFiniteSet(Counted(ss, I)) /\ Counted(ss, I) \subseteq I
      BY <1>1, FS_Subset DEF Counted
    <3>2. \A i \in Counted(ss, I) : f[i] \in Nat /\ f[i] = ss[i].tokens
      BY <1>2, <3>1 DEF Counted, Maybe
    <3>3. row.tokens = SumFunctionOnSet(f, Counted(ss, I))
      BY <1>3, <2>2 DEF TokensOf, SumFunction
    <3> HIDE DEF f
    <3>4. row.tokens \in Nat
      BY <3>1, <3>2, <3>3, SumType
    <3>5. row.tokens # 0 => \E i \in Counted(ss, I) : f[i] # 0
      BY <3>1, <3>2, <3>3, SumIsZero
    <3>6. \A n \in Nat : n # NoValue
      BY NoValueAssumption
    <3> QED BY <2>2, <3>1, <3>2, <3>4, <3>5, <3>6 DEF Known, Maybe, Counted
  <2> QED BY <2>1, <2>2
<1>8. row.count \in Nat
  <2>1. Cardinality(I) \in Nat
    BY <1>1, FS_CardinalityType
  <2> QED BY <1>3, <2>1, CountModulusAssumption
<1>9. TraceRows(row)
  <2>1. row.start \in Nat /\ row.end \in Nat
    BY <1>2, <1>4, <1>5 DEF Starts, Ends
  <2> QED BY <1>3, <1>7, <1>8, <2>1 DEF TraceRows, Maybe
<1>10. /\ row.start \in {ss[i].start : i \in I} /\ \A i \in I : row.start <= ss[i].start
       /\ row.end \in {ss[i].end : i \in I} /\ \A i \in I : row.end >= ss[i].end
  <2>1. \A i \in I : row.start <= ss[i].start
    BY <1>4 DEF Starts
  <2>2. \A i \in I : ss[i].end <= row.end
    BY <1>5 DEF Ends
  <2>3. row.end \in Nat
    BY <1>9 DEF TraceRows
  <2> QED BY <1>2, <1>4, <1>5, <2>1, <2>2, <2>3 DEF Starts, Ends
<1> QED BY <1>3, <1>6, <1>7, <1>9, <1>10 DEF row, ss, I

-----------------------------------------------------------------------------
(* A step that writes no row and costs no span: it may delete traces with  *)
(* their spans, change prices, begin an update, break one off or fail.     *)
QuietStep ==
  /\ DOMAIN traces' \subseteq DOMAIN traces
  /\ \A t \in DOMAIN traces' : traces'[t] = traces[t]
  /\ DOMAIN spans' \subseteq DOMAIN spans
  /\ \A k \in DOMAIN spans' : spans'[k] = spans[k]
  /\ \A k \in DOMAIN spans : k[1] \in DOMAIN traces' => k \in DOMAIN spans'
  /\ \A t \in torn \cap DOMAIN traces' : t \in torn' \/ (busy'.op = "cost" /\ busy'.trace = t)
  /\ sent' = sent
  /\ \/ faults' = faults /\ torn' \subseteq torn
     \/ faults' = faults + 1
  /\ \/ busy' = busy /\ (busy.op = "cost" => UNCHANGED tables /\ torn \subseteq torn')
     \/ busy'.op # "cost" /\ (busy.op = "cost" => LeftInDoubt)
     \/ /\ busy.op # "cost" /\ UNCHANGED tables
        /\ \E t \in Traces : \E caller : busy' = CostPlan(t, caller)
     \/ /\ busy.op = "cost" /\ UNCHANGED tables /\ torn \subseteq torn' /\ LeftInDoubt
        /\ \E c \in busy.todo : busy' = [busy EXCEPT !.todo = @ \ {c}]
  /\ phase' = "down" => busy' = Idle /\ recalc' = {}
  /\ phase' = "up" => backlog' = {}

(* Every step but those of InsertSpans and UpdateTraceCost is quiet. *)
LEMMA QuietSteps ==
  ASSUME TableInv, [Next]_vars
  PROVE  (\E b \in Batches : InsertSpans(b)) \/ CostSpan \/ CostTrace \/ QuietStep
<1>0. ASSUME NEW t \in Traces, NEW caller, Begin(t, caller), UNCHANGED <<tables, sent, faults>>,
             busy = Idle, phase' # "down", phase' = "up" => backlog' = {}
      PROVE  QuietStep
  <2>1. busy' = CostPlan(t, caller) /\ busy'.op = "cost" /\ busy'.trace = t /\ busy.op # "cost"
    BY <1>0 DEF Begin, CostPlan, Idle
  <2>2. torn' \subseteq torn /\ torn \subseteq torn' \cup {t}
    BY <1>0 DEF Begin
  <2> QED BY <1>0, <2>1, <2>2 DEF tables, QuietStep
<1>1. CASE UNCHANGED vars
  BY <1>1 DEF vars, tables, TableInv, QuietStep
<1>2. CASE JobStep
  BY <1>0, <1>2 DEF JobStep, JobBegin, JobDue, tables, process, TableInv
<1>3. ASSUME NEW cutoff \in Cutoffs, PurgeByAge(cutoff) PROVE QuietStep
  BY <1>3 DEF PurgeByAge, DeleteTraceRows, Idle, tables, process, TableInv, QuietStep
<1>4. CASE PurgeByCount
  <2>1. /\ DOMAIN traces' \subseteq DOMAIN traces
        /\ \A t \in DOMAIN traces' : traces'[t] = traces[t]
    BY <1>4 DEF PurgeByCount, DeleteTraceRows
  <2> QED BY <1>4, <2>1 DEF PurgeByCount, Idle, process, TableInv, QuietStep
<1>5. CASE PurgeOrphans
  BY <1>5 DEF PurgeOrphans, Idle, process, TableInv, QuietStep
<1>6. ASSUME NEW ids \in SUBSET Traces, DeleteTraces(ids) PROVE QuietStep
  BY <1>6 DEF DeleteTraces, DeleteTraceRows, Idle, process, TableInv, QuietStep
<1>7. ASSUME NEW m \in Models,
             \/ \E p \in Prices : UpsertModelPricing(m, p)
             \/ DeleteModelPricing(m)
             \/ SeedModel(m)
      PROVE  QuietStep
  BY <1>7 DEF UpsertModelPricing, DeleteModelPricing, SeedModel, Idle, process, TableInv,
              QuietStep
<1>8. CASE RecalcStep
  <2>1. CASE RecalcList
    BY <2>1 DEF RecalcList, Idle, tables, process, TableInv, QuietStep
  <2>2. ASSUME NEW t \in Traces, RecalcBegin(t) PROVE QuietStep
    <3>1. phase' # "down" /\ (phase' = "up" => backlog' = {}) /\ faults' = faults
      BY <2>2 DEF RecalcBegin, process, TableInv
    <3> QED BY <1>0, <2>2, <3>1 DEF RecalcBegin, tables
  <2>3. CASE RecalcCancelled
    <3>1. /\ UNCHANGED <<tables, phase, backlog, sent>> /\ recalc' = {} /\ faults' = faults + 1
          /\ torn \subseteq torn' /\ (phase = "down" => busy = Idle)
      BY <2>3 DEF RecalcCancelled, CutOff, TornWith, tables, process, TableInv
    <3>2. \/ busy' = busy
          \/ busy' = Idle /\ (busy.op = "cost" => LeftInDoubt)
      BY <2>3 DEF RecalcCancelled, CutOff, TornWith, LeftInDoubt, tables
    <3> QED BY <3>1, <3>2 DEF tables, Idle, TableInv, QuietStep
  <2> QED BY <1>8, <2>1, <2>2, <2>3 DEF RecalcStep
<1>9. CASE Open \/ BootStep
  <2>1. CASE Open
    BY <2>1 DEF Open, Opened, Idle, tables, TableInv, QuietStep
  <2>2. CASE Serve
    BY <2>2 DEF Serve, Idle, tables, TableInv, QuietStep
  <2>3. ASSUME NEW t \in Traces, BackfillBegin(t) PROVE QuietStep
    BY <1>0, <2>3 DEF BackfillBegin, BackfillDue, tables
  <2> QED BY <1>9, <2>1, <2>2, <2>3 DEF BootStep
<1>10. CASE Stop
  <2>1. /\ UNCHANGED <<tables, sent>> /\ phase' = "down" /\ recalc' = {} /\ faults' = faults + 1
        /\ torn \subseteq torn' /\ busy' = Idle
        /\ (busy.op = "cost" => LeftInDoubt)
    BY <1>10 DEF Stop, CutOff, TornWith, LeftInDoubt, tables
  <2> QED BY <2>1 DEF tables, Idle, QuietStep
<1>11. CASE ErrorStep
  <2>1. ASSUME NEW t \in Traces, JobFails(t) \/ BackfillFails(t) \/ RecalcFails(t)
        PROVE  QuietStep
    BY <2>1 DEF JobFails, JobDue, BackfillFails, BackfillDue, RecalcFails, BeginFails, TornWith,
                Idle, tables, process, TableInv, QuietStep
  <2>2. CASE CostSpanFails
    <3>1. /\ UNCHANGED <<tables, recalc, phase, backlog, sent>> /\ faults' = faults + 1
          /\ torn \subseteq torn' /\ busy.op = "cost" /\ LeftInDoubt
          /\ \E c \in busy.todo : busy' = [busy EXCEPT !.todo = @ \ {c}]
      BY <2>2 DEF CostSpanFails, TornWith, LeftInDoubt, tables, process
    <3>2. phase # "down"
      BY <3>1 DEF TableInv, Idle
    <3> QED BY <3>1, <3>2 DEF tables, TableInv, QuietStep
  <2>3. CASE CostTraceFails
    <3>1. /\ UNCHANGED <<tables, recalc, phase, backlog, sent>> /\ faults' = faults + 1
          /\ torn \subseteq torn' /\ busy' = Idle /\ LeftInDoubt
      BY <2>3 DEF CostTraceFails, TornWith, LeftInDoubt, tables, process
    <3> QED BY <3>1 DEF tables, Idle, TableInv, QuietStep
  <2>4. CASE PurgeFails
    BY <2>4 DEF PurgeFails, Idle, tables, process, TableInv, QuietStep
  <2>5. CASE OpenFails
    BY <2>5 DEF OpenFails, Opened, TornWith, Idle, tables, process, TableInv, QuietStep
  <2> QED BY <1>11, <2>1, <2>2, <2>3, <2>4, <2>5 DEF ErrorStep
<1> QED
  BY <1>1, <1>2, <1>3, <1>4, <1>5, <1>6, <1>7, <1>8, <1>9, <1>10, <1>11
     DEF Next, CostStep, PurgeStep, ApiStep, SeedStep

(* What a batch leaves in the tables. *)
Insertion(b) ==
  /\ DOMAIN spans' = DOMAIN spans \cup KeysOf(b)
  /\ \A k \in KeysOf(b) : spans'[k] = SpanRow(b, k)
  /\ \A k \in DOMAIN spans \ KeysOf(b) : spans'[k] = spans[k]
  /\ DOMAIN traces' = DOMAIN traces \cup TracesOf(b)
  /\ \A t \in DOMAIN traces \ TracesOf(b) : traces'[t] = traces[t]
  /\ \A t \in TracesOf(b) :
       traces'[t] = IF t \in DOMAIN traces THEN Merge(traces[t], RowOf(b, t))
                                           ELSE RowOf(b, t)
  /\ busy = Idle /\ phase = "up" /\ sent[b] < MaxSends
  /\ sent' = [sent EXCEPT ![b] = @ + 1]
  /\ UNCHANGED <<pricing, busy, recalc, process, torn, faults>>

(* InsertSpans leaves just that. *)
LEMMA Inserted ==
  ASSUME NEW b \in Batches, InsertSpans(b)
  PROVE  Insertion(b)
BY DEF InsertSpans, SpansWith, TracesWith, Insertion

(* A merged row is a row. *)
LEMMA MergeType ==
  ASSUME NEW old, TraceRows(old), NEW b \in Batches, NEW t \in TracesOf(b)
  PROVE  LET new == RowOf(b, t)
             row == Merge(old, new)
         IN  /\ TraceRows(row)
             /\ row.root = new.root /\ row.cost = old.cost
             /\ row.start = IF old.start < new.start /\ old.start # 0 THEN old.start
                                                                     ELSE new.start
             /\ row.end = IF old.end > new.end THEN old.end ELSE new.end
             /\ row.tokens = AddTokens(old.tokens, new.tokens)
             /\ row.count = (new.count + old.count) % CountModulus
<1> DEFINE new == RowOf(b, t)
           row == Merge(old, new)
<1>1. /\ TraceRows(new)
      /\ DOMAIN new = {"root", "rootName", "status", "session", "count", "start", "end",
                       "duration", "tokens", "cost"}
  BY RowType
<1> HIDE DEF new
<1>2. /\ DOMAIN row = DOMAIN new
      /\ row.root = new.root /\ row.cost = old.cost
      /\ row.start = IF old.start < new.start /\ old.start # 0 THEN old.start ELSE new.start
      /\ row.end = IF old.end > new.end THEN old.end ELSE new.end
      /\ row.tokens = AddTokens(old.tokens, new.tokens)
      /\ row.count = (new.count + old.count) % CountModulus
  BY <1>1 DEF Merge
<1>3. AddTokens(old.tokens, new.tokens) \in Maybe(Nat)
  BY <1>1 DEF AddTokens, TraceRows, Maybe
<1>4. (new.count + old.count) % CountModulus \in Nat
  BY <1>1, CountModulusAssumption DEF TraceRows
<1> HIDE DEF row
<1>5. TraceRows(row)
  BY <1>1, <1>2, <1>3, <1>4 DEF TraceRows
<1> QED BY <1>2, <1>5 DEF row, new

(* Finite tables have finite totals. *)
LEMMA Totals ==
  ASSUME TypeInv, IsFiniteSet(DOMAIN spans), NEW t
  PROVE  /\ IsFiniteSet(SpansOf(t)) /\ IsFiniteSet(LLMSpans(t))
         /\ LLMSpans(t) \subseteq SpansOf(t)
         /\ \A k \in SpansOf(t) : Known(spans[k].tokens) \in Nat /\ Known(spans[k].cost) \in Nat
         /\ \A k \in LLMSpans(t) : spans[k].tokens \in Nat /\ SpanCost(spans[k]) \in Nat
         /\ TraceTokens(t) \in Nat /\ TraceCost(t) \in Nat
<1>1. IsFiniteSet(SpansOf(t)) /\ IsFiniteSet(LLMSpans(t)) /\ LLMSpans(t) \subseteq SpansOf(t)
  <2>1. LLMSpans(t) \subseteq SpansOf(t) /\ SpansOf(t) \subseteq DOMAIN spans
    BY DEF LLMSpans, SpansOf
  <2> QED BY <2>1, FS_Subset
<1>2. \A k \in LLMSpans(t) : spans[k].tokens \in Nat /\ SpanCost(spans[k]) \in Nat
  BY CostOfSpan DEF LLMSpans, SpansOf, TypeInv, SpanRows, Maybe
<1>3. \A k \in SpansOf(t) : Known(spans[k].tokens) \in Nat /\ Known(spans[k].cost) \in Nat
  BY DEF SpansOf, TypeInv, SpanRows, Maybe, Known
<1>4. TraceTokens(t) \in Nat
  <2> DEFINE f == [k \in LLMSpans(t) |-> spans[k].tokens]
  <2>1. \A k \in LLMSpans(t) : f[k] \in Nat
    BY <1>2
  <2>2. TraceTokens(t) = SumFunctionOnSet(f, LLMSpans(t))
    BY DEF TraceTokens, SumFunction
  <2> HIDE DEF f
  <2> QED BY <1>1, <2>1, <2>2, SumType
<1>5. TraceCost(t) \in Nat
  <2> DEFINE f == [k \in LLMSpans(t) |-> SpanCost(spans[k])]
  <2>1. \A k \in LLMSpans(t) : f[k] \in Nat
    BY <1>2
  <2>2. TraceCost(t) = SumFunctionOnSet(f, LLMSpans(t))
    BY DEF TraceCost, SumFunction
  <2> HIDE DEF f
  <2> QED BY <1>1, <2>1, <2>2, SumType
<1> QED BY <1>1, <1>2, <1>3, <1>4, <1>5

-----------------------------------------------------------------------------
(* An empty store is one of batches. *)
LEMMA TableInit == Init => TableInv
BY FS_EmptySet, BoundAssumption DEF Init, TableInv, Idle

(* A quiet step leaves the tables of a store. *)
LEMMA QuietTables ==
  ASSUME TableInv, QuietStep
  PROVE  TableInv'
<1>1. IsFiniteSet(DOMAIN spans')
  BY FS_Subset DEF TableInv, QuietStep
<1>2. ASSUME NEW k \in DOMAIN spans'
      PROVE  /\ \E b \in Batches : \E i \in DOMAIN Content[b] :
                  IsCopyOf(k, spans'[k], Content[b][i])
             /\ spans'[k].tokens = NoValue => spans'[k].cost = NoValue
  BY <1>2 DEF TableInv, QuietStep
<1>3. ASSUME NEW t \in DOMAIN traces'
      PROVE  t \in Traces /\ TraceRows(traces'[t]) /\ SpansOf(t)' # {}
  BY <1>3 DEF TableInv, QuietStep, SpansOf
<1>4. sent' \in [Batches -> 0 .. MaxSends] /\ faults' \in Nat
  BY DEF TableInv, QuietStep
<1> QED BY <1>1, <1>2, <1>3, <1>4 DEF TableInv, QuietStep

(* So does a batch, first time or not. *)
LEMMA InsertTables ==
  ASSUME TableInv, NEW b \in Batches, InsertSpans(b)
  PROVE  TableInv'
<1>0. Insertion(b)
  BY Inserted
<1>1. IsFiniteSet(DOMAIN spans')
  <2> DEFINE ss == Content[b]
             f == [i \in DOMAIN ss |-> <<ss[i].trace, ss[i].id>>]
  <2>1. IsFiniteSet(DOMAIN ss)
    BY BatchPositions
  <2>2. IsFiniteSet({f[i] : i \in DOMAIN ss})
    BY <2>1, FiniteImage
  <2>3. KeysOf(b) = {f[i] : i \in DOMAIN ss}
    BY DEF KeysOf
  <2>4. IsFiniteSet(KeysOf(b))
    BY <2>2, <2>3
  <2>5. DOMAIN spans' = DOMAIN spans \cup KeysOf(b) /\ IsFiniteSet(DOMAIN spans)
    BY <1>0 DEF Insertion, TableInv
  <2> QED BY <2>4, <2>5, FS_Union
<1>2. ASSUME NEW k \in DOMAIN spans'
      PROVE  /\ \E c \in Batches : \E i \in DOMAIN Content[c] :
                  IsCopyOf(k, spans'[k], Content[c][i])
             /\ spans'[k].tokens = NoValue => spans'[k].cost = NoValue
  <2>1. CASE k \in KeysOf(b)
    <3>1. spans'[k] = SpanRow(b, k)
      BY <1>0, <2>1 DEF Insertion
    <3> QED BY <2>1, <3>1, SpanOfBatch
  <2>2. CASE k \notin KeysOf(b)
    BY <1>0, <1>2, <2>2 DEF TableInv, Insertion
  <2> QED BY <2>1, <2>2
<1>3. ASSUME NEW t \in DOMAIN traces'
      PROVE  t \in Traces /\ TraceRows(traces'[t]) /\ SpansOf(t)' # {}
  <2>1. CASE t \in TracesOf(b)
    <3>1. PICK k \in KeysOf(b) : k[1] = t
      BY <2>1 DEF TracesOf
    <3>2. t \in Traces
      BY <2>1, OfTrace
    <3>3. TraceRows(traces'[t])
      <4>1. TraceRows(RowOf(b, t))
        BY <2>1, RowType
      <4>2. CASE t \in DOMAIN traces
        <5>1. TraceRows(Merge(traces[t], RowOf(b, t)))
          BY <2>1, <4>2, MergeType DEF TableInv
        <5> QED BY <1>0, <2>1, <4>2, <5>1 DEF Insertion
      <4>3. CASE t \notin DOMAIN traces
        BY <1>0, <2>1, <4>1, <4>3 DEF Insertion
      <4> QED BY <4>2, <4>3
    <3> QED BY <1>0, <3>1, <3>2, <3>3 DEF SpansOf, Insertion
  <2>2. CASE t \notin TracesOf(b)
    <3>1. t \in DOMAIN traces /\ traces'[t] = traces[t]
      BY <1>0, <1>3, <2>2 DEF Insertion
    <3>2. SpansOf(t) \subseteq SpansOf(t)'
      BY <1>0 DEF SpansOf, Insertion
    <3> QED BY <3>1, <3>2 DEF TableInv
  <2> QED BY <2>1, <2>2
<1>4. sent' \in [Batches -> 0 .. MaxSends] /\ faults' \in Nat
  <2>1. sent \in [Batches -> 0 .. MaxSends] /\ sent[b] + 1 \in 0 .. MaxSends
    BY <1>0, BoundAssumption DEF TableInv, Insertion
  <2> QED BY <1>0, <2>1 DEF Insertion, TableInv
<1> QED BY <1>0, <1>1, <1>2, <1>3, <1>4 DEF TableInv, process, Insertion

(* So does an update that costs one span, *)
LEMMA CostSpanTables ==
  ASSUME TableInv, PlanInv, CostSpan
  PROVE  TableInv'
<1>1. PICK c \in busy.todo :
        /\ spans' = [k \in DOMAIN spans |->
                       IF k = c.key THEN [spans[k] EXCEPT !.cost = c.cost] ELSE spans[k]]
        /\ busy' = [busy EXCEPT !.todo = @ \ {c}]
  BY DEF CostSpan
<1>2. busy.op = "cost" /\ UNCHANGED <<traces, pricing, jobs, recalc, process, torn, sent, faults>>
  BY DEF CostSpan
<1>3. DOMAIN spans' = DOMAIN spans
  BY <1>1
<1>4. ASSUME NEW k \in DOMAIN spans'
      PROVE  /\ \E b \in Batches : \E i \in DOMAIN Content[b] :
                  IsCopyOf(k, spans'[k], Content[b][i])
             /\ spans'[k].tokens = NoValue => spans'[k].cost = NoValue
  <2>1. CASE k # c.key
    BY <1>1, <1>4, <2>1 DEF TableInv
  <2>2. CASE k = c.key
    <3>1. spans'[k] = [spans[k] EXCEPT !.cost = c.cost]
      BY <1>1, <1>4, <2>2
    <3>2. spans[k].tokens # NoValue
      BY <1>2, <2>2 DEF PlanInv, LLMSpans
    <3> QED BY <1>3, <1>4, <3>1, <3>2 DEF TableInv, IsCopyOf
  <2> QED BY <2>1, <2>2
<1>5. busy # Idle /\ phase # "down"
  BY <1>2 DEF Idle, TableInv
<1> QED BY <1>2, <1>3, <1>4, <1>5 DEF TableInv, SpansOf, process

(* and one that writes the row of its trace. *)
LEMMA CostTraceTables ==
  ASSUME Inv, TableInv, PlanInv, CostTrace
  PROVE  TableInv'
<1>1. /\ traces' = [t \in DOMAIN traces |->
                      IF t = busy.trace THEN CostedRow(traces[t]) ELSE traces[t]]
      /\ busy.op = "cost" /\ busy' = Idle
      /\ UNCHANGED <<spans, pricing, jobs, recalc, process, sent, faults>>
  BY DEF CostTrace
<1>2. busy.tokens \in Nat /\ busy.total \in Nat
  BY <1>1, Totals DEF PlanInv, TableInv, Inv
<1>3. \A t \in DOMAIN traces : TraceRows(CostedRow(traces[t]))
  BY <1>2 DEF TableInv, TraceRows, CostedRow, Maybe
<1>4. busy # Idle /\ phase # "down"
  BY <1>1 DEF Idle, TableInv
<1> QED BY <1>1, <1>3, <1>4 DEF TableInv, SpansOf, process

-----------------------------------------------------------------------------
(* What a trace uses and costs depends on the tokens and models of its     *)
(* spans, and on the prices.                                              *)
LEMMA SameUse ==
  ASSUME NEW t, SpansOf(t)' = SpansOf(t),
         \A k \in SpansOf(t) : spans'[k].tokens = spans[k].tokens
  PROVE  LLMSpans(t)' = LLMSpans(t) /\ TraceTokens(t)' = TraceTokens(t)
<1>1. LLMSpans(t)' = LLMSpans(t)
  BY DEF LLMSpans
<1>2. \A k \in LLMSpans(t) : spans'[k].tokens = spans[k].tokens
  BY DEF LLMSpans
<1>3. [k \in LLMSpans(t)' |-> spans'[k].tokens] = [k \in LLMSpans(t) |-> spans[k].tokens]
  BY <1>1, <1>2
<1> QED BY <1>1, <1>3 DEF TraceTokens

(* Nor do its costs change while the prices are the same. *)
LEMMA SameCost ==
  ASSUME NEW t, SpansOf(t)' = SpansOf(t), pricing' = pricing,
         \A k \in SpansOf(t) : /\ spans'[k].tokens = spans[k].tokens
                               /\ spans'[k].model = spans[k].model
  PROVE  /\ \A k \in SpansOf(t) : /\ SpanCost(spans[k])' = SpanCost(spans[k])
                                  /\ PriceOf(spans[k].model)' = PriceOf(spans[k].model)
         /\ TraceCost(t)' = TraceCost(t)
<1>1. LLMSpans(t)' = LLMSpans(t) /\ LLMSpans(t) \subseteq SpansOf(t)
  BY SameUse DEF LLMSpans
<1>2. \A k \in SpansOf(t) : /\ SpanCost(spans[k])' = SpanCost(spans[k])
                            /\ PriceOf(spans[k].model)' = PriceOf(spans[k].model)
  BY DEF SpanCost, PriceOf, Priced
<1>3. [k \in LLMSpans(t)' |-> SpanCost(spans[k])'] = [k \in LLMSpans(t) |-> SpanCost(spans[k])]
  BY <1>1, <1>2
<1> QED BY <1>2, <1>3 DEF TraceCost

(* A plan that is made says what the tables say. *)
LEMMA PlanMade ==
  ASSUME NEW t \in Traces, NEW caller, busy' = CostPlan(t, caller), UNCHANGED tables
  PROVE  PlanInv'
<1>1. /\ DOMAIN busy' = {"op", "trace", "caller", "todo", "tokens", "total", "unpriced"}
      /\ busy'.trace = t /\ busy'.tokens = TraceTokens(t) /\ busy'.total = TraceCost(t)
      /\ busy'.unpriced <=> \E k \in LLMSpans(t) : PriceOf(spans[k].model) = NoValue
      /\ busy'.todo = {[key |-> k, cost |-> SpanCost(spans[k])] : k \in LLMSpans(t)}
  BY DEF CostPlan
<1>2. /\ TraceTokens(t)' = TraceTokens(t) /\ TraceCost(t)' = TraceCost(t)
      /\ LLMSpans(t)' = LLMSpans(t)
      /\ \A k \in LLMSpans(t) : /\ SpanCost(spans[k])' = SpanCost(spans[k])
                                /\ PriceOf(spans[k].model)' = PriceOf(spans[k].model)
  BY DEF tables, TraceTokens, TraceCost, LLMSpans, SpansOf, SpanCost, PriceOf, Priced
<1>3. ASSUME NEW k \in LLMSpans(t) PROVE \E c \in busy'.todo : c.key = k
  <2>1. [key |-> k, cost |-> SpanCost(spans[k])] \in busy'.todo
    BY <1>1
  <2> QED BY <2>1
<1>4. \A c \in busy'.todo : c.key \in LLMSpans(t) /\ c.cost = SpanCost(spans[c.key])
  BY <1>1
<1> QED BY <1>1, <1>2, <1>3, <1>4 DEF PlanInv

(* A writer that costs a trace holds the mutex, so its plan stays true. *)
LEMMA QuietPlan ==
  ASSUME PlanInv, QuietStep
  PROVE  PlanInv'
<1> DEFINE Same == UNCHANGED tables /\ torn \subseteq torn'
<1>0. ASSUME Same
      PROVE  /\ \A t : /\ TraceTokens(t)' = TraceTokens(t) /\ TraceCost(t)' = TraceCost(t)
                       /\ LLMSpans(t)' = LLMSpans(t)
                       /\ Doubted(t) => Doubted(t)'
             /\ \A k : /\ SpanCost(spans[k])' = SpanCost(spans[k])
                       /\ PriceOf(spans[k].model)' = PriceOf(spans[k].model)
  BY <1>0 DEF tables, TraceTokens, TraceCost, LLMSpans, SpansOf, SpanCost, PriceOf, Priced,
              Doubted
<1>1. CASE busy' = busy /\ (busy.op = "cost" => Same)
  <2> SUFFICES ASSUME busy.op = "cost" PROVE PlanInv'
    BY <1>1 DEF PlanInv
  <2> QED BY <1>0, <1>1 DEF PlanInv, tables
<1>2. CASE busy'.op # "cost"
  BY <1>2 DEF PlanInv
<1>3. CASE UNCHANGED tables /\ \E t \in Traces : \E caller : busy' = CostPlan(t, caller)
  BY <1>3, PlanMade
<1>4. ASSUME busy.op = "cost", Same, LeftInDoubt, NEW c \in busy.todo,
             busy' = [busy EXCEPT !.todo = @ \ {c}]
      PROVE  PlanInv'
  <2>1. /\ DOMAIN busy' = {"op", "trace", "caller", "todo", "tokens", "total", "unpriced"}
        /\ busy'.trace = busy.trace /\ busy'.tokens = busy.tokens /\ busy'.total = busy.total
        /\ busy'.unpriced = busy.unpriced /\ busy'.todo \subseteq busy.todo
    BY <1>4 DEF PlanInv
  <2>2. Doubted(busy.trace)'
    BY <1>4, <2>1 DEF LeftInDoubt, Doubted
  <2> QED BY <1>0, <1>4, <2>1, <2>2 DEF PlanInv, tables
<1> QED BY <1>1, <1>2, <1>3, <1>4 DEF QuietStep

(* One span is costed as planned; what the trace uses stays the same. *)
CostedSpan(c) ==
  /\ DOMAIN spans' = DOMAIN spans
  /\ \A k \in DOMAIN spans : k # c.key => spans'[k] = spans[k]
  /\ \A t : /\ SpansOf(t)' = SpansOf(t)
            /\ \A k \in SpansOf(t) :
                 \A f \in {"root", "start", "end", "tokens", "model"} :
                   spans'[k][f] = spans[k][f]
  /\ spans'[c.key].cost = SpanCost(spans[c.key])
  /\ c.key \in LLMSpans(busy.trace)
  /\ DOMAIN busy' = DOMAIN busy /\ busy'.todo = busy.todo \ {c}
  /\ \A f \in DOMAIN busy \ {"todo"} : busy'[f] = busy[f]
  /\ busy.op = "cost" /\ busy'.op = "cost" /\ busy'.trace = busy.trace
  /\ UNCHANGED <<traces, pricing, torn, faults, sent>>

(* CostSpan leaves just that. *)
LEMMA SpanCosted ==
  ASSUME Inv, TableInv, PlanInv, CostSpan
  PROVE  \E c \in busy.todo : CostedSpan(c)
<1>1. PICK c \in busy.todo :
        /\ spans' = [k \in DOMAIN spans |->
                       IF k = c.key THEN [spans[k] EXCEPT !.cost = c.cost] ELSE spans[k]]
        /\ busy' = [busy EXCEPT !.todo = @ \ {c}]
  BY DEF CostSpan
<1>2. busy.op = "cost" /\ UNCHANGED <<traces, pricing, torn, sent, faults>>
  BY DEF CostSpan
<1>3. /\ c.key \in LLMSpans(busy.trace) /\ c.cost = SpanCost(spans[c.key])
      /\ DOMAIN busy = {"op", "trace", "caller", "todo", "tokens", "total", "unpriced"}
  BY <1>2 DEF PlanInv
<1>4. c.key \in DOMAIN spans /\ spans[c.key] \in SpanRows
  BY <1>3 DEF LLMSpans, SpansOf, Inv, TypeInv
<1>5. spans'[c.key] = [spans[c.key] EXCEPT !.cost = c.cost]
  BY <1>1, <1>4
<1>6. /\ spans'[c.key].cost = SpanCost(spans[c.key])
      /\ \A f \in {"root", "start", "end", "tokens", "model"} :
           spans'[c.key][f] = spans[c.key][f]
  BY <1>3, <1>4, <1>5 DEF SpanRows
<1>7. DOMAIN spans' = DOMAIN spans /\ \A k \in DOMAIN spans : k # c.key => spans'[k] = spans[k]
  BY <1>1
<1>8. ASSUME NEW t
      PROVE  /\ SpansOf(t)' = SpansOf(t)
             /\ \A k \in SpansOf(t) :
                  \A f \in {"root", "start", "end", "tokens", "model"} :
                    spans'[k][f] = spans[k][f]
  BY <1>6, <1>7 DEF SpansOf
<1>9. /\ DOMAIN busy' = DOMAIN busy /\ busy'.todo = busy.todo \ {c}
      /\ \A f \in DOMAIN busy \ {"todo"} : busy'[f] = busy[f]
      /\ busy'.op = "cost" /\ busy'.trace = busy.trace
  BY <1>1, <1>2, <1>3
<1> QED BY <1>2, <1>3, <1>6, <1>7, <1>8, <1>9 DEF CostedSpan

(* The plan of an update is true after each of its steps. *)
LEMMA CostSpanPlan ==
  ASSUME TableInv, PlanInv, NEW c \in busy.todo, CostedSpan(c)
  PROVE  PlanInv'
<1> DEFINE t == busy.trace
<1>1. /\ LLMSpans(t)' = LLMSpans(t) /\ LLMSpans(t) \subseteq SpansOf(t)
      /\ TraceTokens(t)' = TraceTokens(t) /\ TraceCost(t)' = TraceCost(t)
      /\ \A k \in SpansOf(t) : /\ SpanCost(spans[k])' = SpanCost(spans[k])
                               /\ PriceOf(spans[k].model)' = PriceOf(spans[k].model)
  BY SameUse, SameCost DEF CostedSpan, LLMSpans
<1>2. \A k \in LLMSpans(t) : \/ spans'[k].cost = SpanCost(spans[k])
                             \/ \E d \in busy'.todo : d.key = k
                             \/ Doubted(t)'
  BY DEF CostedSpan, PlanInv, LLMSpans, SpansOf, Doubted
<1>3. \A d \in busy'.todo : d.key \in LLMSpans(t) /\ d.cost = SpanCost(spans[d.key])
  BY DEF CostedSpan, PlanInv
<1>4. /\ DOMAIN busy' = {"op", "trace", "caller", "todo", "tokens", "total", "unpriced"}
      /\ busy'.trace = t /\ busy'.tokens = TraceTokens(t) /\ busy'.total = TraceCost(t)
      /\ busy'.unpriced <=> \E k \in LLMSpans(t) : PriceOf(spans[k].model) = NoValue
  BY DEF CostedSpan, PlanInv
<1>5. \A k \in LLMSpans(t) : spans'[k].model = spans[k].model
  BY DEF CostedSpan, LLMSpans
<1> QED BY <1>1, <1>2, <1>3, <1>4, <1>5 DEF PlanInv

-----------------------------------------------------------------------------
(* A trace whose spans stay as they are. *)
SameTrace(t) ==
  SpansOf(t)' = SpansOf(t) /\ \A k \in SpansOf(t) : spans'[k] = spans[k]

(* Its sums stay too. *)
LEMMA SameTraceSums ==
  ASSUME NEW t, SameTrace(t)
  PROVE  /\ LLMSpans(t)' = LLMSpans(t)
         /\ TraceTokens(t)' = TraceTokens(t) /\ LLMCosts(t)' = LLMCosts(t)
         /\ Used(t)' <=> Used(t)
         /\ Free(t)' <=> Free(t)
         /\ (\E k \in Uncosted : k[1] = t) => \E k \in Uncosted' : k[1] = t
<1>1. LLMSpans(t)' = LLMSpans(t) /\ TraceTokens(t)' = TraceTokens(t)
  BY SameUse DEF SameTrace
<1>2. \A k \in LLMSpans(t) : spans'[k] = spans[k]
  BY DEF LLMSpans, SameTrace
<1>3. LLMCosts(t)' = LLMCosts(t)
  <2>1. [k \in LLMSpans(t)' |-> Known(spans[k].cost)'] = [k \in LLMSpans(t) |-> Known(spans[k].cost)]
    BY <1>1, <1>2 DEF Known
  <2> QED BY <1>1, <2>1 DEF LLMCosts
<1>4. ASSUME NEW k \in Uncosted, k[1] = t PROVE k \in Uncosted'
  BY <1>4 DEF Uncosted, SameTrace, SpansOf
<1> QED BY <1>1, <1>2, <1>3, <1>4 DEF Used, Free

(* Tokens that are added are known to be added. *)
LEMMA AddKnown ==
  ASSUME NEW a \in Maybe(Nat), NEW b \in Maybe(Nat)
  PROVE  Known(AddTokens(a, b)) = Known(a) + Known(b)
BY NoValueAssumption DEF AddTokens, Known, Maybe

-----------------------------------------------------------------------------
(* A quiet step keeps the row and spans of a trace it does not delete. *)
LEMMA QuietTrace ==
  ASSUME QuietStep, NEW t \in DOMAIN traces'
  PROVE  /\ t \in DOMAIN traces /\ traces'[t] = traces[t] /\ SameTrace(t)
         /\ Unsettled(t) => Unsettled(t)'
<1>1. t \in DOMAIN traces /\ traces'[t] = traces[t] /\ SameTrace(t)
  BY DEF QuietStep, SameTrace, SpansOf
<1>2. Unsettled(t) => Unsettled(t)'
  <2>1. (\E k \in Uncosted : k[1] = t) => \E k \in Uncosted' : k[1] = t
    BY <1>1, SameTraceSums
  <2>2. t \in torn => t \in torn' \/ (busy'.op = "cost" /\ busy'.trace = t)
    BY DEF QuietStep
  <2>3. ASSUME busy.op = "cost", busy.trace = t
        PROVE  t \in torn' \/ (busy'.op = "cost" /\ busy'.trace = t)
    <3>1. ASSUME NEW c \in busy.todo, busy' = [busy EXCEPT !.todo = @ \ {c}], LeftInDoubt
          PROVE  t \in torn'
      BY <2>3, <3>1 DEF LeftInDoubt
    <3> QED BY <2>3, <3>1 DEF QuietStep, LeftInDoubt
  <2> QED BY <2>1, <2>2, <2>3 DEF Unsettled
<1> QED BY <1>1, <1>2

(* Hence it keeps what the rows say of tokens and costs. *)
LEMMA QuietSums ==
  ASSUME QuietStep
  PROVE  /\ TokensInv => TokensInv'
         /\ CostsInv => CostsInv'
<1>1. ASSUME TokensInv, NEW t \in DOMAIN traces'
      PROVE  /\ Known(traces'[t].tokens) = TraceTokens(t)' \/ Unsettled(t)'
             /\ Known(traces'[t].tokens) # 0 => Used(t)'
  BY <1>1, QuietTrace, SameTraceSums DEF TokensInv
<1>2. ASSUME CostsInv, NEW t \in DOMAIN traces'
      PROVE  /\ Known(traces'[t].cost) = LLMCosts(t)' \/ Unsettled(t)' \/ Free(t)'
             /\ Known(traces'[t].cost) # 0 => Used(t)'
  BY <1>2, QuietTrace, SameTraceSums DEF CostsInv
<1> QED BY <1>1, <1>2 DEF TokensInv, CostsInv, Known

-----------------------------------------------------------------------------
(* Spans that are final stay as they are when they are sent again, but for *)
(* the cost; and what arrives is stored as it was sent.                    *)
LEMMA Resent ==
  ASSUME SpansAreFinal, TableInv, NEW b \in Batches, Insertion(b), NEW k \in DOMAIN spans
  PROVE  /\ k \in DOMAIN spans' /\ spans'[k].root = spans[k].root
         /\ spans'[k].start = spans[k].start /\ spans'[k].end = spans[k].end
         /\ spans'[k].tokens = spans[k].tokens /\ spans'[k].model = spans[k].model
<1>1. k \in DOMAIN spans'
  BY DEF Insertion
<1>2. CASE k \notin KeysOf(b)
  BY <1>1, <1>2 DEF Insertion
<1>3. CASE k \in KeysOf(b)
  <2>1. PICK i \in DOMAIN Content[b] : IsCopyOf(k, SpanRow(b, k), Content[b][i])
    BY <1>3, SpanOfBatch
  <2>2. k = <<Content[b][i].trace, Content[b][i].id>>
    BY <2>1 DEF IsCopyOf
  <2>3. \E c \in Batches : \E j \in DOMAIN Content[c] : IsCopyOf(k, spans[k], Content[c][j])
    BY DEF TableInv
  <2>4. IsCopyOf(k, spans[k], Content[b][i])
    BY <2>2, <2>3, SpansOfBatch
  <2>5. spans'[k] = SpanRow(b, k)
    BY <1>3 DEF Insertion
  <2> QED BY <1>1, <2>1, <2>4, <2>5 DEF IsCopyOf
<1> QED BY <1>2, <1>3

(* Every span of a batch is stored as it was sent, with no cost yet. *)
LEMMA ArrivedSpan ==
  ASSUME SpansAreFinal, NEW b \in Batches, Insertion(b), NEW t, NEW i \in Of(b, t)
  PROVE  LET k == <<t, Content[b][i].id>>
         IN  /\ k \in KeysOf(b) /\ k \in SpansOf(t)'
             /\ IsCopyOf(k, spans'[k], Content[b][i]) /\ spans'[k].cost = NoValue
<1> DEFINE k == <<t, Content[b][i].id>>
<1>1. k \in KeysOf(b) /\ i \in DOMAIN Content[b] /\ k[1] = t
  BY OfTrace
<1>2. k = <<Content[b][i].trace, Content[b][i].id>>
  BY DEF Of
<1> HIDE DEF k
<1>3. /\ SpanRow(b, k).cost = NoValue
      /\ \E j \in DOMAIN Content[b] : IsCopyOf(k, SpanRow(b, k), Content[b][j])
  BY <1>1, SpanOfBatch
<1>4. IsCopyOf(k, SpanRow(b, k), Content[b][i])
  BY <1>1, <1>2, <1>3, SpansOfBatch
<1>5. k \in DOMAIN spans' /\ spans'[k] = SpanRow(b, k)
  BY <1>1 DEF Insertion
<1> QED BY <1>1, <1>3, <1>4, <1>5 DEF SpansOf, k

(* A batch without a span of the trace, and one that has a span of it with *)
(* tokens: that one is not costed yet.                                     *)
LEMMA InsertOther ==
  ASSUME NEW b \in Batches, Insertion(b), NEW t, t \notin TracesOf(b)
  PROVE  SameTrace(t) /\ (Unsettled(t) => Unsettled(t)')
<1>1. \A k \in KeysOf(b) : k[1] # t
  BY DEF TracesOf
<1>2. SameTrace(t)
  BY <1>1 DEF SameTrace, SpansOf, Insertion
<1> QED BY <1>2, SameTraceSums DEF Unsettled, Insertion

(* With tokens: the trace is to be costed. *)
LEMMA InsertCalls ==
  ASSUME SpansAreFinal, NEW b \in Batches, Insertion(b), NEW t,
         NEW i \in Of(b, t), Content[b][i].tokens # NoValue
  PROVE  Unsettled(t)'
<1> DEFINE k == <<t, Content[b][i].id>>
<1>1. k \in SpansOf(t)' /\ IsCopyOf(k, spans'[k], Content[b][i]) /\ spans'[k].cost = NoValue
  BY ArrivedSpan
<1>2. k \in Uncosted' /\ k[1] = t
  BY <1>1 DEF Uncosted, SpansOf, IsCopyOf
<1> QED BY <1>2 DEF Unsettled

(* One whose spans of the trace have no tokens changes no sum of it. *)
LEMMA InsertNoCalls ==
  ASSUME SpansAreFinal, TableInv, NEW b \in Batches, Insertion(b), NEW t,
         \A i \in Of(b, t) : Content[b][i].tokens = NoValue
  PROVE  /\ LLMSpans(t)' = LLMSpans(t)
         /\ TraceTokens(t)' = TraceTokens(t) /\ LLMCosts(t)' = LLMCosts(t)
         /\ Unsettled(t) => Unsettled(t)'
         /\ Free(t) => Free(t)'
<1>1. ASSUME NEW k \in KeysOf(b), k[1] = t
      PROVE  k \in DOMAIN spans' /\ spans'[k].tokens = NoValue
  <2>1. PICK i \in Of(b, t) : k = <<t, Content[b][i].id>>
    BY <1>1, OfTrace
  <2>2. k \in SpansOf(t)' /\ IsCopyOf(k, spans'[k], Content[b][i])
    BY <2>1, ArrivedSpan
  <2> QED BY <2>2 DEF SpansOf, IsCopyOf
<1>2. ASSUME NEW k \in LLMSpans(t)
      PROVE  k \in LLMSpans(t)' /\ spans'[k] = spans[k]
  <2>1. k \in DOMAIN spans /\ k[1] = t /\ spans[k].tokens # NoValue
    BY DEF LLMSpans, SpansOf
  <2>2. k \in DOMAIN spans' /\ spans'[k].tokens = spans[k].tokens
    BY <2>1, Resent
  <2>3. k \notin KeysOf(b)
    BY <1>1, <2>1, <2>2
  <2> QED BY <2>1, <2>2, <2>3 DEF LLMSpans, SpansOf, Insertion
<1>3. ASSUME NEW k \in LLMSpans(t)' PROVE k \in LLMSpans(t)
  <2>1. k \in DOMAIN spans' /\ k[1] = t /\ spans'[k].tokens # NoValue
    BY <1>3 DEF LLMSpans, SpansOf
  <2>2. k \notin KeysOf(b)
    BY <1>1, <2>1
  <2> QED BY <2>1, <2>2 DEF LLMSpans, SpansOf, Insertion
<1>4. LLMSpans(t)' = LLMSpans(t)
  BY <1>2, <1>3
<1>5. TraceTokens(t)' = TraceTokens(t)
  <2>1. [k \in LLMSpans(t)' |-> spans'[k].tokens] = [k \in LLMSpans(t) |-> spans[k].tokens]
    BY <1>2, <1>4
  <2> QED BY <1>4, <2>1 DEF TraceTokens
<1>6. LLMCosts(t)' = LLMCosts(t)
  <2>1. [k \in LLMSpans(t)' |-> Known(spans[k].cost)'] = [k \in LLMSpans(t) |-> Known(spans[k].cost)]
    BY <1>2, <1>4 DEF Known
  <2> QED BY <1>4, <2>1 DEF LLMCosts
<1>7. ASSUME NEW k \in Uncosted, k[1] = t PROVE k \in Uncosted'
  BY <1>2, <1>7 DEF Uncosted, LLMSpans, SpansOf
<1>8. Free(t) => Free(t)'
  BY <1>2, <1>4 DEF Free
<1> QED BY <1>4, <1>5, <1>6, <1>7, <1>8 DEF Unsettled, Insertion

(* A trace that is new has no spans from before, or is torn. *)
LEMMA InsertNew ==
  ASSUME Inv, TableInv, NEW b \in Batches, Insertion(b), NEW t \in TracesOf(b),
         t \notin DOMAIN traces, t \notin torn
  PROVE  /\ SpansOf(t) = {} /\ LLMSpans(t) = {}
         /\ TraceTokens(t) = 0 /\ LLMCosts(t) = 0
<1>1. SpansOf(t) = {} /\ LLMSpans(t) = {}
  BY DEF Inv, SpansHaveTraces, Insertion, Idle, SpansOf, LLMSpans
<1>2. TraceTokens(t) = 0 /\ LLMCosts(t) = 0
  BY <1>1, SumEmpty DEF TraceTokens, LLMCosts, SumFunction
<1> QED BY <1>1, <1>2

(* What was used before a batch is used after it. *)
LEMMA StillUsed ==
  ASSUME SpansAreFinal, TableInv, NEW b \in Batches, Insertion(b), NEW t, Used(t)
  PROVE  Used(t)'
<1>1. PICK k \in LLMSpans(t) : spans[k].tokens # 0
  BY DEF Used
<1>2. k \in DOMAIN spans /\ k[1] = t /\ spans[k].tokens # NoValue
  BY DEF LLMSpans, SpansOf
<1>3. k \in DOMAIN spans' /\ spans'[k].tokens = spans[k].tokens
  BY <1>2, Resent
<1> QED BY <1>1, <1>2, <1>3 DEF Used, LLMSpans, SpansOf

(* After a batch the tokens of a row are right, or an update is to come. *)
LEMMA InsertTokens ==
  ASSUME SpansAreFinal, Inv, TableInv, TokensInv, NEW b \in Batches, Insertion(b)
  PROVE  TokensInv'
<1> SUFFICES ASSUME NEW t \in DOMAIN traces'
             PROVE  /\ Known(traces'[t].tokens) = TraceTokens(t)' \/ Unsettled(t)'
                    /\ Known(traces'[t].tokens) # 0 => Used(t)'
  BY DEF TokensInv, Known
<1>1. CASE t \notin TracesOf(b)
  <2>1. t \in DOMAIN traces /\ traces'[t] = traces[t]
    BY <1>1 DEF Insertion
  <2> QED BY <1>1, <2>1, InsertOther, SameTraceSums DEF TokensInv
<1>2. CASE t \in TracesOf(b)
  <2> DEFINE new == RowOf(b, t)
  <2>0. /\ new.tokens \in Maybe(Nat)
        /\ Known(new.tokens) # 0 => \E i \in Of(b, t) : Content[b][i].tokens \notin {0, NoValue}
        /\ (\A i \in Of(b, t) : Content[b][i].tokens = NoValue) => new.tokens = NoValue
    BY <1>2, RowType DEF TraceRows
  <2> HIDE DEF new
  <2>1. /\ t \in DOMAIN traces =>
             /\ traces'[t].tokens = AddTokens(traces[t].tokens, new.tokens)
             /\ Known(traces'[t].tokens) = Known(traces[t].tokens) + Known(new.tokens)
             /\ Known(traces[t].tokens) \in Nat
        /\ t \notin DOMAIN traces => traces'[t].tokens = new.tokens
    <3>1. ASSUME t \in DOMAIN traces
          PROVE  /\ traces'[t].tokens = AddTokens(traces[t].tokens, new.tokens)
                 /\ Known(traces'[t].tokens) = Known(traces[t].tokens) + Known(new.tokens)
                 /\ Known(traces[t].tokens) \in Nat
      <4>1. TraceRows(traces[t]) /\ traces'[t] = Merge(traces[t], RowOf(b, t))
        BY <1>2, <3>1 DEF TableInv, Insertion
      <4>2. traces'[t].tokens = AddTokens(traces[t].tokens, new.tokens)
        BY <1>2, <4>1, MergeType DEF new
      <4>3. traces[t].tokens \in Maybe(Nat)
        BY <4>1 DEF TraceRows
      <4>4. Known(traces[t].tokens) \in Nat
        BY <4>3 DEF Known, Maybe
      <4> QED BY <2>0, <4>2, <4>3, <4>4, AddKnown
    <3>2. t \notin DOMAIN traces => traces'[t].tokens = new.tokens
      BY <1>2 DEF Insertion, new
    <3> QED BY <3>1, <3>2
  <2>2. Known(traces'[t].tokens) = TraceTokens(t)' \/ Unsettled(t)'
    <3>1. CASE \E i \in Of(b, t) : Content[b][i].tokens # NoValue
      BY <3>1, InsertCalls
    <3>2. CASE \A i \in Of(b, t) : Content[b][i].tokens = NoValue
      <4>1. new.tokens = NoValue /\ Known(new.tokens) = 0
        BY <2>0, <3>2 DEF Known
      <4>2. TraceTokens(t)' = TraceTokens(t) /\ (Unsettled(t) => Unsettled(t)')
        BY <3>2, InsertNoCalls
      <4>3. CASE t \in DOMAIN traces
        BY <2>1, <4>1, <4>2, <4>3 DEF TokensInv
      <4>4. CASE t \notin DOMAIN traces
        BY <1>2, <2>1, <4>1, <4>2, <4>4, InsertNew DEF Unsettled
      <4> QED BY <4>3, <4>4
    <3> QED BY <3>1, <3>2
  <2>3. Known(traces'[t].tokens) # 0 => Used(t)'
    <3>1. ASSUME NEW i \in Of(b, t), Content[b][i].tokens \notin {0, NoValue}
          PROVE  Used(t)'
      <4> DEFINE k == <<t, Content[b][i].id>>
      <4>1. k \in SpansOf(t)' /\ IsCopyOf(k, spans'[k], Content[b][i])
        BY ArrivedSpan
      <4> QED BY <3>1, <4>1 DEF IsCopyOf, Used, LLMSpans
    <3>2. t \in DOMAIN traces /\ Known(traces[t].tokens) # 0 => Used(t)'
      BY StillUsed DEF TokensInv
    <3>3. Known(new.tokens) \in Nat
      BY <2>0 DEF Known, Maybe
    <3> QED BY <2>0, <2>1, <3>1, <3>2, <3>3
  <2> QED BY <2>2, <2>3
<1> QED BY <1>1, <1>2

(* So is its cost. *)
LEMMA InsertCosts ==
  ASSUME SpansAreFinal, Inv, TableInv, CostsInv, NEW b \in Batches, Insertion(b)
  PROVE  CostsInv'
<1> SUFFICES ASSUME NEW t \in DOMAIN traces'
             PROVE  /\ Known(traces'[t].cost) = LLMCosts(t)' \/ Unsettled(t)' \/ Free(t)'
                    /\ Known(traces'[t].cost) # 0 => Used(t)'
  BY DEF CostsInv, Known
<1>1. CASE t \notin TracesOf(b)
  <2>1. t \in DOMAIN traces /\ traces'[t] = traces[t]
    BY <1>1 DEF Insertion
  <2> QED BY <1>1, <2>1, InsertOther, SameTraceSums DEF CostsInv
<1>2. CASE t \in TracesOf(b)
  <2>1. /\ t \in DOMAIN traces => traces'[t].cost = traces[t].cost
        /\ t \notin DOMAIN traces => traces'[t].cost = NoValue
    <3>1. CASE t \in DOMAIN traces
      <4>1. TraceRows(traces[t]) /\ traces'[t] = Merge(traces[t], RowOf(b, t))
        BY <1>2, <3>1 DEF TableInv, Insertion
      <4> QED BY <1>2, <3>1, <4>1, MergeType
    <3>2. CASE t \notin DOMAIN traces
      BY <1>2, <3>2, RowType DEF Insertion
    <3> QED BY <3>1, <3>2
  <2>2. Known(traces'[t].cost) = LLMCosts(t)' \/ Unsettled(t)' \/ Free(t)'
    <3>1. CASE \E i \in Of(b, t) : Content[b][i].tokens # NoValue
      BY <3>1, InsertCalls
    <3>2. CASE \A i \in Of(b, t) : Content[b][i].tokens = NoValue
      <4>1. /\ LLMCosts(t)' = LLMCosts(t)
            /\ Unsettled(t) => Unsettled(t)'
            /\ Free(t) => Free(t)'
        BY <3>2, InsertNoCalls
      <4>2. CASE t \in DOMAIN traces
        BY <2>1, <4>1, <4>2 DEF CostsInv
      <4>3. CASE t \notin DOMAIN traces
        BY <1>2, <2>1, <4>1, <4>3, InsertNew DEF Unsettled, Known
      <4> QED BY <4>2, <4>3
    <3> QED BY <3>1, <3>2
  <2>3. Known(traces'[t].cost) # 0 => Used(t)'
    BY <2>1, StillUsed DEF CostsInv, Known
  <2> QED BY <2>2, <2>3
<1> QED BY <1>1, <1>2

-----------------------------------------------------------------------------
(* One span costed: the trace is still being updated, others stay. *)
LEMMA CostSpanSums ==
  ASSUME NEW c \in busy.todo, CostedSpan(c)
  PROVE  /\ TokensInv => TokensInv'
         /\ CostsInv => CostsInv'
<1>1. traces' = traces /\ torn' = torn /\ busy.op = "cost" /\ busy'.op = "cost"
      /\ busy'.trace = busy.trace /\ c.key[1] = busy.trace
  BY DEF CostedSpan, LLMSpans, SpansOf
<1>2. ASSUME NEW t
      PROVE  /\ LLMSpans(t)' = LLMSpans(t) /\ TraceTokens(t)' = TraceTokens(t)
             /\ Used(t) => Used(t)'
  <2>1. LLMSpans(t)' = LLMSpans(t) /\ TraceTokens(t)' = TraceTokens(t)
    BY SameUse DEF CostedSpan
  <2> QED BY <2>1 DEF Used, CostedSpan, LLMSpans
<1>3. ASSUME NEW t, t # busy.trace
      PROVE  /\ LLMCosts(t)' = LLMCosts(t)
             /\ Unsettled(t) => Unsettled(t)'
             /\ Free(t) => Free(t)'
  <2>1. SameTrace(t)
    BY <1>1, <1>3 DEF SameTrace, CostedSpan, SpansOf
  <2> QED BY <1>1, <1>3, <2>1, SameTraceSums DEF Unsettled
<1>4. Unsettled(busy.trace)'
  BY <1>1 DEF Unsettled
<1>5. ASSUME TokensInv, NEW t \in DOMAIN traces'
      PROVE  /\ Known(traces'[t].tokens) = TraceTokens(t)' \/ Unsettled(t)'
             /\ Known(traces'[t].tokens) # 0 => Used(t)'
  BY <1>1, <1>2, <1>3, <1>4, <1>5 DEF TokensInv
<1>6. ASSUME CostsInv, NEW t \in DOMAIN traces'
      PROVE  /\ Known(traces'[t].cost) = LLMCosts(t)' \/ Unsettled(t)' \/ Free(t)'
             /\ Known(traces'[t].cost) # 0 => Used(t)'
  BY <1>1, <1>2, <1>3, <1>4, <1>6 DEF CostsInv
<1> QED BY <1>5, <1>6 DEF TokensInv, CostsInv, Known

(* Only tokens cost something, and a total of 0 is one of spans at 0. *)
LEMMA CostIsUse ==
  ASSUME Inv, TableInv, NEW t
  PROVE  /\ TraceTokens(t) # 0 <=> Used(t)
         /\ TraceCost(t) # 0 => Used(t)
         /\ TraceCost(t) = 0 => \A k \in LLMSpans(t) : SpanCost(spans[k]) = 0
<1>1. /\ IsFiniteSet(LLMSpans(t))
      /\ \A k \in LLMSpans(t) : spans[k].tokens \in Nat /\ SpanCost(spans[k]) \in Nat
  BY Totals DEF Inv, TableInv
<1>2. TraceTokens(t) # 0 <=> Used(t)
  <2> DEFINE f == [k \in LLMSpans(t) |-> spans[k].tokens]
  <2>1. \A k \in LLMSpans(t) : f[k] \in Nat /\ f[k] = spans[k].tokens
    BY <1>1
  <2>2. TraceTokens(t) = SumFunctionOnSet(f, LLMSpans(t))
    BY DEF TraceTokens, SumFunction
  <2> HIDE DEF f
  <2>3. TraceTokens(t) = 0 <=> \A k \in LLMSpans(t) : f[k] = 0
    BY <1>1, <2>1, <2>2, SumIsZero
  <2> QED BY <2>1, <2>3 DEF Used
<1>3. TraceCost(t) = 0 <=> \A k \in LLMSpans(t) : SpanCost(spans[k]) = 0
  <2> DEFINE f == [k \in LLMSpans(t) |-> SpanCost(spans[k])]
  <2>1. \A k \in LLMSpans(t) : f[k] \in Nat /\ f[k] = SpanCost(spans[k])
    BY <1>1
  <2>2. TraceCost(t) = SumFunctionOnSet(f, LLMSpans(t))
    BY DEF TraceCost, SumFunction
  <2> HIDE DEF f
  <2>3. TraceCost(t) = 0 <=> \A k \in LLMSpans(t) : f[k] = 0
    BY <1>1, <2>1, <2>2, SumIsZero
  <2> QED BY <2>1, <2>3
<1>4. ASSUME NEW k \in LLMSpans(t), spans[k].tokens = 0
      PROVE  SpanCost(spans[k]) = 0
  <2> DEFINE p == PriceOf(spans[k].model)
  <2>1. p = NoValue \/ p \in Nat
    BY DEF PriceOf, Priced, Inv, TypeInv, Maybe
  <2>2. SpanCost(spans[k]) = IF p = NoValue THEN 0 ELSE Rounded(0 * p)
    BY <1>4 DEF SpanCost
  <2> HIDE DEF p
  <2>3. p \in Nat => 0 * p = 0
    OBVIOUS
  <2> QED BY <2>1, <2>2, <2>3, RoundedNat
<1> QED BY <1>2, <1>3, <1>4 DEF Used

(* When every span of the trace is costed as planned, their costs add up   *)
(* to the total of the plan.                                              *)
LEMMA PlanCarriedOut ==
  ASSUME Inv, TableInv, PlanInv, busy.op = "cost", busy.todo = {}, ~Doubted(busy.trace)
  PROVE  /\ LLMCosts(busy.trace) = busy.total
         /\ \A k \in LLMSpans(busy.trace) : spans[k].cost = SpanCost(spans[k])
<1> DEFINE t == busy.trace
<1>0. \A k \in LLMSpans(t) : spans[k].cost = SpanCost(spans[k]) /\ SpanCost(spans[k]) \in Nat
  BY Totals DEF PlanInv, Inv, TableInv
<1>1. \A k \in LLMSpans(t) : Known(spans[k].cost) = SpanCost(spans[k])
  BY <1>0, NoValueAssumption DEF Known
<1>2. [k \in LLMSpans(t) |-> Known(spans[k].cost)] = [k \in LLMSpans(t) |-> SpanCost(spans[k])]
  BY <1>1
<1>3. LLMCosts(t) = TraceCost(t)
  BY <1>2 DEF LLMCosts, TraceCost
<1> QED BY <1>0, <1>3 DEF PlanInv

(* The last step of UpdateTraceCost sets the row right, unless one of the  *)
(* steps before it failed or nothing cost anything.                        *)
LEMMA CostTraceSums ==
  ASSUME Inv, TableInv, PlanInv, CostTrace
  PROVE  /\ TokensInv => TokensInv'
         /\ CostsInv => CostsInv'
<1> DEFINE u == busy.trace
<1>1. /\ DOMAIN traces' = DOMAIN traces
      /\ \A t \in DOMAIN traces : traces'[t] = IF t = u THEN CostedRow(traces[t]) ELSE traces[t]
      /\ torn' = torn
      /\ busy.op = "cost" /\ busy.todo = {} /\ spans' = spans
  BY DEF CostTrace
<1>2. \A t : SameTrace(t)
  BY <1>1 DEF SameTrace, SpansOf
<1>3. \A t \in DOMAIN traces \ {u} : Unsettled(t) => Unsettled(t)'
  BY <1>1, <1>2, SameTraceSums DEF Unsettled
<1>4. /\ busy.tokens = TraceTokens(u) /\ busy.total = TraceCost(u)
      /\ busy.tokens \in Nat /\ busy.total \in Nat
  BY <1>1, Totals DEF PlanInv, Inv, TableInv
<1>5. /\ busy.tokens # 0 <=> Used(u)
      /\ busy.total # 0 => Used(u)
  BY <1>4, CostIsUse
<1>6. \A n \in Nat : Known(n) = n
  BY NoValueAssumption DEF Known
<1>7. ASSUME TokensInv, u \in DOMAIN traces
      PROVE  /\ Known(traces'[u].tokens) = TraceTokens(u)
             /\ Known(traces'[u].tokens) # 0 => Used(u)
  <2>1. TraceRows(traces[u]) /\ (Known(traces[u].tokens) # 0 => Used(u))
    BY <1>7 DEF TableInv, TokensInv
  <2>2. traces'[u].tokens = IF ~NothingToCost \/ busy.tokens > 0 THEN busy.tokens
                                                                ELSE traces[u].tokens
    BY <1>1, <1>7, <2>1 DEF CostedRow, TraceRows
  <2> QED BY <1>4, <1>5, <1>6, <2>1, <2>2
<1>8. ASSUME CostsInv, u \in DOMAIN traces
      PROVE  /\ Known(traces'[u].cost) = LLMCosts(u) \/ u \in torn' \/ Free(u)
             /\ Known(traces'[u].cost) # 0 => Used(u)
  <2>1. TraceRows(traces[u]) /\ (Known(traces[u].cost) # 0 => Used(u))
    BY <1>8 DEF TableInv, CostsInv
  <2>2. traces'[u].cost = IF ~NothingToCost THEN busy.total ELSE traces[u].cost
    BY <1>1, <1>8, <2>1 DEF CostedRow, TraceRows
  <2>3. Known(traces'[u].cost) # 0 => Used(u)
    BY <1>4, <1>5, <1>6, <2>1, <2>2
  <2>4. ASSUME u \notin torn PROVE Known(traces'[u].cost) = LLMCosts(u) \/ Free(u)
    <3>1. /\ LLMCosts(u) = busy.total
          /\ \A k \in LLMSpans(u) : spans[k].cost = SpanCost(spans[k])
      BY <1>1, <1>8, <2>4, PlanCarriedOut DEF Doubted
    <3>2. CASE ~NothingToCost
      BY <1>4, <1>6, <2>2, <3>1, <3>2
    <3>3. CASE NothingToCost
      <4>1. busy.total = 0 /\ \A k \in LLMSpans(u) : spans[k].cost = 0
        BY <1>4, <3>1, <3>3, CostIsUse DEF NothingToCost
      <4>2. CASE LLMSpans(u) = {}
        <5>1. Known(traces[u].cost) = 0
          BY <2>1, <4>2 DEF Used
        <5> QED BY <2>2, <3>1, <3>3, <4>1, <5>1
      <4> QED BY <4>1, <4>2 DEF Free
    <3> QED BY <3>2, <3>3
  <2> QED BY <1>1, <2>3, <2>4
<1>9. ASSUME TokensInv, NEW t \in DOMAIN traces'
      PROVE  /\ Known(traces'[t].tokens) = TraceTokens(t)' \/ Unsettled(t)'
             /\ Known(traces'[t].tokens) # 0 => Used(t)'
  BY <1>1, <1>2, <1>3, <1>7, <1>9, SameTraceSums DEF TokensInv
<1>10. ASSUME CostsInv, NEW t \in DOMAIN traces'
       PROVE  /\ Known(traces'[t].cost) = LLMCosts(t)' \/ Unsettled(t)' \/ Free(t)'
              /\ Known(traces'[t].cost) # 0 => Used(t)'
  <2>1. CASE t = u
    BY <1>1, <1>2, <1>8, <1>10, <2>1, SameTraceSums DEF Unsettled
  <2>2. CASE t # u
    BY <1>1, <1>2, <1>3, <1>10, <2>2, SameTraceSums DEF CostsInv
  <2> QED BY <2>1, <2>2
<1> QED BY <1>9, <1>10 DEF TokensInv, CostsInv, Known

-----------------------------------------------------------------------------
(* The tables and the plan of a writer hold in every reachable state. *)
TablesInv == Inv /\ TableInv /\ PlanInv

(* No table holds anything at first. *)
LEMMA InitTables == Init => TablesInv /\ TokensInv /\ CostsInv /\ OwedInv
<1> SUFFICES ASSUME Init PROVE TablesInv /\ TokensInv /\ CostsInv /\ OwedInv
  OBVIOUS
<1>1. DOMAIN traces = {} /\ DOMAIN spans = {} /\ busy.op # "cost"
  BY DEF Init, Idle
<1>2. Uncosted = {}
  BY <1>1 DEF Uncosted
<1> QED BY <1>1, <1>2, InitInv, TableInit DEF TablesInv, PlanInv, TokensInv, CostsInv, OwedInv

(* One step keeps them. *)
LEMMA StepTables == TablesInv /\ [Next]_vars => TablesInv'
<1> SUFFICES ASSUME TablesInv, [Next]_vars PROVE TablesInv'
  OBVIOUS
<1>0. Inv /\ TableInv /\ PlanInv
  BY DEF TablesInv
<1>1. Inv'
  BY <1>0, StepInv
<1>2. ASSUME NEW b \in Batches, InsertSpans(b) PROVE TableInv' /\ PlanInv'
  <2>1. busy' = Idle
    BY <1>2 DEF InsertSpans
  <2> QED BY <1>0, <1>2, <2>1, InsertTables DEF PlanInv, Idle
<1>3. ASSUME CostSpan PROVE TableInv' /\ PlanInv'
  <2>1. PICK c \in busy.todo : CostedSpan(c)
    BY <1>0, <1>3, SpanCosted
  <2> QED BY <1>0, <1>3, <2>1, CostSpanTables, CostSpanPlan
<1>4. ASSUME CostTrace PROVE TableInv' /\ PlanInv'
  <2>1. busy' = Idle
    BY <1>4 DEF CostTrace
  <2> QED BY <1>0, <1>4, <2>1, CostTraceTables DEF PlanInv, Idle
<1>5. ASSUME QuietStep PROVE TableInv' /\ PlanInv'
  BY <1>0, <1>5, QuietTables, QuietPlan
<1> QED BY <1>0, <1>1, <1>2, <1>3, <1>4, <1>5, QuietSteps DEF TablesInv

(* The tables are tables of spans that were sent, in every reachable state. *)
LEMMA TablesInvariance == Spec => []TablesInv
<1>1. Init => TablesInv
  BY InitTables
<1> QED BY <1>1, StepTables, PTL DEF Spec

(* A span that arrives without a cost is owed one. *)
LEMMA OwedInserted ==
  ASSUME TablesInv, OwedInv, NEW b \in Batches, InsertSpans(b)
  PROVE  OwedInv'
<1> SUFFICES ASSUME NEW k \in Uncosted' PROVE jobs'[k[1]] > 0 \/ k[1] \in backlog \/ Doubted(k[1])'
  BY DEF InsertSpans, process, OwedInv
<1>1. Insertion(b) /\ phase = "up" /\ busy = Idle /\ torn' = torn
  BY Inserted DEF InsertSpans
<1>2. k[1] \in Traces /\ k \in DOMAIN spans'
  BY InsertPreserves DEF TablesInv, Inv, TypeInv, Uncosted
<1>3. jobs \in [Traces -> Nat]
  BY DEF TablesInv, Inv, TypeInv
<1>4. jobs'[k[1]] = IF k[1] \in TracesOf(b) THEN jobs[k[1]] + 1 ELSE jobs[k[1]]
  BY <1>2 DEF InsertSpans
<1>5. CASE k[1] \in TracesOf(b)
  BY <1>2, <1>3, <1>4, <1>5
<1>6. CASE k[1] \notin TracesOf(b)
  <2>1. k \notin KeysOf(b)
    BY <1>6 DEF TracesOf
  <2>2. k \in Uncosted
    BY <1>1, <1>2, <2>1 DEF Uncosted, Insertion
  <2>3. jobs[k[1]] > 0 \/ k[1] \in backlog \/ Doubted(k[1])
    BY <1>1, <2>2 DEF OwedInv, Idle
  <2>4. Doubted(k[1]) => Doubted(k[1])'
    BY <1>1, <1>6 DEF Doubted, Insertion
  <2> QED BY <1>4, <1>6, <2>3, <2>4
<1> QED BY <1>5, <1>6

(* An update that begins takes what it was counted for, one that fails to  *)
(* read leaves the row in doubt.                                           *)
LEMMA OwedBegun ==
  ASSUME TablesInv, OwedInv, NEW t \in Traces,
         \/ JobBegin(t) \/ BackfillBegin(t) \/ RecalcBegin(t)
         \/ JobFails(t) \/ BackfillFails(t) \/ RecalcFails(t)
  PROVE  OwedInv'
<1>1. /\ spans' = spans /\ traces' = traces /\ phase' = phase /\ busy = Idle
      /\ backlog \subseteq backlog' \cup {t}
      /\ \A u \in Traces \ {t} : jobs'[u] = jobs[u]
      /\ torn \subseteq torn' \cup {t}
  BY DEF JobBegin, JobFails, JobDue, BackfillBegin, BackfillFails, BackfillDue, RecalcBegin,
         RecalcFails, Begin, BeginFails, TornWith, tables, process, TablesInv, Inv, TypeInv
<1>2. \/ \E caller : busy' = CostPlan(t, caller)
      \/ Doubted(t)'
      \/ jobs' = jobs /\ backlog' = backlog /\ torn' = torn
  BY DEF JobBegin, JobFails, JobDue, BackfillBegin, BackfillFails, BackfillDue, RecalcBegin,
         RecalcFails, Begin, BeginFails, TornWith, Doubted, tables, process
<1> SUFFICES ASSUME NEW k \in Uncosted'
             PROVE  \/ phase' = "down" \/ jobs'[k[1]] > 0 \/ k[1] \in backlog'
                    \/ busy'.op = "cost" /\ \E c \in busy'.todo : c.key = k
                    \/ Doubted(k[1])'
  BY DEF OwedInv
<1>3. k \in Uncosted /\ k[1] \in Traces
  BY <1>1 DEF Uncosted, TablesInv, Inv, TypeInv
<1>4. phase = "down" \/ jobs[k[1]] > 0 \/ k[1] \in backlog \/ Doubted(k[1])
  BY <1>1, <1>3 DEF OwedInv, Idle
<1>5. CASE k[1] # t
  BY <1>1, <1>3, <1>4, <1>5 DEF Doubted
<1>6. CASE k[1] = t
  <2>1. ASSUME NEW caller, busy' = CostPlan(t, caller)
        PROVE  busy'.op = "cost" /\ \E c \in busy'.todo : c.key = k
    BY <1>3, <1>6, <2>1, PlanOfTrace DEF TablesInv, Inv
  <2> QED BY <1>1, <1>2, <1>4, <1>6, <2>1 DEF Doubted
<1> QED BY <1>5, <1>6

(* The steps of an update: a span that fails leaves its row in doubt.      *)
LEMMA OwedCosting ==
  ASSUME TablesInv, OwedInv, CostSpan \/ CostSpanFails \/ CostTrace \/ CostTraceFails
  PROVE  OwedInv'
<1>1. /\ DOMAIN traces' = DOMAIN traces /\ DOMAIN spans' = DOMAIN spans
      /\ phase' = phase /\ backlog' = backlog
      /\ jobs' = jobs /\ torn \subseteq torn' /\ busy.op = "cost"
  BY DEF CostSpan, CostSpanFails, CostTrace, CostTraceFails, TornWith, tables, process
<1> SUFFICES ASSUME NEW k \in Uncosted'
             PROVE  \/ phase = "down" \/ jobs[k[1]] > 0 \/ k[1] \in backlog
                    \/ busy'.op = "cost" /\ \E c \in busy'.todo : c.key = k
                    \/ Doubted(k[1])'
  BY <1>1 DEF OwedInv
<1>2. Doubted(k[1]) => Doubted(k[1])'
  BY <1>1 DEF Doubted
<1>3. CASE CostSpan
  <2>1. PICK c \in busy.todo : CostedSpan(c)
    BY <1>3, SpanCosted DEF TablesInv
  <2>2. c.key \in DOMAIN spans /\ spans'[c.key].cost \in Nat
    <3>1. c.key \in LLMSpans(busy.trace) /\ spans'[c.key].cost = SpanCost(spans[c.key])
      BY <2>1 DEF CostedSpan
    <3> QED BY <3>1, Totals DEF TablesInv, TableInv, Inv, LLMSpans, SpansOf
  <2>3. k # c.key /\ k \in Uncosted
    BY <1>1, <2>1, <2>2, NoValueAssumption DEF Uncosted, CostedSpan
  <2> QED BY <1>1, <1>2, <2>1, <2>3 DEF OwedInv, CostedSpan
<1>4. CASE CostSpanFails
  <2>1. PICK c \in busy.todo : busy' = [busy EXCEPT !.todo = @ \ {c}]
    BY <1>4 DEF CostSpanFails
  <2>2. busy'.op = "cost" /\ busy'.todo = busy.todo \ {c}
    BY <1>1, <2>1 DEF TablesInv, PlanInv
  <2>3. LeftInDoubt /\ k \in Uncosted
    BY <1>4 DEF CostSpanFails, TornWith, LeftInDoubt, Uncosted, tables
  <2>4. c.key[1] = busy.trace
    BY <1>1 DEF TablesInv, PlanInv, LLMSpans, SpansOf
  <2>5. CASE \E d \in busy.todo : d.key = k
    <3>1. PICK d \in busy.todo : d.key = k
      BY <2>5
    <3>2. CASE d = c
      BY <2>3, <2>4, <3>1, <3>2 DEF LeftInDoubt, Doubted
    <3>3. CASE d # c
      BY <2>2, <3>1, <3>3
    <3> QED BY <3>2, <3>3
  <2>6. CASE phase = "down" \/ jobs[k[1]] > 0 \/ k[1] \in backlog \/ Doubted(k[1])
    BY <1>2, <2>6
  <2> QED BY <1>1, <2>3, <2>5, <2>6 DEF OwedInv
<1>5. CASE CostTrace \/ CostTraceFails
  <2>1. k \in Uncosted /\ busy.todo = {}
    BY <1>5 DEF CostTrace, CostTraceFails, Uncosted, tables
  <2> QED BY <1>2, <2>1 DEF OwedInv
<1> QED BY <1>3, <1>4, <1>5

(* What deletes traces deletes their spans, or doubts them. *)
LEMMA OwedDeleted ==
  ASSUME TablesInv, OwedInv,
         \/ PurgeStep \/ PurgeFails \/ \E cutoff \in Cutoffs : PurgeByAge(cutoff)
         \/ \E ids \in SUBSET Traces : DeleteTraces(ids)
  PROVE  OwedInv'
<1>1. /\ phase' = phase /\ backlog' = backlog /\ jobs' = jobs
      /\ busy.op # "cost" /\ DOMAIN traces' \subseteq DOMAIN traces
      /\ DOMAIN spans' \subseteq DOMAIN spans /\ \A k \in DOMAIN spans' : spans'[k] = spans[k]
      /\ torn \cap DOMAIN traces' \subseteq torn'
  <2>1. CASE \E cutoff \in Cutoffs : PurgeByAge(cutoff)
    BY <2>1 DEF PurgeByAge, DeleteTraceRows, process, Idle
  <2>2. CASE PurgeByCount
    BY <2>2 DEF PurgeByCount, DeleteTraceRows, process
  <2>3. CASE PurgeOrphans
    BY <2>3 DEF PurgeOrphans, process, Idle
  <2>4. CASE \E ids \in SUBSET Traces : DeleteTraces(ids)
    BY <2>4 DEF DeleteTraces, DeleteTraceRows, process, Idle
  <2>5. CASE PurgeFails
    BY <2>5 DEF PurgeFails, process, tables
  <2> QED BY <2>1, <2>2, <2>3, <2>4, <2>5 DEF PurgeStep
<1>2. Uncosted' \subseteq Uncosted /\ \A t : Doubted(t) => Doubted(t)'
  BY <1>1 DEF Uncosted, Doubted
<1> QED BY <1>1, <1>2 DEF OwedInv

(* The rest: what stops an update half way leaves its row in doubt. *)
LEMMA OwedElse ==
  ASSUME TablesInv, OwedInv,
         \/ RecalcList \/ RecalcCancelled \/ Serve \/ Stop \/ Open \/ OpenFails
         \/ SeedStep \/ UNCHANGED vars
         \/ \E m \in Models : DeleteModelPricing(m) \/ \E p \in Prices : UpsertModelPricing(m, p)
  PROVE  OwedInv'
<1>1. spans' = spans /\ traces' = traces /\ Uncosted' = Uncosted
  BY DEF RecalcList, RecalcCancelled, Serve, Stop, Open, OpenFails, Opened, SeedStep, SeedModel,
         DeleteModelPricing, UpsertModelPricing, tables, vars, Uncosted
<1>2. CASE Stop
  BY <1>2 DEF Stop, OwedInv
<1>3. CASE Open
  BY <1>1, <1>3 DEF Open, OwedInv
<1>4. CASE OpenFails
  <2>1. \A k \in Uncosted : Doubted(k[1])'
    BY <1>1, <1>4 DEF OpenFails, TornWith, Doubted
  <2> QED BY <1>1, <2>1 DEF OwedInv
<1>5. CASE Serve
  BY <1>1, <1>5 DEF Serve, OwedInv, Doubted
<1>6. CASE RecalcCancelled
  <2>1. /\ jobs' = jobs /\ phase' = phase /\ backlog' = backlog /\ torn \subseteq torn'
        /\ \/ busy' = busy
           \/ busy.op = "cost" /\ LeftInDoubt
    BY <1>1, <1>6 DEF RecalcCancelled, process, CutOff, TornWith, LeftInDoubt, tables
  <2>2. busy.op = "cost" => \A c \in busy.todo : c.key[1] = busy.trace
    BY DEF TablesInv, PlanInv, LLMSpans, SpansOf
  <2>3. \A t : Doubted(t) => Doubted(t)'
    BY <1>1, <2>1 DEF Doubted
  <2>4. ASSUME NEW k \in Uncosted
        PROVE  \/ phase' = "down" \/ jobs'[k[1]] > 0 \/ k[1] \in backlog'
               \/ busy'.op = "cost" /\ \E c \in busy'.todo : c.key = k
               \/ Doubted(k[1])'
    <3>1. CASE busy' = busy
      BY <2>1, <2>3, <3>1 DEF OwedInv
    <3>2. ASSUME busy.op = "cost", LeftInDoubt, NEW c \in busy.todo, c.key = k
          PROVE  Doubted(k[1])'
      BY <2>2, <3>2 DEF LeftInDoubt, Doubted
    <3> QED BY <2>1, <2>3, <3>1, <3>2 DEF OwedInv
  <2> QED BY <1>1, <2>4 DEF OwedInv
<1>7. CASE RecalcList \/ SeedStep \/ UNCHANGED vars
           \/ \E m \in Models : \/ DeleteModelPricing(m)
                               \/ \E p \in Prices : UpsertModelPricing(m, p)
  <2>1. jobs' = jobs /\ phase' = phase /\ backlog' = backlog /\ torn' = torn /\ busy' = busy
    BY <1>7 DEF RecalcList, SeedStep, SeedModel, DeleteModelPricing, UpsertModelPricing,
                process, vars
  <2> QED BY <1>1, <2>1 DEF OwedInv, Doubted
<1> QED BY <1>2, <1>3, <1>4, <1>5, <1>6, <1>7

(* One step keeps what is owed. *)
LEMMA StepOwed == TablesInv /\ OwedInv /\ [Next]_vars => OwedInv'
<1> SUFFICES ASSUME TablesInv, OwedInv, [Next]_vars PROVE OwedInv'
  OBVIOUS
<1>1. CASE JobStep \/ BootStep \/ RecalcStep \/ ErrorStep
  BY <1>1, OwedBegun, OwedCosting, OwedDeleted, OwedElse
     DEF JobStep, BootStep, RecalcStep, ErrorStep
<1>2. CASE ApiStep
  BY <1>2, OwedDeleted, OwedElse DEF ApiStep
<1> QED
  BY <1>1, <1>2, OwedInserted, OwedCosting, OwedDeleted, OwedElse DEF Next, CostStep

(* What the rows say of tokens and costs is that of their spans, but for   *)
(* a trace that is to be updated yet, in every reachable state.            *)
SumsInv == TablesInv /\ TokensInv /\ CostsInv /\ OwedInv

(* One step keeps it. *)
LEMMA StepSums ==
  ASSUME SpansAreFinal
  PROVE  SumsInv /\ [Next]_vars => SumsInv'
<1> SUFFICES ASSUME SumsInv, [Next]_vars PROVE SumsInv'
  OBVIOUS
<1>0. Inv /\ TableInv /\ PlanInv /\ TokensInv /\ CostsInv /\ TablesInv /\ OwedInv
  BY DEF SumsInv, TablesInv
<1>1. TablesInv' /\ OwedInv'
  BY <1>0, StepTables, StepOwed
<1>2. ASSUME NEW b \in Batches, InsertSpans(b) PROVE TokensInv' /\ CostsInv'
  <2>1. Insertion(b)
    BY <1>2, Inserted
  <2> QED BY <1>0, <2>1, InsertTokens, InsertCosts
<1>3. ASSUME CostSpan PROVE TokensInv' /\ CostsInv'
  <2>1. PICK c \in busy.todo : CostedSpan(c)
    BY <1>0, <1>3, SpanCosted
  <2> QED BY <1>0, <2>1, CostSpanSums
<1>4. ASSUME CostTrace PROVE TokensInv' /\ CostsInv'
  BY <1>0, <1>4, CostTraceSums
<1>5. ASSUME QuietStep PROVE TokensInv' /\ CostsInv'
  BY <1>0, <1>5, QuietSums
<1> QED BY <1>0, <1>1, <1>2, <1>3, <1>4, <1>5, QuietSteps DEF SumsInv

(* Hence it holds in every reachable state. *)
LEMMA SumsInvariance ==
  ASSUME SpansAreFinal
  PROVE  Spec => []SumsInv
<1>1. Init => SumsInv
  BY InitTables DEF SumsInv
<1>2. SumsInv /\ [Next]_vars => SumsInv'
  BY StepSums
<1> QED BY <1>1, <1>2, PTL DEF Spec

-----------------------------------------------------------------------------
(* A trace that is settled owes nothing. *)
LEMMA SettledOwesNothing ==
  ASSUME TableInv, OwedInv, NEW t \in DOMAIN traces, Settled(t)
  PROVE  ~Unsettled(t)
<1>1. phase = "up" /\ busy = Idle /\ jobs[t] = 0 /\ t \notin torn /\ backlog = {}
  BY DEF Settled, TableInv
<1>2. \A k \in Uncosted : k[1] # t
  BY <1>1 DEF OwedInv, Doubted, Idle
<1> QED BY <1>1, <1>2 DEF Unsettled, Idle

(* The sums over all spans of a trace are those over its calls. *)
LEMMA SumsOfCalls ==
  ASSUME Inv, TableInv, NEW t
  PROVE  SpanTokens(t) = TraceTokens(t) /\ SpanCosts(t) = LLMCosts(t)
<1>1. /\ IsFiniteSet(SpansOf(t)) /\ IsFiniteSet(LLMSpans(t)) /\ LLMSpans(t) \in SUBSET SpansOf(t)
      /\ \A k \in SpansOf(t) : Known(spans[k].tokens) \in Nat /\ Known(spans[k].cost) \in Nat
      /\ \A k \in LLMSpans(t) : spans[k].tokens \in Nat
  BY Totals DEF Inv, TableInv
<1>2. \A k \in SpansOf(t) \ LLMSpans(t) : spans[k].tokens = NoValue /\ spans[k].cost = NoValue
  BY DEF LLMSpans, SpansOf, TableInv
<1>3. SpanTokens(t) = TraceTokens(t)
  <2> DEFINE f == [k \in SpansOf(t) |-> Known(spans[k].tokens)]
             g == [k \in LLMSpans(t) |-> spans[k].tokens]
  <2>1. \A k \in SpansOf(t) : f[k] \in Nat
    BY <1>1
  <2>2. \A k \in SpansOf(t) \ LLMSpans(t) : f[k] = 0
    BY <1>2 DEF Known
  <2>3. \A k \in LLMSpans(t) : f[k] = g[k]
    BY <1>1, NoValueAssumption DEF Known
  <2>4. /\ SpanTokens(t) = SumFunctionOnSet(f, SpansOf(t))
        /\ TraceTokens(t) = SumFunctionOnSet(g, LLMSpans(t))
    BY DEF SpanTokens, TraceTokens, SumFunction
  <2> HIDE DEF f, g
  <2>5. SumFunctionOnSet(f, SpansOf(t)) = SumFunctionOnSet(f, LLMSpans(t))
    BY <1>1, <2>1, <2>2, SumOfPart
  <2>6. SumFunctionOnSet(f, LLMSpans(t)) = SumFunctionOnSet(g, LLMSpans(t))
    BY <1>1, <2>3, SumSame
  <2> QED BY <2>4, <2>5, <2>6
<1>4. SpanCosts(t) = LLMCosts(t)
  <2> DEFINE f == [k \in SpansOf(t) |-> Known(spans[k].cost)]
             g == [k \in LLMSpans(t) |-> Known(spans[k].cost)]
  <2>1. \A k \in SpansOf(t) : f[k] \in Nat
    BY <1>1
  <2>2. \A k \in SpansOf(t) \ LLMSpans(t) : f[k] = 0
    BY <1>2 DEF Known
  <2>3. \A k \in LLMSpans(t) : f[k] = g[k]
    BY <1>1
  <2>4. /\ SpanCosts(t) = SumFunctionOnSet(f, SpansOf(t))
        /\ LLMCosts(t) = SumFunctionOnSet(g, LLMSpans(t))
    BY DEF SpanCosts, LLMCosts, SumFunction
  <2> HIDE DEF f, g
  <2>5. SumFunctionOnSet(f, SpansOf(t)) = SumFunctionOnSet(f, LLMSpans(t))
    BY <1>1, <2>1, <2>2, SumOfPart
  <2>6. SumFunctionOnSet(f, LLMSpans(t)) = SumFunctionOnSet(g, LLMSpans(t))
    BY <1>1, <2>3, SumSame
  <2> QED BY <2>4, <2>5, <2>6
<1> QED BY <1>3, <1>4

(* Once no update of a trace is to come and the last one was complete, the *)
(* row says the tokens of its spans, whatever was sent again, purged,      *)
(* priced anew or interrupted before: UpdateTraceCost corrects what the    *)
(* merge counted twice, and one is always owed to a trace with spans that  *)
(* arrived.                                                                *)
THEOREM TokensSettled ==
  ASSUME SpansAreFinal
  PROVE  Spec => []TokensSettle
<1>1. SumsInv => TokensSettle
  <2> SUFFICES ASSUME SumsInv, NEW t \in DOMAIN traces, Settled(t)
               PROVE  Known(traces[t].tokens) = SpanTokens(t)
    BY DEF TokensSettle
  <2>1. Inv /\ TableInv /\ TokensInv /\ OwedInv
    BY DEF SumsInv, TablesInv
  <2> QED BY <2>1, SettledOwesNothing, SumsOfCalls DEF TokensInv
<1> QED BY <1>1, SumsInvariance, PTL

(* Then the row says the cost of its spans too, so that the overview of    *)
(* the cost page, which adds up rows, and the breakdown by model, which    *)
(* adds up spans, agree; but for a trace whose calls all cost nothing,     *)
(* whose row UpdateTraceCost leaves alone.                                 *)
THEOREM CostsReconciled ==
  ASSUME SpansAreFinal
  PROVE  Spec => []CostsReconcile
<1>1. SumsInv => CostsReconcile
  <2> SUFFICES ASSUME SumsInv, NEW t \in DOMAIN traces, Settled(t)
               PROVE  Known(traces[t].cost) = SpanCosts(t) \/ Free(t)
    BY DEF CostsReconcile
  <2>1. Inv /\ TableInv /\ CostsInv /\ OwedInv
    BY DEF SumsInv, TablesInv
  <2> QED BY <2>1, SettledOwesNothing, SumsOfCalls DEF CostsInv
<1> QED BY <1>1, SumsInvariance, PTL

-----------------------------------------------------------------------------
(* The root span a row names is stored, after any step. *)
LEMMA RootStays ==
  ASSUME SpansAreFinal, TablesInv, RootInv, [Next]_vars
  PROVE  RootInv'
<1> DEFINE Root(t) == traces'[t].root # NoValue =>
                        /\ <<t, traces'[t].root>> \in DOMAIN spans'
                        /\ spans'[<<t, traces'[t].root>>].root
<1> SUFFICES ASSUME NEW t \in DOMAIN traces' PROVE Root(t)
  BY DEF RootInv
<1>0. Inv /\ TableInv /\ PlanInv /\ \A u, r : <<u, r>>[1] = u
  BY DEF TablesInv
<1>1. ASSUME NEW b \in Batches, Insertion(b) PROVE Root(t)
  <2>1. CASE t \in TracesOf(b)
    <3> DEFINE new == RowOf(b, t)
    <3>1. new.root # NoValue => \E i \in Of(b, t) : new.root = Content[b][i].id /\ Content[b][i].root
      BY <2>1, RowType
    <3>2. traces'[t].root = new.root
      <4>1. t \in DOMAIN traces => TraceRows(traces[t])
        BY <1>0 DEF TableInv
      <4> QED BY <1>1, <2>1, <4>1, MergeType DEF Insertion
    <3> HIDE DEF new
    <3>3. ASSUME NEW i \in Of(b, t), new.root = Content[b][i].id, Content[b][i].root
          PROVE  Root(t)
      <4>1. /\ <<t, Content[b][i].id>> \in SpansOf(t)'
            /\ IsCopyOf(<<t, Content[b][i].id>>, spans'[<<t, Content[b][i].id>>], Content[b][i])
        BY <1>1, ArrivedSpan
      <4> QED BY <3>2, <3>3, <4>1 DEF IsCopyOf, SpansOf
    <3> QED BY <3>1, <3>2, <3>3
  <2>2. CASE t \notin TracesOf(b)
    <3>1. t \in DOMAIN traces /\ traces'[t] = traces[t]
      BY <1>1, <2>2 DEF Insertion
    <3> QED BY <1>0, <1>1, <3>1, Resent DEF RootInv
  <2> QED BY <2>1, <2>2
<1>2. ASSUME CostSpan PROVE Root(t)
  <2>1. PICK c \in busy.todo : CostedSpan(c)
    BY <1>0, <1>2, SpanCosted
  <2>2. traces' = traces /\ DOMAIN spans' = DOMAIN spans
    BY <2>1 DEF CostedSpan
  <2>3. \A k \in DOMAIN spans : spans'[k].root = spans[k].root
    BY <2>1 DEF CostedSpan, SpansOf
  <2> QED BY <2>2, <2>3 DEF RootInv
<1>3. ASSUME CostTrace PROVE Root(t)
  <2>1. t \in DOMAIN traces /\ spans' = spans /\ traces'[t].root = traces[t].root
    BY <1>0, <1>3 DEF CostTrace, CostedRow, TableInv, TraceRows
  <2> QED BY <2>1 DEF RootInv
<1>4. ASSUME QuietStep PROVE Root(t)
  BY <1>0, <1>4 DEF QuietStep, RootInv
<1> QED BY <1>0, <1>1, <1>2, <1>3, <1>4, QuietSteps, Inserted

(* The spans of a trace after a batch: those from before, which stay as    *)
(* they are but for the cost, and those that arrived.                      *)
LEMMA SpansAfter ==
  ASSUME SpansAreFinal, TableInv, NEW b \in Batches, Insertion(b), NEW t
  PROVE  /\ SpansOf(t)' = SpansOf(t) \cup {<<t, Content[b][i].id>> : i \in Of(b, t)}
         /\ \A k \in SpansOf(t) : /\ spans'[k].start = spans[k].start
                                  /\ spans'[k].end = spans[k].end
         /\ \A i \in Of(b, t) : LET k == <<t, Content[b][i].id>>
                                IN  /\ spans'[k].start = Content[b][i].start
                                    /\ spans'[k].end = Content[b][i].end
<1>1. \A k \in SpansOf(t) : /\ k \in SpansOf(t)'
                            /\ spans'[k].start = spans[k].start
                            /\ spans'[k].end = spans[k].end
  BY Resent DEF SpansOf
<1>2. \A i \in Of(b, t) : LET k == <<t, Content[b][i].id>>
                          IN  /\ k \in SpansOf(t)'
                              /\ spans'[k].start = Content[b][i].start
                              /\ spans'[k].end = Content[b][i].end
  BY ArrivedSpan DEF IsCopyOf
<1>3. ASSUME NEW k \in SpansOf(t)', k \notin SpansOf(t)
      PROVE  \E i \in Of(b, t) : k = <<t, Content[b][i].id>>
  <2>1. k \in KeysOf(b) /\ k[1] = t
    BY <1>3 DEF SpansOf, Insertion
  <2> QED BY <2>1, OfTrace
<1> QED BY <1>1, <1>2, <1>3

(* A row covers what its trace and the batch covered. *)
LEMMA RangeInserted ==
  ASSUME SpansAreFinal, StartsAreSet, Inv, TableInv, RangeInv, faults = 0,
         NEW b \in Batches, Insertion(b), NEW t \in TracesOf(b)
  PROVE  Covers(traces[t], t)'
<1> DEFINE ss == Content[b]
           I == Of(b, t)
           new == RowOf(b, t)
           key(i) == <<t, ss[i].id>>
<1>1. /\ SpansOf(t)' = SpansOf(t) \cup {key(i) : i \in I}
      /\ \A k \in SpansOf(t) : spans'[k].start = spans[k].start /\ spans'[k].end = spans[k].end
      /\ \A i \in I : spans'[key(i)].start = ss[i].start /\ spans'[key(i)].end = ss[i].end
  BY SpansAfter
<1>2. /\ TraceRows(new)
      /\ new.start \in {ss[i].start : i \in I} /\ \A i \in I : new.start <= ss[i].start
      /\ new.end \in {ss[i].end : i \in I} /\ \A i \in I : new.end >= ss[i].end
  BY RowType
<1>3. /\ \A i \in I : ss[i].start \in Nat /\ ss[i].end \in Nat
      /\ \A k \in SpansOf(t) : spans[k].start \in Nat /\ spans[k].end \in Nat
                               /\ spans[k].start # 0
  <2>1. \A i \in I : ss[i].start \in Nat /\ ss[i].end \in Nat
    BY OfTrace, ContentAssumption
  <2>2. ASSUME NEW k \in SpansOf(t)
        PROVE  spans[k].start \in Nat /\ spans[k].end \in Nat /\ spans[k].start # 0
    <3>1. PICK c \in Batches : \E j \in DOMAIN Content[c] : IsCopyOf(k, spans[k], Content[c][j])
      BY DEF TableInv, SpansOf
    <3>2. PICK j \in DOMAIN Content[c] : IsCopyOf(k, spans[k], Content[c][j])
      BY <3>1
    <3> QED BY <3>2, ContentAssumption DEF StartsAreSet, IsCopyOf
  <2> QED BY <2>1, <2>2
<1>4. CASE t \notin DOMAIN traces
  <2>1. SpansOf(t) = {}
    BY <1>4, InsertNew DEF RangeInv
  <2>2. traces'[t] = new
    BY <1>4 DEF Insertion
  <2>3. SpansOf(t)' = {key(i) : i \in I}
    BY <1>1, <2>1
  <2> HIDE DEF ss, I, new, key
  <2>4. /\ \A i \in I : key(i) \in SpansOf(t)'
        /\ \A k \in SpansOf(t)' : \E i \in I : k = key(i)
    BY <2>3
  <2>5. \A k \in SpansOf(t)' : new.start <= spans'[k].start /\ spans'[k].end <= new.end
    BY <1>1, <1>2, <1>3, <2>4 DEF TraceRows
  <2>6. PICK i \in I : ss[i].start = new.start
    BY <1>2
  <2>7. PICK j \in I : ss[j].end = new.end
    BY <1>2
  <2> QED BY <1>1, <2>2, <2>4, <2>5, <2>6, <2>7 DEF Covers
<1>5. CASE t \in DOMAIN traces
  <2> DEFINE old == traces[t]
  <2>1. TraceRows(old) /\ Covers(old, t)
    BY <1>5 DEF TableInv, RangeInv
  <2>2. /\ traces'[t].start = IF old.start < new.start /\ old.start # 0 THEN old.start
                                                                         ELSE new.start
        /\ traces'[t].end = IF old.end > new.end THEN old.end ELSE new.end
    BY <1>5, <2>1, MergeType DEF Insertion
  <2>3. old.start # 0
    BY <1>3, <2>1 DEF Covers
  <2> DEFINE row == traces'[t]
  <2>4. /\ row.start = IF old.start < new.start THEN old.start ELSE new.start
        /\ row.end = IF old.end > new.end THEN old.end ELSE new.end
        /\ old.start \in Nat /\ new.start \in Nat /\ old.end \in Nat /\ new.end \in Nat
    BY <1>2, <2>1, <2>2, <2>3 DEF TraceRows
  <2> HIDE DEF ss, I, new, old, row, key
  <2>5. /\ row.start <= old.start /\ row.start <= new.start
        /\ row.start = old.start \/ row.start = new.start
        /\ row.end >= old.end /\ row.end >= new.end
        /\ row.end = old.end \/ row.end = new.end
        /\ row.start \in Nat /\ row.end \in Nat
    BY <2>4
  <2>6. /\ \A k \in SpansOf(t)' : row.start <= spans'[k].start /\ spans'[k].end <= row.end
    BY <1>1, <1>2, <1>3, <2>1, <2>4, <2>5 DEF Covers
  <2>7. \E k \in SpansOf(t)' : spans'[k].start = row.start
    <3>1. PICK i \in I : ss[i].start = new.start
      BY <1>2
    <3>2. PICK k \in SpansOf(t) : spans[k].start = old.start
      BY <2>1 DEF Covers
    <3>3. key(i) \in SpansOf(t)' /\ k \in SpansOf(t)'
      BY <1>1
    <3> QED BY <1>1, <2>5, <3>1, <3>2, <3>3
  <2>8. \E k \in SpansOf(t)' : spans'[k].end = row.end
    <3>1. PICK i \in I : ss[i].end = new.end
      BY <1>2
    <3>2. PICK k \in SpansOf(t) : spans[k].end = old.end
      BY <2>1 DEF Covers
    <3>3. key(i) \in SpansOf(t)' /\ k \in SpansOf(t)'
      BY <1>1
    <3> QED BY <1>1, <2>5, <3>1, <3>2, <3>3
  <2> QED BY <2>6, <2>7, <2>8 DEF Covers, row
<1> QED BY <1>4, <1>5

(* The range of a row is that of its spans, after any step but a stop. *)
LEMMA RangeStays ==
  ASSUME SpansAreFinal, StartsAreSet, TablesInv, RangeInv, [Next]_vars
  PROVE  RangeInv'
<1> SUFFICES ASSUME faults' = 0
             PROVE  torn' = {} /\ \A t \in DOMAIN traces' : Covers(traces[t], t)'
  BY DEF RangeInv, Covers
<1>0. Inv /\ TableInv /\ PlanInv /\ faults \in Nat
  BY DEF TablesInv, TableInv
<1> DEFINE Fits == torn' = {} /\ \A t \in DOMAIN traces' : Covers(traces[t], t)'
<1>1. ASSUME NEW b \in Batches, Insertion(b) PROVE Fits
  <2>1. faults = 0 /\ torn' = torn
    BY <1>1 DEF Insertion
  <2>2. ASSUME NEW t \in DOMAIN traces', t \notin TracesOf(b) PROVE Covers(traces[t], t)'
    <3>1. t \in DOMAIN traces /\ traces'[t] = traces[t] /\ SameTrace(t)
      BY <1>1, <2>2, InsertOther DEF Insertion
    <3> QED BY <2>1, <3>1 DEF RangeInv, Covers, SameTrace
  <2> QED BY <1>0, <1>1, <2>1, <2>2, RangeInserted DEF RangeInv
<1>2. ASSUME CostSpan PROVE Fits
  <2>1. PICK c \in busy.todo : CostedSpan(c)
    BY <1>0, <1>2, SpanCosted
  <2> QED BY <2>1 DEF CostedSpan, RangeInv, Covers
<1>3. ASSUME CostTrace PROVE Fits
  <2>1. /\ DOMAIN traces' = DOMAIN traces /\ spans' = spans /\ torn' = torn
        /\ faults' = faults
        /\ \A t \in DOMAIN traces : /\ traces'[t].start = traces[t].start
                                    /\ traces'[t].end = traces[t].end
    BY <1>0, <1>3 DEF CostTrace, CostedRow, TableInv, TraceRows
  <2> QED BY <2>1 DEF RangeInv, Covers, SpansOf
<1>4. ASSUME QuietStep PROVE Fits
  <2>1. faults = 0 /\ torn' \subseteq torn
    BY <1>0, <1>4 DEF QuietStep
  <2>2. \A t \in DOMAIN traces' : t \in DOMAIN traces /\ traces'[t] = traces[t] /\ SameTrace(t)
    BY <1>4, QuietTrace
  <2> QED BY <2>1, <2>2 DEF RangeInv, Covers, SameTrace
<1> QED BY <1>0, <1>1, <1>2, <1>3, <1>4, QuietSteps, Inserted

-----------------------------------------------------------------------------
(* How often the spans of a trace were sent: less than a uint16 counts,    *)
(* and a batch adds its own.                                               *)
LEMMA SentFits ==
  ASSUME CountsFit, NEW t \in Traces, NEW often \in [Batches -> 0 .. MaxSends]
  PROVE  LET n == SumFunction([b \in Batches |-> often[b] * Cardinality(Of(b, t))])
         IN  n \in Nat /\ n < CountModulus
<1> DEFINE f == [b \in Batches |-> often[b] * Cardinality(Of(b, t))]
           g == [b \in Batches |-> MaxSends * Cardinality(Of(b, t))]
<1>1. IsFiniteSet(Batches) /\ SumFunctionOnSet(g, Batches) < CountModulus
  BY DEF CountsFit, SumFunction
<1>2. ASSUME NEW b \in Batches PROVE f[b] \in Nat /\ g[b] \in Nat /\ f[b] <= g[b]
  <2>1. Cardinality(Of(b, t)) \in Nat
    BY OfTrace, FS_CardinalityType
  <2>2. often[b] \in Nat /\ MaxSends \in Nat /\ often[b] <= MaxSends
    BY BoundAssumption
  <2>3. \A x, y, n \in Nat : x <= y => x * n \in Nat /\ y * n \in Nat /\ x * n <= y * n
    OBVIOUS
  <2> QED BY <2>1, <2>2, <2>3
<1>3. SumFunction(f) = SumFunctionOnSet(f, Batches)
  BY DEF SumFunction
<1> SUFFICES SumFunction(f) \in Nat /\ SumFunction(f) < CountModulus
  OBVIOUS
<1> HIDE DEF f, g
<1>4. SumFunctionOnSet(f, Batches) \in Nat /\ SumFunctionOnSet(g, Batches) \in Nat
  BY <1>1, <1>2, SumType
<1>5. SumFunctionOnSet(f, Batches) <= SumFunctionOnSet(g, Batches)
  BY <1>1, <1>2, SumIsMonotone
<1> QED BY <1>1, <1>3, <1>4, <1>5, CountModulusAssumption

(* A batch that is sent once more counts once more. *)
LEMMA SentOnceMore ==
  ASSUME CountsFit, sent \in [Batches -> 0 .. MaxSends], NEW b \in Batches,
         sent[b] < MaxSends, sent' = [sent EXCEPT ![b] = @ + 1], NEW t \in Traces
  PROVE  Sent(t)' = Sent(t) + Cardinality(Of(b, t))
<1> DEFINE f == [c \in Batches |-> sent[c] * Cardinality(Of(c, t))]
           g == [c \in Batches |-> sent'[c] * Cardinality(Of(c, t))]
           R == Batches \ {b}
<1>1. IsFiniteSet(Batches) /\ IsFiniteSet(R)
  BY FS_RemoveElement DEF CountsFit
<1>2. ASSUME NEW c \in Batches
      PROVE  /\ f[c] \in Nat /\ g[c] \in Nat
             /\ c # b => g[c] = f[c]
             /\ c = b => g[c] = f[c] + Cardinality(Of(c, t))
  <2>1. Cardinality(Of(c, t)) \in Nat
    BY OfTrace, FS_CardinalityType
  <2>2. sent[c] \in Nat /\ sent'[c] = IF c = b THEN sent[c] + 1 ELSE sent[c]
    BY BoundAssumption
  <2>3. \A x, n \in Nat : x * n \in Nat /\ (x + 1) * n = x * n + n /\ (x + 1) * n \in Nat
    OBVIOUS
  <2> QED BY <2>1, <2>2, <2>3
<1>3. Sent(t) = SumFunctionOnSet(f, Batches) /\ Sent(t)' = SumFunctionOnSet(g, Batches)
  BY DEF Sent, SumFunction
<1> HIDE DEF f, g
<1>4. /\ SumFunctionOnSet(f, Batches) = f[b] + SumFunctionOnSet(f, R)
      /\ SumFunctionOnSet(g, Batches) = g[b] + SumFunctionOnSet(g, R)
  BY <1>1, <1>2, SumWithout
<1>5. SumFunctionOnSet(f, R) = SumFunctionOnSet(g, R) /\ SumFunctionOnSet(f, R) \in Nat
  BY <1>1, <1>2, SumSame, SumType
<1>6. Cardinality(Of(b, t)) \in Nat
  BY OfTrace, FS_CardinalityType
<1> QED BY <1>2, <1>3, <1>4, <1>5, <1>6

(* The keys a batch brings to a trace are not more than its spans. *)
LEMMA KeysCounted ==
  ASSUME SpansAreFinal, Inv, TableInv, NEW b \in Batches, Insertion(b), NEW t
  PROVE  /\ Cardinality(SpansOf(t)) \in Nat /\ Cardinality(SpansOf(t)') \in Nat
         /\ Cardinality(Of(b, t)) \in Nat
         /\ Cardinality(SpansOf(t)') <= Cardinality(SpansOf(t)) + Cardinality(Of(b, t))
<1> DEFINE I == Of(b, t)
           key == [i \in I |-> <<t, Content[b][i].id>>]
           New == {key[i] : i \in I}
<1>1. IsFiniteSet(I) /\ IsFiniteSet(SpansOf(t))
  BY OfTrace, Totals DEF Inv, TableInv
<1>2. IsFiniteSet(New) /\ Cardinality(New) <= Cardinality(I)
  BY <1>1, FiniteImage
<1>3. SpansOf(t)' = SpansOf(t) \cup New
  BY SpansAfter
<1> HIDE DEF I, New
<1>4. /\ Cardinality(SpansOf(t)) \in Nat /\ Cardinality(New) \in Nat /\ Cardinality(I) \in Nat
      /\ Cardinality(SpansOf(t) \cap New) \in Nat
  BY <1>1, <1>2, FS_CardinalityType, FS_Intersection
<1>5. /\ IsFiniteSet(SpansOf(t) \cup New)
      /\ Cardinality(SpansOf(t) \cup New)
           = Cardinality(SpansOf(t)) + Cardinality(New) - Cardinality(SpansOf(t) \cap New)
  BY <1>1, <1>2, FS_Union
<1>6. Cardinality(SpansOf(t)') \in Nat
  BY <1>3, <1>5, FS_CardinalityType
<1> QED BY <1>2, <1>3, <1>4, <1>5, <1>6 DEF I

(* The count of a row does not wrap, and is not less than its spans are. *)
LEMMA CountInserted ==
  ASSUME SpansAreFinal, CountsFit, Inv, TableInv, RangeInv, CountInv, faults = 0,
         NEW b \in Batches, Insertion(b), NEW t \in DOMAIN traces'
  PROVE  Cardinality(SpansOf(t)') <= traces'[t].count /\ traces'[t].count <= Sent(t)'
<1>0. /\ sent \in [Batches -> 0 .. MaxSends] /\ sent' \in [Batches -> 0 .. MaxSends]
      /\ sent[b] < MaxSends /\ sent' = [sent EXCEPT ![b] = @ + 1] /\ t \in Traces
  <2>1. /\ sent \in [Batches -> 0 .. MaxSends] /\ sent[b] < MaxSends
        /\ sent' = [sent EXCEPT ![b] = @ + 1]
    BY DEF TableInv, Insertion
  <2>2. sent[b] + 1 \in 0 .. MaxSends
    BY <2>1, BoundAssumption
  <2>3. t \in Traces
    BY OfTrace DEF TableInv, Insertion
  <2> QED BY <2>1, <2>2, <2>3
<1>1. /\ Sent(t)' = Sent(t) + Cardinality(Of(b, t))
      /\ Sent(t) \in Nat /\ Sent(t)' \in Nat /\ Sent(t)' < CountModulus
  <2>1. Sent(t) \in Nat
    BY <1>0, SentFits DEF Sent
  <2>2. Sent(t)' \in Nat /\ Sent(t)' < CountModulus
    BY <1>0, SentFits DEF Sent
  <2> QED BY <1>0, <2>1, <2>2, SentOnceMore
<1>2. /\ Cardinality(SpansOf(t)) \in Nat /\ Cardinality(SpansOf(t)') \in Nat
      /\ Cardinality(Of(b, t)) \in Nat
      /\ Cardinality(SpansOf(t)') <= Cardinality(SpansOf(t)) + Cardinality(Of(b, t))
  BY KeysCounted
<1>3. ASSUME t \in DOMAIN traces
      PROVE  /\ Cardinality(SpansOf(t)) <= traces[t].count /\ traces[t].count <= Sent(t)
             /\ traces[t].count \in Nat /\ TraceRows(traces[t])
  BY <1>3 DEF CountInv, TableInv, TraceRows
<1>4. \A n \in Nat : n < CountModulus => n % CountModulus = n
  BY CountModulusAssumption
<1>5. CASE t \notin TracesOf(b)
  <2>1. t \in DOMAIN traces /\ traces'[t] = traces[t] /\ SpansOf(t)' = SpansOf(t)
    BY <1>5, InsertOther DEF Insertion, SameTrace
  <2> QED BY <1>1, <1>2, <1>3, <2>1
<1>6. CASE t \in TracesOf(b) /\ t \in DOMAIN traces
  <2>1. /\ RowOf(b, t).count = Cardinality(Of(b, t)) % CountModulus
        /\ traces'[t].count = (RowOf(b, t).count + traces[t].count) % CountModulus
    BY <1>3, <1>6, RowType, MergeType DEF Insertion
  <2>2. Cardinality(Of(b, t)) < CountModulus
    BY <1>1, <1>2, CountModulusAssumption
  <2>3. RowOf(b, t).count = Cardinality(Of(b, t))
    BY <1>2, <1>4, <2>1, <2>2
  <2>4. /\ Cardinality(Of(b, t)) + traces[t].count \in Nat
        /\ Cardinality(Of(b, t)) + traces[t].count <= Sent(t)'
        /\ Cardinality(Of(b, t)) + traces[t].count < CountModulus
    BY <1>1, <1>2, <1>3, <1>6, CountModulusAssumption
  <2>5. traces'[t].count = Cardinality(Of(b, t)) + traces[t].count
    BY <1>4, <2>1, <2>3, <2>4
  <2> QED BY <1>2, <1>3, <1>6, <2>4, <2>5
<1>7. CASE t \in TracesOf(b) /\ t \notin DOMAIN traces
  <2>1. traces'[t].count = Cardinality(Of(b, t)) % CountModulus
    BY <1>7, RowType DEF Insertion
  <2>2. Cardinality(Of(b, t)) < CountModulus /\ Cardinality(Of(b, t)) <= Sent(t)'
    BY <1>1, <1>2, CountModulusAssumption
  <2>3. traces'[t].count = Cardinality(Of(b, t))
    BY <1>2, <1>4, <2>1, <2>2
  <2>4. Cardinality(SpansOf(t)) = 0
    <3>1. SpansOf(t) = {}
      BY <1>7, InsertNew DEF RangeInv
    <3> QED BY <3>1, FS_EmptySet
  <2> QED BY <1>2, <2>2, <2>3, <2>4
<1> QED BY <1>5, <1>6, <1>7

(* Any step but a stop leaves it so. *)
LEMMA CountStays ==
  ASSUME SpansAreFinal, CountsFit, TablesInv, RangeInv, CountInv, [Next]_vars
  PROVE  CountInv'
<1> DEFINE Counts(t) == Cardinality(SpansOf(t)') <= traces'[t].count /\ traces'[t].count <= Sent(t)'
<1> SUFFICES ASSUME faults' = 0, NEW t \in DOMAIN traces' PROVE Counts(t)
  BY DEF CountInv
<1>0. Inv /\ TableInv /\ PlanInv /\ faults \in Nat
  BY DEF TablesInv, TableInv
<1>1. ASSUME NEW b \in Batches, Insertion(b) PROVE Counts(t)
  <2>1. faults = 0
    BY <1>1 DEF Insertion
  <2> QED BY <1>0, <1>1, <2>1, CountInserted
<1>2. ASSUME faults = 0, SpansOf(t)' = SpansOf(t), sent' = sent,
             t \in DOMAIN traces, traces'[t].count = traces[t].count
      PROVE  Counts(t)
  <2>1. Sent(t)' = Sent(t)
    BY <1>2 DEF Sent
  <2> QED BY <1>2, <2>1 DEF CountInv
<1>3. ASSUME CostSpan PROVE Counts(t)
  <2>1. PICK c \in busy.todo : CostedSpan(c)
    BY <1>0, <1>3, SpanCosted
  <2> QED BY <1>2, <2>1 DEF CostedSpan
<1>4. ASSUME CostTrace PROVE Counts(t)
  <2>1. /\ t \in DOMAIN traces /\ spans' = spans /\ faults' = faults /\ sent' = sent
        /\ traces'[t].count = traces[t].count
    BY <1>0, <1>4 DEF CostTrace, CostedRow, TableInv, TraceRows
  <2> QED BY <1>2, <2>1 DEF SpansOf
<1>5. ASSUME QuietStep PROVE Counts(t)
  <2>1. faults = 0 /\ sent' = sent
    BY <1>0, <1>5 DEF QuietStep
  <2> QED BY <1>2, <1>5, <2>1, QuietTrace DEF SameTrace
<1> QED BY <1>0, <1>1, <1>3, <1>4, <1>5, QuietSteps, Inserted

(* The row of a trace fits its spans: its root is a root that is stored,   *)
(* it covers the range of the spans exactly and counts every one, as long  *)
(* as nothing was cut off, whatever was sent again or purged.              *)
THEOREM RowsFit ==
  ASSUME SpansAreFinal, StartsAreSet, CountsFit
  PROVE  Spec => []RowFitsSpans
<1> DEFINE RowsInv == TablesInv /\ RootInv /\ RangeInv /\ CountInv
<1>1. Init => RowsInv
  <2> SUFFICES ASSUME Init PROVE RowsInv
    OBVIOUS
  <2>1. DOMAIN traces = {} /\ torn = {}
    BY DEF Init
  <2> QED BY <2>1, InitTables DEF RootInv, RangeInv, CountInv
<1>2. RowsInv /\ [Next]_vars => RowsInv'
  BY StepTables, RootStays, RangeStays, CountStays
<1>3. RowsInv => RowFitsSpans
  <2> SUFFICES ASSUME RowsInv PROVE RowFitsSpans
    OBVIOUS
  <2>1. ASSUME NEW t \in DOMAIN traces, faults = 0
        PROVE  /\ traces[t].start = Min({spans[k].start : k \in SpansOf(t)})
               /\ traces[t].end = Max({spans[k].end : k \in SpansOf(t)})
               /\ traces[t].count >= Cardinality(SpansOf(t))
    <3> DEFINE S == {spans[k].start : k \in SpansOf(t)}
               E == {spans[k].end : k \in SpansOf(t)}
    <3>1. /\ Covers(traces[t], t) /\ Inv /\ TraceRows(traces[t])
          /\ Cardinality(SpansOf(t)) <= traces[t].count
          /\ IsFiniteSet(SpansOf(t))
      <4>1. Inv /\ TableInv /\ RangeInv /\ CountInv
        BY DEF TablesInv
      <4>2. /\ Covers(traces[t], t) /\ TraceRows(traces[t])
            /\ Cardinality(SpansOf(t)) <= traces[t].count
        BY <2>1, <4>1 DEF RangeInv, CountInv, TableInv
      <4>3. IsFiniteSet(SpansOf(t))
        BY <4>1, Totals DEF Inv, TableInv
      <4> QED BY <4>1, <4>2, <4>3
    <3>2. S \in SUBSET Nat /\ E \in SUBSET Nat
      BY <3>1 DEF Inv, TypeInv, SpanRows, SpansOf
    <3>3. traces[t].start \in S /\ \A x \in S : traces[t].start <= x
      BY <3>1 DEF Covers
    <3>4. traces[t].end \in E /\ \A x \in E : x <= traces[t].end
      BY <3>1 DEF Covers
    <3>5. Cardinality(SpansOf(t)) \in Nat /\ traces[t].count \in Nat /\ traces[t].end \in Nat
      BY <3>1, FS_CardinalityType DEF TraceRows
    <3> HIDE DEF S, E
    <3>6. Min(S) \in S /\ \A x \in S : Min(S) <= x
      BY <3>2, <3>3, MinInSet
    <3>7. Max(E) \in E /\ \A x \in E : x <= Max(E)
      BY <3>2, <3>4, <3>5, MaxInSet
    <3>8. traces[t].start = Min(S)
      <4>1. traces[t].start \in Nat /\ Min(S) \in Nat
        BY <3>2, <3>3, <3>6
      <4> QED BY <3>3, <3>6, <4>1
    <3>9. traces[t].end = Max(E)
      <4>1. traces[t].end \in Nat /\ Max(E) \in Nat
        BY <3>2, <3>4, <3>7
      <4> QED BY <3>4, <3>7, <4>1
    <3> QED BY <3>1, <3>5, <3>8, <3>9 DEF S, E
  <2> QED BY <2>1 DEF RowFitsSpans, RootInv
<1> HIDE DEF RowsInv
<1> QED BY <1>1, <1>2, <1>3, PTL DEF Spec
=============================================================================
