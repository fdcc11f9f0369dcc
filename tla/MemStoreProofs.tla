--------------------------- MODULE MemStoreProofs ---------------------------
(***************************************************************************)
(* The properties of the in-memory store, for any batches, models,         *)
(* configurations, keys, queries and bounds.                               *)
(*                                                                         *)
(* SettingsSurvive is inductive: whatever writes the file to its end sets  *)
(* the promise to what it wrote, and what breaks it off says so in `cut`.  *)
(*                                                                         *)
(* RowIsAggregate: `Tells` is a row that says of some positions what the   *)
(* aggregate would.  A span (SingleTells), the loop over a batch           *)
(* (LoopIsAggregate) and the merge (JoinedTells) make such rows, and they  *)
(* stay so when positions are renumbered (TellsRenumbered), which is what  *)
(* a purge or a deletion does.  The SQLite store's merge makes such a row  *)
(* too, but for what it takes from the later batch (AnyCutIsTheWhole).     *)
(*                                                                         *)
(* CostSummaryAddsUp: `CostsFit` couples the cost of a row with that of    *)
(* its spans; sums over the traces, over their spans and over the keys of  *)
(* the spans are then one sum in three orders.                             *)
(*                                                                         *)
(* StoresAgree follows from what these invariants say of the rows.  A      *)
(* WHERE clause and a loop select the same (ClauseIs), LIMIT and a slice   *)
(* cut the same page (SamePage), the loop over the traces of a session     *)
(* adds up what GROUP BY does (SameSums), and one page after another is    *)
(* the list (PagesShowAll).                                                *)
(*                                                                         *)
(* The computations of Computations.tla: a behaviour of InputSpec only     *)
(* puts items together (InputFits), so each property is a fact about any   *)
(* input.  RowsAreRead is AnyCutIsTheWhole again; ContextIsTheMainAgents   *)
(* walks the parent chain of a span (Chain); SpellingNeverMatters compares *)
(* the first key that counts under two spellings; StatsAreAlwaysExact      *)
(* follows the two loops over the tool calls step by step (RetriedNext,    *)
(* LoopStepIsRight) and counts the calls tool by tool (CallsCount).        *)
(***************************************************************************)
EXTENDS MemStore, Computations, FoldLemmas, FunctionTheorems, TLAPS

(* A file written to its end holds the settings it was given. *)
LEMMA WrittenNext ==
  ASSUME NEW s, file' = Written(s)
  PROVE  Contents' = Written(s).settings
  BY DEF Written, Contents

(* A call that saves leaves a file that agrees with its answer: written,   *)
(* as it was, or torn.                                                     *)
LEMMA SaveKeepsPromise ==
  ASSUME NEW s, SettingsSurvive, Save(s)
  PROVE  SettingsSurvive'
<1>1. CASE file' = Written(s) /\ promised' = Written(s).settings
  BY <1>1, WrittenNext DEF SettingsSurvive
<1>2. CASE UNCHANGED <<file, promised, cut>>
  BY <1>2 DEF SettingsSurvive, Contents
<1>3. CASE cut' = TRUE
  BY <1>3 DEF SettingsSurvive
<1> QED BY <1>1, <1>2, <1>3 DEF Save

(* So does any change of the settings, saved or interrupted. *)
LEMMA ChangeKeepsPromise ==
  ASSUME NEW s, SettingsSurvive, Change(s)
  PROVE  SettingsSurvive'
  BY SaveKeepsPromise DEF Change, Interrupted, SettingsSurvive

(* In the in-memory store memstore.json holds, after any calls, failed     *)
(* writes, crashes and restarts, what the last call that succeeded left,   *)
(* unless a write was cut off since (writeJSONLocked and its callers).     *)
THEOREM SettingsAlwaysSurvive == Spec => []SettingsSurvive
<1>1. Init => SettingsSurvive
  BY DEF Init, SettingsSurvive, Contents, Missing
<1>2. SettingsSurvive /\ [Next]_vars => SettingsSurvive'
  <2> SUFFICES ASSUME SettingsSurvive, [Next]_vars
               PROVE  SettingsSurvive'
    OBVIOUS
  <2> DEFINE Same == UNCHANGED <<file, promised, cut>>
  <2>0. Same => SettingsSurvive'
    BY DEF SettingsSurvive, Contents
  <2>1. ASSUME NEW b \in Batches, InsertSpans(b) PROVE SettingsSurvive'
    BY <2>0, <2>1 DEF InsertSpans
  <2>2. ASSUME NEW ls \in LogBatches, InsertLogs(ls) PROVE SettingsSurvive'
    BY <2>0, <2>2 DEF InsertLogs
  <2>3. ASSUME NEW t \in DOMAIN traces, UpdateTraceCost(t) PROVE SettingsSurvive'
    BY <2>0, <2>3 DEF UpdateTraceCost
  <2>4. ASSUME NEW cutoff \in Cutoffs, PurgeLogs(cutoff) PROVE SettingsSurvive'
    BY <2>0, <2>4 DEF PurgeLogs
  <2>5. ASSUME NEW cutoff \in Cutoffs, NEW n \in Counts, Purge(cutoff, n)
        PROVE  SettingsSurvive'
    BY <2>0, <2>5 DEF Purge
  <2>6. ASSUME NEW ids, DeleteTraces(ids) PROVE SettingsSurvive'
    BY <2>6, SaveKeepsPromise DEF DeleteTraces, Interrupted, SettingsSurvive
  <2>7. ASSUME NEW m, DeleteModelPricing(m) PROVE SettingsSurvive'
    BY <2>7, ChangeKeepsPromise DEF DeleteModelPricing
  <2>8. ASSUME NEW m, NEW p, UpsertModelPricing(m, p) PROVE SettingsSurvive'
    BY <2>8, ChangeKeepsPromise DEF UpsertModelPricing
  <2>9. ASSUME NEW id, DeleteLLMConfig(id) PROVE SettingsSurvive'
    BY <2>9, ChangeKeepsPromise DEF DeleteLLMConfig
  <2>10. ASSUME NEW id, NEW c, CreateLLMConfig(id, c) PROVE SettingsSurvive'
    BY <2>10, ChangeKeepsPromise DEF CreateLLMConfig
  <2>11. ASSUME NEW id, NEW c, UpdateLLMConfig(id, c) PROVE SettingsSurvive'
    BY <2>11, ChangeKeepsPromise DEF UpdateLLMConfig
  <2>12. ASSUME NEW t, UpsertDiagnosisResult(t) PROVE SettingsSurvive'
    BY <2>12, ChangeKeepsPromise DEF UpsertDiagnosisResult
  <2>13. CASE Open
    BY <2>0, <2>13 DEF Open
  <2>14. CASE Close
    <3>1. file' = Written(settings) /\ promised' = Written(settings).settings
      BY <2>14 DEF Close
    <3> QED BY <3>1, WrittenNext DEF SettingsSurvive
  <2>15. CASE Crash
    BY <2>0, <2>15 DEF Crash
  <2>16. CASE UNCHANGED vars
    BY <2>0, <2>16 DEF vars
  <2> QED
    BY <2>1, <2>2, <2>3, <2>4, <2>5, <2>6, <2>7, <2>8, <2>9, <2>10, <2>11, <2>12,
       <2>13, <2>14, <2>15, <2>16 DEF Next
<1> QED BY <1>1, <1>2, PTL DEF Spec

-----------------------------------------------------------------------------
(* What a row tells of the spans at the positions I, without the operators *)
(* Max and Min.                                                            *)
RootIs(r, ss, I) ==
  IF Roots(ss, I) = {} THEN r = NoValue
  ELSE \E m \in Roots(ss, I) : r = ss[m].id /\ \A i \in Roots(ss, I) : i <= m
SessionIs(r, ss, I) ==
  IF SessionRoots(ss, I) = {} THEN r = NoValue
  ELSE \E m \in SessionRoots(ss, I) :
         r = ss[m].session /\ \A i \in SessionRoots(ss, I) : i <= m
FirstIs(r, ss, I) == \E m \in I : r = ss[m].id /\ \A i \in I : m <= i
StatusIs(r, ss, I) == IF Roots(ss, I) = {} THEN FirstIs(r, ss, I) ELSE RootIs(r, ss, I)
StartIs(r, ss, I) == (\E i \in I : r = ss[i].start) /\ \A i \in I : r <= ss[i].start
EndIs(r, ss, I) == (\E i \in I : r = ss[i].end) /\ \A i \in I : ss[i].end <= r

Tells(row, ss, I) ==
  /\ RootIs(row.root, ss, I) /\ RootIs(row.rootName, ss, I)
  /\ StatusIs(row.status, ss, I) /\ SessionIs(row.session, ss, I)
  /\ row.count = Cardinality(I) % CountModulus
  /\ StartIs(row.start, ss, I) /\ EndIs(row.end, ss, I)
  /\ row.tokens = TokensOf(ss, I)

(* The duration, by the first span that ends last. *)
LastsAs(d, ss, I) ==
  \E last \in I, s \in Nat :
    /\ \A i \in I : ss[i].end <= ss[last].end /\ (ss[i].end = ss[last].end => last <= i)
    /\ StartIs(s, ss, {i \in I : i <= last})
    /\ d = ss[last].end - s

(* Positions of spans. *)
Places(ss, I) == IsFiniteSet(I) /\ I \subseteq Nat /\ \A i \in I : IsSpan(ss[i])

(* Each of these relations is the operator of TraceAggregate. *)
LEMMA RootRelation ==
  ASSUME NEW ss, NEW I, Places(ss, I)
  PROVE  \A r : RootIs(r, ss, I) <=> r = RootOf(ss, I)
<1> DEFINE R == Roots(ss, I)
<1>1. R \subseteq Nat /\ IsFiniteSet(R)
  BY FS_Subset DEF Places, Roots
<1> HIDE DEF R
<1>2. CASE R = {}
  BY <1>2 DEF RootIs, RootOf, R
<1>3. CASE R # {}
  <2>1. Max(R) \in R /\ \A i \in R : i <= Max(R)
    BY <1>1, <1>3, FiniteMax
  <2>2. \A m \in R : (\A i \in R : i <= m) => m = Max(R)
    BY <1>1, MaxIs
  <2>3. RootOf(ss, I) = ss[Max(R)].id
    BY <1>3 DEF RootOf, R
  <2>4. \A r : RootIs(r, ss, I) <=> \E m \in R : r = ss[m].id /\ \A i \in R : i <= m
    BY <1>3 DEF RootIs, R
  <2> QED BY <2>1, <2>2, <2>3, <2>4
<1> QED BY <1>2, <1>3

(* SessionIs says what SessionOf computes: the last root's that has one. *)
LEMMA SessionRelation ==
  ASSUME NEW ss, NEW I, Places(ss, I)
  PROVE  \A r : SessionIs(r, ss, I) <=> r = SessionOf(ss, I)
<1> DEFINE R == SessionRoots(ss, I)
<1>1. R \subseteq Nat /\ IsFiniteSet(R)
  BY FS_Subset DEF Places, SessionRoots, Roots
<1> HIDE DEF R
<1>2. CASE R = {}
  BY <1>2 DEF SessionIs, SessionOf, R
<1>3. CASE R # {}
  <2>1. Max(R) \in R /\ \A i \in R : i <= Max(R)
    BY <1>1, <1>3, FiniteMax
  <2>2. \A m \in R : (\A i \in R : i <= m) => m = Max(R)
    BY <1>1, MaxIs
  <2>3. SessionOf(ss, I) = ss[Max(R)].session
    BY <1>3 DEF SessionOf, R
  <2>4. \A r : SessionIs(r, ss, I) <=> \E m \in R : r = ss[m].session /\ \A i \in R : i <= m
    BY <1>3 DEF SessionIs, R
  <2> QED BY <2>1, <2>2, <2>3, <2>4
<1> QED BY <1>2, <1>3

StatusOn(ss, I) == IF Roots(ss, I) = {} THEN ss[Min(I)].id ELSE RootOf(ss, I)

(* StatusIs says what the aggregate does: last root, or first span. *)
LEMMA StatusRelation ==
  ASSUME NEW ss, NEW I, Places(ss, I), I # {}
  PROVE  \A r : StatusIs(r, ss, I) <=> r = StatusOn(ss, I)
<1>1. Min(I) \in I /\ \A i \in I : Min(I) <= i
  BY MinInSet DEF Places
<1>2. \A m \in I : (\A i \in I : m <= i) => m = Min(I)
  BY MinIs DEF Places
<1>3. \A r : FirstIs(r, ss, I) <=> r = ss[Min(I)].id
  BY <1>1, <1>2 DEF FirstIs
<1> QED BY <1>3, RootRelation DEF StatusIs, StatusOn

(* StartIs says that it is the earliest start. *)
LEMMA StartRelation ==
  ASSUME NEW ss, NEW I, Places(ss, I), I # {}
  PROVE  \A r : StartIs(r, ss, I) <=> r = Min(Starts(ss, I))
<1> DEFINE S == Starts(ss, I)
<1>1. S \in SUBSET Nat /\ S # {}
  BY DEF Starts, Places, IsSpan
<1>2. \A r : StartIs(r, ss, I) <=> r \in S /\ \A s \in S : r <= s
  BY DEF StartIs, Starts
<1> HIDE DEF S
<1>3. Min(S) \in S /\ \A s \in S : Min(S) <= s
  BY <1>1, MinInSet
<1>4. \A r \in S : (\A s \in S : r <= s) => r = Min(S)
  BY <1>1, MinIs
<1> QED BY <1>2, <1>3, <1>4 DEF S

(* EndIs says that it is the latest end. *)
LEMMA EndRelation ==
  ASSUME NEW ss, NEW I, Places(ss, I), I # {}
  PROVE  \A r : EndIs(r, ss, I) <=> r = Max(Ends(ss, I))
<1> DEFINE S == Ends(ss, I)
<1>1. S \in SUBSET Nat /\ S # {}
  BY DEF Ends, Places, IsSpan
<1>2. \A r : EndIs(r, ss, I) <=> r \in S /\ \A s \in S : s <= r
  BY DEF EndIs, Ends
<1>3. IsFiniteSet(S)
  <2> DEFINE f == [i \in I |-> ss[i].end]
  <2>1. S = {f[i] : i \in I}
    BY DEF Ends
  <2> HIDE DEF f, S
  <2>2. IsFiniteSet(I)
    BY DEF Places
  <2> QED BY <2>1, <2>2, FiniteImage
<1> HIDE DEF S
<1>4. Max(S) \in S /\ \A s \in S : s <= Max(S)
  BY <1>1, <1>3, FiniteMax
<1>5. \A r \in S : (\A s \in S : s <= r) => r = Max(S)
  BY <1>1, MaxIs
<1> QED BY <1>2, <1>4, <1>5 DEF S

(* A row tells of spans what their aggregate does. *)
LEMMA TellsAggregate ==
  ASSUME NEW row, NEW ss, NEW I, Places(ss, I), I # {}
  PROVE  Tells(row, ss, I) <=>
           LET whole == AggregateAt(ss, I)
           IN  \A f \in {"root", "rootName", "status", "session", "count", "start", "end",
                         "tokens"} : row[f] = whole[f]
<1>1. Tells(row, ss, I) <=>
        /\ row.root = RootOf(ss, I) /\ row.rootName = RootOf(ss, I)
        /\ row.status = StatusOn(ss, I) /\ row.session = SessionOf(ss, I)
        /\ row.count = Cardinality(I) % CountModulus
        /\ row.start = Min(Starts(ss, I)) /\ row.end = Max(Ends(ss, I))
        /\ row.tokens = TokensOf(ss, I)
  BY RootRelation, StatusRelation, SessionRelation, StartRelation, EndRelation DEF Tells
<1> DEFINE whole == AggregateAt(ss, I)
<1>2. /\ whole.root = RootOf(ss, I) /\ whole.rootName = RootOf(ss, I)
      /\ whole.status = StatusOn(ss, I) /\ whole.session = SessionOf(ss, I)
      /\ whole.count = Cardinality(I) % CountModulus
      /\ whole.start = Min(Starts(ss, I)) /\ whole.end = Max(Ends(ss, I))
      /\ whole.tokens = TokensOf(ss, I)
  BY DEF AggregateAt, StatusOn
<1> HIDE DEF whole
<1> QED BY <1>1, <1>2 DEF whole

-----------------------------------------------------------------------------
(* The tokens, as a sum in which none counts zero. *)
Amount(ss, I) == [i \in I |-> IF ss[i].tokens = NoValue THEN 0 ELSE ss[i].tokens]

(* Where there is an amount or none. *)
HasAmounts(ss, I) == IsFiniteSet(I) /\ \A i \in I : ss[i].tokens \in Nat \cup {NoValue}
LEMMA PlacesHaveAmounts ==
  ASSUME NEW ss, NEW I, Places(ss, I)
  PROVE  HasAmounts(ss, I)
BY DEF Places, IsSpan, HasAmounts

(* The tokens of a trace are the sum of the amounts, or none. *)
LEMMA TokensAsSum ==
  ASSUME NEW ss, NEW I, HasAmounts(ss, I), NEW f,
         \A i \in I : f[i] = IF ss[i].tokens = NoValue THEN 0 ELSE ss[i].tokens
  PROVE  TokensOf(ss, I) = IF Counted(ss, I) = {} THEN NoValue
                                                  ELSE SumFunctionOnSet(f, I)
<1> DEFINE C == Counted(ss, I)
           g == [i \in C |-> ss[i].tokens]
<1>1. C \in SUBSET I /\ IsFiniteSet(C) /\ IsFiniteSet(I)
  BY FS_Subset DEF HasAmounts, Counted
<1>2. SumFunction(g) = SumFunctionOnSet(g, C)
  BY DEF SumFunction, FoldFunction, SumFunctionOnSet
<1>3. \A i \in C : g[i] = f[i]
  BY DEF Counted
<1>4. /\ \A i \in I : f[i] \in Nat
      /\ \A i \in I \ C : f[i] = 0
  <2>1. \A i \in I : ss[i].tokens \in Nat \/ ss[i].tokens = NoValue
    BY DEF HasAmounts
  <2>2. \A i \in I : i \notin C => ss[i].tokens = NoValue
    BY DEF Counted
  <2> HIDE DEF C, g
  <2> QED BY <2>1, <2>2
<1>5. TokensOf(ss, I) = IF C = {} THEN NoValue ELSE SumFunction(g)
  BY DEF TokensOf
<1> HIDE DEF C, g
<1>6. SumFunctionOnSet(g, C) = SumFunctionOnSet(f, C)
  BY <1>1, <1>3, SumSame
<1>7. SumFunctionOnSet(f, I) = SumFunctionOnSet(f, C)
  BY <1>1, <1>4, SumOfPart
<1> QED BY <1>2, <1>5, <1>6, <1>7 DEF C

(* The tokens of two parts are those of the parts, added as the code adds.  *)
LEMMA TokensAdd ==
  ASSUME NEW ss, NEW I, NEW J, I \cap J = {}, HasAmounts(ss, I), HasAmounts(ss, J)
  PROVE  /\ TokensOf(ss, I \cup J) = AddTokens(TokensOf(ss, I), TokensOf(ss, J))
         /\ TokensOf(ss, I) \in Nat \cup {NoValue}
<1> DEFINE f == Amount(ss, I \cup J)
           S(T) == SumFunctionOnSet(f, T)
<1>1. /\ IsFiniteSet(I) /\ IsFiniteSet(J) /\ IsFiniteSet(I \cup J)
      /\ HasAmounts(ss, I \cup J)
  BY FS_Union DEF HasAmounts
<1>2. \A i \in I \cup J : /\ f[i] = IF ss[i].tokens = NoValue THEN 0 ELSE ss[i].tokens
                         /\ f[i] \in Nat
  BY <1>1, NoValueAssumption DEF Amount, HasAmounts
<1> HIDE DEF f
<1>3. /\ TokensOf(ss, I) = IF Counted(ss, I) = {} THEN NoValue ELSE S(I)
      /\ TokensOf(ss, J) = IF Counted(ss, J) = {} THEN NoValue ELSE S(J)
      /\ TokensOf(ss, I \cup J) = IF Counted(ss, I \cup J) = {} THEN NoValue ELSE S(I \cup J)
  BY <1>1, <1>2, TokensAsSum
<1>4. S(I \cup J) = S(I) + S(J)
  BY <1>1, <1>2, SumOfUnion
<1>5. S(I) \in Nat /\ S(J) \in Nat
  BY <1>1, <1>2, SumType
<1>6. Counted(ss, I \cup J) = Counted(ss, I) \cup Counted(ss, J)
  BY DEF Counted
<1>7. Counted(ss, I) = {} => S(I) = 0
  <2>1. Counted(ss, I) = {} => \A i \in I : f[i] = 0
    BY <1>2 DEF Counted
  <2> QED BY <1>1, <1>2, <2>1, SumIsZero
<1>8. Counted(ss, J) = {} => S(J) = 0
  <2>1. Counted(ss, J) = {} => \A i \in J : f[i] = 0
    BY <1>2 DEF Counted
  <2> QED BY <1>1, <1>2, <2>1, SumIsZero
<1> HIDE DEF S
<1>9. TokensOf(ss, I) \in Nat \cup {NoValue}
  BY <1>3, <1>5
<1>10. S(I) # NoValue /\ S(J) # NoValue
  BY <1>5, NoValueAssumption
<1>11. CASE Counted(ss, I) = {}
  <2>1. S(I \cup J) = S(J)
    BY <1>4, <1>5, <1>7, <1>11
  <2> QED BY <1>3, <1>6, <1>9, <1>10, <1>11, <2>1 DEF AddTokens
<1>12. CASE Counted(ss, I) # {} /\ Counted(ss, J) = {}
  <2>1. S(I \cup J) = S(I)
    BY <1>4, <1>5, <1>8, <1>12
  <2>2. Counted(ss, I \cup J) # {}
    BY <1>6, <1>12
  <2> QED BY <1>3, <1>9, <1>10, <1>12, <2>1, <2>2 DEF AddTokens
<1>13. CASE Counted(ss, I) # {} /\ Counted(ss, J) # {}
  <2>1. Counted(ss, I \cup J) # {}
    BY <1>6, <1>13
  <2> QED BY <1>3, <1>4, <1>9, <1>10, <1>13, <2>1 DEF AddTokens
<1> QED BY <1>11, <1>12, <1>13

(* h runs through the positions I of ss as J are run through in fs, and    *)
(* what is there is alike.                                                 *)
Alike(a, b) ==
  /\ a.id = b.id /\ a.root = b.root /\ a.start = b.start /\ a.end = b.end
  /\ a.tokens = b.tokens /\ a.session = b.session /\ a.trace = b.trace /\ a.model = b.model
Renumbers(h, fs, J, ss, I) ==
  /\ h \in [J -> I] /\ \A i \in I : \E j \in J : h[j] = i
  /\ \A j, k \in J : j < k => h[j] < h[k]
  /\ \A j \in J : Alike(fs[j], ss[h[j]])

(* The last of P and the last of Q, if h takes P to Q, and in order. *)
EndsAt(P, m) == \A i \in P : i <= m
InOrder(h, J, P, I, Q) ==
  /\ \A j \in J : h[j] \in I
  /\ \A i \in I : \E j \in J : h[j] = i
  /\ \A j, k \in J : j <= k <=> h[j] <= h[k]
  /\ P \subseteq J /\ Q \subseteq I
  /\ \A j \in J : j \in P <=> h[j] \in Q
LEMMA LastRenumbered ==
  ASSUME NEW h, NEW J, NEW P, NEW I, NEW Q, InOrder(h, J, P, I, Q)
  PROVE  /\ P = {} <=> Q = {}
         /\ \A m \in P : h[m] \in Q /\ (EndsAt(P, m) <=> EndsAt(Q, h[m]))
         /\ \A q \in Q : \E m \in P : h[m] = q
<1> USE DEF InOrder
<1>1. \A q \in Q : \E m \in P : h[m] = q
  OBVIOUS
<1>2. P = {} <=> Q = {}
  BY <1>1
<1>3. ASSUME NEW m \in P
      PROVE  h[m] \in Q /\ (EndsAt(P, m) <=> EndsAt(Q, h[m]))
  <2>1. ASSUME \A i \in P : i <= m, NEW q \in Q PROVE q <= h[m]
    BY <1>1, <2>1
  <2>2. ASSUME \A i \in Q : i <= h[m], NEW i \in P PROVE i <= m
    BY <2>2
  <2> QED BY <2>1, <2>2 DEF EndsAt
<1> QED BY <1>1, <1>2, <1>3

(* A row tells of both the same. *)
LEMMA TellsRenumbered ==
  ASSUME NEW ss, NEW I, Places(ss, I), NEW fs, NEW J \in SUBSET Nat, NEW h,
         Renumbers(h, fs, J, ss, I)
  PROVE  /\ Places(fs, J)
         /\ \A row : Tells(row, fs, J) <=> Tells(row, ss, I)
<1> USE DEF Renumbers
<1>1. /\ \A j, k \in J : h[j] = h[k] => j = k
      /\ \A j, k \in J : j <= k <=> h[j] <= h[k]
  <2> SUFFICES ASSUME NEW j \in J, NEW k \in J
               PROVE  (h[j] = h[k] => j = k) /\ (j <= k <=> h[j] <= h[k])
    OBVIOUS
  <2>1. j \in Nat /\ k \in Nat /\ h[j] \in Nat /\ h[k] \in Nat
    BY DEF Places
  <2>2. (j < k => h[j] < h[k]) /\ (k < j => h[k] < h[j])
    OBVIOUS
  <2> QED BY <2>1, <2>2
<1>2. IsFiniteSet(J) /\ Cardinality(J) = Cardinality(I)
  <2>1. h \in Bijection(J, I)
    BY <1>1 DEF Bijection, Injection, Surjection, IsInjective
  <2>2. ExistsBijection(I, J)
    BY <2>1, Fun_ExistsBijSymmetric DEF ExistsBijection
  <2>3. IsFiniteSet(I)
    BY DEF Places
  <2> QED BY <2>2, <2>3, FS_Bijection
<1>3. Places(fs, J)
  <2>1. ASSUME NEW j \in J PROVE IsSpan(fs[j])
    <3>1. h[j] \in I /\ Alike(fs[j], ss[h[j]])
      OBVIOUS
    <3>2. IsSpan(ss[h[j]])
      BY <3>1 DEF Places
    <3> QED BY <3>1, <3>2 DEF IsSpan, Alike
  <2> QED BY <1>2, <2>1 DEF Places
<1>4. TokensOf(fs, J) = TokensOf(ss, I)
  <2> DEFINE f == Amount(ss, I)
             g == Amount(fs, J)
  <2>1. TokensOf(ss, I) = IF Counted(ss, I) = {} THEN NoValue ELSE SumFunctionOnSet(f, I)
    BY TokensAsSum, PlacesHaveAmounts DEF Amount
  <2>2. TokensOf(fs, J) = IF Counted(fs, J) = {} THEN NoValue ELSE SumFunctionOnSet(g, J)
    BY <1>3, TokensAsSum, PlacesHaveAmounts DEF Amount
  <2>3. I = {h[j] : j \in J}
    OBVIOUS
  <2>4. \A j \in J : f[h[j]] \in Nat /\ g[j] = f[h[j]]
    BY NoValueAssumption DEF Amount, Places, IsSpan, Alike
  <2> HIDE DEF f, g
  <2>5. SumFunctionOnSet(g, J) = SumFunctionOnSet(f, I)
    <3>1. /\ IsFiniteSet(J)
          /\ Renames(h, J, I)
          /\ Follows(g, f, h, J)
      BY <1>1, <1>2, <2>3, <2>4 DEF Renames, Follows
    <3> HIDE DEF Renumbers
    <3> QED BY <3>1, SumRenamed
  <2>6. Counted(fs, J) = {} <=> Counted(ss, I) = {}
    <3>1. \A j \in J : h[j] \in I /\ fs[j].tokens = ss[h[j]].tokens
      BY DEF Alike
    <3>2. \A i \in I : \E j \in J : h[j] = i
      OBVIOUS
    <3> HIDE DEF Renumbers
    <3> QED BY <3>1, <3>2 DEF Counted
  <2> QED BY <2>1, <2>2, <2>5, <2>6
<1>5. \A j \in J : /\ j \in Roots(fs, J) <=> h[j] \in Roots(ss, I)
                   /\ j \in SessionRoots(fs, J) <=> h[j] \in SessionRoots(ss, I)
                   /\ fs[j].id = ss[h[j]].id /\ fs[j].session = ss[h[j]].session
                   /\ fs[j].start = ss[h[j]].start /\ fs[j].end = ss[h[j]].end
  BY DEF Roots, SessionRoots, Alike
<1>6. Roots(fs, J) \subseteq J /\ Roots(ss, I) \subseteq I
      /\ SessionRoots(fs, J) \subseteq J /\ SessionRoots(ss, I) \subseteq I
  BY DEF Roots, SessionRoots
<1>7. ASSUME NEW r PROVE RootIs(r, fs, J) <=> RootIs(r, ss, I)
  <2> DEFINE P == Roots(fs, J)
             Q == Roots(ss, I)
  <2>1. /\ P \subseteq J /\ Q \subseteq I /\ \A j \in J : j \in P <=> h[j] \in Q
    BY <1>5, <1>6
  <2>2. /\ RootIs(r, fs, J) <=> IF P = {} THEN r = NoValue
                                ELSE \E m \in P : r = fs[m].id /\ \A i \in P : i <= m
        /\ RootIs(r, ss, I) <=> IF Q = {} THEN r = NoValue
                                ELSE \E m \in Q : r = ss[m].id /\ \A i \in Q : i <= m
    BY DEF RootIs
  <2> HIDE DEF P, Q
  <2>3. \A m \in J : h[m] \in I /\ fs[m].id = ss[h[m]].id
    BY ONLY <1>5, Renumbers(h, fs, J, ss, I)
  <2>4. /\ P = {} <=> Q = {}
        /\ \A m \in P : h[m] \in Q /\ (EndsAt(P, m) <=> EndsAt(Q, h[m]))
        /\ \A q \in Q : \E m \in P : h[m] = q
    <3>1. InOrder(h, J, P, I, Q)
      BY ONLY <1>1, <2>1, Renumbers(h, fs, J, ss, I) DEF InOrder
    <3> QED BY ONLY <3>1, LastRenumbered
  <2>5. (\E m \in P : r = fs[m].id /\ EndsAt(P, m))
        <=> \E m \in Q : r = ss[m].id /\ EndsAt(Q, m)
    <3>1. ASSUME NEW m \in P, r = fs[m].id, EndsAt(P, m)
          PROVE  \E q \in Q : r = ss[q].id /\ EndsAt(Q, q)
      BY ONLY <2>1, <2>3, <2>4, <3>1
    <3>2. ASSUME NEW q \in Q, r = ss[q].id, EndsAt(Q, q)
          PROVE  \E m \in P : r = fs[m].id /\ EndsAt(P, m)
      BY ONLY <2>1, <2>3, <2>4, <3>2
    <3> QED BY ONLY <3>1, <3>2
  <2> QED BY ONLY <2>2, <2>4, <2>5 DEF EndsAt
<1>8. ASSUME NEW r PROVE SessionIs(r, fs, J) <=> SessionIs(r, ss, I)
  <2> DEFINE P == SessionRoots(fs, J)
             Q == SessionRoots(ss, I)
  <2>1. /\ P \subseteq J /\ Q \subseteq I /\ \A j \in J : j \in P <=> h[j] \in Q
    BY <1>5, <1>6
  <2>2. /\ SessionIs(r, fs, J) <=> IF P = {} THEN r = NoValue
                                ELSE \E m \in P : r = fs[m].session /\ \A i \in P : i <= m
        /\ SessionIs(r, ss, I) <=> IF Q = {} THEN r = NoValue
                                ELSE \E m \in Q : r = ss[m].session /\ \A i \in Q : i <= m
    BY DEF SessionIs
  <2> HIDE DEF P, Q
  <2>3. \A m \in J : h[m] \in I /\ fs[m].session = ss[h[m]].session
    BY ONLY <1>5, Renumbers(h, fs, J, ss, I)
  <2>4. /\ P = {} <=> Q = {}
        /\ \A m \in P : h[m] \in Q /\ (EndsAt(P, m) <=> EndsAt(Q, h[m]))
        /\ \A q \in Q : \E m \in P : h[m] = q
    <3>1. InOrder(h, J, P, I, Q)
      BY ONLY <1>1, <2>1, Renumbers(h, fs, J, ss, I) DEF InOrder
    <3> QED BY ONLY <3>1, LastRenumbered
  <2>5. (\E m \in P : r = fs[m].session /\ EndsAt(P, m))
        <=> \E m \in Q : r = ss[m].session /\ EndsAt(Q, m)
    <3>1. ASSUME NEW m \in P, r = fs[m].session, EndsAt(P, m)
          PROVE  \E q \in Q : r = ss[q].session /\ EndsAt(Q, q)
      BY ONLY <2>1, <2>3, <2>4, <3>1
    <3>2. ASSUME NEW q \in Q, r = ss[q].session, EndsAt(Q, q)
          PROVE  \E m \in P : r = fs[m].session /\ EndsAt(P, m)
      BY ONLY <2>1, <2>3, <2>4, <3>2
    <3> QED BY ONLY <3>1, <3>2
  <2> QED BY ONLY <2>2, <2>4, <2>5 DEF EndsAt
<1>9. ASSUME NEW r PROVE StatusIs(r, fs, J) <=> StatusIs(r, ss, I)
  <2>1. Roots(fs, J) = {} <=> Roots(ss, I) = {}
    <3> DEFINE P == Roots(fs, J)
               Q == Roots(ss, I)
    <3> HIDE DEF P, Q
    <3>1. P \subseteq J /\ Q \subseteq I /\ \A j \in J : j \in P <=> h[j] \in Q
      BY ONLY <1>5, <1>6 DEF P, Q
    <3>2. \A i \in I : \E j \in J : h[j] = i
      BY ONLY Renumbers(h, fs, J, ss, I)
    <3>3. P = {} <=> Q = {}
      BY ONLY <3>1, <3>2
    <3> QED BY ONLY <3>3 DEF P, Q
  <2>2. FirstIs(r, fs, J) <=> FirstIs(r, ss, I)
    <3>1. /\ \A j \in J : h[j] \in I /\ fs[j].id = ss[h[j]].id
          /\ \A i \in I : \E j \in J : h[j] = i
          /\ \A i, j \in J : i <= j <=> h[i] <= h[j]
      BY ONLY <1>1, <1>5, Renumbers(h, fs, J, ss, I)
    <3>2. ASSUME NEW m \in J, \A i \in J : m <= i, NEW i \in I PROVE h[m] <= i
      <4>1. PICK j \in J : h[j] = i
        BY ONLY <3>1
      <4>2. m <= j
        BY ONLY <3>2
      <4>3. h[m] <= h[j]
        BY ONLY <3>1, <4>2
      <4> QED BY ONLY <4>1, <4>3
    <3>3. ASSUME NEW m \in J, \A i \in I : h[m] <= i, NEW j \in J PROVE m <= j
      <4>1. h[j] \in I
        BY ONLY <3>1
      <4>2. h[m] <= h[j]
        BY ONLY <3>3, <4>1
      <4> QED BY ONLY <3>1, <4>2
    <3>4. ASSUME NEW m \in J, r = fs[m].id, \A i \in J : m <= i
          PROVE  \E n \in I : r = ss[n].id /\ \A i \in I : n <= i
      <4>1. h[m] \in I /\ r = ss[h[m]].id
        BY ONLY <3>1, <3>4
      <4>2. \A i \in I : h[m] <= i
        BY ONLY <3>2, <3>4
      <4> QED BY ONLY <4>1, <4>2
    <3>5. ASSUME NEW n \in I, r = ss[n].id, \A i \in I : n <= i
          PROVE  \E m \in J : r = fs[m].id /\ \A i \in J : m <= i
      <4>1. PICK m \in J : h[m] = n
        BY ONLY <3>1
      <4>2. \A i \in I : h[m] <= i
        BY ONLY <3>5, <4>1
      <4>3. \A j \in J : m <= j
        BY ONLY <3>3, <4>2
      <4>4. r = fs[m].id
        BY ONLY <3>1, <3>5, <4>1
      <4> QED BY ONLY <4>3, <4>4
    <3> QED BY ONLY <3>4, <3>5 DEF FirstIs
  <2> QED BY <1>7, <2>1, <2>2 DEF StatusIs
<1>10. /\ \A j \in J : h[j] \in I /\ fs[j].start = ss[h[j]].start /\ fs[j].end = ss[h[j]].end
       /\ \A i \in I : \E j \in J : h[j] = i
  BY ONLY <1>5, Renumbers(h, fs, J, ss, I)
<1>11. ASSUME NEW r PROVE StartIs(r, fs, J) <=> StartIs(r, ss, I)
  <2>1. ASSUME StartIs(r, fs, J) PROVE StartIs(r, ss, I)
    <3>1. PICK m \in J : r = fs[m].start
      BY ONLY <2>1 DEF StartIs
    <3>2. ASSUME NEW i \in I PROVE r <= ss[i].start
      <4>1. PICK k \in J : h[k] = i
        BY ONLY <1>10
      <4>2. r <= fs[k].start
        BY ONLY <2>1 DEF StartIs
      <4> QED BY ONLY <1>10, <4>1, <4>2
    <3>3. h[m] \in I /\ r = ss[h[m]].start
      BY ONLY <1>10, <3>1
    <3> QED BY ONLY <3>2, <3>3 DEF StartIs
  <2>2. ASSUME StartIs(r, ss, I) PROVE StartIs(r, fs, J)
    <3>1. PICK i \in I : r = ss[i].start
      BY ONLY <2>2 DEF StartIs
    <3>2. ASSUME NEW j \in J PROVE r <= fs[j].start
      BY ONLY <1>10, <2>2 DEF StartIs
    <3>3. PICK k \in J : h[k] = i
      BY ONLY <1>10
    <3>4. r = fs[k].start
      BY ONLY <1>10, <3>1, <3>3
    <3> QED BY ONLY <3>2, <3>4 DEF StartIs
  <2> QED BY ONLY <2>1, <2>2
<1>12. ASSUME NEW r PROVE EndIs(r, fs, J) <=> EndIs(r, ss, I)
  <2>1. ASSUME EndIs(r, fs, J) PROVE EndIs(r, ss, I)
    <3>1. PICK m \in J : r = fs[m].end
      BY ONLY <2>1 DEF EndIs
    <3>2. ASSUME NEW i \in I PROVE ss[i].end <= r
      <4>1. PICK k \in J : h[k] = i
        BY ONLY <1>10
      <4>2. fs[k].end <= r
        BY ONLY <2>1 DEF EndIs
      <4> QED BY ONLY <1>10, <4>1, <4>2
    <3>3. h[m] \in I /\ r = ss[h[m]].end
      BY ONLY <1>10, <3>1
    <3> QED BY ONLY <3>2, <3>3 DEF EndIs
  <2>2. ASSUME EndIs(r, ss, I) PROVE EndIs(r, fs, J)
    <3>1. PICK i \in I : r = ss[i].end
      BY ONLY <2>2 DEF EndIs
    <3>2. ASSUME NEW j \in J PROVE fs[j].end <= r
      BY ONLY <1>10, <2>2 DEF EndIs
    <3>3. PICK k \in J : h[k] = i
      BY ONLY <1>10
    <3>4. r = fs[k].end
      BY ONLY <1>10, <3>1, <3>3
    <3> QED BY ONLY <3>2, <3>4 DEF EndIs
  <2> QED BY ONLY <2>1, <2>2
<1> QED BY <1>2, <1>3, <1>4, <1>7, <1>8, <1>9, <1>11, <1>12 DEF Tells

-----------------------------------------------------------------------------
(* The row of earlier and the row of later spans make one of all of them.  *)
Joined(row, old, new) ==
  /\ row.root = (IF new.root = NoValue THEN old.root ELSE new.root)
  /\ row.rootName = (IF new.root = NoValue THEN old.rootName ELSE new.rootName)
  /\ row.status = (IF new.root = NoValue THEN old.status ELSE new.status)
  /\ row.session = (IF new.root = NoValue \/ new.session = NoValue
                    THEN old.session ELSE new.session)
  /\ row.count = (old.count + new.count) % CountModulus
  /\ row.start = (IF new.start < old.start THEN new.start ELSE old.start)
  /\ row.end = (IF new.end > old.end THEN new.end ELSE old.end)
  /\ row.tokens = AddTokens(old.tokens, new.tokens)

(* A row that joins two rows tells the spans of both, the later after. *)
LEMMA JoinedTells ==
  ASSUME NEW ss, NEW I, NEW J, Places(ss, I), Places(ss, J), I # {}, J # {},
         \A i \in I, j \in J : i < j,
         NEW row, NEW old, NEW new, Tells(old, ss, I), Tells(new, ss, J),
         Joined(row, old, new)
  PROVE  Places(ss, I \cup J) /\ Tells(row, ss, I \cup J)
<1> DEFINE K == I \cup J
<1>1. Places(ss, K)
  BY FS_Union DEF Places
<1>2. I \cap J = {}
  BY DEF Places
<1>3. Roots(ss, K) = Roots(ss, I) \cup Roots(ss, J)
      /\ SessionRoots(ss, K) = SessionRoots(ss, I) \cup SessionRoots(ss, J)
  BY DEF Roots, SessionRoots
<1>4. /\ Roots(ss, I) \subseteq I /\ Roots(ss, J) \subseteq J
      /\ SessionRoots(ss, I) \subseteq Roots(ss, I) /\ SessionRoots(ss, J) \subseteq Roots(ss, J)
      /\ \A i \in SessionRoots(ss, J) : ss[i].session # NoValue
  BY DEF Roots, SessionRoots
<1>5. I \subseteq Nat /\ J \subseteq Nat /\ \A i \in I, j \in J : i <= j /\ ~(j <= i)
  BY DEF Places
<1>6. new.root = NoValue <=> Roots(ss, J) = {}
  BY DEF Tells, RootIs, Places, IsSpan, Roots
<1>7. ASSUME NEW r, RootIs(r, ss, IF Roots(ss, J) = {} THEN I ELSE J) PROVE RootIs(r, ss, K)
  <2>1. CASE Roots(ss, J) = {}
    <3>1. Roots(ss, K) = Roots(ss, I)
      BY <1>3, <2>1
    <3> QED BY <1>7, <2>1, <3>1 DEF RootIs
  <2>2. CASE Roots(ss, J) # {}
    <3>1. PICK m \in Roots(ss, J) : r = ss[m].id /\ \A i \in Roots(ss, J) : i <= m
      BY <1>7, <2>2 DEF RootIs
    <3>2. m \in Roots(ss, K) /\ \A i \in Roots(ss, K) : i <= m
      BY <1>3, <1>4, <1>5, <3>1
    <3> HIDE DEF K
    <3> QED BY <3>1, <3>2 DEF RootIs
  <2> QED BY <2>1, <2>2
<1>8. RootIs(row.root, ss, K) /\ RootIs(row.rootName, ss, K)
  <2> HIDE DEF K
  <2> QED BY <1>6, <1>7 DEF Tells, Joined
<1>9. StatusIs(row.status, ss, K)
  <2>1. CASE Roots(ss, J) # {}
    <3>1. StatusIs(new.status, ss, J) /\ row.status = new.status
      BY <1>6, <2>1 DEF Tells, Joined
    <3>2. RootIs(new.status, ss, J) /\ Roots(ss, K) # {}
      BY <1>3, <2>1, <3>1 DEF StatusIs
    <3> HIDE DEF K
    <3> QED BY <1>7, <2>1, <3>1, <3>2 DEF StatusIs
  <2>2. CASE Roots(ss, J) = {}
    <3>1. StatusIs(old.status, ss, I) /\ row.status = old.status
      BY <1>6, <2>2 DEF Tells, Joined
    <3>2. Roots(ss, K) = Roots(ss, I)
      BY <1>3, <2>2
    <3>3. ASSUME FirstIs(old.status, ss, I) PROVE FirstIs(old.status, ss, K)
      <4>1. PICK m \in I : old.status = ss[m].id /\ \A i \in I : m <= i
        BY <3>3 DEF FirstIs
      <4>2. m \in K /\ \A i \in K : m <= i
        BY <1>5, <4>1
      <4> HIDE DEF K
      <4> QED BY <4>1, <4>2 DEF FirstIs
    <3>4. RootIs(old.status, ss, I) => RootIs(old.status, ss, K)
      <4> HIDE DEF K
      <4> QED BY <3>2 DEF RootIs
    <3> HIDE DEF K
    <3> QED BY <3>1, <3>2, <3>3, <3>4 DEF StatusIs
  <2> QED BY <2>1, <2>2
<1>10. SessionIs(row.session, ss, K)
  <2>1. CASE SessionRoots(ss, J) = {}
    <3>1. SessionRoots(ss, K) = SessionRoots(ss, I)
      BY <1>3, <2>1
    <3>2. row.session = old.session /\ SessionIs(old.session, ss, I)
      BY <2>1 DEF Tells, Joined, SessionIs
    <3> HIDE DEF K
    <3> QED BY <3>1, <3>2 DEF SessionIs
  <2>2. CASE SessionRoots(ss, J) # {}
    <3>1. PICK m \in SessionRoots(ss, J) : /\ new.session = ss[m].session
                                          /\ \A i \in SessionRoots(ss, J) : i <= m
      BY <2>2 DEF Tells, SessionIs
    <3>2. m \in SessionRoots(ss, K) /\ \A i \in SessionRoots(ss, K) : i <= m
      BY <1>3, <1>4, <1>5, <3>1
    <3>3. row.session = new.session
      BY <1>4, <1>6, <3>1 DEF Joined
    <3> HIDE DEF K
    <3> QED BY <3>1, <3>2, <3>3 DEF SessionIs
  <2> QED BY <2>1, <2>2
<1>11. row.count = Cardinality(K) % CountModulus
  <2> DEFINE a == Cardinality(I)
             b == Cardinality(J)
  <2>1. a \in Nat /\ b \in Nat /\ Cardinality(K) = a + b
    <3>1. IsFiniteSet(I) /\ IsFiniteSet(J) /\ Cardinality(I \cap J) = 0
      BY <1>2, FS_EmptySet DEF Places
    <3>2. Cardinality(K) = Cardinality(I) + Cardinality(J) - Cardinality(I \cap J)
      BY <3>1, FS_Union
    <3>3. a \in Nat /\ b \in Nat
      BY <3>1, FS_CardinalityType
    <3> QED BY <3>1, <3>2, <3>3
  <2>2. row.count = ((a % CountModulus) + (b % CountModulus)) % CountModulus
    BY DEF Tells, Joined
  <2> HIDE DEF a, b, K
  <2>3. b % CountModulus \in Nat
    BY <2>1, CountModulusAssumption
  <2>4. row.count = (a + (b % CountModulus)) % CountModulus
    BY <2>1, <2>2, <2>3, ModAdd, CountModulusAssumption
  <2>5. a + (b % CountModulus) = (b % CountModulus) + a
    BY <2>1, <2>3
  <2>6. ((b % CountModulus) + a) % CountModulus = (b + a) % CountModulus
    BY <2>1, ModAdd, CountModulusAssumption
  <2>7. b + a = a + b
    BY <2>1
  <2> QED BY <2>1, <2>4, <2>5, <2>6, <2>7
<1>12. StartIs(row.start, ss, K) /\ EndIs(row.end, ss, K)
  <2>1. \A i \in K : ss[i].start \in Nat /\ ss[i].end \in Nat
    BY DEF Places, IsSpan
  <2>2. StartIs(old.start, ss, I) /\ StartIs(new.start, ss, J)
        /\ EndIs(old.end, ss, I) /\ EndIs(new.end, ss, J)
    BY DEF Tells
  <2>3. old.start \in Nat /\ new.start \in Nat /\ old.end \in Nat /\ new.end \in Nat
    BY <2>1, <2>2 DEF StartIs, EndIs
  <2>4. StartIs(row.start, ss, K)
    <3>1. row.start = IF new.start < old.start THEN new.start ELSE old.start
      BY DEF Joined
    <3> QED BY <2>1, <2>2, <2>3, <3>1 DEF StartIs
  <2>5. EndIs(row.end, ss, K)
    <3>1. row.end = IF new.end > old.end THEN new.end ELSE old.end
      BY DEF Joined
    <3> QED BY <2>1, <2>2, <2>3, <3>1 DEF EndIs
  <2> QED BY <2>4, <2>5
<1>13. row.tokens = TokensOf(ss, K)
  BY <1>2, TokensAdd, PlacesHaveAmounts DEF Tells, Joined
<1> HIDE DEF K
<1>14. Tells(row, ss, K)
  BY <1>8, <1>9, <1>10, <1>11, <1>12, <1>13 DEF Tells
<1> QED BY <1>1, <1>14 DEF K

-----------------------------------------------------------------------------
(* The loop of aggregateTraces. *)
Fields == {"root", "rootName", "status", "session", "count", "start", "end", "duration",
           "tokens", "cost"}
IsRow(row) == row = [f \in Fields |-> row[f]]

(* The row of one span. *)
Single(sp) ==
  [root |-> IF sp.root THEN sp.id ELSE NoValue, rootName |-> IF sp.root THEN sp.id ELSE NoValue,
   status |-> sp.id, session |-> IF sp.root THEN sp.session ELSE NoValue,
   count |-> 1 % CountModulus, start |-> sp.start, end |-> sp.end, tokens |-> sp.tokens]

(* The row of one span tells that span. *)
LEMMA SingleTells ==
  ASSUME NEW ss, NEW i \in Nat, IsSpan(ss[i])
  PROVE  Places(ss, {i}) /\ Tells(Single(ss[i]), ss, {i})
<1> DEFINE sp == ss[i]
           row == Single(sp)
<1>1. Places(ss, {i}) /\ Cardinality({i}) = 1
  BY FS_Singleton DEF Places
<1>2. /\ row.root = (IF sp.root THEN sp.id ELSE NoValue) /\ row.rootName = row.root
      /\ row.status = sp.id /\ row.session = (IF sp.root THEN sp.session ELSE NoValue)
      /\ row.count = 1 % CountModulus /\ row.start = sp.start /\ row.end = sp.end
      /\ row.tokens = sp.tokens
  BY DEF Single
<1> HIDE DEF row
<1>3. /\ Roots(ss, {i}) = IF sp.root THEN {i} ELSE {}
      /\ SessionRoots(ss, {i}) = IF sp.root /\ sp.session # NoValue THEN {i} ELSE {}
      /\ i <= i
  BY DEF Roots, SessionRoots, IsSpan
<1>4. RootIs(row.root, ss, {i}) /\ RootIs(row.rootName, ss, {i})
  BY <1>2, <1>3 DEF RootIs
<1>5. StatusIs(row.status, ss, {i})
  BY <1>2, <1>3 DEF StatusIs, FirstIs, RootIs
<1>6. SessionIs(row.session, ss, {i})
  BY <1>2, <1>3 DEF SessionIs
<1>7. StartIs(row.start, ss, {i}) /\ EndIs(row.end, ss, {i})
  BY <1>2 DEF StartIs, EndIs, IsSpan
<1>8. row.tokens = TokensOf(ss, {i})
  <2> DEFINE f == Amount(ss, {i})
  <2>1. f[i] = (IF sp.tokens = NoValue THEN 0 ELSE sp.tokens) /\ f[i] \in Nat
    BY DEF Amount, IsSpan
  <2>2. TokensOf(ss, {i}) = IF Counted(ss, {i}) = {} THEN NoValue ELSE SumFunctionOnSet(f, {i})
    BY <1>1, TokensAsSum, PlacesHaveAmounts DEF Amount
  <2>3. Counted(ss, {i}) = {} <=> sp.tokens = NoValue
    BY DEF Counted
  <2> HIDE DEF f
  <2>4. SumFunctionOnSet(f, {i}) = f[i] + SumFunctionOnSet(f, {i} \ {i})
    BY <2>1, FS_Singleton, SumWithout
  <2>5. {i} \ {i} = {}
    OBVIOUS
  <2>6. SumFunctionOnSet(f, {i}) = f[i] + 0
    BY <2>4, <2>5, SumEmpty
  <2>7. SumFunctionOnSet(f, {i}) = f[i]
    BY <2>1, <2>6
  <2> QED BY <1>2, <2>1, <2>2, <2>3, <2>7
<1> QED BY <1>1, <1>2, <1>4, <1>5, <1>6, <1>7, <1>8 DEF Tells, row

(* One turn of the loop adds the row of its span. *)
LEMMA AddSpanJoins ==
  ASSUME NEW row, IsRow(row), NEW sp, IsSpan(sp), row.count \in Nat
  PROVE  LET r == AddSpan(row, sp)
         IN  /\ IsRow(r) /\ Joined(r, row, Single(sp)) /\ r.cost = row.cost
             /\ r.duration = IF sp.end > row.end THEN sp.end - r.start ELSE row.duration
<1> DEFINE start == IF sp.start < row.start THEN sp.start ELSE row.start
           longer == sp.end > row.end
           session == IF sp.root /\ sp.session # NoValue THEN sp.session ELSE row.session
           r == AddSpan(row, sp)
           new == Single(sp)
<1>1. r = [row EXCEPT !.root = IF sp.root THEN sp.id ELSE @,
                      !.rootName = IF sp.root THEN sp.id ELSE @,
                      !.status = IF sp.root THEN sp.id ELSE @,
                      !.session = session,
                      !.count = (@ + 1) % CountModulus,
                      !.start = start,
                      !.end = IF longer THEN sp.end ELSE @,
                      !.duration = IF longer THEN sp.end - start ELSE @,
                      !.tokens = AddTokens(@, sp.tokens)]
  BY DEF AddSpan
<1>2. /\ new.root = (IF sp.root THEN sp.id ELSE NoValue) /\ new.rootName = new.root
      /\ new.status = sp.id /\ new.session = (IF sp.root THEN sp.session ELSE NoValue)
      /\ new.count = 1 % CountModulus /\ new.start = sp.start /\ new.end = sp.end
      /\ new.tokens = sp.tokens
  BY DEF Single
<1> HIDE DEF r, new, start, longer, session
<1>3. /\ IsRow(r)
      /\ r.root = (IF sp.root THEN sp.id ELSE row.root)
      /\ r.rootName = (IF sp.root THEN sp.id ELSE row.rootName)
      /\ r.status = (IF sp.root THEN sp.id ELSE row.status)
      /\ r.session = session
      /\ r.count = (row.count + 1) % CountModulus
      /\ r.start = start
      /\ r.end = (IF longer THEN sp.end ELSE row.end)
      /\ r.duration = (IF longer THEN sp.end - start ELSE row.duration)
      /\ r.tokens = AddTokens(row.tokens, sp.tokens)
      /\ r.cost = row.cost
  BY <1>1 DEF IsRow, Fields
<1>4. (row.count + 1) % CountModulus = (row.count + new.count) % CountModulus
  <2>1. 1 % CountModulus \in Nat
    BY CountModulusAssumption
  <2>2. ((1 % CountModulus) + row.count) % CountModulus = (1 + row.count) % CountModulus
    BY ModAdd, CountModulusAssumption
  <2>3. /\ (1 % CountModulus) + row.count = row.count + new.count
        /\ 1 + row.count = row.count + 1
    BY <1>2, <2>1
  <2> QED BY <2>2, <2>3
<1>5. new.root = NoValue <=> ~sp.root
  BY <1>2 DEF IsSpan
<1> QED BY <1>2, <1>3, <1>4, <1>5 DEF Joined, start, longer, session, r, new

(* The duration after the loop. *)
LEMMA DurationNext ==
  ASSUME NEW ss, NEW n \in Nat, \A i \in 1 .. n + 1 : IsSpan(ss[i]), n > 0,
         NEW d, LastsAs(d, ss, 1 .. n), NEW e, EndIs(e, ss, 1 .. n),
         NEW s, StartIs(s, ss, 1 .. n + 1)
  PROVE  LastsAs(IF ss[n + 1].end > e THEN ss[n + 1].end - s ELSE d, ss, 1 .. n + 1)
<1>1. PICK last \in 1 .. n, s0 \in Nat :
        /\ \A i \in 1 .. n : ss[i].end <= ss[last].end /\ (ss[i].end = ss[last].end => last <= i)
        /\ StartIs(s0, ss, {i \in 1 .. n : i <= last})
        /\ d = ss[last].end - s0
  BY DEF LastsAs
<1>2. /\ \A i \in 1 .. n + 1 : ss[i].end \in Nat /\ ss[i].start \in Nat
      /\ \A i \in 1 .. n + 1 : i \in 1 .. n \/ i = n + 1
      /\ 1 .. n \subseteq 1 .. n + 1
  BY DEF IsSpan
<1>3. e = ss[last].end
  BY <1>1, <1>2 DEF EndIs
<1>4. CASE ss[n + 1].end > e
  <2>1. {i \in 1 .. n + 1 : i <= n + 1} = 1 .. n + 1
    OBVIOUS
  <2>2. \A i \in 1 .. n + 1 : /\ ss[i].end <= ss[n + 1].end
                              /\ ss[i].end = ss[n + 1].end => n + 1 <= i
    BY <1>1, <1>2, <1>3, <1>4
  <2>3. s \in Nat
    BY <1>2 DEF StartIs
  <2>4. n + 1 \in 1 .. n + 1
    OBVIOUS
  <2> QED BY <1>4, <2>1, <2>2, <2>3, <2>4 DEF LastsAs
<1>5. CASE ~(ss[n + 1].end > e)
  <2>1. {i \in 1 .. n + 1 : i <= last} = {i \in 1 .. n : i <= last}
    BY <1>1
  <2>2. \A i \in 1 .. n + 1 : /\ ss[i].end <= ss[last].end
                              /\ ss[i].end = ss[last].end => last <= i
    BY <1>1, <1>2, <1>3, <1>5
  <2>3. last \in 1 .. n + 1
    OBVIOUS
  <2> QED BY <1>1, <1>5, <2>1, <2>2, <2>3 DEF LastsAs
<1> QED BY <1>4, <1>5

-----------------------------------------------------------------------------
(* The recursion of FoldSpans, as an equation for g, and what it says of S. *)
Loop(ss, S, g) ==
  g = [T \in SUBSET S |-> IF T = {} THEN NewRow(ss[1])
                                    ELSE AddSpan(g[T \ {Max(T)}], ss[Max(T)])]
RowOver(ss, S) == (CHOOSE g : Loop(ss, S, g))[S]

(* FoldSpans runs it over all spans. *)
LEMMA FoldIsLoop == \A ss : FoldSpans(ss) = RowOver(ss, DOMAIN ss)
  BY DEF FoldSpans, FoldLeft, MapThenFoldSet, RowOver, Loop

(* What a solution says of one set. *)
Turn(ss, T, g) ==
  g[T] = IF T = {} THEN NewRow(ss[1]) ELSE AddSpan(g[T \ {Max(T)}], ss[Max(T)])

(* A solution of the recursion is unfolded at one set. *)
LEMMA LoopAt ==
  ASSUME NEW ss, NEW S, NEW g, Loop(ss, S, g), NEW T \in SUBSET S
  PROVE  Turn(ss, T, g)
<1> DEFINE body(U) == IF U = {} THEN NewRow(ss[1])
                                ELSE AddSpan(g[U \ {Max(U)}], ss[Max(U)])
<1>1. g = [U \in SUBSET S |-> body(U)]
  BY DEF Loop
<1>2. g[T] = body(T)
  <2> HIDE DEF body
  <2> QED BY <1>1
<1> QED BY <1>2 DEF Turn

(* Two solutions agree where both are defined. *)
LEMMA LoopsAgree ==
  ASSUME NEW ss, NEW S \in SUBSET Nat, NEW T \in SUBSET S, IsFiniteSet(T),
         NEW g, Loop(ss, S, g), NEW h, Loop(ss, T, h)
  PROVE  g[T] = h[T]
<1> DEFINE Good == {U \in SUBSET T : g[U] = h[U]}
<1>1. ASSUME NEW U \in SUBSET T, \A V \in SUBSET U : V # U => V \in Good
      PROVE  U \in Good
  <2>1. CASE U = {}
    BY <2>1, LoopAt DEF Turn
  <2>2. CASE U # {}
    <3> DEFINE m == Max(U)
               V == U \ {m}
    <3>1. m \in U
      BY <2>2, FS_Subset, FiniteMax
    <3>2. Turn(ss, U, g) /\ Turn(ss, U, h)
      <4>1. U \in SUBSET S /\ U \in SUBSET T
        OBVIOUS
      <4> QED BY <4>1, LoopAt
    <3>3. g[U] = AddSpan(g[V], ss[m]) /\ h[U] = AddSpan(h[V], ss[m])
      BY <2>2, <3>2 DEF Turn
    <3>4. g[V] = h[V]
      BY <1>1, <3>1
    <3> HIDE DEF V, m
    <3> QED BY <3>3, <3>4
  <2> QED BY <2>1, <2>2
<1> HIDE DEF Good
<1>2. T \in Good
  BY <1>1, SubsetInduction
<1> QED BY <1>2 DEF Good

(* Every finite set has a solution, so that the loop is its equation. *)
LEMMA LoopExists ==
  ASSUME NEW ss, NEW S \in SUBSET Nat, IsFiniteSet(S)
  PROVE  \E g : Loop(ss, S, g)
<1> DEFINE Good == {T \in SUBSET S : \E g : Loop(ss, T, g)}
<1>1. ASSUME NEW T \in SUBSET S, \A U \in SUBSET T : U # T => U \in Good
      PROVE  T \in Good
  <2> DEFINE next(U) == IF U = {} THEN NewRow(ss[1])
                                  ELSE AddSpan(RowOver(ss, U \ {Max(U)}), ss[Max(U)])
             g == [U \in SUBSET T |-> next(U)]
  <2>0. ASSUME NEW U \in SUBSET T, U # {} PROVE Max(U) \in U
    BY <2>0, FS_Subset, FiniteMax
  <2>1. ASSUME NEW U \in SUBSET T, U # T PROVE next(U) = RowOver(ss, U)
    <3>1. PICK h : Loop(ss, U, h) /\ RowOver(ss, U) = h[U]
      BY <1>1, <2>1 DEF RowOver
    <3>2. CASE U = {}
      BY <3>1, <3>2, LoopAt DEF Turn
    <3>3. CASE U # {}
      <4> DEFINE V == U \ {Max(U)}
      <4>1. V \in SUBSET U /\ V \in SUBSET T /\ V # T
        BY <2>0, <2>1, <3>3
      <4>2. PICK k : Loop(ss, V, k) /\ RowOver(ss, V) = k[V]
        BY <1>1, <4>1 DEF RowOver
      <4>3. IsFiniteSet(V) /\ U \in SUBSET Nat
        BY <4>1, FS_Subset
      <4>4. h[V] = k[V]
        <5> HIDE DEF V
        <5> QED BY <3>1, <4>1, <4>2, <4>3, LoopsAgree
      <4>5. h[U] = AddSpan(h[V], ss[Max(U)])
        BY <3>1, <3>3, LoopAt DEF Turn
      <4>6. next(U) = AddSpan(RowOver(ss, V), ss[Max(U)])
        BY <3>3
      <4> HIDE DEF V, next
      <4> QED BY <3>1, <4>2, <4>4, <4>5, <4>6
    <3> HIDE DEF next
    <3> QED BY <3>2, <3>3
  <2>2. ASSUME NEW U \in SUBSET T, U # {} PROVE RowOver(ss, U \ {Max(U)}) = g[U \ {Max(U)}]
    <3>1. U \ {Max(U)} \in SUBSET T /\ U \ {Max(U)} # T
      BY <2>0, <2>2
    <3> HIDE DEF next
    <3> QED BY <2>1, <3>1
  <2>3. Loop(ss, T, g)
    <3>1. ASSUME NEW U \in SUBSET T
          PROVE  next(U) = IF U = {} THEN NewRow(ss[1])
                                     ELSE AddSpan(g[U \ {Max(U)}], ss[Max(U)])
      <4> HIDE DEF g
      <4> QED BY <2>2
    <3> HIDE DEF next
    <3>2. g = [U \in SUBSET T |-> IF U = {} THEN NewRow(ss[1])
                                  ELSE AddSpan(g[U \ {Max(U)}], ss[Max(U)])]
      <4> HIDE DEF g
      <4>1. g = [U \in SUBSET T |-> next(U)]
        BY DEF g
      <4> QED BY <3>1, <4>1
    <3> HIDE DEF g
    <3> QED BY <3>2 DEF Loop
  <2> HIDE DEF g
  <2> QED BY <2>3
<1> HIDE DEF Good
<1>2. S \in Good
  BY <1>1, SubsetInduction
<1> QED BY <1>2 DEF Good

(* The loop, one span at a time. *)
LEMMA LoopTurn ==
  ASSUME NEW ss, NEW n \in Nat
  PROVE  /\ RowOver(ss, 1 .. 0) = NewRow(ss[1])
         /\ RowOver(ss, 1 .. n + 1) = AddSpan(RowOver(ss, 1 .. n), ss[n + 1])
<1>1. \A k \in Nat : IsFiniteSet(1 .. k) /\ (1 .. k) \in SUBSET Nat
  BY FS_Interval
<1>2. \A k \in Nat : \E g : Loop(ss, 1 .. k, g) /\ RowOver(ss, 1 .. k) = g[1 .. k]
  BY <1>1, LoopExists DEF RowOver
<1>3. PICK g : Loop(ss, 1 .. 0, g) /\ RowOver(ss, 1 .. 0) = g[1 .. 0]
  BY <1>2
<1>4. PICK h : Loop(ss, 1 .. n + 1, h) /\ RowOver(ss, 1 .. n + 1) = h[1 .. n + 1]
  BY <1>2
<1>5. PICK k : Loop(ss, 1 .. n, k) /\ RowOver(ss, 1 .. n) = k[1 .. n]
  BY <1>2
<1>6. Max(1 .. n + 1) = n + 1
  <2>1. (1 .. n + 1) \in SUBSET Nat /\ n + 1 \in 1 .. n + 1 /\ \A i \in 1 .. n + 1 : i <= n + 1
    OBVIOUS
  <2> QED BY <2>1, MaxIs
<1>7. (1 .. n + 1) \ {n + 1} = 1 .. n /\ 1 .. n + 1 # {} /\ 1 .. 0 = {}
  OBVIOUS
<1>8. h[1 .. n + 1] = AddSpan(h[1 .. n], ss[n + 1])
  <2> DEFINE N == 1 .. n + 1
             m == n + 1
  <2>1. Loop(ss, N, h) /\ N \in SUBSET N /\ N # {} /\ Max(N) = m
    BY <1>4, <1>6, <1>7
  <2>2. N \ {m} = 1 .. n
    BY <1>7
  <2> HIDE DEF N, m
  <2>3. h[N] = AddSpan(h[N \ {Max(N)}], ss[Max(N)])
    BY <2>1, LoopAt DEF Turn
  <2>4. h[N] = AddSpan(h[1 .. n], ss[m])
    BY <2>1, <2>2, <2>3
  <2> QED BY <2>4 DEF N, m
<1>9. h[1 .. n] = k[1 .. n]
  <2>1. (1 .. n) \in SUBSET (1 .. n + 1)
    OBVIOUS
  <2> QED BY <1>1, <1>4, <1>5, <2>1, LoopsAgree
<1>10. g[1 .. 0] = NewRow(ss[1])
  <2> DEFINE Z == 1 .. 0
  <2>1. Loop(ss, Z, g) /\ Z \in SUBSET Z /\ Z = {}
    BY <1>3
  <2> HIDE DEF Z
  <2>2. g[Z] = NewRow(ss[1])
    BY <2>1, LoopAt DEF Turn
  <2> QED BY <2>2 DEF Z
<1> QED BY <1>3, <1>4, <1>5, <1>8, <1>9, <1>10

(* A duration that was taken when the end last grew is within the range. *)
LEMMA LastsWithin ==
  ASSUME NEW ss, NEW I, Places(ss, I), NEW d, LastsAs(d, ss, I),
         NEW s, StartIs(s, ss, I), NEW e, EndIs(e, ss, I)
  PROVE  d \in Int /\ d <= e - s /\ s \in Nat /\ e \in Nat
<1>1. PICK last \in I, s0 \in Nat : /\ StartIs(s0, ss, {i \in I : i <= last})
                                    /\ d = ss[last].end - s0
  BY DEF LastsAs
<1>2. \A i \in I : ss[i].start \in Nat /\ ss[i].end \in Nat
  BY DEF Places, IsSpan
<1>3. s \in Nat /\ e \in Nat /\ ss[last].end <= e
  BY <1>2 DEF StartIs, EndIs
<1>4. s <= s0
  BY <1>1 DEF StartIs
<1> QED BY <1>1, <1>2, <1>3, <1>4

(* What the row is after n turns. *)
After(row, ss, n) ==
  /\ IsRow(row) /\ row.cost = NoValue /\ row.count \in Nat
  /\ Tells(row, ss, 1 .. n) /\ LastsAs(row.duration, ss, 1 .. n)

(* The first turn makes the row of the first span. *)
LEMMA FirstTurn ==
  ASSUME NEW ss, IsSpan(ss[1])
  PROVE  After(AddSpan(NewRow(ss[1]), ss[1]), ss, 1)
<1> DEFINE sp == ss[1]
           row == NewRow(sp)
           r == AddSpan(row, sp)
<1>1. /\ IsRow(row) /\ row.cost = NoValue /\ row.count = 0 /\ row.root = NoValue
      /\ row.rootName = NoValue /\ row.status = sp.id /\ row.session = NoValue
      /\ row.start = sp.start /\ row.end = sp.end /\ row.duration = sp.end - sp.start
      /\ row.tokens = NoValue
  BY DEF NewRow, IsRow, Fields
<1>2. /\ sp.id # NoValue /\ sp.root \in BOOLEAN /\ sp.start \in Nat /\ sp.end \in Nat
  BY DEF IsSpan
<1> HIDE DEF row
<1>3. /\ IsRow(r) /\ Joined(r, row, Single(sp)) /\ r.cost = row.cost
      /\ r.duration = IF sp.end > row.end THEN sp.end - r.start ELSE row.duration
  BY <1>1, AddSpanJoins
<1> HIDE DEF r
<1> DEFINE new == Single(sp)
<1>4. /\ new.root = (IF sp.root THEN sp.id ELSE NoValue) /\ new.rootName = new.root
      /\ new.status = sp.id /\ new.session = (IF sp.root THEN sp.session ELSE NoValue)
      /\ new.count = 1 % CountModulus /\ new.start = sp.start /\ new.end = sp.end
      /\ new.tokens = sp.tokens
  BY DEF Single
<1> HIDE DEF new
<1>5. /\ r.root = new.root /\ r.rootName = new.rootName /\ r.status = new.status
      /\ r.session = new.session /\ r.start = new.start /\ r.end = new.end
      /\ r.tokens = new.tokens
  BY <1>1, <1>2, <1>3, <1>4 DEF Joined, AddTokens, new
<1>6. r.count = new.count /\ r.count \in Nat
  <2>1. r.count = (0 + (1 % CountModulus)) % CountModulus
    BY <1>1, <1>3, <1>4 DEF Joined, new
  <2>2. 1 % CountModulus \in 0 .. CountModulus - 1
    BY CountModulusAssumption
  <2> DEFINE c == 1 % CountModulus
  <2>3. r.count = (0 + c) % CountModulus /\ c \in 0 .. CountModulus - 1 /\ new.count = c
    BY <1>4, <2>1, <2>2
  <2> HIDE DEF c
  <2>4. (0 + c) % CountModulus = c
    BY <2>3, CountModulusAssumption
  <2> QED BY <2>3, <2>4
<1>7. 1 .. 1 = {1}
  OBVIOUS
<1>8. Tells(r, ss, 1 .. 1)
  <2>1. Tells(new, ss, {1})
    BY SingleTells DEF new
  <2> QED BY <1>5, <1>6, <1>7, <2>1 DEF Tells
<1>9. LastsAs(r.duration, ss, 1 .. 1)
  <2>1. r.duration = sp.end - sp.start
    BY <1>1, <1>2, <1>3
  <2>2. {i \in {1} : i <= 1} = {1}
    OBVIOUS
  <2>3. StartIs(sp.start, ss, {i \in {1} : i <= 1})
    BY <1>2, <2>2 DEF StartIs
  <2>4. /\ \A i \in {1} : ss[i].end <= ss[1].end /\ (ss[i].end = ss[1].end => 1 <= i)
        /\ r.duration = ss[1].end - sp.start /\ sp.start \in Nat
    BY <1>2, <2>1
  <2>5. LastsAs(r.duration, ss, {1})
    BY <2>3, <2>4 DEF LastsAs
  <2> QED BY <1>7, <2>5
<1> QED BY <1>1, <1>3, <1>6, <1>8, <1>9 DEF After, r, row

(* The next turn adds the next span. *)
LEMMA NextTurn ==
  ASSUME NEW ss, NEW n \in Nat, n > 0, \A i \in 1 .. n + 1 : IsSpan(ss[i]),
         NEW row, After(row, ss, n)
  PROVE  After(AddSpan(row, ss[n + 1]), ss, n + 1)
<1> DEFINE sp == ss[n + 1]
           r == AddSpan(row, sp)
<1>1. IsSpan(sp) /\ Places(ss, 1 .. n)
  <2>1. n + 1 \in 1 .. n + 1 /\ 1 .. n \subseteq 1 .. n + 1 /\ 1 .. n \subseteq Nat
    OBVIOUS
  <2> QED BY <2>1, FS_Interval DEF Places
<1>2. /\ IsRow(r) /\ Joined(r, row, Single(sp)) /\ r.cost = row.cost
      /\ r.duration = IF sp.end > row.end THEN sp.end - r.start ELSE row.duration
  BY <1>1, AddSpanJoins DEF After
<1> HIDE DEF r
<1>3. Places(ss, {n + 1}) /\ Tells(Single(sp), ss, {n + 1})
  <2> DEFINE m == n + 1
  <2>1. m \in Nat /\ IsSpan(ss[m])
    BY <1>1
  <2> HIDE DEF m
  <2>2. Places(ss, {m}) /\ Tells(Single(ss[m]), ss, {m})
    BY <2>1, SingleTells
  <2> QED BY <2>2 DEF m
<1>4. Tells(r, ss, 1 .. n + 1)
  <2>1. 1 .. n + 1 = (1 .. n) \cup {n + 1} /\ 1 .. n # {} /\ {n + 1} # {}
        /\ \A i \in 1 .. n, j \in {n + 1} : i < j
    OBVIOUS
  <2>2. Tells(row, ss, 1 .. n)
    BY DEF After
  <2>3. Tells(r, ss, (1 .. n) \cup {n + 1})
    BY <1>1, <1>2, <1>3, <2>1, <2>2, JoinedTells
  <2> QED BY <2>1, <2>3
<1>5. LastsAs(r.duration, ss, 1 .. n + 1)
  <2>1. EndIs(row.end, ss, 1 .. n) /\ StartIs(r.start, ss, 1 .. n + 1)
        /\ LastsAs(row.duration, ss, 1 .. n)
    BY <1>4 DEF Tells, After
  <2>2. LastsAs(IF sp.end > row.end THEN sp.end - r.start ELSE row.duration, ss, 1 .. n + 1)
    BY <2>1, DurationNext
  <2> QED BY <1>2, <2>2
<1>6. r.count \in Nat
  <2>1. row.count \in Nat /\ 1 % CountModulus \in Nat
    BY CountModulusAssumption DEF After
  <2>2. r.count = (row.count + (1 % CountModulus)) % CountModulus
    BY <1>2 DEF Joined, Single
  <2> QED BY <2>1, <2>2, CountModulusAssumption
<1> QED BY <1>2, <1>4, <1>5, <1>6 DEF After, r

(* So the loop over a batch tells what the batch holds. *)
LEMMA AfterLoop ==
  ASSUME NEW ss, NEW n \in Nat, n > 0, \A i \in 1 .. n : IsSpan(ss[i])
  PROVE  After(RowOver(ss, 1 .. n), ss, n)
<1> DEFINE Good == {k \in Nat : k < n => After(RowOver(ss, 1 .. k + 1), ss, k + 1)}
<1>1. 0 \in Good
  <2>1. RowOver(ss, 1 .. 0 + 1) = AddSpan(RowOver(ss, 1 .. 0), ss[0 + 1])
        /\ RowOver(ss, 1 .. 0) = NewRow(ss[1])
    BY LoopTurn
  <2>2. 0 + 1 = 1 /\ IsSpan(ss[1])
    OBVIOUS
  <2>3. After(RowOver(ss, 1 .. 0 + 1), ss, 0 + 1)
    BY <2>1, <2>2, FirstTurn
  <2> QED BY <2>3
<1>2. ASSUME NEW k \in Nat, k \in Good PROVE k + 1 \in Good
  <2> SUFFICES ASSUME k + 1 < n PROVE After(RowOver(ss, 1 .. k + 1 + 1), ss, k + 1 + 1)
    OBVIOUS
  <2> DEFINE m == k + 1
  <2>1. m \in Nat /\ m > 0 /\ After(RowOver(ss, 1 .. m), ss, m)
    BY <1>2
  <2>2. \A i \in 1 .. m + 1 : IsSpan(ss[i])
    OBVIOUS
  <2> HIDE DEF m
  <2>3. RowOver(ss, 1 .. m + 1) = AddSpan(RowOver(ss, 1 .. m), ss[m + 1])
    BY <2>1, LoopTurn
  <2>4. After(RowOver(ss, 1 .. m + 1), ss, m + 1)
    BY <2>1, <2>2, <2>3, NextTurn
  <2> QED BY <2>4 DEF m
<1> HIDE DEF Good
<1>3. Nat \subseteq Good
  BY <1>1, <1>2, NatInSet
<1>4. PICK k \in Nat : n = k + 1
  <2>1. n - 1 \in Nat /\ n = (n - 1) + 1
    OBVIOUS
  <2> QED BY <2>1
<1>5. k \in Good /\ k < n
  BY <1>3, <1>4
<1> QED BY <1>4, <1>5 DEF Good

(* The duration of the aggregate is the one taken when the end last grew. *)
LEMMA DurationRelation ==
  ASSUME NEW ss, NEW I, Places(ss, I), I # {}, NEW d, LastsAs(d, ss, I)
  PROVE  d = DurationOf(ss, I)
<1>1. PICK last \in I, s \in Nat :
        /\ \A i \in I : ss[i].end <= ss[last].end /\ (ss[i].end = ss[last].end => last <= i)
        /\ StartIs(s, ss, {i \in I : i <= last})
        /\ d = ss[last].end - s
  BY DEF LastsAs
<1> DEFINE e == Max(Ends(ss, I))
           L == {i \in I : ss[i].end = e}
           P == {i \in I : i <= last}
<1>2. e = ss[last].end
  <2>1. EndIs(ss[last].end, ss, I)
    BY <1>1 DEF EndIs
  <2> QED BY <2>1, EndRelation
<1>3. Min(L) = last
  <2>1. L \in SUBSET Nat /\ last \in L /\ \A i \in L : last <= i
    BY <1>1, <1>2 DEF Places
  <2> HIDE DEF L
  <2> QED BY <2>1, MinIs
<1>4. s = Min(Starts(ss, P))
  <2>1. P # {} /\ Places(ss, P)
    <3>1. last \in P /\ P \subseteq I
      BY DEF Places
    <3>2. IsFiniteSet(P)
      BY <3>1, FS_Subset DEF Places
    <3> QED BY <3>1, <3>2 DEF Places
  <2> HIDE DEF P
  <2> QED BY <1>1, <2>1, StartRelation DEF P
<1>5. DurationOf(ss, I) = ss[Min(L)].end - Min(Starts(ss, {i \in I : i <= Min(L)}))
  BY DEF DurationOf
<1> HIDE DEF L, e
<1> QED BY <1>1, <1>3, <1>4, <1>5

(* For any sequence of spans the loop of aggregateTraces leaves the row    *)
(* that can be read off them as a whole: the last root wins, the range     *)
(* covers every span, the tokens are the sum, and the duration is that of  *)
(* the range when its end last grew.                                       *)
THEOREM LoopIsAggregate ==
  ASSUME NEW Sp, \A sp \in Sp : IsSpan(sp), NEW ss \in Seq(Sp), ss # << >>
  PROVE  FoldSpans(ss) = Aggregate(ss)
<1>1. /\ Len(ss) \in Nat /\ Len(ss) > 0 /\ DOMAIN ss = 1 .. Len(ss)
      /\ \A i \in 1 .. Len(ss) : IsSpan(ss[i])
  BY EmptySeq
<1> DEFINE n == Len(ss)
           I == 1 .. n
           row == FoldSpans(ss)
           whole == Aggregate(ss)
<1>2. row = RowOver(ss, I)
  BY <1>1, FoldIsLoop
<1>3. After(row, ss, n)
  BY <1>1, <1>2, AfterLoop
<1>4. Places(ss, I) /\ I # {}
  <2>1. 1 \in I /\ I \subseteq Nat
    <3>1. n \in Nat /\ n > 0
      BY <1>1
    <3> HIDE DEF n
    <3> QED BY <3>1
  <2>3. \A i \in I : IsSpan(ss[i])
    BY <1>1
  <2>2. IsFiniteSet(I)
    BY <1>1, FS_Interval
  <2> QED BY <2>1, <2>2, <2>3 DEF Places
<1>5. whole = AggregateAt(ss, I)
  BY <1>1 DEF Aggregate
<1>6. IsRow(whole) /\ whole.cost = NoValue /\ whole.duration = DurationOf(ss, I)
  BY <1>5 DEF AggregateAt, IsRow, Fields
<1> HIDE DEF row, whole, I, n
<1>7. row.duration = whole.duration /\ row.cost = whole.cost
  BY <1>3, <1>4, <1>6, DurationRelation DEF After, I
<1>8. \A f \in {"root", "rootName", "status", "session", "count", "start", "end", "tokens"} :
        row[f] = whole[f]
  <2>1. Tells(row, ss, I)
    BY <1>3 DEF After, I
  <2>2. LET w == AggregateAt(ss, I)
        IN  \A f \in {"root", "rootName", "status", "session", "count", "start", "end",
                      "tokens"} : row[f] = w[f]
    BY <1>4, <2>1, TellsAggregate
  <2> QED BY <1>5, <2>2
<1>9. \A f \in Fields : row[f] = whole[f]
  BY <1>7, <1>8 DEF Fields
<1> QED BY <1>3, <1>6, <1>9 DEF IsRow, After, row, whole

(* A part of a sequence of spans tells what its positions do.  *)
LEMMA PartTells ==
  ASSUME NEW Sp, \A sp \in Sp : IsSpan(sp), NEW ss \in Seq(Sp),
         NEW m \in Nat, NEW n \in Nat, m < n, n <= Len(ss)
  PROVE  LET I == m + 1 .. n
         IN  Places(ss, I) /\ I # {} /\ Tells(Aggregate(SubSeq(ss, m + 1, n)), ss, I)
<1> DEFINE I == m + 1 .. n
           p == SubSeq(ss, m + 1, n)
           l == n - m
           row == Aggregate(p)
           h == [j \in 1 .. l |-> m + j]
<1>1. /\ Len(ss) \in Nat /\ DOMAIN ss = 1 .. Len(ss) /\ l \in Nat /\ l >= 1
      /\ \A i \in 1 .. Len(ss) : ss[i] \in Sp /\ IsSpan(ss[i])
  OBVIOUS
<1>2. DOMAIN p = 1 .. l /\ \A j \in 1 .. l : p[j] = ss[m + j]
  OBVIOUS
<1> HIDE DEF p
<1>3. \A j \in 1 .. l : m + j \in I /\ m + j \in 1 .. Len(ss)
  BY <1>1
<1>4. \A i \in I : i - m \in 1 .. l /\ m + (i - m) = i /\ i \in 1 .. Len(ss)
  BY <1>1
<1>5. Places(ss, I) /\ m + 1 \in I
  <2>1. I \subseteq Nat /\ m + 1 \in I
    BY <1>1
  <2>2. IsFiniteSet(I)
    <3> DEFINE a == m + 1
    <3>1. a \in Int /\ n \in Int
      OBVIOUS
    <3> HIDE DEF a
    <3>2. IsFiniteSet(a .. n)
      BY <3>1, FS_Interval
    <3> QED BY <3>2 DEF a
  <2>3. \A i \in I : IsSpan(ss[i])
    BY <1>1, <1>4
  <2> HIDE DEF I
  <2> QED BY <2>1, <2>2, <2>3 DEF Places
<1>6. Places(p, 1 .. l) /\ 1 \in 1 .. l
  <2>2. \A j \in 1 .. l : IsSpan(p[j])
    BY <1>1, <1>2, <1>3
  <2> HIDE DEF l
  <2>1. IsFiniteSet(1 .. l)
    BY <1>1, FS_Interval
  <2>3. 1 .. l \subseteq Nat /\ 1 \in 1 .. l
    BY <1>1
  <2> QED BY <2>1, <2>2, <2>3 DEF Places
<1>7. Renumbers(h, p, 1 .. l, ss, I)
  <2>1. h \in [1 .. l -> I]
    BY <1>3
  <2>2. ASSUME NEW i \in I PROVE \E j \in 1 .. l : h[j] = i
    BY <1>4
  <2>3. ASSUME NEW j \in 1 .. l, NEW k \in 1 .. l, j < k PROVE h[j] < h[k]
    BY <1>1, <2>3
  <2>4. \A j \in 1 .. l : Alike(p[j], ss[h[j]])
    BY <1>2 DEF Alike
  <2> HIDE DEF h, l, I
  <2> QED BY <2>1, <2>2, <2>3, <2>4 DEF Renumbers
<1>8. Tells(row, p, 1 .. l)
  <2>1. row = AggregateAt(p, 1 .. l)
    BY <1>2 DEF Aggregate
  <2> HIDE DEF row, l
  <2> QED BY <1>6, <2>1, TellsAggregate
<1>9. Tells(row, ss, I)
  <2>1. 1 .. l \in SUBSET Nat
    BY <1>1
  <2> HIDE DEF row, l, I, h
  <2> QED BY <1>5, <1>7, <1>8, <2>1, TellsRenumbered
<1> QED BY <1>5, <1>9 DEF row, p

(* However a sequence of spans is cut into two batches, the SQLite store's *)
(* merge of their rows has the count, the range, the tokens and the        *)
(* session of the row of the whole (aggregateTraces, and the merge in      *)
(* sqliteStore.InsertSpans), for spans that say when they start.           *)
THEOREM AnyCutIsTheWhole ==
  ASSUME NEW Sp, \A sp \in Sp : IsSpan(sp) /\ sp.start # 0, NEW ss \in Seq(Sp),
         NEW k \in Nat, 0 < k, k < Len(ss)
  PROVE  LET merged == Merge(Aggregate(SubSeq(ss, 1, k)), Aggregate(SubSeq(ss, k + 1, Len(ss))))
         IN  \A f \in {"count", "start", "end", "tokens", "session"} :
               merged[f] = Aggregate(ss)[f]
<1> DEFINE n == Len(ss)
           I == 1 .. k
           J == k + 1 .. n
           old == Aggregate(SubSeq(ss, 1, k))
           new == Aggregate(SubSeq(ss, k + 1, n))
           whole == Aggregate(ss)
           merged == Merge(old, new)
<1>1. n \in Nat /\ k < n /\ DOMAIN ss = 1 .. n
  OBVIOUS
<1>2. Places(ss, I) /\ I # {} /\ Tells(old, ss, I)
  <2>1. 0 < k /\ k <= Len(ss) /\ 0 + 1 = 1 /\ 0 \in Nat
    OBVIOUS
  <2>2. LET K == 0 + 1 .. k
        IN  Places(ss, K) /\ K # {} /\ Tells(Aggregate(SubSeq(ss, 0 + 1, k)), ss, K)
    BY <2>1, PartTells
  <2> QED BY <2>1, <2>2
<1>3. Places(ss, J) /\ J # {} /\ Tells(new, ss, J)
  BY <1>1, PartTells, SMTT(30)
<1>4. I \cup J = 1 .. n /\ \A i \in I, j \in J : i < j
  BY <1>1
<1>5. /\ merged.count = (new.count + old.count) % CountModulus
      /\ merged.start = (IF old.start < new.start /\ old.start # 0 THEN old.start
                         ELSE new.start)
      /\ merged.end = (IF old.end > new.end THEN old.end ELSE new.end)
      /\ merged.tokens = AddTokens(old.tokens, new.tokens)
      /\ merged.session = (IF new.session = NoValue THEN old.session ELSE new.session)
  BY DEF Merge, Aggregate, AggregateAt
<1> DEFINE row ==
      [root |-> IF new.root = NoValue THEN old.root ELSE new.root,
       rootName |-> IF new.root = NoValue THEN old.rootName ELSE new.rootName,
       status |-> IF new.root = NoValue THEN old.status ELSE new.status,
       session |-> IF new.root = NoValue \/ new.session = NoValue
                   THEN old.session ELSE new.session,
       count |-> (old.count + new.count) % CountModulus,
       start |-> IF new.start < old.start THEN new.start ELSE old.start,
       end |-> IF new.end > old.end THEN new.end ELSE old.end,
       tokens |-> AddTokens(old.tokens, new.tokens)]
<1>6. Joined(row, old, new)
  BY DEF Joined
<1> HIDE DEF old, new, merged
<1>7. Tells(row, ss, 1 .. n) /\ Places(ss, 1 .. n)
  <2> HIDE DEF row, I, J
  <2>1. Tells(row, ss, I \cup J) /\ Places(ss, I \cup J)
    BY <1>2, <1>3, <1>4, <1>6, JoinedTells
  <2> QED BY <1>4, <2>1
<1>8. \A f \in {"root", "rootName", "status", "session", "count", "start", "end", "tokens"} :
        row[f] = whole[f]
  <2>1. whole = AggregateAt(ss, 1 .. n)
    BY <1>1 DEF Aggregate
  <2> DEFINE K == 1 .. n
  <2>2. K # {}
    BY <1>1
  <2> HIDE DEF row
  <2>4. Places(ss, K) /\ Tells(row, ss, K)
    BY <1>7
  <2> HIDE DEF n, whole, K
  <2>3. LET w == AggregateAt(ss, K)
        IN  \A f \in {"root", "rootName", "status", "session", "count", "start", "end",
                      "tokens"} : row[f] = w[f]
    BY <2>2, <2>4, TellsAggregate
  <2> QED BY <2>1, <2>3 DEF K
<1>9. new.root = NoValue => new.session = NoValue
  <2>1. RootIs(new.root, ss, J) /\ SessionIs(new.session, ss, J)
    BY <1>3 DEF Tells
  <2> HIDE DEF J
  <2> QED BY <1>3, <2>1 DEF RootIs, SessionIs, SessionRoots, Roots, Places, IsSpan
<1>10. /\ old.start \in Nat \ {0} /\ new.start \in Nat \ {0}
       /\ old.end \in Nat /\ new.end \in Nat /\ old.count \in Nat /\ new.count \in Nat
  <2>1. /\ StartIs(old.start, ss, I) /\ EndIs(old.end, ss, I)
        /\ StartIs(new.start, ss, J) /\ EndIs(new.end, ss, J)
        /\ old.count = Cardinality(I) % CountModulus
        /\ new.count = Cardinality(J) % CountModulus
    BY <1>2, <1>3 DEF Tells
  <2>2. \A i \in I \cup J : ss[i].start \in Nat \ {0} /\ ss[i].end \in Nat
    BY <1>1, <1>4 DEF IsSpan
  <2>3. Cardinality(I) \in Nat /\ Cardinality(J) \in Nat
    BY <1>2, <1>3, FS_CardinalityType DEF Places
  <2> HIDE DEF I, J
  <2> QED BY <2>1, <2>2, <2>3, CountModulusAssumption, SMTT(30) DEF StartIs, EndIs
<1>11. /\ merged.count = row.count /\ merged.start = row.start /\ merged.end = row.end
       /\ merged.tokens = row.tokens /\ merged.session = row.session
  <2>1. new.count + old.count = old.count + new.count
    BY <1>10
  <2>2. merged.start = row.start /\ merged.end = row.end
    BY <1>5, <1>10
  <2> QED BY <1>5, <1>9, <2>1, <2>2
<1> HIDE DEF row
<1> QED BY <1>8, <1>11 DEF merged, old, new, n, whole

-----------------------------------------------------------------------------
(* The spans that are stored: a sequence of spans, each with a cost. *)
IsSeq(s) == s \in Seq({s[i] : i \in DOMAIN s})
StoredSpan(sp) ==
  IsSpan(sp) /\ SpanFields \cup {"cost"} \subseteq DOMAIN sp /\ sp.cost \in Nat \cup {NoValue}
SpansOK(ss) == IsSeq(ss) /\ \A i \in DOMAIN ss : StoredSpan(ss[i])
PricesOK(s) ==
  "pricing" \in DOMAIN s /\ \A m \in DOMAIN s.pricing : s.pricing[m].rate \in Nat

TypeInv == SpansOK(spans) /\ PricesOK(settings) /\ PricesOK(Contents)

(* A sequence has a length, and its positions are those up to it. *)
LEMMA SeqIs ==
  ASSUME NEW s, IsSeq(s)
  PROVE  Len(s) \in Nat /\ DOMAIN s = 1 .. Len(s)
BY DEF IsSeq

(* A sequence over any set is one over its own entries. *)
LEMMA SeqOver ==
  ASSUME NEW S, NEW s \in Seq(S)
  PROVE  IsSeq(s)
<1> DEFINE R == {s[i] : i \in DOMAIN s}
<1>1. Len(s) \in Nat /\ DOMAIN s = 1 .. Len(s) /\ s \in [1 .. Len(s) -> R]
  OBVIOUS
<1> HIDE DEF R
<1>2. s \in Seq(R)
  BY <1>1
<1> QED BY <1>2 DEF IsSeq, R

(* A function on the positions up to n is a sequence of that length. *)
LEMMA FunctionSeq ==
  ASSUME NEW n \in Nat, NEW S, NEW s \in [1 .. n -> S]
  PROVE  IsSeq(s) /\ Len(s) = n
<1>1. s \in Seq(S) /\ Len(s) = n
  OBVIOUS
<1> QED BY <1>1, SeqOver

(* One sequence after another. *)
Follow(r, s, t) ==
  /\ IsSeq(r) /\ Len(r) = Len(s) + Len(t)
  /\ \A i \in 1 .. Len(s) : r[i] = s[i]
  /\ \A i \in 1 .. Len(t) : r[Len(s) + i] = t[i]

(* Concatenation is such a sequence. *)
LEMMA SeqAfter ==
  ASSUME NEW s, IsSeq(s), NEW t, IsSeq(t)
  PROVE  Follow(s \o t, s, t)
<1> DEFINE R == {s[i] : i \in DOMAIN s} \cup {t[i] : i \in DOMAIN t}
<1>1. s \in Seq(R) /\ t \in Seq(R)
  <2>1. {s[i] : i \in DOMAIN s} \subseteq R /\ {t[i] : i \in DOMAIN t} \subseteq R
    OBVIOUS
  <2>2. s \in Seq({s[i] : i \in DOMAIN s}) /\ t \in Seq({t[i] : i \in DOMAIN t})
    BY DEF IsSeq
  <2> HIDE DEF R
  <2> QED BY <2>1, <2>2, SeqMonotonic
<1> HIDE DEF R
<1>2. /\ s \o t \in Seq(R) /\ Len(s \o t) = Len(s) + Len(t)
      /\ \A i \in 1 .. Len(s) + Len(t) :
           (s \o t)[i] = IF i <= Len(s) THEN s[i] ELSE t[i - Len(s)]
  BY <1>1, ConcatProperties
<1>3. Len(s) \in Nat /\ Len(t) \in Nat
  BY <1>1
<1>4. IsSeq(s \o t)
  BY <1>2, SeqOver
<1>5. ASSUME NEW i \in 1 .. Len(s) PROVE (s \o t)[i] = s[i]
  BY <1>2, <1>3
<1>6. ASSUME NEW i \in 1 .. Len(t) PROVE (s \o t)[Len(s) + i] = t[i]
  <2>1. Len(s) + i \in 1 .. Len(s) + Len(t) /\ ~(Len(s) + i <= Len(s))
        /\ (Len(s) + i) - Len(s) = i
    BY <1>3
  <2> QED BY <1>2, <2>1
<1> QED BY <1>2, <1>4, <1>5, <1>6 DEF Follow

(* A batch arrives as it is, without costs. *)
LEMMA ArrivedIs ==
  ASSUME NEW b \in Batches
  PROVE  LET ss == Content[b].spans
             arrived == Arrived(b)
         IN  /\ IsSeq(ss) /\ SpansOK(arrived) /\ Len(arrived) = Len(ss)
             /\ \A i \in 1 .. Len(ss) : /\ Alike(arrived[i], ss[i]) /\ IsSpan(ss[i])
                                       /\ arrived[i].cost = NoValue
<1> DEFINE ss == Content[b].spans
           arrived == Arrived(b)
<1>1. /\ IsSeq(ss)
      /\ \A i \in DOMAIN ss : SpanFields \subseteq DOMAIN ss[i] /\ IsSpan(ss[i])
  BY ContentAssumption DEF IsSeq
<1>2. arrived = [i \in DOMAIN ss |-> Put(ss[i], "cost", NoValue)]
  BY DEF Arrived
<1> HIDE DEF ss, arrived
<1>3. Len(ss) \in Nat /\ DOMAIN ss = 1 .. Len(ss)
  BY <1>1, SeqIs
<1>4. ASSUME NEW i \in 1 .. Len(ss)
      PROVE  StoredSpan(arrived[i]) /\ Alike(arrived[i], ss[i]) /\ arrived[i].cost = NoValue
  <2>1. arrived[i] = Put(ss[i], "cost", NoValue) /\ SpanFields \subseteq DOMAIN ss[i]
        /\ IsSpan(ss[i])
    BY <1>1, <1>2, <1>3
  <2>2. /\ DOMAIN arrived[i] = DOMAIN ss[i] \cup {"cost"} /\ arrived[i].cost = NoValue
        /\ \A f \in SpanFields : arrived[i][f] = ss[i][f]
    <3>1. "cost" \notin SpanFields
      BY DEF SpanFields
    <3> QED BY <2>1, <3>1 DEF Put
  <2>3. Alike(arrived[i], ss[i])
    BY <2>2 DEF Alike, SpanFields
  <2> QED BY <2>1, <2>2, <2>3 DEF StoredSpan, IsSpan, Alike
<1>5. IsSeq(arrived) /\ Len(arrived) = Len(ss)
  <2>1. arrived \in [1 .. Len(ss) -> {Put(ss[i], "cost", NoValue) : i \in DOMAIN ss}]
    BY <1>2, <1>3
  <2> QED BY <1>3, <2>1, FunctionSeq
<1>6. SpansOK(arrived)
  BY <1>4, <1>5, SeqIs DEF SpansOK
<1> QED BY <1>1, <1>3, <1>4, <1>5, <1>6 DEF ss, arrived

(* Costing changes nothing but the costs. *)
Costed(new, old, T) ==
  /\ Alike(new, old)
  /\ new.cost = IF old.trace \in T /\ Billed(old) THEN CostOf(old) ELSE old.cost

(* The spans stay what they were, each costed if its trace is and it can be. *)
LEMMA WithCostsIs ==
  ASSUME NEW ss, SpansOK(ss), PricesOK(settings), NEW T
  PROVE  LET r == WithCosts(ss, T)
         IN  SpansOK(r) /\ Len(r) = Len(ss) /\ \A i \in 1 .. Len(ss) : Costed(r[i], ss[i], T)
<1> DEFINE r == WithCosts(ss, T)
           next(i) == IF ss[i].trace \in T /\ Billed(ss[i])
                      THEN [ss[i] EXCEPT !.cost = CostOf(ss[i])] ELSE ss[i]
<1>1. Len(ss) \in Nat /\ DOMAIN ss = 1 .. Len(ss)
  BY SeqIs DEF SpansOK
<1>2. r = [i \in 1 .. Len(ss) |-> next(i)]
  BY <1>1 DEF WithCosts
<1>3. ASSUME NEW i \in 1 .. Len(ss) PROVE StoredSpan(next(i)) /\ Costed(next(i), ss[i], T)
  <2>1. StoredSpan(ss[i])
    BY <1>1 DEF SpansOK
  <2>2. CASE ss[i].trace \in T /\ Billed(ss[i])
    <3>1. next(i) = [ss[i] EXCEPT !.cost = CostOf(ss[i])]
      BY <2>2
    <3> HIDE DEF next
    <3>2. CostOf(ss[i]) \in Nat
      <4>1. ss[i].tokens \in Nat /\ settings.pricing[ss[i].model].rate \in Nat
        BY <2>1, <2>2 DEF StoredSpan, IsSpan, Billed, Given, PricesOK
      <4>2. \A x, y \in Nat : x * y \in Nat
        OBVIOUS
      <4> QED BY <4>1, <4>2 DEF CostOf
    <3>3. /\ DOMAIN next(i) = DOMAIN ss[i] /\ next(i).cost = CostOf(ss[i])
          /\ \A f \in SpanFields : next(i)[f] = ss[i][f]
      BY <2>1, <3>1 DEF StoredSpan, SpanFields
    <3>4. Alike(next(i), ss[i])
      BY <3>3 DEF Alike, SpanFields
    <3> QED BY <2>1, <2>2, <3>2, <3>3, <3>4 DEF StoredSpan, IsSpan, Alike, Costed
  <2>3. CASE ~(ss[i].trace \in T /\ Billed(ss[i]))
    <3>1. next(i) = ss[i]
      BY <2>3
    <3> HIDE DEF next
    <3> QED BY <2>1, <2>3, <3>1 DEF Costed, Alike
  <2> QED BY <2>2, <2>3
<1> HIDE DEF r, next
<1>4. IsSeq(r) /\ Len(r) = Len(ss)
  <2>1. r \in [1 .. Len(ss) -> {next(i) : i \in 1 .. Len(ss)}]
    BY <1>2
  <2> QED BY <1>1, <2>1, FunctionSeq
<1>5. SpansOK(r)
  BY <1>2, <1>3, <1>4, SeqIs DEF SpansOK
<1> QED BY <1>2, <1>3, <1>4, <1>5 DEF r

(* So does picking some of them. *)
LEMMA PickedOK ==
  ASSUME NEW ss, SpansOK(ss), NEW I \in SUBSET DOMAIN ss
  PROVE  SpansOK(Picked(ss, I)) /\ \E h : Lists(h, ss, I, Picked(ss, I))
<1> DEFINE S == {ss[i] : i \in DOMAIN ss}
           p == Picked(ss, I)
<1>1. p \in Seq(S) /\ \E h : Lists(h, ss, I, p)
  <2>1. ss \in Seq(S)
    BY DEF SpansOK, IsSeq
  <2> HIDE DEF S
  <2> QED BY <2>1, PickedIs
<1> HIDE DEF p
<1>2. \A k \in DOMAIN p : StoredSpan(p[k])
  BY <1>1 DEF Lists, SpansOK
<1>3. IsSeq(p)
  <2> HIDE DEF S
  <2> QED BY <1>1, SeqOver
<1> QED BY <1>1, <1>2, <1>3 DEF SpansOK, p

(* The prices in memory, and those in the file. *)
LEMMA SaveKeepsPrices ==
  ASSUME NEW s, PricesOK(s), PricesOK(Contents), Save(s)
  PROVE  PricesOK(settings') /\ PricesOK(Contents')
<1>1. PricesOK(settings')
  BY DEF Save
<1>2. CASE file' = Written(s)
  <2>1. Contents' = Written(s).settings
    BY <1>2, WrittenNext
  <2>2. Written(s).settings = [s EXCEPT !.results = [t \in DOMAIN @ |-> "bare"]]
    BY DEF Written
  <2>3. DOMAIN Contents' = DOMAIN s /\ Contents'.pricing = s.pricing
    BY <2>1, <2>2 DEF PricesOK
  <2> QED BY <1>1, <2>3 DEF PricesOK
<1>3. CASE file' = file
  BY <1>1, <1>3 DEF Contents
<1>4. CASE file' = Torn
  BY <1>1, <1>4 DEF Contents, Torn, NoSettings, PricesOK
<1> QED BY <1>1, <1>2, <1>3, <1>4 DEF Save

(* The end of the process leaves nothing in memory. *)
LEMMA EndIsEmpty ==
  ASSUME End
  PROVE  SpansOK(spans') /\ PricesOK(settings')
<1>1. spans' = << >> /\ settings' = NoSettings
  BY DEF End
<1>2. IsSeq(<< >>)
  BY EmptySeq, SeqOver
<1> QED BY <1>1, <1>2 DEF SpansOK, PricesOK, NoSettings

(* A process that ends in a write leaves nothing that is not typed. *)
LEMMA InterruptedKeepsTypes ==
  ASSUME Interrupted
  PROVE  TypeInv'
<1>1. Contents' = NoSettings
  BY DEF Interrupted, Contents, Emptied, Torn
<1>2. End
  BY DEF Interrupted
<1> QED BY <1>1, <1>2, EndIsEmpty DEF TypeInv, PricesOK, NoSettings

(* A change of the settings keeps the types, if the prices are numbers. *)
LEMMA ChangeKeepsTypes ==
  ASSUME NEW s, TypeInv, PricesOK(s), Change(s)
  PROVE  TypeInv'
BY SaveKeepsPrices, InterruptedKeepsTypes DEF Change, TypeInv, data

(* What a call that keeps some traces keeps of the spans. *)
LEMMA KeepKeepsTypes ==
  ASSUME NEW kept, SpansOK(spans), Keep(kept)
  PROVE  SpansOK(spans')
<1>1. At(spans, kept) \in SUBSET DOMAIN spans
  BY DEF At
<1> QED BY <1>1, PickedOK DEF Keep, TheirSpans

(* The spans after a batch, before their costs. *)
LEMMA AllOK ==
  ASSUME NEW b \in Batches, SpansOK(spans)
  PROVE  LET all == spans \o Arrived(b)
         IN  /\ SpansOK(all) /\ Len(all) = Len(spans) + Len(Content[b].spans)
             /\ \A i \in 1 .. Len(spans) : all[i] = spans[i]
             /\ \A i \in 1 .. Len(Content[b].spans) : all[Len(spans) + i] = Arrived(b)[i]
<1> DEFINE new == Arrived(b)
           all == spans \o new
<1>1. SpansOK(new) /\ Len(new) = Len(Content[b].spans)
  BY ArrivedIs
<1> HIDE DEF new
<1>2. /\ IsSeq(all) /\ Len(all) = Len(spans) + Len(new)
      /\ \A i \in 1 .. Len(spans) : all[i] = spans[i]
      /\ \A i \in 1 .. Len(new) : all[Len(spans) + i] = new[i]
  <2>1. IsSeq(spans) /\ IsSeq(new)
    BY <1>1 DEF SpansOK
  <2>2. Follow(all, spans, new)
    BY <2>1, SeqAfter
  <2> QED BY <2>2 DEF Follow
<1>3. Len(spans) \in Nat /\ Len(new) \in Nat /\ DOMAIN all = 1 .. Len(all)
      /\ DOMAIN spans = 1 .. Len(spans) /\ DOMAIN new = 1 .. Len(new)
  BY <1>1, <1>2, SeqIs DEF SpansOK
<1> HIDE DEF all
<1>4. ASSUME NEW i \in DOMAIN all PROVE StoredSpan(all[i])
  <2>1. CASE i \in 1 .. Len(spans)
    BY <1>2, <1>3, <2>1 DEF SpansOK
  <2>2. CASE i \notin 1 .. Len(spans)
    <3>1. i - Len(spans) \in 1 .. Len(new) /\ i = Len(spans) + (i - Len(spans))
      BY <1>2, <1>3, <2>2
    <3> QED BY <1>1, <1>2, <1>3, <3>1 DEF SpansOK
  <2> QED BY <2>1, <2>2
<1> QED BY <1>1, <1>2, <1>4 DEF SpansOK, all, new

(* The store holds typed spans and natural prices, in memory and on disk. *)
LEMMA TypeNext == TypeInv /\ [Next]_vars => TypeInv'
<1> SUFFICES ASSUME TypeInv, [Next]_vars
             PROVE  TypeInv'
  OBVIOUS
<1> DEFINE Same == UNCHANGED <<spans, settings, file>>
<1>0. Same => TypeInv'
  BY DEF TypeInv, Contents
<1>1. ASSUME NEW b \in Batches, InsertSpans(b) PROVE TypeInv'
  <2>1. \E T : spans' = WithCosts(spans \o Arrived(b), T)
    BY <1>1 DEF InsertSpans
  <2>2. SpansOK(spans \o Arrived(b))
    BY AllOK DEF TypeInv
  <2>3. SpansOK(spans')
    BY <2>1, <2>2, WithCostsIs DEF TypeInv
  <2>4. UNCHANGED <<settings, file>>
    BY <1>1 DEF InsertSpans
  <2> QED BY <2>3, <2>4 DEF TypeInv, Contents
<1>2. ASSUME NEW ls \in LogBatches, InsertLogs(ls) PROVE TypeInv'
  BY <1>0, <1>2 DEF InsertLogs
<1>3. ASSUME NEW t \in DOMAIN traces, UpdateTraceCost(t) PROVE TypeInv'
  BY <1>0, <1>3 DEF UpdateTraceCost
<1>4. ASSUME NEW cutoff \in Cutoffs, PurgeLogs(cutoff) PROVE TypeInv'
  BY <1>0, <1>4 DEF PurgeLogs
<1>5. ASSUME NEW cutoff \in Cutoffs, NEW n \in Counts, Purge(cutoff, n) PROVE TypeInv'
  <2>1. \E kept : Keep(kept)
    BY <1>5 DEF Purge
  <2>2. SpansOK(spans')
    BY <2>1, KeepKeepsTypes DEF TypeInv
  <2>3. UNCHANGED <<settings, file>>
    BY <1>5 DEF Purge
  <2> QED BY <2>2, <2>3 DEF TypeInv, Contents
<1>6. ASSUME NEW ids, DeleteTraces(ids) PROVE TypeInv'
  <2>1. ASSUME Keep(DOMAIN traces \ ids), Save([settings EXCEPT !.results = Without(@, ids)])
        PROVE  TypeInv'
    <3> DEFINE s == [settings EXCEPT !.results = Without(@, ids)]
    <3>1. PricesOK(s)
      BY DEF TypeInv, PricesOK
    <3>2. PricesOK(settings') /\ PricesOK(Contents')
      <4> HIDE DEF s
      <4>1. Save(s)
        BY <2>1 DEF s
      <4> QED BY <3>1, <4>1, SaveKeepsPrices DEF TypeInv
    <3> QED BY <2>1, <3>2, KeepKeepsTypes DEF TypeInv
  <2> QED BY <1>6, <2>1, InterruptedKeepsTypes DEF DeleteTraces
<1>7. ASSUME NEW m, DeleteModelPricing(m) PROVE TypeInv'
  <2> DEFINE s == [settings EXCEPT !.pricing = Without(@, {m})]
  <2>1. PricesOK(s)
    BY DEF TypeInv, PricesOK, Without
  <2> HIDE DEF s
  <2>2. Change(s)
    BY <1>7 DEF DeleteModelPricing, s
  <2> QED BY <2>1, <2>2, ChangeKeepsTypes
<1>8. ASSUME NEW m, NEW p \in Prices, UpsertModelPricing(m, p) PROVE TypeInv'
  <2> DEFINE s == [settings EXCEPT !.pricing = Put(@, m, p)]
  <2>1. PricesOK(s)
    BY PricesAssumption DEF TypeInv, PricesOK, Put
  <2> HIDE DEF s
  <2>2. Change(s)
    BY <1>8 DEF UpsertModelPricing, s
  <2> QED BY <2>1, <2>2, ChangeKeepsTypes
<1>9. ASSUME NEW v, Change([settings EXCEPT !.configs = v]) PROVE TypeInv'
  <2> DEFINE s == [settings EXCEPT !.configs = v]
  <2>1. PricesOK(s)
    BY DEF TypeInv, PricesOK
  <2> HIDE DEF s
  <2>2. Change(s)
    BY <1>9 DEF s
  <2> QED BY <2>1, <2>2, ChangeKeepsTypes
<1>10. ASSUME NEW id, DeleteLLMConfig(id) PROVE TypeInv'
  BY <1>9, <1>10 DEF DeleteLLMConfig
<1>11. ASSUME NEW id, NEW c, CreateLLMConfig(id, c) PROVE TypeInv'
  BY <1>9, <1>11 DEF CreateLLMConfig
<1>12. ASSUME NEW id, NEW c, UpdateLLMConfig(id, c) PROVE TypeInv'
  BY <1>9, <1>12 DEF UpdateLLMConfig
<1>13. ASSUME NEW t, UpsertDiagnosisResult(t) PROVE TypeInv'
  <2> DEFINE s == [settings EXCEPT !.results = Put(@, t, "full")]
  <2>1. PricesOK(s)
    BY DEF TypeInv, PricesOK
  <2> HIDE DEF s
  <2>2. Change(s)
    BY <1>13 DEF UpsertDiagnosisResult, s
  <2> QED BY <2>1, <2>2, ChangeKeepsTypes
<1>14. CASE Open
  BY <1>14 DEF Open, TypeInv, data, Contents
<1>15. CASE Close
  <2>1. End /\ file' = Written(settings)
    BY <1>15 DEF Close
  <2>2. Contents' = Written(settings).settings
    BY <2>1, WrittenNext
  <2>3. Written(settings).settings = [settings EXCEPT !.results = [t \in DOMAIN @ |-> "bare"]]
    BY DEF Written
  <2>4. DOMAIN Contents' = DOMAIN settings /\ Contents'.pricing = settings.pricing
    BY <2>2, <2>3 DEF TypeInv, PricesOK
  <2> QED BY <2>1, <2>4, EndIsEmpty DEF TypeInv, PricesOK
<1>16. CASE Crash
  <2>1. End /\ Contents' = Contents
    BY <1>16 DEF Crash, Contents
  <2> QED BY <2>1, EndIsEmpty DEF TypeInv
<1>17. CASE UNCHANGED vars
  BY <1>0, <1>17 DEF vars
<1> QED
  BY <1>1, <1>2, <1>3, <1>4, <1>5, <1>6, <1>7, <1>8, <1>10, <1>11, <1>12, <1>13,
     <1>14, <1>15, <1>16, <1>17 DEF Next

-----------------------------------------------------------------------------
(* The rows tell what is stored. *)
RowFits(row, ss, I) ==
  /\ Fields \cup {"service"} \subseteq DOMAIN row
  /\ Tells(row, ss, I)
  /\ row.duration \in Int /\ row.duration <= row.end - row.start
RowsFit(tt, ss) ==
  /\ DOMAIN tt = {ss[i].trace : i \in DOMAIN ss}
  /\ \A t \in DOMAIN tt : RowFits(tt[t], ss, At(ss, {t}))

(* The positions of stored spans are places of spans. *)
LEMMA StoredPlaces ==
  ASSUME NEW ss, SpansOK(ss), NEW I \in SUBSET DOMAIN ss
  PROVE  Places(ss, I) /\ IsFiniteSet(DOMAIN ss)
<1>1. Len(ss) \in Nat /\ DOMAIN ss = 1 .. Len(ss)
  BY SeqIs DEF SpansOK
<1>2. IsFiniteSet(1 .. Len(ss))
  BY <1>1, FS_Interval
<1>3. IsFiniteSet(I) /\ I \subseteq Nat
  BY <1>1, <1>2, FS_Subset
<1> QED BY <1>1, <1>2, <1>3 DEF Places, SpansOK, StoredSpan

(* A row that tells the one numbering of spans tells the other. *)
LEMMA RowRenumbered ==
  ASSUME NEW row, NEW fs, NEW J \in SUBSET Nat, NEW ss, NEW I, Places(ss, I),
         NEW h, Renumbers(h, fs, J, ss, I)
  PROVE  RowFits(row, fs, J) <=> RowFits(row, ss, I)
BY TellsRenumbered DEF RowFits

(* What follows the spans of the store when batch b arrives. *)
Extends(ss, b) ==
  /\ SpansOK(ss) /\ Len(ss) = Len(spans) + Len(Content[b].spans)
  /\ \A i \in 1 .. Len(spans) : Alike(ss[i], spans[i])
  /\ \A i \in 1 .. Len(Content[b].spans) : Alike(ss[Len(spans) + i], Content[b].spans[i])
New(b, t) == {Len(spans) + j : j \in At(Content[b].spans, {t})}

(* The positions of a trace's spans: those it had, and those of the batch. *)
LEMMA PositionsAfter ==
  ASSUME NEW b \in Batches, SpansOK(spans), NEW ss, Extends(ss, b), NEW t
  PROVE  /\ At(ss, {t}) = At(spans, {t}) \cup New(b, t)
         /\ \A i \in At(spans, {t}), j \in New(b, t) : i < j
<1> DEFINE old == Len(spans)
           batch == Content[b].spans
           new == Len(batch)
<1>1. /\ old \in Nat /\ DOMAIN spans = 1 .. old /\ new \in Nat /\ DOMAIN batch = 1 .. new
      /\ DOMAIN ss = 1 .. old + new
  BY ArrivedIs, SeqIs DEF SpansOK, Extends
<1>2. /\ \A i \in 1 .. old : ss[i].trace = spans[i].trace
      /\ \A i \in 1 .. new : ss[old + i].trace = batch[i].trace
  BY DEF Extends, Alike
<1> HIDE DEF old, new, batch
<1>3. /\ \A i : i \in At(ss, {t}) <=> i \in 1 .. old + new /\ ss[i].trace = t
      /\ \A i : i \in At(spans, {t}) <=> i \in 1 .. old /\ spans[i].trace = t
      /\ \A i : i \in At(batch, {t}) <=> i \in 1 .. new /\ batch[i].trace = t
      /\ \A i : i \in New(b, t) <=> \E j \in At(batch, {t}) : i = old + j
  BY <1>1 DEF At, New, batch, old
<1>4. ASSUME NEW i \in At(ss, {t}) PROVE i \in At(spans, {t}) \cup New(b, t)
  <2>1. i \in 1 .. old + new /\ ss[i].trace = t
    BY <1>3
  <2>2. CASE i \in 1 .. old
    BY <1>2, <1>3, <2>1, <2>2
  <2>3. CASE i \notin 1 .. old
    <3>1. PICK j \in 1 .. new : i = old + j
      <4>1. i - old \in 1 .. new /\ i = old + (i - old)
        BY <1>1, <2>1, <2>3
      <4> QED BY <4>1
    <3>2. batch[j].trace = t
      BY <1>2, <2>1, <3>1
    <3>3. j \in At(batch, {t})
      BY <1>3, <3>2
    <3> QED BY <1>3, <3>1, <3>3
  <2> QED BY <2>2, <2>3
<1>5. ASSUME NEW i \in At(spans, {t}) PROVE i \in At(ss, {t})
  <2>1. i \in 1 .. old /\ spans[i].trace = t
    BY <1>3
  <2>2. i \in 1 .. old + new
    BY <1>1, <2>1
  <2> QED BY <1>2, <1>3, <2>1, <2>2
<1>6. ASSUME NEW k \in New(b, t) PROVE k \in At(ss, {t})
  <2>1. PICK j \in 1 .. new : k = old + j /\ batch[j].trace = t
    BY <1>3
  <2>2. old + j \in 1 .. old + new
    BY <1>1
  <2> QED BY <1>2, <1>3, <2>1, <2>2
<1>7. ASSUME NEW i \in At(spans, {t}), NEW k \in New(b, t) PROVE i < k
  <2>1. i \in 1 .. old
    BY <1>3
  <2>2. PICK j \in 1 .. new : k = old + j
    BY <1>3
  <2> QED BY <1>1, <2>1, <2>2
<1> QED BY <1>4, <1>5, <1>6, <1>7

(* The row a batch makes for a trace tells of the spans it brings. *)
LEMMA BatchRow ==
  ASSUME NEW b \in Batches, SpansOK(spans), NEW ss, Extends(ss, b), NEW t \in TracesOf(b)
  PROVE  RowFits(RowOf(b, t), ss, New(b, t)) /\ RowOf(b, t).cost = NoValue
<1> DEFINE batch == Content[b].spans
           I == At(batch, {t})
           p == Picked(batch, I)
           n == Len(p)
           fold == FoldSpans(p)
           row == RowOf(b, t)
           old == Len(spans)
<1>1. /\ IsSeq(batch) /\ Len(batch) \in Nat /\ DOMAIN batch = 1 .. Len(batch)
      /\ \A i \in DOMAIN batch : IsSpan(batch[i])
  BY ArrivedIs, SeqIs
<1>2. I \in SUBSET DOMAIN batch /\ I # {}
  BY DEF At, TracesOf
<1>3. PICK h : IsSeq(p) /\ Lists(h, batch, I, p)
  <2> DEFINE S == {batch[i] : i \in DOMAIN batch}
  <2>1. batch \in Seq(S)
    BY <1>1 DEF IsSeq
  <2> HIDE DEF S, batch, I
  <2> QED BY <1>2, <2>1, PickedIs, SeqOver
<1>4. row = Put(Put(fold, "service", Content[b].service), "currency", NoValue)
  BY DEF RowOf, TheirSpans
<1>5. New(b, t) = {old + j : j \in I} /\ old \in Nat
  BY SeqIs DEF New, SpansOK
<1>6. \A i \in 1 .. Len(batch) : Alike(ss[old + i], batch[i])
  BY DEF Extends
<1> HIDE DEF row, batch, I, p, old
<1>7. /\ n \in Nat /\ DOMAIN p = 1 .. n /\ n > 0
      /\ \A i \in 1 .. n : IsSpan(p[i]) /\ h[i] \in I /\ p[i] = batch[h[i]]
  <2>1. n \in Nat /\ DOMAIN p = 1 .. n
    BY <1>3, SeqIs
  <2>2. \A i \in 1 .. n : IsSpan(p[i]) /\ h[i] \in I /\ p[i] = batch[h[i]]
    BY <1>1, <1>2, <1>3, <2>1 DEF Lists
  <2>3. \E k \in 1 .. n : h[k] \in I
    BY <1>2, <1>3, <2>1 DEF Lists
  <2> QED BY <2>1, <2>2, <2>3
<1> HIDE DEF n
<1>8. After(fold, p, n)
  <2>1. fold = RowOver(p, 1 .. n)
    BY <1>7, FoldIsLoop
  <2> QED BY <1>7, <2>1, AfterLoop
<1> HIDE DEF fold
<1>9. Fields \subseteq DOMAIN fold
  <2>1. fold = [f \in Fields |-> fold[f]]
    BY <1>8 DEF After, IsRow
  <2> QED BY <2>1
<1>10. /\ DOMAIN row = DOMAIN fold \cup {"service", "currency"}
       /\ \A f \in Fields : row[f] = fold[f]
  <2>1. "service" \notin Fields /\ "currency" \notin Fields
    BY DEF Fields
  <2> QED BY <1>4, <1>9, <2>1 DEF Put
<1>11. /\ row.root = fold.root /\ row.rootName = fold.rootName /\ row.status = fold.status
       /\ row.session = fold.session /\ row.count = fold.count /\ row.start = fold.start
       /\ row.end = fold.end /\ row.duration = fold.duration /\ row.tokens = fold.tokens
       /\ row.cost = fold.cost
  BY <1>10 DEF Fields
<1>12. RowFits(row, p, 1 .. n)
  <2>1. Tells(row, p, 1 .. n)
    BY <1>8, <1>11 DEF After, Tells
  <2>2. Places(p, 1 .. n)
    <3>1. IsFiniteSet(1 .. n) /\ 1 .. n \subseteq Nat
      BY <1>7, FS_Interval
    <3> QED BY <1>7, <3>1 DEF Places
  <2>3. LastsAs(row.duration, p, 1 .. n) /\ StartIs(row.start, p, 1 .. n)
        /\ EndIs(row.end, p, 1 .. n)
    BY <1>8, <1>11, <2>1 DEF After, Tells
  <2>4. row.duration \in Int /\ row.duration <= row.end - row.start
    BY <2>2, <2>3, LastsWithin
  <2> QED BY <1>9, <1>10, <2>1, <2>4 DEF RowFits
<1>13. RowFits(row, ss, New(b, t))
  <2> DEFINE g == [j \in 1 .. n |-> old + h[j]]
             K == New(b, t)
  <2>1. K \in SUBSET DOMAIN ss
    <3>1. K \subseteq At(ss, {t})
      BY PositionsAfter
    <3> QED BY <3>1 DEF At
  <2>2. Places(ss, K)
    <3>1. SpansOK(ss)
      BY DEF Extends
    <3> HIDE DEF K
    <3> QED BY <2>1, <3>1, StoredPlaces
  <2>3. Renumbers(g, p, 1 .. n, ss, K)
    <3>1. g \in [1 .. n -> K]
      BY <1>5, <1>7
    <3>2. ASSUME NEW k \in K PROVE \E j \in 1 .. n : g[j] = k
      <4>1. PICK i \in I : k = old + i
        BY <1>5
      <4>2. PICK j \in 1 .. n : h[j] = i
        BY <1>3, <1>7 DEF Lists
      <4> QED BY <4>1, <4>2
    <3>3. ASSUME NEW j \in 1 .. n, NEW k \in 1 .. n, j < k PROVE g[j] < g[k]
      <4>1. h[j] < h[k]
        BY <1>3, <1>7, <3>3 DEF Lists
      <4>2. h[j] \in Nat /\ h[k] \in Nat
        BY <1>1, <1>2, <1>7
      <4> QED BY <1>5, <4>1, <4>2
    <3>4. ASSUME NEW j \in 1 .. n PROVE Alike(p[j], ss[g[j]])
      <4>1. h[j] \in 1 .. Len(batch) /\ p[j] = batch[h[j]] /\ g[j] = old + h[j]
        BY <1>1, <1>2, <1>7
      <4>2. Alike(ss[old + h[j]], batch[h[j]])
        BY <1>6, <4>1
      <4> HIDE DEF g
      <4> QED BY <4>1, <4>2 DEF Alike
    <3> HIDE DEF g, K
    <3> QED BY <3>1, <3>2, <3>3, <3>4 DEF Renumbers
  <2>4. 1 .. n \in SUBSET Nat
    BY <1>7
  <2> HIDE DEF g, K
  <2>5. RowFits(row, ss, K)
    BY <1>12, <2>2, <2>3, <2>4, RowRenumbered
  <2> QED BY <2>5 DEF K
<1>14. row.cost = NoValue
  BY <1>8, <1>11 DEF After
<1> QED BY <1>13, <1>14 DEF row

(* The merge joins the two rows; its duration follows the end. *)
LEMMA MergeJoins ==
  ASSUME NEW old, NEW new, Fields \subseteq DOMAIN old
  PROVE  LET m == MemMerge(old, new)
         IN  /\ DOMAIN m = DOMAIN old /\ Joined(m, old, new) /\ m.cost = old.cost
             /\ m.duration = IF new.end > old.end THEN new.end - m.start ELSE old.duration
<1> DEFINE longer == new.end > old.end
           start == IF new.start < old.start THEN new.start ELSE old.start
           counted == [old EXCEPT !.count = (@ + new.count) % CountModulus,
                                  !.start = start,
                                  !.end = IF longer THEN new.end ELSE @,
                                  !.duration = IF longer THEN new.end - start ELSE @,
                                  !.tokens = AddTokens(@, new.tokens)]
           rooted == [counted EXCEPT !.root = new.root, !.rootName = new.rootName,
                                     !.status = new.status,
                                     !.session = IF new.session # NoValue
                                                 THEN new.session ELSE @]
           m == MemMerge(old, new)
<1>1. m = IF new.root = NoValue THEN counted ELSE rooted
  BY DEF MemMerge
<1> HIDE DEF m
<1>2. /\ DOMAIN counted = DOMAIN old
      /\ counted.count = (old.count + new.count) % CountModulus
      /\ counted.start = start
      /\ counted.end = IF longer THEN new.end ELSE old.end
      /\ counted.duration = IF longer THEN new.end - start ELSE old.duration
      /\ counted.tokens = AddTokens(old.tokens, new.tokens)
      /\ counted.root = old.root /\ counted.rootName = old.rootName
      /\ counted.status = old.status /\ counted.session = old.session
      /\ counted.cost = old.cost
  <2> HIDE DEF start, longer
  <2> QED BY DEF Fields
<1> HIDE DEF counted
<1>3. /\ DOMAIN rooted = DOMAIN counted
      /\ rooted.root = new.root /\ rooted.rootName = new.rootName
      /\ rooted.status = new.status
      /\ rooted.session = IF new.session # NoValue THEN new.session ELSE counted.session
      /\ rooted.count = counted.count /\ rooted.start = counted.start
      /\ rooted.end = counted.end /\ rooted.duration = counted.duration
      /\ rooted.tokens = counted.tokens /\ rooted.cost = counted.cost
  BY <1>2 DEF Fields
<1> HIDE DEF rooted
<1> QED BY <1>1, <1>2, <1>3 DEF Joined, m

(* Merged, two rows tell of the spans of both. *)
LEMMA MergeFits ==
  ASSUME NEW ss, NEW I, NEW J, Places(ss, I), Places(ss, J), I # {}, J # {},
         \A i \in I, j \in J : i < j,
         NEW old, NEW new, RowFits(old, ss, I), RowFits(new, ss, J)
  PROVE  RowFits(MemMerge(old, new), ss, I \cup J)
<1> DEFINE m == MemMerge(old, new)
<1>1. /\ DOMAIN m = DOMAIN old /\ Joined(m, old, new)
      /\ m.duration = IF new.end > old.end THEN new.end - m.start ELSE old.duration
  BY MergeJoins DEF RowFits
<1> HIDE DEF m
<1>2. Tells(m, ss, I \cup J)
  BY <1>1, JoinedTells DEF RowFits
<1>3. /\ old.start \in Nat /\ old.end \in Nat /\ new.start \in Nat /\ new.end \in Nat
  <2>1. StartIs(old.start, ss, I) /\ EndIs(old.end, ss, I)
        /\ StartIs(new.start, ss, J) /\ EndIs(new.end, ss, J)
    BY DEF RowFits, Tells
  <2>2. \A i \in I \cup J : ss[i].start \in Nat /\ ss[i].end \in Nat
    BY DEF Places, IsSpan
  <2> QED BY <2>1, <2>2 DEF StartIs, EndIs
<1>4. /\ m.start = (IF new.start < old.start THEN new.start ELSE old.start)
      /\ m.end = (IF new.end > old.end THEN new.end ELSE old.end)
  BY <1>1 DEF Joined
<1>5. old.duration \in Int /\ old.duration <= old.end - old.start
  BY DEF RowFits
<1>6. m.duration \in Int /\ m.duration <= m.end - m.start
  <2> DEFINE a == old.start
             b == old.end
             c == new.start
             d == new.end
             l == old.duration
  <2>1. /\ a \in Nat /\ b \in Nat /\ c \in Nat /\ d \in Nat /\ l \in Int /\ l <= b - a
        /\ m.start = (IF c < a THEN c ELSE a) /\ m.end = (IF d > b THEN d ELSE b)
        /\ m.duration = IF d > b THEN d - m.start ELSE l
    BY <1>1, <1>3, <1>4, <1>5
  <2> HIDE DEF a, b, c, d, l
  <2> QED BY <2>1
<1> QED BY <1>1, <1>2, <1>6 DEF RowFits, m

(* The rows after a batch tell of the spans after it. *)
LEMMA MergedFit ==
  ASSUME NEW b \in Batches, SpansOK(spans), RowsFit(traces, spans), NEW ss, Extends(ss, b)
  PROVE  RowsFit(Merged(b), ss)
<1> DEFINE tt == Merged(b)
           batch == Content[b].spans
<1>1. /\ DOMAIN tt = DOMAIN traces \cup TracesOf(b)
      /\ \A t \in DOMAIN tt :
           tt[t] = IF t \notin TracesOf(b) THEN traces[t]
                   ELSE IF t \in DOMAIN traces THEN MemMerge(traces[t], RowOf(b, t))
                   ELSE RowOf(b, t)
  BY DEF Merged
<1> HIDE DEF tt
<1>2. SpansOK(ss)
  BY DEF Extends
<1>3. \A t : t \in TracesOf(b) <=> New(b, t) # {}
  BY DEF TracesOf, New, At
<1>4. \A t : t \in DOMAIN traces <=> At(spans, {t}) # {}
  BY DEF RowsFit, At
<1>5. DOMAIN tt = {ss[i].trace : i \in DOMAIN ss}
  <2>1. \A t : t \in {ss[i].trace : i \in DOMAIN ss} <=> At(ss, {t}) # {}
    BY DEF At
  <2>2. \A t : t \in DOMAIN tt <=> At(ss, {t}) # {}
    BY <1>1, <1>3, <1>4, PositionsAfter
  <2> QED BY <2>1, <2>2
<1>6. ASSUME NEW t \in DOMAIN tt PROVE RowFits(tt[t], ss, At(ss, {t}))
  <2> DEFINE I == At(spans, {t})
             K == New(b, t)
  <2>1. At(ss, {t}) = I \cup K /\ \A i \in I, j \in K : i < j
    BY PositionsAfter
  <2>2. Places(ss, I) /\ Places(ss, K)
    <3>1. I \cup K \in SUBSET DOMAIN ss
      BY <2>1 DEF At
    <3>2. I \in SUBSET DOMAIN ss /\ K \in SUBSET DOMAIN ss
      BY <3>1
    <3> HIDE DEF I, K
    <3> QED BY <1>2, <3>2, StoredPlaces
  <2>3. ASSUME NEW row, RowFits(row, spans, I) PROVE RowFits(row, ss, I)
    <3> DEFINE h == [i \in I |-> i]
    <3>1. I \subseteq 1 .. Len(spans) /\ I \subseteq Nat
      BY SeqIs DEF SpansOK, At
    <3>2. \A i \in I : Alike(spans[i], ss[i])
      BY <3>1 DEF Extends, Alike
    <3>3. Renumbers(h, spans, I, ss, I)
      <4> HIDE DEF I
      <4> QED BY <3>2 DEF Renumbers
    <3> HIDE DEF h, I
    <3> QED BY <2>2, <2>3, <3>1, <3>3, RowRenumbered
  <2>4. CASE t \notin TracesOf(b)
    <3>1. t \in DOMAIN traces /\ tt[t] = traces[t] /\ K = {}
      BY <1>1, <1>3, <2>4
    <3>2. RowFits(traces[t], ss, I)
      BY <2>3, <3>1 DEF RowsFit
    <3>3. I \cup K = I
      BY <3>1
    <3> QED BY <2>1, <3>1, <3>2, <3>3
  <2>5. CASE t \in TracesOf(b) /\ t \notin DOMAIN traces
    <3>1. tt[t] = RowOf(b, t) /\ I = {}
      BY <1>1, <1>4, <2>5
    <3>2. RowFits(RowOf(b, t), ss, K)
      BY <2>5, BatchRow
    <3>3. I \cup K = K
      BY <3>1
    <3> QED BY <2>1, <3>1, <3>2, <3>3
  <2>6. CASE t \in TracesOf(b) /\ t \in DOMAIN traces
    <3>1. tt[t] = MemMerge(traces[t], RowOf(b, t)) /\ I # {} /\ K # {}
      BY <1>1, <1>3, <1>4, <2>6
    <3>2. RowFits(RowOf(b, t), ss, K)
      BY <2>6, BatchRow
    <3>3. RowFits(traces[t], ss, I)
      BY <2>3, <2>6 DEF RowsFit
    <3> HIDE DEF I, K
    <3>4. RowFits(MemMerge(traces[t], RowOf(b, t)), ss, I \cup K)
      BY <2>1, <2>2, <3>1, <3>2, <3>3, MergeFits
    <3> QED BY <2>1, <3>1, <3>4
  <2> QED BY <2>4, <2>5, <2>6
<1> QED BY <1>5, <1>6 DEF RowsFit, tt

(* A cost and its currency change nothing else of a row. *)
CostChanged(new, old) ==
  \E c, d : new = [old EXCEPT !.cost = c, !.currency = d]
LEMMA TotalsFit ==
  ASSUME NEW tt, NEW ss, RowsFit(tt, ss), NEW from, NEW T
  PROVE  RowsFit(WithTotals(tt, from, T), ss)
<1> DEFINE new == WithTotals(tt, from, T)
<1>1. /\ DOMAIN new = DOMAIN tt
      /\ \A t \in DOMAIN tt : new[t] = tt[t] \/ CostChanged(new[t], tt[t])
  BY DEF WithTotals, CostChanged
<1> HIDE DEF new
<1>2. ASSUME NEW t \in DOMAIN tt, CostChanged(new[t], tt[t])
      PROVE  RowFits(new[t], ss, At(ss, {t}))
  <2>1. RowFits(tt[t], ss, At(ss, {t}))
    BY DEF RowsFit
  <2>3. PICK c, d : new[t] = [tt[t] EXCEPT !.cost = c, !.currency = d]
    BY <1>2 DEF CostChanged
  <2>2. /\ DOMAIN new[t] = DOMAIN tt[t] /\ new[t].root = tt[t].root
        /\ new[t].rootName = tt[t].rootName /\ new[t].status = tt[t].status
        /\ new[t].session = tt[t].session /\ new[t].count = tt[t].count
        /\ new[t].start = tt[t].start /\ new[t].end = tt[t].end
        /\ new[t].duration = tt[t].duration /\ new[t].tokens = tt[t].tokens
    BY <2>1, <2>3 DEF RowFits, Fields
  <2> QED BY <2>1, <2>2 DEF RowFits, Tells
<1> QED BY <1>1, <1>2 DEF RowsFit, new

(* The traces that are kept keep their spans. *)
LEMMA KeptFit ==
  ASSUME NEW kept \in SUBSET DOMAIN traces, SpansOK(spans), RowsFit(traces, spans)
  PROVE  RowsFit([t \in kept |-> traces[t]], TheirSpans(spans, kept))
<1> DEFINE tt == [t \in kept |-> traces[t]]
           ss == TheirSpans(spans, kept)
           all == At(spans, kept)
<1>1. SpansOK(ss) /\ \E h : Lists(h, spans, all, ss)
  <2>1. all \in SUBSET DOMAIN spans
    BY DEF At
  <2> QED BY <2>1, PickedOK DEF TheirSpans
<1> HIDE DEF ss
<1>2. PICK h : Lists(h, spans, all, ss)
  BY <1>1
<1>3. /\ DOMAIN ss \subseteq Nat /\ DOMAIN spans \subseteq Nat
      /\ all \subseteq DOMAIN spans
      /\ \A i \in all : spans[i].trace \in kept
      /\ \A i \in DOMAIN spans : spans[i].trace \in kept => i \in all
  BY <1>1, SeqIs DEF SpansOK, At
<1> HIDE DEF all
<1>4. DOMAIN tt = {ss[i].trace : i \in DOMAIN ss}
  <2>1. ASSUME NEW t \in kept PROVE \E i \in DOMAIN ss : ss[i].trace = t
    <3>1. PICK i \in DOMAIN spans : spans[i].trace = t
      BY DEF RowsFit
    <3>2. i \in all
      BY <1>3, <3>1
    <3>3. PICK k \in DOMAIN ss : h[k] = i
      BY <1>2, <3>2 DEF Lists
    <3> QED BY <1>2, <3>1, <3>3 DEF Lists
  <2>2. ASSUME NEW i \in DOMAIN ss PROVE ss[i].trace \in kept
    BY <1>2, <1>3 DEF Lists
  <2> QED BY <2>1, <2>2
<1>5. ASSUME NEW t \in kept PROVE RowFits(traces[t], ss, At(ss, {t}))
  <2> DEFINE I == At(spans, {t})
             J == At(ss, {t})
             g == [j \in J |-> h[j]]
  <2>1. I \subseteq DOMAIN spans /\ J \subseteq DOMAIN ss
        /\ (\A i \in I : spans[i].trace = t) /\ (\A j \in J : ss[j].trace = t)
        /\ (\A i \in DOMAIN spans : spans[i].trace = t => i \in I)
        /\ (\A j \in DOMAIN ss : ss[j].trace = t => j \in J)
    BY DEF At
  <2>2. RowFits(traces[t], spans, I)
    BY DEF RowsFit
  <2>3. Places(spans, I)
    BY <2>1, StoredPlaces
  <2> HIDE DEF I, J
  <2>4. Renumbers(g, ss, J, spans, I)
    <3>1. ASSUME NEW j \in J PROVE h[j] \in I /\ ss[j] = spans[h[j]]
      BY <1>2, <1>3, <2>1 DEF Lists
    <3>2. ASSUME NEW i \in I PROVE \E j \in J : h[j] = i
      <4>1. i \in all
        BY <1>3, <2>1
      <4>2. PICK k \in DOMAIN ss : h[k] = i /\ ss[k] = spans[i]
        BY <1>2, <4>1 DEF Lists
      <4>3. k \in J
        BY <2>1, <4>2
      <4> QED BY <4>2, <4>3
    <3>3. ASSUME NEW j \in J, NEW k \in J, j < k PROVE h[j] < h[k]
      BY <1>2, <2>1, <3>3 DEF Lists
    <3> QED BY <3>1, <3>2, <3>3 DEF Renumbers, Alike
  <2>5. J \in SUBSET Nat
    BY <1>3, <2>1
  <2> HIDE DEF g
  <2>6. RowFits(traces[t], ss, J)
    BY <2>2, <2>3, <2>4, <2>5, RowRenumbered
  <2> QED BY <2>6 DEF J
<1> QED BY <1>4, <1>5 DEF RowsFit, ss

(* A purge keeps rows of the store. *)
LEMMA PurgeKeepsSome ==
  ASSUME NEW cutoff \in Cutoffs, NEW n \in Counts, Purge(cutoff, n)
  PROVE  \E kept \in SUBSET DOMAIN traces : Keep(kept)
<1> DEFINE young == {t \in DOMAIN traces : traces[t].start >= cutoff}
<1>1. PICK kept \in KeptByCount(young, n) : Keep(kept)
  BY DEF Purge
<1>2. young \subseteq DOMAIN traces
  OBVIOUS
<1> HIDE DEF young
<1>3. kept \subseteq young
  BY DEF KeptByCount, kSubset
<1> QED BY <1>1, <1>2, <1>3

(* With their costs, the spans of a batch follow those of the store. *)
LEMMA CostedExtends ==
  ASSUME NEW b \in Batches, SpansOK(spans), PricesOK(settings), NEW T
  PROVE  Extends(WithCosts(spans \o Arrived(b), T), b)
<1> DEFINE all == spans \o Arrived(b)
           ss == WithCosts(all, T)
           old == Len(spans)
           new == Len(Content[b].spans)
<1>1. /\ SpansOK(all) /\ Len(all) = old + new
      /\ \A i \in 1 .. old : all[i] = spans[i]
      /\ \A i \in 1 .. new : all[old + i] = Arrived(b)[i]
  BY AllOK
<1> HIDE DEF all
<1>2. SpansOK(ss) /\ Len(ss) = Len(all) /\ \A i \in 1 .. Len(all) : Costed(ss[i], all[i], T)
  BY <1>1, WithCostsIs
<1> HIDE DEF ss
<1>3. old \in Nat /\ new \in Nat
  BY ArrivedIs, SeqIs DEF SpansOK
<1>4. \A i \in 1 .. new : Alike(Arrived(b)[i], Content[b].spans[i])
  BY ArrivedIs
<1>5. \A i \in 1 .. old + new : Alike(ss[i], all[i])
  BY <1>1, <1>2 DEF Costed
<1>6. (\A i \in 1 .. old : i \in 1 .. old + new) /\ \A i \in 1 .. new : old + i \in 1 .. old + new
  <2> HIDE DEF old, new
  <2> QED BY <1>3
<1>7. \A i \in 1 .. old : Alike(ss[i], spans[i])
  BY <1>1, <1>5, <1>6
<1>8. ASSUME NEW i \in 1 .. new PROVE Alike(ss[old + i], Content[b].spans[i])
  <2> DEFINE k == old + i
  <2>1. k \in 1 .. old + new /\ all[k] = Arrived(b)[i] /\ Alike(Arrived(b)[i], Content[b].spans[i])
    BY <1>1, <1>4, <1>6
  <2> HIDE DEF k
  <2>2. Alike(ss[k], all[k])
    BY <1>5, <2>1
  <2>3. Alike(ss[k], Content[b].spans[i])
    BY <2>1, <2>2 DEF Alike
  <2> QED BY <2>3 DEF k
<1> QED BY <1>1, <1>2, <1>7, <1>8 DEF Extends, ss, all

(* Every call leaves rows that tell what is stored. *)
LEMMA RowsNext == TypeInv /\ RowsFit(traces, spans) /\ [Next]_vars => RowsFit(traces', spans')
<1> SUFFICES ASSUME TypeInv, RowsFit(traces, spans), [Next]_vars
             PROVE  RowsFit(traces', spans')
  OBVIOUS
<1> DEFINE Same == UNCHANGED <<spans, traces>>
           Fit == RowsFit(traces', spans')
<1>0. Same => Fit
  OBVIOUS
<1>a. SpansOK(spans) /\ PricesOK(settings)
  BY DEF TypeInv
<1>b. ASSUME End PROVE Fit
  <2>1. spans' = << >> /\ traces' = << >>
    BY <1>b DEF End
  <2> QED BY <2>1 DEF RowsFit
<1>c. ASSUME NEW kept \in SUBSET DOMAIN traces, Keep(kept) PROVE Fit
  BY <1>a, <1>c, KeptFit DEF Keep
<1>d. ASSUME Interrupted PROVE Fit
  BY <1>b, <1>d DEF Interrupted
<1>e. ASSUME NEW s, Change(s) PROVE Fit
  BY <1>0, <1>d, <1>e DEF Change, data
<1>1. ASSUME NEW b \in Batches, InsertSpans(b) PROVE Fit
  <2>1. PICK T : LET all == spans \o Arrived(b)
                 IN  spans' = WithCosts(all, T) /\ traces' = WithTotals(Merged(b), all, T)
    BY <1>1 DEF InsertSpans
  <2>2. RowsFit(Merged(b), spans')
    BY <1>a, <2>1, CostedExtends, MergedFit
  <2> QED BY <2>1, <2>2, TotalsFit
<1>2. ASSUME NEW ls \in LogBatches, InsertLogs(ls) PROVE Fit
  BY <1>0, <1>2 DEF InsertLogs
<1>3. ASSUME NEW t \in DOMAIN traces, UpdateTraceCost(t) PROVE Fit
  BY <1>3, TotalsFit DEF UpdateTraceCost
<1>4. ASSUME NEW cutoff \in Cutoffs, PurgeLogs(cutoff) PROVE Fit
  BY <1>0, <1>4 DEF PurgeLogs
<1>5. ASSUME NEW cutoff \in Cutoffs, NEW n \in Counts, Purge(cutoff, n) PROVE Fit
  BY <1>5, <1>c, PurgeKeepsSome
<1>6. ASSUME NEW ids, DeleteTraces(ids) PROVE Fit
  BY <1>6, <1>c, <1>d DEF DeleteTraces
<1>7. ASSUME NEW m, DeleteModelPricing(m) PROVE Fit
  BY <1>e, <1>7 DEF DeleteModelPricing
<1>8. ASSUME NEW m, NEW p, UpsertModelPricing(m, p) PROVE Fit
  BY <1>e, <1>8 DEF UpsertModelPricing
<1>9. ASSUME NEW id, DeleteLLMConfig(id) PROVE Fit
  BY <1>e, <1>9 DEF DeleteLLMConfig
<1>10. ASSUME NEW id, NEW c, CreateLLMConfig(id, c) PROVE Fit
  BY <1>e, <1>10 DEF CreateLLMConfig
<1>11. ASSUME NEW id, NEW c, UpdateLLMConfig(id, c) PROVE Fit
  BY <1>e, <1>11 DEF UpdateLLMConfig
<1>12. ASSUME NEW t, UpsertDiagnosisResult(t) PROVE Fit
  BY <1>e, <1>12 DEF UpsertDiagnosisResult
<1>13. CASE Open
  BY <1>0, <1>13 DEF Open, data
<1>14. CASE Close
  BY <1>b, <1>14 DEF Close
<1>15. CASE Crash
  BY <1>b, <1>15 DEF Crash
<1>16. CASE UNCHANGED vars
  BY <1>0, <1>16 DEF vars
<1> QED
  BY <1>1, <1>2, <1>3, <1>4, <1>5, <1>6, <1>7, <1>8, <1>9, <1>10, <1>11, <1>12,
     <1>13, <1>14, <1>15, <1>16 DEF Next

(* In an empty store all of this holds. *)
LEMMA InitFits == Init => TypeInv /\ RowsFit(traces, spans)
<1> SUFFICES ASSUME Init PROVE TypeInv /\ RowsFit(traces, spans)
  OBVIOUS
<1>1. /\ spans = << >> /\ traces = << >> /\ settings = NoSettings /\ Contents = NoSettings
  BY DEF Init, Contents, Missing
<1>2. IsSeq(<< >>)
  BY EmptySeq, SeqOver
<1>3. SpansOK(spans) /\ RowsFit(traces, spans)
  BY <1>1, <1>2 DEF SpansOK, RowsFit
<1> QED BY <1>1, <1>3 DEF TypeInv, PricesOK, NoSettings

(* Rows that tell what is stored are its aggregates. *)
LEMMA FitIsAggregate == TypeInv /\ RowsFit(traces, spans) => RowIsAggregate
<1> SUFFICES ASSUME TypeInv, RowsFit(traces, spans) PROVE RowIsAggregate
  OBVIOUS
<1>1. ASSUME NEW t \in DOMAIN traces
      PROVE  LET whole == AggregateAt(spans, At(spans, {t}))
             IN  /\ \A f \in {"root", "rootName", "status", "session", "count", "start",
                              "end", "tokens"} : traces[t][f] = whole[f]
                 /\ traces[t].duration <= traces[t].end - traces[t].start
  <2> DEFINE I == At(spans, {t})
  <2>1. I \in SUBSET DOMAIN spans /\ I # {}
    BY DEF At, RowsFit
  <2>2. RowFits(traces[t], spans, I)
    BY DEF RowsFit
  <2> HIDE DEF I
  <2>3. Places(spans, I)
    BY <2>1, StoredPlaces DEF TypeInv
  <2>4. LET whole == AggregateAt(spans, I)
        IN  \A f \in {"root", "rootName", "status", "session", "count", "start",
                      "end", "tokens"} : traces[t][f] = whole[f]
    BY <2>1, <2>2, <2>3, TellsAggregate DEF RowFits
  <2> QED BY <2>2, <2>4 DEF RowFits, I
<1> QED BY <1>1 DEF RowIsAggregate, RowsFit

(* In the in-memory store, in whatever batches spans arrive and whatever   *)
(* is purged or deleted, the row of a trace is the one a single batch of   *)
(* the stored spans would make, but for the duration, which stays within   *)
(* the range (InsertSpans, UpdateTraceCost, Purge, DeleteTraces).          *)
THEOREM RowsAreAggregates == Spec => []RowIsAggregate
<1> DEFINE Inv == TypeInv /\ RowsFit(traces, spans)
<1>1. Init => Inv
  BY InitFits
<1>2. Inv /\ [Next]_vars => Inv'
  BY TypeNext, RowsNext
<1>3. Inv => RowIsAggregate
  BY FitIsAggregate
<1> HIDE DEF Inv
<1> QED BY <1>1, <1>2, <1>3, PTL DEF Spec

-----------------------------------------------------------------------------
(* What the spans of a trace cost, one without a cost nothing. *)
Costs(ss) == [i \in DOMAIN ss |-> IF ss[i].cost = NoValue THEN 0 ELSE ss[i].cost]
Spent(ss, t) == SumFunctionOnSet(Costs(ss), At(ss, {t}))

(* Only spans with tokens have a cost, and a trace that is not stale costs *)
(* what its spans do.                                                      *)
CostsFit(tt, ss, st) ==
  /\ \A i \in DOMAIN ss : Given(ss[i].cost) => ss[i].tokens # NoValue
  /\ \A t \in DOMAIN tt :
       /\ "cost" \in DOMAIN tt[t] /\ tt[t].cost \in Nat \cup {NoValue}
       /\ t \notin st /\ Given(tt[t].cost) => tt[t].cost = Spent(ss, t)

(* The positions of a trace are finitely many, and each has a cost. *)
LEMMA CostsAre ==
  ASSUME NEW ss, SpansOK(ss), NEW I \in SUBSET DOMAIN ss
  PROVE  /\ IsFiniteSet(I) /\ SumFunctionOnSet(Costs(ss), I) \in Nat
         /\ \A i \in I : /\ Costs(ss)[i] \in Nat
                         /\ Costs(ss)[i] = IF ss[i].cost = NoValue THEN 0 ELSE ss[i].cost
<1> DEFINE f == Costs(ss)
<1>1. IsFiniteSet(I)
  BY StoredPlaces DEF Places
<1>2. \A i \in I : f[i] \in Nat /\ f[i] = IF ss[i].cost = NoValue THEN 0 ELSE ss[i].cost
  BY DEF Costs, SpansOK, StoredSpan
<1> HIDE DEF f
<1>3. SumFunctionOnSet(f, I) \in Nat
  BY <1>1, <1>2, SumType
<1> QED BY <1>1, <1>2, <1>3 DEF f

(* Spans without costs add nothing. *)
LEMMA NothingSpent ==
  ASSUME NEW ss, SpansOK(ss), NEW fs, SpansOK(fs), NEW I \in SUBSET DOMAIN ss,
         NEW J \in SUBSET I, J \subseteq DOMAIN fs,
         \A i \in J : ss[i].cost = fs[i].cost, \A i \in I \ J : ss[i].cost = NoValue
  PROVE  SumFunctionOnSet(Costs(ss), I) = SumFunctionOnSet(Costs(fs), J)
<1> DEFINE f == Costs(ss)
           g == Costs(fs)
<1>1. IsFiniteSet(I) /\ \A i \in I : f[i] \in Nat /\ f[i] = IF ss[i].cost = NoValue THEN 0 ELSE ss[i].cost
  BY CostsAre
<1>2. IsFiniteSet(J) /\ \A i \in J : g[i] = IF fs[i].cost = NoValue THEN 0 ELSE fs[i].cost
  BY CostsAre
<1> HIDE DEF f, g
<1>3. SumFunctionOnSet(f, I) = SumFunctionOnSet(f, J)
  <2>1. \A i \in I : f[i] \in Nat
    BY <1>1
  <2>2. \A i \in I \ J : f[i] = 0
    BY <1>1
  <2> QED BY <1>1, <2>1, <2>2, SumOfPart
<1>4. SumFunctionOnSet(f, J) = SumFunctionOnSet(g, J)
  <2>1. \A i \in J : f[i] = g[i]
    BY <1>1, <1>2
  <2> QED BY <1>2, <2>1, SumSame
<1> QED BY <1>3, <1>4 DEF f, g

(* The total of a trace is what its spans cost, unless one has a cost that *)
(* no price accounts for.                                                  *)
LEMMA BillIsSpent ==
  ASSUME NEW all, SpansOK(all), PricesOK(settings), NEW T, NEW t \in T,
         ~Outdated(all, t)
  PROVE  /\ BillTotal(all, t) \in Nat
         /\ BillTotal(all, t) = Spent(WithCosts(all, T), t)
<1> DEFINE ss == WithCosts(all, T)
           I == At(ss, {t})
           B == Bill(all, t)
           f == Costs(ss)
           g == [i \in B |-> CostOf(all[i])]
<1>1. /\ SpansOK(ss) /\ Len(ss) = Len(all)
      /\ \A i \in 1 .. Len(all) : Costed(ss[i], all[i], T)
  BY WithCostsIs
<1>2. DOMAIN ss = 1 .. Len(all) /\ DOMAIN all = 1 .. Len(all)
  BY <1>1, SeqIs DEF SpansOK
<1> HIDE DEF ss
<1>3. I \subseteq DOMAIN ss /\ \A i \in DOMAIN ss : i \in I <=> all[i].trace = t
  BY <1>1, <1>2 DEF At, Costed, Alike
<1>4. B \subseteq I /\ \A i \in I : i \in B <=> Billed(all[i])
  BY <1>2, <1>3 DEF Bill
<1>5. BillTotal(all, t) = SumFunctionOnSet(g, B)
  BY DEF BillTotal, SumFunction, FoldFunction, SumFunctionOnSet
<1>6. \A i \in B : g[i] = CostOf(all[i])
  OBVIOUS
<1> HIDE DEF I, B, g
<1>7. /\ IsFiniteSet(I) /\ SumFunctionOnSet(f, I) \in Nat
      /\ \A i \in I : f[i] \in Nat /\ f[i] = IF ss[i].cost = NoValue THEN 0 ELSE ss[i].cost
  BY <1>1, <1>3, CostsAre
<1> HIDE DEF f
<1>8. \A i \in B : f[i] = g[i]
  <2> SUFFICES ASSUME NEW i \in B PROVE f[i] = g[i]
    OBVIOUS
  <2>1. i \in I /\ i \in 1 .. Len(all) /\ Billed(all[i]) /\ all[i].trace \in T
    BY <1>2, <1>3, <1>4
  <2>2. ss[i].cost = CostOf(all[i])
    BY <1>1, <2>1 DEF Costed
  <2>3. StoredSpan(all[i])
    BY <1>2, <2>1 DEF SpansOK
  <2>4. CostOf(all[i]) \in Nat
    <3>1. all[i].tokens \in Nat /\ settings.pricing[all[i].model].rate \in Nat
      BY <2>1, <2>3 DEF StoredSpan, IsSpan, Billed, Given, PricesOK
    <3>2. \A x, y \in Nat : x * y \in Nat
      OBVIOUS
    <3> QED BY <3>1, <3>2 DEF CostOf
  <2> QED BY <1>6, <1>7, <2>1, <2>2, <2>4, NoValueAssumption
<1>9. \A i \in I \ B : f[i] = 0
  <2> SUFFICES ASSUME NEW i \in I \ B PROVE f[i] = 0
    OBVIOUS
  <2>1. i \in 1 .. Len(all) /\ ~Billed(all[i]) /\ all[i].trace = t
    BY <1>2, <1>3, <1>4
  <2>2. ss[i].cost = all[i].cost
    BY <1>1, <2>1 DEF Costed
  <2>3. ~Given(all[i].cost)
    BY <1>2, <2>1 DEF Outdated
  <2> QED BY <1>7, <2>2, <2>3 DEF Given
<1>10. SumFunctionOnSet(f, I) = SumFunctionOnSet(f, B)
  <2>1. \A i \in I : f[i] \in Nat
    BY <1>7
  <2> QED BY <1>4, <1>7, <1>9, <2>1, SumOfPart
<1>11. SumFunctionOnSet(f, B) = SumFunctionOnSet(g, B)
  <2>1. IsFiniteSet(B)
    BY <1>4, <1>7, FS_Subset
  <2> QED BY <1>8, <2>1, SumSame
<1> QED BY <1>5, <1>7, <1>10, <1>11 DEF Spent, f, I, ss

(* It is a number in any case. *)
LEMMA BillIsNumber ==
  ASSUME NEW all, SpansOK(all), PricesOK(settings), NEW t
  PROVE  BillTotal(all, t) \in Nat
<1> DEFINE B == Bill(all, t)
           g == [i \in B |-> CostOf(all[i])]
<1>1. BillTotal(all, t) = SumFunctionOnSet(g, B)
  BY DEF BillTotal, SumFunction, FoldFunction, SumFunctionOnSet
<1>2. B \in SUBSET DOMAIN all /\ \A i \in B : Billed(all[i])
  BY DEF Bill
<1> HIDE DEF B
<1>3. IsFiniteSet(B)
  BY <1>2, CostsAre
<1>4. ASSUME NEW i \in B PROVE g[i] \in Nat
  <2>1. all[i].tokens \in Nat /\ settings.pricing[all[i].model].rate \in Nat
    BY <1>2 DEF SpansOK, StoredSpan, IsSpan, Billed, Given, PricesOK
  <2>2. \A x, y \in Nat : x * y \in Nat
    OBVIOUS
  <2>3. g[i] = CostOf(all[i])
    OBVIOUS
  <2> HIDE DEF g
  <2> QED BY <2>1, <2>2, <2>3 DEF CostOf
<1> HIDE DEF g
<1> QED BY <1>1, <1>3, <1>4, SumType

(* A new total changes the cost of a row, and a row keeps what it has. *)
LEMMA TotalsAre ==
  ASSUME NEW tt, NEW ss, NEW T, NEW t \in DOMAIN tt, "cost" \in DOMAIN tt[t]
  PROVE  LET r == WithTotals(tt, ss, T)
         IN  /\ DOMAIN r = DOMAIN tt /\ "cost" \in DOMAIN r[t]
             /\ r[t].cost = IF t \in T /\ Bill(ss, t) # {} THEN BillTotal(ss, t)
                            ELSE tt[t].cost
BY DEF WithTotals

(* The merge keeps the cost of a row, and a batch brings none. *)
LEMMA MergedCost ==
  ASSUME NEW b \in Batches, SpansOK(spans), PricesOK(settings), RowsFit(traces, spans),
         NEW t \in DOMAIN Merged(b)
  PROVE  LET r == Merged(b)[t]
         IN  /\ "cost" \in DOMAIN r
             /\ r.cost = IF t \in DOMAIN traces THEN traces[t].cost ELSE NoValue
<1>1. /\ t \in DOMAIN traces \cup TracesOf(b)
      /\ Merged(b)[t] = IF t \notin TracesOf(b) THEN traces[t]
                        ELSE IF t \in DOMAIN traces THEN MemMerge(traces[t], RowOf(b, t))
                        ELSE RowOf(b, t)
  BY DEF Merged
<1>2. t \in DOMAIN traces => Fields \subseteq DOMAIN traces[t] /\ "cost" \in DOMAIN traces[t]
  BY DEF RowsFit, RowFits, Fields
<1>3. t \in TracesOf(b) => "cost" \in DOMAIN RowOf(b, t) /\ RowOf(b, t).cost = NoValue
  <2>1. \E ss : Extends(ss, b)
    BY CostedExtends
  <2> QED BY <2>1, BatchRow DEF RowFits, Fields
<1>4. t \in DOMAIN traces =>
        LET m == MemMerge(traces[t], RowOf(b, t))
        IN  "cost" \in DOMAIN m /\ m.cost = traces[t].cost
  BY <1>2, MergeJoins
<1> QED BY <1>1, <1>2, <1>3, <1>4

(* A trace that is not costed when a batch arrives has spent what it had. *)
LEMMA SpentBefore ==
  ASSUME NEW b \in Batches, SpansOK(spans), PricesOK(settings), NEW T, NEW t,
         t \in T => Bill(spans \o Arrived(b), t) = {}
  PROVE  Spent(WithCosts(spans \o Arrived(b), T), t) = Spent(spans, t)
<1> DEFINE all == spans \o Arrived(b)
           ss == WithCosts(all, T)
           old == Len(spans)
           new == Len(Content[b].spans)
           I == At(ss, {t})
           J == At(spans, {t})
<1>1. /\ SpansOK(all) /\ Len(all) = old + new
      /\ \A i \in 1 .. old : all[i] = spans[i]
      /\ \A i \in 1 .. new : all[old + i] = Arrived(b)[i]
  BY AllOK
<1>2. \A i \in 1 .. new : Arrived(b)[i].cost = NoValue
  BY ArrivedIs
<1>3. old \in Nat /\ new \in Nat /\ DOMAIN spans = 1 .. old /\ DOMAIN all = 1 .. old + new
  BY <1>1, ArrivedIs, SeqIs DEF SpansOK
<1>4. t \in T => \A i \in DOMAIN all : all[i].trace = t => ~Billed(all[i])
  BY DEF Bill
<1> HIDE DEF all
<1>5. SpansOK(ss) /\ Len(ss) = Len(all) /\ \A i \in 1 .. Len(all) : Costed(ss[i], all[i], T)
  BY <1>1, WithCostsIs
<1>6. DOMAIN ss = 1 .. old + new
  BY <1>1, <1>5, SeqIs DEF SpansOK
<1> HIDE DEF ss, old, new
<1>7. \A i \in DOMAIN all : all[i].trace = ss[i].trace
  BY <1>1, <1>3, <1>5 DEF Costed, Alike
<1>8. \A i \in I : i \in DOMAIN all /\ ss[i].cost = all[i].cost
  BY <1>1, <1>3, <1>4, <1>5, <1>6, <1>7 DEF At, Costed
<1>9. J \subseteq I
  BY <1>1, <1>3, <1>6, <1>7 DEF At
<1>10. ASSUME NEW i \in J PROVE ss[i].cost = spans[i].cost
  BY <1>1, <1>3, <1>8, <1>9 DEF At
<1>11. ASSUME NEW i \in I \ J PROVE ss[i].cost = NoValue
  <2>1. i \in 1 .. old + new /\ all[i].trace = t
    BY <1>3, <1>6, <1>7 DEF At
  <2>2. i \notin 1 .. old
    <3> SUFFICES ASSUME i \in 1 .. old PROVE i \in J
      OBVIOUS
    <3> QED BY <1>1, <1>3, <2>1 DEF At
  <2>3. i - old \in 1 .. new /\ old + (i - old) = i
    BY <1>3, <2>1, <2>2
  <2>4. all[i].cost = NoValue
    BY <1>1, <1>2, <2>3
  <2> QED BY <1>8, <2>4
<1>12. I \in SUBSET DOMAIN ss /\ J \subseteq DOMAIN spans
  BY DEF At
<1> HIDE DEF I, J
<1>13. SumFunctionOnSet(Costs(ss), I) = SumFunctionOnSet(Costs(spans), J)
  BY <1>5, <1>9, <1>10, <1>11, <1>12, NothingSpent
<1> QED BY <1>13 DEF Spent, I, J, ss, all

(* A batch leaves costs that fit: those of a trace it costs are new. *)
LEMMA InsertCosts ==
  ASSUME NEW b \in Batches, TypeInv, RowsFit(traces, spans),
         CostsFit(traces, spans, stale), InsertSpans(b)
  PROVE  CostsFit(traces', spans', stale')
<1> DEFINE all == spans \o Arrived(b)
           tt == Merged(b)
           T == {t \in TracesOf(b) : Given(tt[t].tokens)}
<1>0. SpansOK(spans) /\ PricesOK(settings)
  BY DEF TypeInv
<1>1. /\ spans' = WithCosts(all, T) /\ traces' = WithTotals(tt, all, T)
      /\ stale' = {t \in stale \cup T : IF t \in T /\ Bill(all, t) # {} THEN Outdated(all, t)
                                        ELSE t \in stale}
  BY DEF InsertSpans
<1> DEFINE ss == WithCosts(all, T)
           old == Len(spans)
           new == Len(Content[b].spans)
<1>2. /\ SpansOK(all) /\ Len(all) = old + new
      /\ \A i \in 1 .. old : all[i] = spans[i]
      /\ \A i \in 1 .. new : all[old + i] = Arrived(b)[i] /\ Arrived(b)[i].cost = NoValue
  BY <1>0, AllOK, ArrivedIs
<1>3. old \in Nat /\ new \in Nat /\ DOMAIN spans = 1 .. old /\ DOMAIN all = 1 .. old + new
  BY <1>0, <1>2, ArrivedIs, SeqIs DEF SpansOK
<1>4. ASSUME NEW t
      PROVE  /\ (t \in T => Bill(all, t) = {}) => Spent(ss, t) = Spent(spans, t)
             /\ BillTotal(all, t) \in Nat
             /\ t \in T /\ ~Outdated(all, t) => BillTotal(all, t) = Spent(ss, t)
  <2>1. (t \in T => Bill(all, t) = {}) => Spent(ss, t) = Spent(spans, t)
    <3> HIDE DEF T
    <3> QED BY <1>0, SpentBefore
  <2> HIDE DEF T, all
  <2>2. BillTotal(all, t) \in Nat
    BY <1>0, <1>2, BillIsNumber
  <2>3. ASSUME t \in T, ~Outdated(all, t) PROVE BillTotal(all, t) = Spent(ss, t)
    BY <1>0, <1>2, <2>3, BillIsSpent
  <2> QED BY <2>1, <2>2, <2>3
<1>5. ASSUME NEW t \in DOMAIN tt
      PROVE  /\ "cost" \in DOMAIN tt[t]
             /\ tt[t].cost = IF t \in DOMAIN traces THEN traces[t].cost ELSE NoValue
  BY <1>0, MergedCost
<1> HIDE DEF tt, T, all
<1>6. SpansOK(ss) /\ Len(ss) = Len(all) /\ \A i \in 1 .. Len(all) : Costed(ss[i], all[i], T)
  BY <1>0, <1>2, WithCostsIs
<1>7. DOMAIN ss = 1 .. old + new
  BY <1>2, <1>6, SeqIs DEF SpansOK
<1> HIDE DEF ss, old, new
<1>8. ASSUME NEW i \in DOMAIN ss, Given(ss[i].cost) PROVE ss[i].tokens # NoValue
  <2>1. Costed(ss[i], all[i], T) /\ ss[i].tokens = all[i].tokens
    BY <1>2, <1>6, <1>7 DEF Costed, Alike
  <2>2. CASE all[i].trace \in T /\ Billed(all[i])
    BY <2>1, <2>2 DEF Billed, Given
  <2>3. CASE ~(all[i].trace \in T /\ Billed(all[i]))
    <3>1. Given(all[i].cost)
      BY <1>8, <2>1, <2>3 DEF Costed
    <3>2. i \in 1 .. old
      <4> SUFFICES ASSUME i \notin 1 .. old PROVE FALSE
        OBVIOUS
      <4>1. i - old \in 1 .. new /\ old + (i - old) = i
        BY <1>3, <1>7
      <4>2. all[i].cost = NoValue
        BY <1>2, <4>1
      <4> QED BY <3>1, <4>2 DEF Given
    <3>3. spans[i].tokens # NoValue
      BY <1>2, <1>3, <3>1, <3>2 DEF CostsFit
    <3> QED BY <1>2, <2>1, <3>2, <3>3
  <2> QED BY <2>2, <2>3
<1>9. ASSUME NEW t \in DOMAIN traces'
      PROVE  LET r == traces'[t]
             IN  /\ "cost" \in DOMAIN r /\ r.cost \in Nat \cup {NoValue}
                 /\ t \notin stale' /\ Given(r.cost) => r.cost = Spent(ss, t)
  <2>1. t \in DOMAIN tt
    BY <1>1 DEF WithTotals
  <2>2. /\ "cost" \in DOMAIN traces'[t]
        /\ traces'[t].cost = IF t \in T /\ Bill(all, t) # {} THEN BillTotal(all, t)
                             ELSE tt[t].cost
    BY <1>1, <1>5, <2>1, TotalsAre
  <2>3. CASE t \in T /\ Bill(all, t) # {}
    <3>1. traces'[t].cost = BillTotal(all, t)
      BY <2>2, <2>3
    <3>2. t \notin stale' => ~Outdated(all, t)
      BY <1>1, <2>3
    <3> QED BY <1>4, <2>2, <2>3, <3>1, <3>2
  <2>4. CASE ~(t \in T /\ Bill(all, t) # {})
    <3>1. /\ traces'[t].cost = IF t \in DOMAIN traces THEN traces[t].cost ELSE NoValue
          /\ Spent(ss, t) = Spent(spans, t)
      BY <1>4, <1>5, <2>1, <2>2, <2>4
    <3>2. t \notin stale' => t \notin stale
      BY <1>1, <2>4
    <3>3. t \in DOMAIN traces =>
            /\ traces[t].cost \in Nat \cup {NoValue}
            /\ t \notin stale /\ Given(traces[t].cost) => traces[t].cost = Spent(spans, t)
      BY DEF CostsFit
    <3> QED BY <2>2, <3>1, <3>2, <3>3 DEF Given
  <2> QED BY <2>3, <2>4
<1> QED BY <1>1, <1>8, <1>9 DEF CostsFit, ss

(* A recalculation that changes a cost leaves the trace stale. *)
LEMMA RecalculatedCosts ==
  ASSUME NEW u \in DOMAIN traces, TypeInv, CostsFit(traces, spans, stale),
         UpdateTraceCost(u)
  PROVE  CostsFit(traces', spans', stale')
<1>1. /\ traces' = WithTotals(traces, spans, {u}) /\ spans' = spans
      /\ stale' = IF traces'[u].cost = traces[u].cost THEN stale ELSE stale \cup {u}
  BY DEF UpdateTraceCost
<1>2. SpansOK(spans) /\ PricesOK(settings)
  BY DEF TypeInv
<1>3. DOMAIN traces' = DOMAIN traces
  BY <1>1 DEF WithTotals
<1>4. ASSUME NEW t \in DOMAIN traces
      PROVE  LET r == traces'[t]
             IN  /\ "cost" \in DOMAIN r /\ r.cost \in Nat \cup {NoValue}
                 /\ t \notin stale' /\ Given(r.cost) => r.cost = Spent(spans, t)
  <2>1. /\ "cost" \in DOMAIN traces[t] /\ traces[t].cost \in Nat \cup {NoValue}
        /\ t \notin stale /\ Given(traces[t].cost) => traces[t].cost = Spent(spans, t)
    BY DEF CostsFit
  <2>2. /\ "cost" \in DOMAIN traces'[t]
        /\ traces'[t].cost = IF t \in {u} /\ Bill(spans, t) # {} THEN BillTotal(spans, t)
                             ELSE traces[t].cost
    BY <1>1, <2>1, TotalsAre
  <2>3. BillTotal(spans, t) \in Nat
    BY <1>2, BillIsNumber
  <2>4. t \notin stale' => t \notin stale /\ traces'[t].cost = traces[t].cost
    BY <1>1, <2>2
  <2> QED BY <2>1, <2>2, <2>3, <2>4
<1> QED BY <1>1, <1>3, <1>4 DEF CostsFit

(* The traces that are kept keep what they cost. *)
LEMMA KeptCosts ==
  ASSUME NEW kept \in SUBSET DOMAIN traces, SpansOK(spans),
         CostsFit(traces, spans, stale), Keep(kept)
  PROVE  CostsFit(traces', spans', stale')
<1> DEFINE ss == TheirSpans(spans, kept)
           all == At(spans, kept)
<1>1. SpansOK(ss) /\ \E h : Lists(h, spans, all, ss)
  <2>1. all \in SUBSET DOMAIN spans
    BY DEF At
  <2> QED BY <2>1, PickedOK DEF TheirSpans
<1>2. traces' = [t \in kept |-> traces[t]] /\ spans' = ss /\ stale' = stale \cap kept
  BY DEF Keep
<1> HIDE DEF ss
<1>3. PICK h : Lists(h, spans, all, ss)
  BY <1>1
<1>4. /\ DOMAIN ss \subseteq Nat /\ DOMAIN spans \subseteq Nat /\ all \subseteq DOMAIN spans
      /\ \A i \in DOMAIN spans : i \in all <=> spans[i].trace \in kept
  BY <1>1, SeqIs DEF SpansOK, At
<1> HIDE DEF all
<1>5. \A k \in DOMAIN ss : h[k] \in DOMAIN spans /\ h[k] \in all /\ ss[k] = spans[h[k]]
  BY <1>3, <1>4 DEF Lists
<1>6. ASSUME NEW t \in kept PROVE Spent(ss, t) = Spent(spans, t)
  <2> DEFINE S == At(ss, {t})
             I == At(spans, {t})
             f == Costs(spans)
             g == Costs(ss)
  <2>1. /\ S \subseteq DOMAIN ss /\ I \subseteq DOMAIN spans
        /\ \A i \in DOMAIN spans : i \in I <=> spans[i].trace = t
        /\ \A i \in DOMAIN ss : i \in S <=> ss[i].trace = t
    BY DEF At
  <2>2. IsFiniteSet(S) /\ \A k \in S : g[k] = IF ss[k].cost = NoValue THEN 0 ELSE ss[k].cost
    BY <1>1, <2>1, CostsAre
  <2>3. \A i \in I : f[i] \in Nat /\ f[i] = IF spans[i].cost = NoValue THEN 0 ELSE spans[i].cost
    BY <2>1, CostsAre
  <2> HIDE DEF S, I, f, g
  <2>4. \A k \in S : h[k] \in I
    BY <1>5, <2>1
  <2>5. ASSUME NEW i \in I PROVE \E k \in S : h[k] = i
    <3>1. i \in all
      BY <1>4, <2>1
    <3>2. PICK k \in DOMAIN ss : h[k] = i
      BY <1>3, <3>1 DEF Lists
    <3> QED BY <1>5, <2>1, <3>2
  <2>6. ASSUME NEW j \in S, NEW k \in S, h[j] = h[k] PROVE j = k
    <3>1. j \in DOMAIN ss /\ k \in DOMAIN ss /\ j \in Nat /\ k \in Nat
      BY <1>4, <2>1
    <3>2. (j < k => h[j] < h[k]) /\ (k < j => h[k] < h[j])
      BY <1>3, <3>1 DEF Lists
    <3>3. h[j] \in Nat /\ h[k] \in Nat
      BY <1>4, <1>5, <3>1
    <3> QED BY <2>6, <3>1, <3>2, <3>3
  <2>7. Renames(h, S, I)
    <3>1. I = {h[k] : k \in S}
      BY <2>4, <2>5
    <3> QED BY <2>6, <3>1 DEF Renames
  <2>8. Follows(g, f, h, S)
    BY <1>5, <2>1, <2>2, <2>3, <2>4 DEF Follows
  <2>9. SumFunctionOnSet(g, S) = SumFunctionOnSet(f, I)
    BY <2>2, <2>7, <2>8, SumRenamed
  <2> QED BY <2>9 DEF Spent, S, I, f, g
<1>7. ASSUME NEW i \in DOMAIN ss, Given(ss[i].cost) PROVE ss[i].tokens # NoValue
  BY <1>5, <1>7 DEF CostsFit
<1>8. ASSUME NEW t \in kept
      PROVE  LET r == traces[t]
             IN  /\ "cost" \in DOMAIN r /\ r.cost \in Nat \cup {NoValue}
                 /\ t \notin stale' /\ Given(r.cost) => r.cost = Spent(ss, t)
  BY <1>2, <1>6, <1>8 DEF CostsFit
<1> QED BY <1>2, <1>7, <1>8 DEF CostsFit

(* Every call leaves costs that fit. *)
LEMMA CostsNext ==
  TypeInv /\ RowsFit(traces, spans) /\ CostsFit(traces, spans, stale) /\ [Next]_vars
    => CostsFit(traces', spans', stale')
<1> SUFFICES ASSUME TypeInv, RowsFit(traces, spans), CostsFit(traces, spans, stale),
                    [Next]_vars
             PROVE  CostsFit(traces', spans', stale')
  OBVIOUS
<1> DEFINE Fit == CostsFit(traces', spans', stale')
<1>0. UNCHANGED <<spans, traces, stale>> => Fit
  OBVIOUS
<1>a. ASSUME End PROVE Fit
  <2>1. spans' = << >> /\ traces' = << >>
    BY <1>a DEF End
  <2> QED BY <2>1 DEF CostsFit
<1>b. ASSUME NEW kept \in SUBSET DOMAIN traces, Keep(kept) PROVE Fit
  BY <1>b, KeptCosts DEF TypeInv
<1>c. ASSUME Interrupted PROVE Fit
  BY <1>a, <1>c DEF Interrupted
<1>d. ASSUME NEW s, Change(s) PROVE Fit
  BY <1>0, <1>c, <1>d DEF Change, data
<1>1. ASSUME NEW b \in Batches, InsertSpans(b) PROVE Fit
  BY <1>1, InsertCosts
<1>2. ASSUME NEW ls \in LogBatches, InsertLogs(ls) PROVE Fit
  BY <1>0, <1>2 DEF InsertLogs
<1>3. ASSUME NEW t \in DOMAIN traces, UpdateTraceCost(t) PROVE Fit
  BY <1>3, RecalculatedCosts
<1>4. ASSUME NEW cutoff \in Cutoffs, PurgeLogs(cutoff) PROVE Fit
  BY <1>0, <1>4 DEF PurgeLogs
<1>5. ASSUME NEW cutoff \in Cutoffs, NEW n \in Counts, Purge(cutoff, n) PROVE Fit
  BY <1>5, <1>b, PurgeKeepsSome
<1>6. ASSUME NEW ids, DeleteTraces(ids) PROVE Fit
  BY <1>6, <1>b, <1>c DEF DeleteTraces
<1>7. ASSUME NEW m, DeleteModelPricing(m) PROVE Fit
  BY <1>d, <1>7 DEF DeleteModelPricing
<1>8. ASSUME NEW m, NEW p, UpsertModelPricing(m, p) PROVE Fit
  BY <1>d, <1>8 DEF UpsertModelPricing
<1>9. ASSUME NEW id, DeleteLLMConfig(id) PROVE Fit
  BY <1>d, <1>9 DEF DeleteLLMConfig
<1>10. ASSUME NEW id, NEW c, CreateLLMConfig(id, c) PROVE Fit
  BY <1>d, <1>10 DEF CreateLLMConfig
<1>11. ASSUME NEW id, NEW c, UpdateLLMConfig(id, c) PROVE Fit
  BY <1>d, <1>11 DEF UpdateLLMConfig
<1>12. ASSUME NEW t, UpsertDiagnosisResult(t) PROVE Fit
  BY <1>d, <1>12 DEF UpsertDiagnosisResult
<1>13. CASE Open
  BY <1>0, <1>13 DEF Open, data
<1>14. CASE Close
  BY <1>a, <1>14 DEF Close
<1>15. CASE Crash
  BY <1>a, <1>15 DEF Crash
<1>16. CASE UNCHANGED vars
  BY <1>0, <1>16 DEF vars
<1> QED
  BY <1>1, <1>2, <1>3, <1>4, <1>5, <1>6, <1>7, <1>8, <1>9, <1>10, <1>11, <1>12,
     <1>13, <1>14, <1>15, <1>16 DEF Next

(* The totals of the traces, and the shares of the keys of their spans. *)
Grouped(costly, total, counted, key, K, share) ==
  /\ costly = {t \in DOMAIN traces : Given(traces[t].cost)} /\ costly \cap stale = {}
  /\ \A t \in costly : total[t] = traces[t].cost
  /\ counted = {i \in DOMAIN spans : /\ spans[i].trace \in costly
                                      /\ spans[i].tokens # NoValue}
  /\ K = {key[i] : i \in counted}
  /\ Shares(share, K, Costs(spans), counted, key)

(* The costs that fit, grouped by any key, add up to those of the traces. *)
LEMMA PartsAddUp ==
  ASSUME TypeInv, RowsFit(traces, spans), CostsFit(traces, spans, stale),
         NEW costly, NEW total, NEW counted, NEW key, NEW K, NEW share,
         Grouped(costly, total, counted, key, K, share)
  PROVE  SumFunctionOnSet(total, costly) = SumFunctionOnSet(share, K)
<1> USE DEF Grouped
<1> DEFINE S == DOMAIN spans
           f == Costs(spans)
           trace == [i \in S |-> spans[i].trace]
           theirs == {i \in S : trace[i] \in costly}
<1>1. IsFiniteSet(S) /\ \A i \in S : f[i] \in Nat
                                   /\ f[i] = IF spans[i].cost = NoValue THEN 0 ELSE spans[i].cost
  BY CostsAre DEF TypeInv
<1>2. \A t : At(spans, {t}) = {i \in S : trace[i] = t}
  BY DEF At
<1>3. \A t \in costly : total[t] = SumFunctionOnSet(f, {i \in S : trace[i] = t})
  <2> SUFFICES ASSUME NEW t \in costly
               PROVE  total[t] = SumFunctionOnSet(f, {i \in S : trace[i] = t})
    OBVIOUS
  <2>1. total[t] = Spent(spans, t)
    BY DEF CostsFit
  <2> QED BY <1>2, <2>1 DEF Spent
<1>4. IsFiniteSet(costly)
  <2>1. DOMAIN traces = {trace[i] : i \in S}
    BY DEF RowsFit
  <2> HIDE DEF trace, S
  <2>2. IsFiniteSet({trace[i] : i \in S})
    BY <1>1, FiniteImage
  <2> QED BY <2>1, <2>2, FS_Subset
<1>5. counted \subseteq theirs
  OBVIOUS
<1>6. \A i \in theirs \ counted : f[i] = 0
  <2> SUFFICES ASSUME NEW i \in theirs \ counted PROVE f[i] = 0
    OBVIOUS
  <2>1. i \in S /\ spans[i].tokens = NoValue
    OBVIOUS
  <2>2. ~Given(spans[i].cost)
    BY <2>1 DEF CostsFit
  <2> QED BY <1>1, <2>1, <2>2 DEF Given
<1>7. theirs \subseteq S
  OBVIOUS
<1> HIDE DEF S, f, trace
<1>8. SumFunctionOnSet(total, costly) = SumFunctionOnSet(f, theirs)
  <2>1. Shares(total, costly, f, S, trace)
    BY <1>3 DEF Shares
  <2> QED BY <1>1, <1>4, <2>1, SumOfParts
<1> HIDE DEF theirs
<1>9. IsFiniteSet(theirs) /\ IsFiniteSet(counted) /\ \A i \in theirs : f[i] \in Nat
  BY <1>1, <1>5, <1>7, FS_Subset
<1>10. SumFunctionOnSet(f, theirs) = SumFunctionOnSet(f, counted)
  BY <1>5, <1>6, <1>9, SumOfPart
<1>11. SumFunctionOnSet(share, K) = SumFunctionOnSet(f, counted)
  <2>1. IsFiniteSet(K)
    BY <1>9, FiniteImage
  <2>2. \A i \in counted : f[i] \in Nat
    BY <1>5, <1>9
  <2>3. Shares(share, K, f, counted, key)
    BY DEF f
  <2>4. SumFunctionOnSet(share, K) = SumFunctionOnSet(f, {i \in counted : key[i] \in K})
    BY <1>9, <2>1, <2>2, <2>3, SumOfParts
  <2>5. {i \in counted : key[i] \in K} = counted
    OBVIOUS
  <2> QED BY <2>4, <2>5
<1> QED BY <1>8, <1>10, <1>11

(* The summary is made of such parts. *)
LEMMA FitAddsUp ==
  TypeInv /\ RowsFit(traces, spans) /\ CostsFit(traces, spans, stale) => CostSummaryAddsUp
<1> SUFFICES ASSUME TypeInv, RowsFit(traces, spans), CostsFit(traces, spans, stale),
                    NEW by \in {"model", "service"},
                    {t \in DOMAIN traces : Given(traces[t].cost)} \cap stale = {}
             PROVE  LET summary == MemCostSummary(traces, spans, 0, 0, by)
                    IN  summary.cost = Total(DOMAIN summary.groups,
                                             LAMBDA g : summary.groups[g].cost)
  BY DEF CostSummaryAddsUp
<1> DEFINE costly == {t \in DOMAIN traces : Given(traces[t].cost)}
           counted == {i \in DOMAIN spans : spans[i].trace \in costly
                                            /\ spans[i].tokens # NoValue}
           Key(i) == IF by = "service" THEN traces[spans[i].trace].service ELSE spans[i].model
           key == [i \in counted |-> Key(i)]
           K == {key[i] : i \in counted}
           own(k) == {i \in counted : key[i] = k}
           f == Costs(spans)
           summary == MemCostSummary(traces, spans, 0, 0, by)
           total == [t \in costly |-> IF traces[t].cost = NoValue THEN 0 ELSE traces[t].cost]
           part(k) == [i \in own(k) |-> IF spans[i].cost = NoValue THEN 0 ELSE spans[i].cost]
<1>1. costly = {t \in DOMAIN traces : /\ Given(0) => traces[t].start >= 0
                                      /\ Given(0) => traces[t].start <= 0
                                      /\ Given(traces[t].cost)}
  BY DEF Given
<1>2. summary.cost = SumFunction(total)
  BY <1>1 DEF MemCostSummary, Total
<1>3. DOMAIN summary.groups = {Key(i) : i \in counted}
  BY <1>1 DEF MemCostSummary, Group
<1>4. \A k \in {Key(i) : i \in counted} :
        summary.groups[k].cost = SumFunction([i \in {j \in counted : Key(j) = k} |->
                                    IF spans[i].cost = NoValue THEN 0 ELSE spans[i].cost])
  BY <1>1 DEF MemCostSummary, Group, Total
<1>5. K = {Key(i) : i \in counted} /\ \A k : own(k) = {j \in counted : Key(j) = k}
  OBVIOUS
<1>6. ASSUME NEW k \in K
      PROVE  /\ summary.groups[k].cost = SumFunctionOnSet(f, own(k))
             /\ summary.groups[k].cost # NoValue
  <2>1. summary.groups[k].cost = SumFunction(part(k))
    BY <1>4, <1>5
  <2> HIDE DEF summary
  <2>2. SumFunction(part(k)) = SumFunctionOnSet(part(k), own(k))
    BY DEF SumFunction, FoldFunction, SumFunctionOnSet
  <2>3. own(k) \in SUBSET DOMAIN spans
    OBVIOUS
  <2>4. \A i \in own(k) : part(k)[i] = IF spans[i].cost = NoValue THEN 0 ELSE spans[i].cost
    OBVIOUS
  <2> DEFINE O == own(k)
             p == part(k)
  <2> HIDE DEF own, part, f
  <2>5. /\ IsFiniteSet(O) /\ SumFunctionOnSet(f, O) \in Nat
        /\ \A i \in O : f[i] = IF spans[i].cost = NoValue THEN 0 ELSE spans[i].cost
    BY <2>3, CostsAre DEF f, TypeInv
  <2>6. \A i \in O : p[i] = f[i]
    BY <2>4, <2>5
  <2> HIDE DEF O, p
  <2>7. SumFunctionOnSet(p, O) = SumFunctionOnSet(f, O)
    BY <2>5, <2>6, SumSame
  <2> QED BY <2>1, <2>2, <2>5, <2>7, NoValueAssumption DEF O, p
<1> DEFINE share == [k \in K |-> IF summary.groups[k].cost = NoValue THEN 0
                                 ELSE summary.groups[k].cost]
<1>7. Total(DOMAIN summary.groups, LAMBDA g : summary.groups[g].cost) = SumFunction(share)
  BY <1>3, <1>5 DEF Total
<1>8. \A t \in costly : total[t] = traces[t].cost
  BY DEF Given
<1>9. Shares(share, K, f, counted, key)
  BY <1>6 DEF Shares
<1>10. SumFunction(total) = SumFunctionOnSet(total, costly)
       /\ SumFunction(share) = SumFunctionOnSet(share, K)
  BY DEF SumFunction, FoldFunction, SumFunctionOnSet
<1> HIDE DEF summary, total, share, key
<1>11. Grouped(costly, total, counted, key, K, share)
  BY <1>8, <1>9 DEF Grouped
<1> HIDE DEF costly, counted, K
<1>12. SumFunctionOnSet(total, costly) = SumFunctionOnSet(share, K)
  BY <1>11, PartsAddUp
<1> QED BY <1>2, <1>7, <1>10, <1>12 DEF summary

(* In the in-memory store, the shares of the models, and those of the      *)
(* services, add up to the cost of the traces, whatever arrives, is purged *)
(* or deleted and whatever becomes of the prices, as long as no trace in   *)
(* the summary is stale: recalculated since its spans were costed, or with *)
(* a span costed at a price that is gone (InsertSpans, UpdateTraceCost,    *)
(* GetCostSummary).                                                        *)
THEOREM CostsAddUp == Spec => []CostSummaryAddsUp
<1> DEFINE Inv == TypeInv /\ RowsFit(traces, spans) /\ CostsFit(traces, spans, stale)
<1>1. Init => Inv
  BY InitFits DEF Init, CostsFit
<1>2. Inv /\ [Next]_vars => Inv'
  BY TypeNext, RowsNext, CostsNext
<1>3. Inv => CostSummaryAddsUp
  BY FitAddsUp
<1> HIDE DEF Inv
<1> QED BY <1>1, <1>2, <1>3, PTL DEF Spec

-----------------------------------------------------------------------------
(* The two ways to read: the loops over memory and the statements.         *)

(* A clause says of a record what the loop asks of it. *)
LEMMA ClauseIs ==
  ASSUME NEW l, NEW column, NEW v
  PROVE  /\ Selected(l, Clause(column, "=", v)) <=> (Given(v) => l[column] = v)
         /\ Selected(l, Clause(column, ">=", v))
              <=> (Given(v) => l[column] # NoValue /\ l[column] >= v)
         /\ Selected(l, Clause(column, "<=", v))
              <=> (Given(v) => l[column] # NoValue /\ l[column] <= v)
         /\ Selected(l, Clause(column, "LIKE", v))
              <=> (Given(v) => <<l[column], v>> \in Like)
<1>a. ASSUME NEW op
      PROVE  LET c == [column |-> column, op |-> op, value |-> v]
             IN  /\ Selected(l, Clause(column, op, v)) <=> (Given(v) => Satisfies(l, c))
                 /\ c.column = column /\ c.op = op /\ c.value = v
  BY DEF Selected, Clause
<1>1. Selected(l, Clause(column, "=", v)) <=> (Given(v) => l[column] = v)
  <2> DEFINE c == [column |-> column, op |-> "=", value |-> v]
  <2>1. /\ Selected(l, Clause(column, "=", v)) <=> (Given(v) => Satisfies(l, c))
        /\ c.column = column /\ c.op = "=" /\ c.value = v
    BY <1>a
  <2> HIDE DEF c
  <2> QED BY <2>1 DEF Satisfies, Given
<1>2. Selected(l, Clause(column, ">=", v))
        <=> (Given(v) => l[column] # NoValue /\ l[column] >= v)
  <2> DEFINE c == [column |-> column, op |-> ">=", value |-> v]
  <2>1. /\ Selected(l, Clause(column, ">=", v)) <=> (Given(v) => Satisfies(l, c))
        /\ c.column = column /\ c.op = ">=" /\ c.value = v
    BY <1>a
  <2> HIDE DEF c
  <2>2. Satisfies(l, c) <=> l[column] # NoValue /\ l[column] >= v
    BY <2>1 DEF Satisfies
  <2> QED BY <2>1, <2>2
<1>3. Selected(l, Clause(column, "<=", v))
        <=> (Given(v) => l[column] # NoValue /\ l[column] <= v)
  <2> DEFINE c == [column |-> column, op |-> "<=", value |-> v]
  <2>1. /\ Selected(l, Clause(column, "<=", v)) <=> (Given(v) => Satisfies(l, c))
        /\ c.column = column /\ c.op = "<=" /\ c.value = v
    BY <1>a
  <2> HIDE DEF c
  <2>2. Satisfies(l, c) <=> l[column] # NoValue /\ l[column] <= v
    BY <2>1 DEF Satisfies
  <2> QED BY <2>1, <2>2
<1>4. Selected(l, Clause(column, "LIKE", v)) <=> (Given(v) => <<l[column], v>> \in Like)
  <2> DEFINE c == [column |-> column, op |-> "LIKE", value |-> v]
  <2>1. /\ Selected(l, Clause(column, "LIKE", v)) <=> (Given(v) => Satisfies(l, c))
        /\ c.column = column /\ c.op = "LIKE" /\ c.value = v
    BY <1>a
  <2> HIDE DEF c
  <2>2. Satisfies(l, c) <=> <<l[column], v>> \in Like
    BY <2>1 DEF Satisfies
  <2> QED BY <2>1, <2>2
<1> QED BY <1>1, <1>2, <1>3, <1>4

(* What the loop finds of a text, LIKE does; without wildcards, only that. *)
LEMMA Searches ==
  ASSUME NEW v, NEW q
  PROVE  /\ <<v, q>> \in ContainsText => <<v, q>> \in Like
         /\ q \notin Wild => (<<v, q>> \in ContainsText <=> <<v, q>> \in Like)
<1>1. <<v, q>>[2] = q
  OBVIOUS
<1> QED BY <1>1, TextAssumption

(* The clauses select the rows the loop lets through. *)
LEMMA SameSelection ==
  ASSUME NoValue \notin Int \cup {OK, ERROR}, NEW row, NEW q,
         Fields \cup {"service"} \subseteq DOMAIN row,
         row.start \in Nat, row.duration \in Int, row.count \in Nat
  PROVE  /\ MemSelects(row, q) => Selected(Columns(row), TraceClauses(q))
         /\ q.name \notin Wild =>
              (MemSelects(row, q) <=> Selected(Columns(row), TraceClauses(q)))
<1> DEFINE r == Columns(row)
           Passes(column, op, v) == Selected(r, Clause(column, op, v))
<1>1. /\ r.service = row.service /\ r.status = StatusOf(row) /\ r.rootName = row.rootName
      /\ r.start = row.start /\ r.duration = row.duration /\ r.count = row.count
      /\ r.cost = row.cost
  BY DEF Columns, Fields
<1> HIDE DEF r
<1>2. Selected(r, TraceClauses(q)) <=>
        /\ Passes("service", "=", q.service) /\ Passes("status", "=", q.status)
        /\ Passes("rootName", "LIKE", q.name)
        /\ Passes("start", ">=", q.from) /\ Passes("start", "<=", q.to)
        /\ Passes("duration", ">=", q.minDuration) /\ Passes("duration", "<=", q.maxDuration)
        /\ Passes("count", ">=", q.minCount) /\ Passes("count", "<=", q.maxCount)
        /\ Passes("cost", ">=", q.minCost) /\ Passes("cost", "<=", q.maxCost)
  BY DEF Selected, TraceClauses
<1>3. \A column, v :
        /\ Passes(column, "=", v) <=> (Given(v) => r[column] = v)
        /\ Passes(column, ">=", v) <=> (Given(v) => r[column] # NoValue /\ r[column] >= v)
        /\ Passes(column, "<=", v) <=> (Given(v) => r[column] # NoValue /\ r[column] <= v)
        /\ Passes(column, "LIKE", v) <=> (Given(v) => <<r[column], v>> \in Like)
  BY ClauseIs
<1> HIDE DEF Passes
<1>4. r.start # NoValue /\ r.duration # NoValue /\ r.count # NoValue
  BY <1>1
<1>5. /\ <<row.rootName, q.name>> \in ContainsText => <<r.rootName, q.name>> \in Like
      /\ q.name \notin Wild =>
           (<<row.rootName, q.name>> \in ContainsText <=> <<r.rootName, q.name>> \in Like)
  BY <1>1, Searches
<1> QED BY <1>1, <1>2, <1>3, <1>4, <1>5 DEF MemSelects, r

(* A slice with clamped ends is LIMIT and OFFSET. *)
LEMMA SamePage ==
  ASSUME NEW s, IsSeq(s), NEW page \in Nat \ {0}, NEW size \in Nat \ {0}
  PROVE  /\ MemPage(s, page, size) = SqlPage(s, page, size)
         /\ \A i \in DOMAIN MemPage(s, page, size) :
              MemPage(s, page, size)[i] \in {s[j] : j \in DOMAIN s}
<1> DEFINE offset == (page - 1) * size
           n == Len(s)
           rows == {i \in DOMAIN s : offset < i /\ i <= offset + size}
           start == Least(offset, n)
           end == Least(start + size, n)
           m == Cardinality(rows)
<1>1. n \in Nat /\ DOMAIN s = 1 .. n
  BY SeqIs
<1>2. offset \in Nat
  <2>1. page - 1 \in Nat
    OBVIOUS
  <2> QED BY <2>1
<1>3. SqlPage(s, page, size) = [i \in 1 .. m |-> s[offset + i]]
  BY DEF SqlPage
<1>4. MemPage(s, page, size) = SubSeq(s, start + 1, end)
  BY DEF MemPage
<1> HIDE DEF offset, n
<1>5. start \in Nat /\ end \in Nat /\ end <= n /\ start <= end
  BY <1>1, <1>2 DEF Least
<1>6. m = end - start
  <2>1. CASE offset >= n
    <3>1. rows = {} /\ start = n /\ end = n
      BY <1>1, <1>2, <2>1 DEF Least
    <3>2. n - n = 0
      BY <1>1
    <3> HIDE DEF rows, start, end
    <3> QED BY <3>1, <3>2, FS_EmptySet
  <2>2. CASE offset < n
    <3>1. start = offset
      BY <1>1, <1>2, <2>2 DEF Least
    <3>2. rows = offset + 1 .. end
      BY <1>1, <1>2, <2>2 DEF Least
    <3> DEFINE a == offset + 1
    <3>3. a \in Int /\ a <= end + 1 /\ end - a + 1 = end - start
      BY <1>2, <1>5, <2>2, <3>1
    <3> HIDE DEF a, end, start
    <3>4. Cardinality(a .. end) = end - a + 1
      <4>1. Cardinality(a .. end) = IF a > end THEN 0 ELSE end - a + 1
        BY <1>5, <3>3, FS_Interval
      <4> QED BY <1>5, <3>3, <4>1
    <3> QED BY <3>2, <3>3, <3>4 DEF a
  <2> QED BY <1>1, <1>2, <2>1, <2>2
<1>7. SubSeq(s, start + 1, end) = [i \in 1 .. end - start |-> s[start + i]]
  <2> DEFINE a == start
             b == end
             S == {s[i] : i \in DOMAIN s}
             p == SubSeq(s, a + 1, b)
  <2>1. a \in Nat /\ b \in Nat /\ a <= b /\ b <= n
    BY <1>5
  <2> HIDE DEF a, b
  <2>2. \A i \in a + 1 .. b : s[i] \in S
    BY <1>1, <2>1
  <2> HIDE DEF S
  <2>3. /\ p \in Seq(S)
        /\ Len(p) = IF a + 1 <= b THEN b - (a + 1) + 1 ELSE 0
        /\ \A i \in 1 .. b - (a + 1) + 1 : p[i] = s[(a + 1) + i - 1]
    <3>1. a + 1 \in Int /\ b \in Int
      BY <2>1
    <3> HIDE DEF p
    <3> QED BY <2>2, <3>1, SubSeqProperties DEF p
  <2>4. b - (a + 1) + 1 = b - a /\ \A i \in 1 .. b - a : (a + 1) + i - 1 = a + i
    BY <2>1
  <2> HIDE DEF p
  <2>5. Len(p) = b - a /\ \A i \in 1 .. b - a : p[i] = s[a + i]
    BY <2>1, <2>3, <2>4
  <2>6. p = [i \in 1 .. b - a |-> s[a + i]]
    BY <2>3, <2>5
  <2> QED BY <2>6 DEF a, b, p
<1>8. \A i \in 1 .. m : start + i = offset + i
  <2>1. start = offset \/ m = 0
    BY <1>1, <1>2, <1>5, <1>6 DEF Least
  <2> HIDE DEF m, start
  <2> QED BY <2>1
<1>9. \A i \in 1 .. m : start + i \in 1 .. n
  <2> HIDE DEF m, start, end
  <2> QED BY <1>1, <1>5, <1>6
<1> HIDE DEF m, start, end
<1>10. MemPage(s, page, size) = [i \in 1 .. m |-> s[offset + i]]
  BY <1>4, <1>6, <1>7, <1>8
<1> QED BY <1>1, <1>3, <1>8, <1>9, <1>10

(* Of a trace with one root at most, the last root that arrived with a     *)
(* prompt is the root its row names, if that has one.                      *)
LEMMA SamePrompt ==
  ASSUME NoValue \notin Prompted, TypeInv, RowsFit(traces, spans),
         NEW t \in DOMAIN traces, OneRoot(t)
  PROVE  MemPrompt(spans, t) = SqlPrompt(traces, spans, t)
<1> DEFINE I == At(spans, {t})
           R == Roots(spans, I)
           P == {i \in DOMAIN spans : spans[i].trace = t /\ spans[i].root
                                      /\ spans[i].id \in Prompted}
           root == traces[t].root
<1>1. /\ R = {i \in DOMAIN spans : spans[i].trace = t /\ spans[i].root}
      /\ R \subseteq I /\ I \subseteq DOMAIN spans
  BY DEF At, Roots
<1>2. P = {i \in R : spans[i].id \in Prompted}
  BY <1>1
<1>3. IsFiniteSet(R) /\ R \subseteq Nat /\ Cardinality(R) \in Nat
  <2>1. R \in SUBSET DOMAIN spans
    BY <1>1
  <2> HIDE DEF R
  <2> QED BY <2>1, StoredPlaces, FS_CardinalityType DEF TypeInv, Places
<1>4. Cardinality(R) <= 1
  BY <1>1 DEF OneRoot
<1>5. RootIs(root, spans, I)
  BY DEF RowsFit, RowFits, Tells
<1>6. MemPrompt(spans, t) = IF P = {} THEN NoValue ELSE spans[Max(P)].id
  BY DEF MemPrompt
<1>7. SqlPrompt(traces, spans, t) =
        IF root \in Prompted /\ \E i \in I : spans[i].id = root THEN root ELSE NoValue
  BY DEF SqlPrompt, At
<1>8. CASE R = {}
  <2>1. P = {} /\ root = NoValue
    BY <1>2, <1>5, <1>8 DEF RootIs
  <2> QED BY <1>6, <1>7, <2>1
<1>9. CASE R # {}
  <2>1. PICK m \in R : root = spans[m].id
    BY <1>5, <1>9 DEF RootIs
  <2>2. R = {m}
    <3> HIDE DEF R
    <3>1. Cardinality(R) # 0
      BY <1>3, <1>9, FS_EmptySet
    <3>2. Cardinality(R) = 1
      BY <1>3, <1>4, <3>1
    <3> QED BY <1>3, <2>1, <3>2, FS_Singleton
  <2>3. m \in I /\ m \in Nat
    BY <1>1, <1>3, <2>1
  <2>4. CASE root \in Prompted
    <3>1. P = {m}
      BY <1>2, <2>1, <2>2, <2>4
    <3>2. Max({m}) = m
      BY <2>3, MaxIs
    <3> QED BY <1>6, <1>7, <2>1, <2>3, <2>4, <3>1, <3>2
  <2>5. CASE root \notin Prompted
    <3>1. P = {}
      BY <1>2, <2>1, <2>2, <2>5
    <3> QED BY <1>6, <1>7, <2>5, <3>1
  <2> QED BY <2>4, <2>5
<1> QED BY <1>8, <1>9

(* The orders of a finite set are sequences of its members. *)
LEMMA OrderIs ==
  ASSUME NEW S, IsFiniteSet(S), NEW s \in SetToSeqs(S)
  PROVE  IsSeq(s) /\ {s[i] : i \in DOMAIN s} \subseteq S
<1> DEFINE n == Cardinality(S)
<1>1. n \in Nat
  BY FS_CardinalityType
<1>2. s \in [1 .. n -> S]
  BY DEF SetToSeqs
<1> HIDE DEF n
<1>3. s \in Seq(S)
  BY <1>1, <1>2
<1> QED BY <1>2, <1>3, SeqOver

(* One page of the two lists. *)
LEMMA SameList ==
  ASSUME NoValue \notin Int \cup {OK, ERROR} \cup Prompted,
         TypeInv, RowsFit(traces, spans),
         NEW q, NEW page \in Nat \ {0}, NEW size \in Nat \ {0}
  PROVE  TraceListsAgree(q, page, size)
<1> DEFINE mem == {t \in DOMAIN traces : MemSelects(traces[t], q)}
           sql == {t \in DOMAIN traces : Selected(Columns(traces[t]), TraceClauses(q))}
           memPage(s) == [total |-> Cardinality(mem),
                          items |-> [i \in DOMAIN MemPage(s, page, size) |->
                                       MemItem(traces, spans, MemPage(s, page, size)[i])]]
           sqlPage(s) == [total |-> Cardinality(sql),
                          items |-> [i \in DOMAIN SqlPage(s, page, size) |->
                                       SqlItem(traces, spans, SqlPage(s, page, size)[i])]]
<1>1. ASSUME NEW t \in DOMAIN traces
      PROVE  /\ MemSelects(traces[t], q) => Selected(Columns(traces[t]), TraceClauses(q))
             /\ q.name \notin Wild =>
                  (MemSelects(traces[t], q) <=> Selected(Columns(traces[t]), TraceClauses(q)))
  <2> DEFINE row == traces[t]
             I == At(spans, {t})
  <2>1. RowFits(row, spans, I)
    BY DEF RowsFit
  <2>2. I \in SUBSET DOMAIN spans
    BY DEF At
  <2> HIDE DEF I
  <2>3. Places(spans, I)
    BY <2>2, StoredPlaces DEF TypeInv
  <2>4. row.start \in Nat
    BY <2>1, <2>3 DEF RowFits, Tells, StartIs, Places, IsSpan
  <2>5. row.count \in Nat
    <3>1. Cardinality(I) \in Nat
      BY <2>3, FS_CardinalityType DEF Places
    <3>2. row.count = Cardinality(I) % CountModulus
      BY <2>1 DEF RowFits, Tells
    <3> QED BY <3>1, <3>2, CountModulusAssumption
  <2>6. row.duration \in Int /\ Fields \cup {"service"} \subseteq DOMAIN row
    BY <2>1 DEF RowFits
  <2> HIDE DEF row
  <2>7. /\ MemSelects(row, q) => Selected(Columns(row), TraceClauses(q))
        /\ q.name \notin Wild =>
             (MemSelects(row, q) <=> Selected(Columns(row), TraceClauses(q)))
    BY <2>4, <2>5, <2>6, SameSelection
  <2> QED BY <2>7 DEF row
<1>2. q.name \notin Wild => mem = sql
  BY <1>1
<1>3. IsFiniteSet(mem)
  <2>1. IsFiniteSet(DOMAIN traces)
    <3>1. IsFiniteSet(DOMAIN spans)
      BY StoredPlaces DEF TypeInv
    <3> DEFINE S == DOMAIN spans
               trace == [i \in S |-> spans[i].trace]
    <3>2. DOMAIN traces = {trace[i] : i \in S}
      BY DEF RowsFit
    <3> HIDE DEF trace, S
    <3>3. IsFiniteSet({trace[i] : i \in S})
      BY <3>1, FiniteImage DEF S
    <3> QED BY <3>2, <3>3
  <2> QED BY <2>1, FS_Subset
<1>4. ASSUME q.name \notin Wild, \A t \in DOMAIN traces : OneRoot(t),
             NEW s \in Newest(traces, mem)
      PROVE  memPage(s) = sqlPage(s)
  <2> DEFINE m == MemPage(s, page, size)
  <2>1. s \in SetToSeqs(mem)
    BY <1>4 DEF Newest, Orders
  <2>2. IsSeq(s) /\ {s[i] : i \in DOMAIN s} \subseteq mem
    <3> HIDE DEF mem
    <3> QED BY <1>3, <2>1, OrderIs
  <2>3. m = SqlPage(s, page, size) /\ \A i \in DOMAIN m : m[i] \in {s[j] : j \in DOMAIN s}
    BY <2>2, SamePage
  <2>4. \A i \in DOMAIN m : m[i] \in DOMAIN traces
    BY <2>2, <2>3
  <2> HIDE DEF m
  <2>5. \A i \in DOMAIN m : MemItem(traces, spans, m[i]) = SqlItem(traces, spans, m[i])
    BY <1>4, <2>4, SamePrompt DEF MemItem, SqlItem
  <2>6. memPage(s) = [total |-> Cardinality(mem),
                      items |-> [i \in DOMAIN m |-> MemItem(traces, spans, m[i])]]
    BY DEF m
  <2>7. sqlPage(s) = [total |-> Cardinality(sql),
                      items |-> [i \in DOMAIN m |-> SqlItem(traces, spans, m[i])]]
    BY <2>3
  <2> HIDE DEF memPage, sqlPage, mem, sql
  <2> QED BY <1>2, <1>4, <2>5, <2>6, <2>7
<1>5. MemListTraces(traces, spans, q, page, size) = {memPage(s) : s \in Newest(traces, mem)}
  BY DEF MemListTraces, Numbers
<1>6. SqlListTraces(traces, spans, q, page, size) = {sqlPage(s) : s \in Newest(traces, sql)}
  BY DEF SqlListTraces, Numbers
<1> HIDE DEF memPage, sqlPage, mem, sql
<1> QED BY <1>1, <1>2, <1>4, <1>5, <1>6 DEF TraceListsAgree

(* For any content of the in-memory store, reached by any calls and        *)
(* faults, and for any filter, page and size, every trace its list finds   *)
(* the SQLite store's statement finds too, and the lists are the same if   *)
(* no trace has two roots and the name that is searched has no wildcard of *)
(* LIKE (ListTraces of memstore.go and sqlite_store.go).                   *)
THEOREM TraceListsAlwaysAgree ==
  Spec => [](\A q : \A page, size \in Nat \ {0} : TraceListsAgree(q, page, size))
<1> DEFINE Inv == TypeInv /\ RowsFit(traces, spans)
           Agree == \A q : \A page, size \in Nat \ {0} : TraceListsAgree(q, page, size)
<1>1. Init => Inv
  BY InitFits
<1>2. Inv /\ [Next]_vars => Inv'
  BY TypeNext, RowsNext
<1>3. Inv => Agree
  BY SameList, ValuesAssumption
<1> HIDE DEF Inv, Agree
<1>4. Spec => []Agree
  BY <1>1, <1>2, <1>3, PTL DEF Spec
<1> QED BY <1>4 DEF Agree

(* Told apart by their ids, the spans at some positions sum up to what the *)
(* positions do.                                                           *)
Worth(v) == IF v = NoValue THEN 0 ELSE v
LEMMA SameAmount ==
  ASSUME NEW X, IsFiniteSet(X), NEW f, NEW Y, Renames(spans, X, Y),
         \A i \in X : spans[i][f] \in Nat \cup {NoValue}
  PROVE  SumFunction([x \in X |-> Worth(spans[x][f])]) = SumFunction([y \in Y |-> Worth(y[f])])
<1> DEFINE g == [x \in X |-> Worth(spans[x][f])]
           k == [y \in Y |-> Worth(y[f])]
<1>1. Follows(g, k, spans, X)
  <2> SUFFICES ASSUME NEW x \in X PROVE k[spans[x]] \in Nat /\ g[x] = k[spans[x]]
    BY DEF Follows
  <2>1. spans[x] \in Y
    BY DEF Renames
  <2>2. k[spans[x]] = Worth(spans[x][f]) /\ g[x] = Worth(spans[x][f])
    BY <2>1
  <2>3. Worth(spans[x][f]) \in Nat
    BY DEF Worth
  <2> QED BY <2>2, <2>3
<1>2. DOMAIN g = X /\ DOMAIN k = Y
  OBVIOUS
<1> HIDE DEF g, k
<1>3. SumFunctionOnSet(g, X) = SumFunctionOnSet(k, Y)
  BY <1>1, SumRenamed
<1> QED BY <1>2, <1>3 DEF SumFunction, g, k

(* The summary of the loop and that of the statements. *)
LEMMA SameSummary ==
  ASSUME TypeInv, RowsFit(traces, spans), CostsFit(traces, spans, stale),
         NEW from \in Nat, NEW to \in Nat \ {0}, NEW by
  PROVE  CostSummariesAgree(from, to, by)
<1> SUFFICES ASSUME NoSpanTwice
             PROVE  MemCostSummary(traces, spans, from, to, by)
                    = SqlCostSummary(traces, spans, from, to, by)
  BY DEF CostSummariesAgree
<1> DEFINE S == DOMAIN spans
           costly == {t \in DOMAIN traces : /\ Given(from) => traces[t].start >= from
                                            /\ Given(to) => traces[t].start <= to
                                            /\ Given(traces[t].cost)}
           priced == {t \in DOMAIN traces : /\ traces[t].start >= from /\ traces[t].start <= to
                                            /\ traces[t].cost # NoValue /\ traces[t].cost > 0}
           I == {i \in S : spans[i].trace \in costly /\ spans[i].tokens # NoValue}
           R == {sp \in SqlSpans(spans) : sp.trace \in costly /\ sp.tokens # NoValue}
           Key(sp) == IF by = "service" THEN traces[sp.trace].service ELSE sp.model
           At1(k) == {i \in I : Key(spans[i]) = k}
           Of(k) == {sp \in R : Key(sp) = k}
           mem(k) == [cost |-> SumFunction([i \in At1(k) |-> Worth(spans[i].cost)]),
                      tokens |-> SumFunction([i \in At1(k) |-> Worth(spans[i].tokens)]),
                      traces |-> Cardinality({spans[i].trace : i \in At1(k)})]
           sql(k) == [cost |-> SumFunction([sp \in Of(k) |-> Worth(sp.cost)]),
                      tokens |-> SumFunction([sp \in Of(k) |-> Worth(sp.tokens)]),
                      traces |-> Cardinality({sp.trace : sp \in Of(k)})]
           total == SumFunction([t \in costly |-> Worth(traces[t].cost)])
<1>1. costly = priced
  <2> SUFFICES ASSUME NEW t \in DOMAIN traces PROVE t \in costly <=> t \in priced
    OBVIOUS
  <2>1. traces[t].start \in Nat
    <3> DEFINE P == At(spans, {t})
    <3>1. P \in SUBSET S
      BY DEF At
    <3>2. RowFits(traces[t], spans, P)
      BY DEF RowsFit
    <3> HIDE DEF P
    <3>3. Places(spans, P)
      BY <3>1, StoredPlaces DEF TypeInv
    <3> QED BY <3>2, <3>3 DEF RowFits, Tells, StartIs, Places, IsSpan
  <2>2. traces[t].cost \in Nat \cup {NoValue}
    BY DEF CostsFit
  <2>3. from = 0 \/ Given(from)
    BY NoValueAssumption DEF Given
  <2>4. Given(to)
    BY NoValueAssumption DEF Given
  <2>5. Given(traces[t].cost) <=> traces[t].cost # NoValue /\ traces[t].cost > 0
    BY <2>2, NoValueAssumption DEF Given
  <2> QED BY <2>1, <2>3, <2>4, <2>5
<1>2. SqlSpans(spans) = {spans[i] : i \in S}
  <2>1. S = 1 .. Len(spans) /\ Len(spans) \in Nat
    BY SeqIs DEF TypeInv, SpansOK
  <2>2. \A i \in S : \A j \in i + 1 .. Len(spans) : j \in S /\ i # j
    BY <2>1
  <2>3. \A i \in S : \A j \in i + 1 .. Len(spans) : spans[j].id # spans[i].id
    BY <2>2 DEF NoSpanTwice
  <2> QED BY <2>3 DEF SqlSpans
<1>3. R = {spans[i] : i \in I}
  BY <1>2
<1>4. /\ IsFiniteSet(S)
      /\ \A i \in S : /\ spans[i].cost \in Nat \cup {NoValue}
                      /\ spans[i].tokens \in Nat \cup {NoValue}
  BY StoredPlaces DEF TypeInv, SpansOK, StoredSpan, IsSpan
<1>5. \A i, j \in S : spans[i] = spans[j] => i = j
  BY DEF NoSpanTwice
<1>6. I \subseteq S
  OBVIOUS
<1> HIDE DEF I, R, S
<1>7. ASSUME NEW X \in SUBSET I, NEW Y, Y = {spans[i] : i \in X}
      PROVE  /\ SumFunction([i \in X |-> Worth(spans[i].cost)])
                = SumFunction([sp \in Y |-> Worth(sp.cost)])
             /\ SumFunction([i \in X |-> Worth(spans[i].tokens)])
                = SumFunction([sp \in Y |-> Worth(sp.tokens)])
  <2>1. IsFiniteSet(X) /\ Renames(spans, X, Y)
    <3>1. X \in SUBSET S
      BY <1>6
    <3> QED BY <1>4, <1>5, <1>7, <3>1, FS_Subset DEF Renames
  <2>2. \A i \in X : /\ spans[i]["cost"] \in Nat \cup {NoValue}
                     /\ spans[i]["tokens"] \in Nat \cup {NoValue}
    BY <1>4, <1>6
  <2>3. SumFunction([i \in X |-> Worth(spans[i]["cost"])])
        = SumFunction([sp \in Y |-> Worth(sp["cost"])])
    BY <2>1, <2>2, SameAmount
  <2>4. SumFunction([i \in X |-> Worth(spans[i]["tokens"])])
        = SumFunction([sp \in Y |-> Worth(sp["tokens"])])
    BY <2>1, <2>2, SameAmount
  <2> QED BY <2>3, <2>4
<1>8. ASSUME NEW k PROVE mem(k) = sql(k)
  <2> DEFINE X == At1(k)
             Y == Of(k)
  <2>1. X \in SUBSET I /\ Y = {spans[i] : i \in X}
    <3> HIDE DEF Key
    <3> QED BY <1>3
  <2> HIDE DEF X, Y
  <2>2. {spans[i].trace : i \in X} = {sp.trace : sp \in Y}
    BY <2>1
  <2>3. /\ SumFunction([i \in X |-> Worth(spans[i].cost)])
           = SumFunction([sp \in Y |-> Worth(sp.cost)])
        /\ SumFunction([i \in X |-> Worth(spans[i].tokens)])
           = SumFunction([sp \in Y |-> Worth(sp.tokens)])
    BY <1>7, <2>1
  <2> QED BY <2>2, <2>3 DEF X, Y
<1>9. {Key(spans[i]) : i \in I} = {Key(sp) : sp \in R}
  <2> HIDE DEF Key
  <2> QED BY <1>3
<1>10. SumFunction([i \in I |-> Worth(spans[i].tokens)])
       = SumFunction([sp \in R |-> Worth(sp.tokens)])
  BY <1>3, <1>7
<1> DEFINE memTokens == SumFunction([i \in I |-> Worth(spans[i].tokens)])
           sqlTokens == SumFunction([sp \in R |-> Worth(sp.tokens)])
           memGroups == [k \in {Key(spans[i]) : i \in I} |-> mem(k)]
           sqlGroups == [k \in {Key(sp) : sp \in R} |-> sql(k)]
<1>11. MemCostSummary(traces, spans, from, to, by)
       = [cost |-> total, traces |-> Cardinality(costly), tokens |-> memTokens,
          groups |-> memGroups]
  BY DEF MemCostSummary, Group, Total, Worth, I, S
<1>12. SqlCostSummary(traces, spans, from, to, by)
       = [cost |-> total, traces |-> Cardinality(costly), tokens |-> sqlTokens,
          groups |-> sqlGroups]
  <2>1. SqlCostSummary(traces, spans, from, to, by)
        = LET c == {t \in DOMAIN traces : /\ traces[t].start >= from /\ traces[t].start <= to
                                          /\ traces[t].cost # NoValue /\ traces[t].cost > 0}
              r == {sp \in SqlSpans(spans) : sp.trace \in c /\ sp.tokens # NoValue}
          IN  [cost |-> SumFunction([t \in c |-> Worth(traces[t].cost)]),
               traces |-> Cardinality(c),
               tokens |-> SumFunction([sp \in r |-> Worth(sp.tokens)]),
               groups |-> [k \in {Key(sp) : sp \in r} |->
                  LET own == {sp \in r : Key(sp) = k}
                  IN  [cost |-> SumFunction([sp \in own |-> Worth(sp.cost)]),
                       tokens |-> SumFunction([sp \in own |-> Worth(sp.tokens)]),
                       traces |-> Cardinality({sp.trace : sp \in own})]]]
    BY DEF SqlCostSummary, Group, Total, Worth
  <2> QED BY <1>1, <2>1 DEF R
<1>13. memGroups = sqlGroups
  <2> HIDE DEF mem, sql, Key
  <2> QED BY <1>8, <1>9
<1> HIDE DEF total, costly, memTokens, sqlTokens, memGroups, sqlGroups
<1>14. memTokens = sqlTokens
  BY <1>10 DEF memTokens, sqlTokens
<1> QED BY <1>11, <1>12, <1>13, <1>14

(* For any content of the in-memory store, reached by any calls, prices    *)
(* and faults, and for any range, its cost summary is the one the SQLite   *)
(* store's statements would give, figure by figure and group by group, if  *)
(* no span arrived twice (GetCostSummary of memstore.go and                *)
(* sqlite_store.go).                                                       *)
THEOREM CostSummariesAlwaysAgree ==
  Spec => [](\A from \in Nat, to \in Nat \ {0} : \A by : CostSummariesAgree(from, to, by))
<1> DEFINE Inv == TypeInv /\ RowsFit(traces, spans) /\ CostsFit(traces, spans, stale)
           Agree == \A from \in Nat, to \in Nat \ {0} : \A by : CostSummariesAgree(from, to, by)
<1>1. Init => Inv
  BY InitFits DEF Init, CostsFit
<1>2. Inv /\ [Next]_vars => Inv'
  BY TypeNext, RowsNext, CostsNext
<1>3. Inv => Agree
  BY SameSummary
<1> HIDE DEF Inv, Agree
<1>4. Spec => []Agree
  BY <1>1, <1>2, <1>3, PTL DEF Spec
<1> QED BY <1>4 DEF Agree

(* The two stores find the same records, the one that compares severities  *)
(* as they are and the one that folds their case.                          *)
LEMMA SameLogs ==
  ASSUME NEW l, l.time \in Nat, Upper[l.severity] = l.severity, NEW q,
         Given(q.severity) => Upper[q.severity] = q.severity
  PROVE  /\ MemLogSelects(l, q) => SqlLogSelects(l, q)
         /\ (Given(q.body) => q.body \notin Wild) =>
              (MemLogSelects(l, q) <=> SqlLogSelects(l, q))
<1> DEFINE Passes(column, op, v) == Selected(l, Clause(column, op, v))
<1>1. l.time # NoValue
  BY NoValueAssumption
<1>2. SqlLogSelects(l, q) <=>
        /\ Passes("severity", "=", q.severity) /\ Passes("event", "=", q.event)
        /\ Passes("body", "LIKE", q.body) /\ Passes("trace", "=", q.trace)
        /\ Passes("span", "=", q.span)
        /\ Passes("time", ">=", q.from) /\ Passes("time", "<=", q.to)
  BY DEF SqlLogSelects, Selected, LogClauses
<1>3. \A column, v :
        /\ Passes(column, "=", v) <=> (Given(v) => l[column] = v)
        /\ Passes(column, ">=", v) <=> (Given(v) => l[column] # NoValue /\ l[column] >= v)
        /\ Passes(column, "<=", v) <=> (Given(v) => l[column] # NoValue /\ l[column] <= v)
        /\ Passes(column, "LIKE", v) <=> (Given(v) => <<l[column], v>> \in Like)
  BY ClauseIs
<1> HIDE DEF Passes
<1>4. /\ <<l.body, q.body>> \in ContainsText => <<l.body, q.body>> \in Like
      /\ q.body \notin Wild =>
           (<<l.body, q.body>> \in ContainsText <=> <<l.body, q.body>> \in Like)
  BY Searches
<1> QED BY <1>1, <1>2, <1>3, <1>4 DEF MemLogSelects

(* For any log records, filter, page and size the two stores list the same *)
(* records, if severities are written in upper case and the text that is   *)
(* searched has no wildcard of LIKE.                                       *)
(* (ListLogs of memstore.go and sqlite_store.go)                           *)
THEOREM LogListsAgree ==
  ASSUME NEW ls, IsSeq(ls), NEW q, NEW page \in Nat \ {0}, NEW size \in Nat \ {0},
         \A i \in DOMAIN ls : ls[i].time \in Nat /\ Upper[ls[i].severity] = ls[i].severity,
         Given(q.severity) => Upper[q.severity] = q.severity,
         Given(q.body) => q.body \notin Wild
  PROVE  MemListLogs(ls, q, page, size) = SqlListLogs(ls, q, page, size)
<1> DEFINE mem == {i \in DOMAIN ls : MemLogSelects(ls[i], q)}
           sql == {i \in DOMAIN ls : SqlLogSelects(ls[i], q)}
<1>1. ASSUME NEW i \in DOMAIN ls
      PROVE  MemLogSelects(ls[i], q) <=> SqlLogSelects(ls[i], q)
  <2> DEFINE l == ls[i]
  <2>1. l.time \in Nat /\ Upper[l.severity] = l.severity
    OBVIOUS
  <2> HIDE DEF l
  <2>2. MemLogSelects(l, q) <=> SqlLogSelects(l, q)
    BY <2>1, SameLogs
  <2> QED BY <2>2 DEF l
<1>2. mem = sql
  BY <1>1
<1>3. IsFiniteSet(mem)
  <2>1. DOMAIN ls = 1 .. Len(ls) /\ Len(ls) \in Nat
    BY SeqIs
  <2>2. IsFiniteSet(1 .. Len(ls))
    BY ONLY <2>1, FS_Interval
  <2>3. IsFiniteSet(DOMAIN ls)
    BY ONLY <2>1, <2>2
  <2> QED BY <2>3, FS_Subset
<1> HIDE DEF mem, sql
<1>4. ASSUME NEW s \in Sorted(ls, mem, q.asc)
      PROVE  MemPage(s, page, size) = SqlPage(s, page, size)
  <2>1. s \in SetToSeqs(mem)
    BY DEF Sorted, Orders
  <2> QED BY <1>3, <2>1, OrderIs, SamePage
<1> QED BY <1>2, <1>4 DEF MemListLogs, SqlListLogs, mem, sql

-----------------------------------------------------------------------------
(* Every answer: what else they rest on.  The store knows the service of   *)
(* each row, and its logs are records with a time and a severity in upper  *)
(* case.                                                                   *)
ServicesFit == \A t \in DOMAIN traces : traces[t].service \in services \cup {NoValue}
LogsOK(ls) == IsSeq(ls) /\ \A i \in DOMAIN ls : IsRecord(ls[i])
ReadInv ==
  /\ TypeInv /\ RowsFit(traces, spans) /\ CostsFit(traces, spans, stale)
  /\ ServicesFit /\ LogsOK(logs)

(* What a purge or a deletion leaves of the logs are logs. *)
LEMMA PickedLogs ==
  ASSUME NEW ls, LogsOK(ls), NEW I \in SUBSET DOMAIN ls
  PROVE  LogsOK(Picked(ls, I))
<1> DEFINE S == {ls[i] : i \in DOMAIN ls}
           p == Picked(ls, I)
<1>1. p \in Seq(S) /\ \E h : Lists(h, ls, I, p)
  <2>1. ls \in Seq(S)
    BY DEF LogsOK, IsSeq
  <2> HIDE DEF S
  <2> QED BY <2>1, PickedIs
<1> HIDE DEF p
<1>2. \A k \in DOMAIN p : IsRecord(p[k])
  BY <1>1 DEF Lists, LogsOK
<1>3. IsSeq(p)
  <2> HIDE DEF S
  <2> QED BY <1>1, SeqOver
<1> QED BY <1>2, <1>3 DEF LogsOK, p

(* So are those that were there with those that come. *)
LEMMA MoreLogs ==
  ASSUME NEW ls, LogsOK(ls), NEW new \in LogBatches
  PROVE  LogsOK(ls \o new)
<1>1. IsSeq(new) /\ \A i \in DOMAIN new : IsRecord(new[i])
  BY LogsAssumption DEF IsSeq
<1>2. /\ Len(ls) \in Nat /\ DOMAIN ls = 1 .. Len(ls)
      /\ Len(new) \in Nat /\ DOMAIN new = 1 .. Len(new)
  BY <1>1, SeqIs DEF LogsOK
<1>3. Follow(ls \o new, ls, new)
  BY <1>1, SeqAfter DEF LogsOK
<1> DEFINE all == ls \o new
<1> HIDE DEF all
<1>4. ASSUME NEW k \in DOMAIN all PROVE IsRecord(all[k])
  <2>1. k \in 1 .. Len(ls) + Len(new)
    BY <1>3, SeqIs DEF Follow, all
  <2>2. CASE k <= Len(ls)
    <3>1. k \in DOMAIN ls
      BY <1>2, <2>1, <2>2
    <3> QED BY <1>2, <1>3, <3>1 DEF Follow, LogsOK, all
  <2>3. CASE k > Len(ls)
    <3>1. PICK i \in 1 .. Len(new) : k = Len(ls) + i
      <4>1. k - Len(ls) \in 1 .. Len(new) /\ k = Len(ls) + (k - Len(ls))
        BY <1>2, <2>1, <2>3
      <4> QED BY <4>1
    <3> QED BY <1>1, <1>2, <1>3, <3>1 DEF Follow, all
  <2> QED BY <1>2, <2>1, <2>2, <2>3
<1> QED BY <1>3, <1>4 DEF LogsOK, Follow, all

(* The rows after a batch are those of the store or name its service. *)
LEMMA MergedServices ==
  ASSUME NEW b, NEW t \in DOMAIN Merged(b), RowsFit(traces, spans), ServicesFit
  PROVE  Merged(b)[t].service \in services \cup ({Content[b].service} \ {NoValue}) \cup {NoValue}
<1> DEFINE row == Merged(b)[t]
<1>1. /\ t \notin TracesOf(b) => t \in DOMAIN traces /\ row = traces[t]
      /\ t \in TracesOf(b) /\ t \in DOMAIN traces => row = MemMerge(traces[t], RowOf(b, t))
      /\ t \in TracesOf(b) /\ t \notin DOMAIN traces => row = RowOf(b, t)
  BY DEF Merged
<1> HIDE DEF row
<1>2. RowOf(b, t).service = Content[b].service
  <2> DEFINE fold == FoldSpans(TheirSpans(Content[b].spans, {t}))
             row2 == Put(fold, "service", Content[b].service)
  <2>1. "service" \in DOMAIN row2 /\ row2["service"] = Content[b].service
    BY DEF Put
  <2>2. RowOf(b, t) = Put(row2, "currency", NoValue)
    BY DEF RowOf
  <2> HIDE DEF row2
  <2> QED BY <2>1, <2>2 DEF Put
<1>3. ASSUME NEW old, NEW new, "service" \in DOMAIN old
      PROVE  MemMerge(old, new).service = old.service
  BY <1>3 DEF MemMerge
<1>4. t \in DOMAIN traces => "service" \in DOMAIN traces[t]
  BY DEF RowsFit, RowFits
<1>5. t \in DOMAIN traces => traces[t].service \in services \cup {NoValue}
  BY DEF ServicesFit
<1> QED BY <1>1, <1>2, <1>3, <1>4, <1>5 DEF row

(* Costs change nothing of it. *)
LEMMA TotalsServices ==
  ASSUME NEW tt, NEW ss, NEW T, NEW t \in DOMAIN tt, "service" \in DOMAIN tt[t]
  PROVE  DOMAIN WithTotals(tt, ss, T) = DOMAIN tt
         /\ WithTotals(tt, ss, T)[t].service = tt[t].service
<1>1. \A c, d : [tt[t] EXCEPT !.cost = c, !.currency = d].service = tt[t].service
  OBVIOUS
<1> QED BY <1>1 DEF WithTotals

(* Every call leaves services that are known and logs that are records. *)
LEMMA ServicesNext ==
  ASSUME TypeInv, RowsFit(traces, spans), ServicesFit, LogsOK(logs), [Next]_vars
  PROVE  ServicesFit' /\ LogsOK(logs')
<1> DEFINE Fit == ServicesFit' /\ LogsOK(logs')
<1>0. UNCHANGED <<traces, services, logs>> => Fit
  BY DEF ServicesFit
<1>a. ASSUME NEW kept \in SUBSET DOMAIN traces, Keep(kept), UNCHANGED services
      PROVE  ServicesFit'
  BY <1>a DEF Keep, ServicesFit
<1>b. ASSUME End PROVE Fit
  <2>1. logs' = << >> /\ DOMAIN traces' = {}
    BY <1>b DEF End
  <2>2. << >> \in Seq({}) /\ DOMAIN << >> = {}
    OBVIOUS
  <2>3. IsSeq(logs')
    BY <2>1, <2>2, SeqOver
  <2> QED BY <2>1, <2>2, <2>3 DEF ServicesFit, LogsOK
<1>d. ASSUME Interrupted PROVE Fit
  BY <1>b, <1>d DEF Interrupted
<1>e. ASSUME NEW s, Change(s) PROVE Fit
  BY <1>0, <1>d, <1>e DEF Change, data
<1>1. ASSUME NEW b \in Batches, InsertSpans(b) PROVE Fit
  <2> DEFINE all == spans \o Arrived(b)
             tt == Merged(b)
  <2>1. /\ \E T : traces' = WithTotals(tt, all, T)
        /\ services' = services \cup ({Content[b].service} \ {NoValue}) /\ logs' = logs
    BY <1>1 DEF InsertSpans
  <2>2. PICK T : traces' = WithTotals(tt, all, T)
    BY <2>1
  <2>3. ASSUME NEW t \in DOMAIN tt PROVE "service" \in DOMAIN tt[t]
    <3>1. SpansOK(spans) /\ PricesOK(settings)
      BY DEF TypeInv
    <3>2. RowsFit(tt, WithCosts(all, T))
      BY <3>1, CostedExtends, MergedFit
    <3> QED BY <3>2 DEF RowsFit, RowFits
  <2>4. ASSUME NEW t \in DOMAIN tt PROVE tt[t].service \in services' \cup {NoValue}
    BY <2>1, <2>4, MergedServices
  <2> HIDE DEF tt, all
  <2>5. DOMAIN traces' = DOMAIN tt \/ DOMAIN tt = {}
    BY <2>2, <2>3, TotalsServices
  <2>6. DOMAIN traces' = DOMAIN tt
    BY <2>2 DEF WithTotals
  <2>7. \A t \in DOMAIN tt : traces'[t].service = tt[t].service
    BY <2>2, <2>3, TotalsServices
  <2> QED BY <2>1, <2>4, <2>6, <2>7 DEF ServicesFit
<1>2. ASSUME NEW ls \in LogBatches, InsertLogs(ls) PROVE Fit
  <2>1. logs' = logs \o ls /\ UNCHANGED <<traces, services>>
    BY <1>2 DEF InsertLogs
  <2> QED BY <2>1, MoreLogs DEF ServicesFit
<1>3. ASSUME NEW t \in DOMAIN traces, UpdateTraceCost(t) PROVE Fit
  <2>1. traces' = WithTotals(traces, spans, {t}) /\ UNCHANGED <<services, logs>>
    BY <1>3 DEF UpdateTraceCost
  <2>2. \A u \in DOMAIN traces : "service" \in DOMAIN traces[u]
    BY DEF RowsFit, RowFits
  <2>3. DOMAIN traces' = DOMAIN traces
    BY <2>1 DEF WithTotals
  <2>4. \A u \in DOMAIN traces : traces'[u].service = traces[u].service
    BY <2>1, <2>2, TotalsServices
  <2> QED BY <2>1, <2>3, <2>4 DEF ServicesFit
<1>4. ASSUME NEW cutoff \in Cutoffs, PurgeLogs(cutoff) PROVE Fit
  <2> DEFINE I == {i \in DOMAIN logs : logs[i].time >= cutoff}
  <2>1. logs' = Picked(logs, I) /\ UNCHANGED <<traces, services>>
    BY <1>4 DEF PurgeLogs
  <2>2. I \in SUBSET DOMAIN logs
    OBVIOUS
  <2> HIDE DEF I
  <2> QED BY <2>1, <2>2, PickedLogs DEF ServicesFit
<1>5. ASSUME NEW cutoff \in Cutoffs, NEW n \in Counts, Purge(cutoff, n) PROVE Fit
  <2>1. UNCHANGED <<services, logs>>
    BY <1>5 DEF Purge
  <2> QED BY <1>5, <1>a, <2>1, PurgeKeepsSome
<1>6. ASSUME NEW ids, DeleteTraces(ids) PROVE Fit
  <2> DEFINE I == {i \in DOMAIN logs : logs[i].trace \notin ids}
  <2>1. CASE Keep(DOMAIN traces \ ids) /\ logs' = Picked(logs, I) /\ UNCHANGED services
    <3>1. I \in SUBSET DOMAIN logs
      OBVIOUS
    <3> HIDE DEF I
    <3>2. LogsOK(logs')
      BY <2>1, <3>1, PickedLogs
    <3> QED BY <1>a, <2>1, <3>2
  <2> QED BY <1>6, <1>d, <2>1 DEF DeleteTraces
<1>7. ASSUME NEW m, DeleteModelPricing(m) PROVE Fit
  BY <1>e, <1>7 DEF DeleteModelPricing
<1>8. ASSUME NEW m, NEW p, UpsertModelPricing(m, p) PROVE Fit
  BY <1>e, <1>8 DEF UpsertModelPricing
<1>9. ASSUME NEW id, DeleteLLMConfig(id) PROVE Fit
  BY <1>e, <1>9 DEF DeleteLLMConfig
<1>10. ASSUME NEW id, NEW c, CreateLLMConfig(id, c) PROVE Fit
  BY <1>e, <1>10 DEF CreateLLMConfig
<1>11. ASSUME NEW id, NEW c, UpdateLLMConfig(id, c) PROVE Fit
  BY <1>e, <1>11 DEF UpdateLLMConfig
<1>12. ASSUME NEW t, UpsertDiagnosisResult(t) PROVE Fit
  BY <1>e, <1>12 DEF UpsertDiagnosisResult
<1>13. CASE Open
  BY <1>0, <1>13 DEF Open, data
<1>14. CASE Close
  BY <1>b, <1>14 DEF Close
<1>15. CASE Crash
  BY <1>b, <1>15 DEF Crash
<1>16. CASE UNCHANGED vars
  BY <1>0, <1>16 DEF vars
<1> QED
  BY <1>1, <1>2, <1>3, <1>4, <1>5, <1>6, <1>7, <1>8, <1>9, <1>10, <1>11, <1>12,
     <1>13, <1>14, <1>15, <1>16 DEF Next

(* What the answers rest on holds in every reachable state. *)
LEMMA ReadInvariance == (Init => ReadInv) /\ (ReadInv /\ [Next]_vars => ReadInv')
<1>1. Init => ReadInv
  <2>1. << >> \in Seq({}) /\ DOMAIN << >> = {}
    OBVIOUS
  <2>2. IsSeq(<< >>)
    BY <2>1, SeqOver
  <2> QED BY <2>1, <2>2, InitFits DEF Init, CostsFit, ReadInv, ServicesFit, LogsOK
<1>2. ReadInv /\ [Next]_vars => ReadInv'
  BY TypeNext, RowsNext, CostsNext, ServicesNext DEF ReadInv
<1> QED BY <1>1, <1>2

(* One trace: nil in memory is an error of SQL, and if the row is there    *)
(* its spans and its session are told alike.                               *)
LEMMA SameTrace ==
  ASSUME RowsFit(traces, spans), NEW t
  PROVE  TracesMatch(t)
<1> DEFINE I == {i \in DOMAIN spans : spans[i].trace = t}
           mem == MemGetTrace(traces, spans, t)
           sql == SqlGetTrace(traces, spans, t)
<1>1. I = {} <=> t \notin DOMAIN traces
  BY DEF RowsFit
<1>2. CASE t \notin DOMAIN traces
  <2>1. mem = Nil
    BY <1>1, <1>2 DEF MemGetTrace
  <2>2. sql = [error |-> TRUE, found |-> FALSE]
    BY <1>2 DEF SqlGetTrace
  <2> HIDE DEF mem, sql
  <2>3. ~mem.error /\ ~mem.found /\ sql.error /\ ~sql.found
    BY <2>1, <2>2 DEF Nil
  <2>4. ReadStatus(TRUE, mem) = 404 /\ ReadStatus(TRUE, sql) = 500
    BY <2>3 DEF ReadStatus
  <2> QED BY <2>3, <2>4 DEF TracesMatch, mem, sql
<1>3. CASE t \in DOMAIN traces
  <2>1. /\ mem.error = FALSE /\ mem.found = TRUE
        /\ mem.spans = {spans[i].id : i \in I} /\ mem.session = traces[t].session
    BY <1>1, <1>3 DEF MemGetTrace
  <2>2. /\ sql.error = FALSE /\ sql.found = TRUE
        /\ sql.spans = {spans[i].id : i \in I} /\ sql.session = traces[t].session
    BY <1>3 DEF SqlGetTrace
  <2> HIDE DEF mem, sql, I
  <2>3. ReadStatus(TRUE, mem) # 404 /\ ReadStatus(TRUE, sql) # 500
    BY <2>1, <2>2 DEF ReadStatus
  <2>4. mem.spans = sql.spans /\ mem.session = sql.session
    BY <2>1, <2>2
  <2> QED BY <2>3, <2>4 DEF TracesMatch, mem, sql
<1> QED BY <1>2, <1>3

(* A page that makes no sense is the first, of twenty. *)
LEMMA PageIs ==
  ASSUME NEW n \in PageNumbers, NEW m \in PageSizes
  PROVE  PageOf(n) \in Nat \ {0} /\ SizeOf(m) \in Nat \ {0}
<1>1. n \in Int /\ m \in Int
  BY QueriesAssumption
<1> QED BY <1>1 DEF PageOf, SizeOf

(* Lists, traces and summaries. *)
LEMMA ListsAlwaysAgree == ReadInv => ListsAgree
<1> SUFFICES ASSUME ReadInv PROVE ListsAgree
  OBVIOUS
<1>1. TypeInv /\ RowsFit(traces, spans) /\ CostsFit(traces, spans, stale) /\ LogsOK(logs)
  BY DEF ReadInv
<1>2. ASSUME NEW n \in PageNumbers, NEW m \in PageSizes, NEW q
      PROVE  /\ TraceListsAgree(q, PageOf(n), SizeOf(m))
             /\ LogListsMatch(q, PageOf(n), SizeOf(m))
  <2>1. PageOf(n) \in Nat \ {0} /\ SizeOf(m) \in Nat \ {0}
    BY PageIs
  <2>2. TraceListsAgree(q, PageOf(n), SizeOf(m))
    BY <1>1, <2>1, SameList, ValuesAssumption
  <2>3. LogListsMatch(q, PageOf(n), SizeOf(m))
    <3> SUFFICES ASSUME Given(q.severity) => Upper[q.severity] = q.severity
                 PROVE  /\ \A i \in DOMAIN logs :
                             MemLogSelects(logs[i], q) => SqlLogSelects(logs[i], q)
                        /\ q.body \notin Wild =>
                             MemListLogs(logs, q, PageOf(n), SizeOf(m))
                               = SqlListLogs(logs, q, PageOf(n), SizeOf(m))
      BY DEF LogListsMatch
    <3>1. IsSeq(logs) /\ \A i \in DOMAIN logs : logs[i].time \in Nat
                                           /\ Upper[logs[i].severity] = logs[i].severity
      BY <1>1 DEF LogsOK, IsRecord
    <3> QED BY <2>1, <3>1, SameLogs, LogListsAgree
  <2> QED BY <2>2, <2>3
<1>3. ASSUME NEW by, NEW r \in Ranges PROVE CostSummariesAgree(r[1], r[2], by)
  BY <1>1, SameSummary, QueriesAssumption
<1>4. SqlGetServices(traces) \subseteq services
  BY DEF ReadInv, ServicesFit, SqlGetServices
<1> QED BY <1>1, <1>2, <1>3, <1>4, SameTrace DEF ListsAgree

-----------------------------------------------------------------------------
(* Sessions: the loop over the traces of one, and its GROUP BY.            *)

(* The maximum, and the minimum, of a set with one number more. *)
LEMMA MaxOfMore ==
  ASSUME NEW S \in SUBSET Nat, S # {}, IsFiniteSet(S), NEW x \in Nat
  PROVE  Max(S \cup {x}) = IF x > Max(S) THEN x ELSE Max(S)
<1> DEFINE m == Max(S)
<1>1. m \in S /\ \A y \in S : y <= m
  BY FiniteMax
<1> HIDE DEF m
<1>2. m \in Nat
  BY <1>1
<1>3. CASE x > m
  <2>1. \A y \in S \cup {x} : y <= x
    BY <1>1, <1>2, <1>3
  <2>2. Max(S \cup {x}) = x
    BY <2>1, MaxIs
  <2> QED BY <1>3, <2>2 DEF m
<1>4. CASE ~(x > m)
  <2>1. (\A y \in S \cup {x} : y <= m) /\ m \in S \cup {x} /\ S \cup {x} \in SUBSET Nat
    BY <1>1, <1>2, <1>4
  <2>2. Max(S \cup {x}) = m
    BY <2>1, MaxIs
  <2> QED BY <1>4, <2>2 DEF m
<1> QED BY <1>3, <1>4
LEMMA MinOfMore ==
  ASSUME NEW S \in SUBSET Nat, S # {}, NEW x \in Nat
  PROVE  Min(S \cup {x}) = IF x < Min(S) THEN x ELSE Min(S)
<1> DEFINE m == Min(S)
<1>1. m \in S /\ \A y \in S : m <= y
  BY MinInSet
<1> HIDE DEF m
<1>2. m \in Nat
  BY <1>1
<1>3. CASE x < m
  <2>1. \A y \in S \cup {x} : x <= y
    BY <1>1, <1>2, <1>3
  <2>2. Min(S \cup {x}) = x
    BY <2>1, MinIs
  <2> QED BY <1>3, <2>2 DEF m
<1>4. CASE ~(x < m)
  <2>1. (\A y \in S \cup {x} : m <= y) /\ m \in S \cup {x} /\ S \cup {x} \in SUBSET Nat
    BY <1>1, <1>2, <1>4
  <2>2. Min(S \cup {x}) = m
    BY <2>1, MinIs
  <2> QED BY <1>4, <2>2 DEF m
<1> QED BY <1>3, <1>4

(* A finite set in an order is its members, each at one position. *)
LEMMA OrderedSet ==
  ASSUME NEW T, IsFiniteSet(T)
  PROVE  LET s == SetToSeq(T)
         IN  IsSeq(s) /\ Len(s) = Cardinality(T) /\ Renames(s, DOMAIN s, T)
<1> DEFINE n == Cardinality(T)
           s == SetToSeq(T)
<1>1. n \in Nat /\ ExistsBijection(1 .. n, T)
  BY FS_CardinalityType
<1>2. PICK f \in Bijection(1 .. n, T) : TRUE
  BY <1>1 DEF ExistsBijection
<1>3. f \in [1 .. n -> T] /\ IsInjective(f)
  BY <1>2 DEF Bijection, Injection
<1>4. s = CHOOSE g \in [1 .. n -> T] : IsInjective(g)
  BY DEF SetToSeq
<1> HIDE DEF n, s
<1>5. s \in [1 .. n -> T] /\ IsInjective(s)
  BY <1>3, <1>4
<1>6. Cardinality(1 .. n) = n /\ IsFiniteSet(1 .. n)
  <2>1. Cardinality(1 .. n) = IF 1 > n THEN 0 ELSE n - 1 + 1
    BY <1>1, FS_Interval
  <2> QED BY <1>1, <2>1, FS_Interval
<1>7. s \in Surjection(1 .. n, T)
  <2>1. s \in Injection(1 .. n, T)
    BY <1>5 DEF Injection
  <2> QED BY <1>6, <2>1, FS_Injection DEF n
<1>8. T = {s[i] : i \in 1 .. n}
  BY <1>5, <1>7 DEF Surjection
<1>9. Renames(s, 1 .. n, T)
  BY <1>5, <1>8 DEF Renames, IsInjective
<1>10. IsSeq(s) /\ Len(s) = n
  BY <1>1, <1>5, FunctionSeq
<1> QED BY <1>5, <1>9, <1>10 DEF s, n

(* What a summary says of the traces U, and the start f it begins with. *)
Lengths(tt, U) == {tt[t].duration : t \in U}
Lasts(tt, U) == [t \in U |-> tt[t].duration]
Errors(tt, U) == {t \in U : tt[t].status \in Failed}
Summed(tt, f, U) ==
  [traces |-> Cardinality(U), tokens |-> TokensOf(tt, U),
   duration |-> SumFunctionOnSet(Lasts(tt, U), U),
   longest |-> Max({0} \cup Lengths(tt, U)), errors |-> Cardinality(Errors(tt, U)),
   first |-> Min({f} \cup Starts(tt, U)), last |-> Max({f} \cup Starts(tt, U))]
Summable(tt, U) ==
  /\ IsFiniteSet(U)
  /\ \A t \in U : /\ tt[t].duration \in Nat /\ tt[t].start \in Nat
                  /\ tt[t].tokens \in Nat \cup {NoValue}

(* One turn of the loop, figure by figure. *)
Figures == {"traces", "tokens", "duration", "longest", "errors", "first", "last"}
IsSummary(sum) == sum = [f \in Figures |-> sum[f]]
LEMMA AddTraceIs ==
  ASSUME NEW sum, IsSummary(sum), NEW row
  PROVE  LET r == AddTrace(sum, row)
         IN  /\ IsSummary(r)
             /\ r.traces = sum.traces + 1
             /\ r.tokens = AddTokens(sum.tokens, row.tokens)
             /\ r.duration = sum.duration + row.duration
             /\ r.longest = IF row.duration > sum.longest THEN row.duration ELSE sum.longest
             /\ r.errors = IF row.status \in Failed THEN sum.errors + 1 ELSE sum.errors
             /\ r.first = IF row.start < sum.first THEN row.start ELSE sum.first
             /\ r.last = IF row.start > sum.last THEN row.start ELSE sum.last
<1> DEFINE r == AddTrace(sum, row)
<1>1. DOMAIN sum = Figures
  BY DEF IsSummary
<1>2. /\ r.traces = sum.traces + 1
      /\ r.tokens = AddTokens(sum.tokens, row.tokens)
      /\ r.duration = sum.duration + row.duration
      /\ r.longest = IF row.duration > sum.longest THEN row.duration ELSE sum.longest
  BY <1>1 DEF AddTrace, Figures
<1>4. /\ r.errors = IF row.status \in Failed THEN sum.errors + 1 ELSE sum.errors
      /\ r.first = IF row.start < sum.first THEN row.start ELSE sum.first
      /\ r.last = IF row.start > sum.last THEN row.start ELSE sum.last
  BY <1>1 DEF AddTrace, Figures
<1>3. IsSummary(r)
  BY <1>1 DEF AddTrace, IsSummary
<1> QED BY <1>2, <1>3, <1>4

(* Summaries with the same figures are one. *)
LEMMA SameSum ==
  ASSUME NEW a, NEW b, IsSummary(a), IsSummary(b),
         a.traces = b.traces, a.tokens = b.tokens, a.duration = b.duration,
         a.longest = b.longest, a.errors = b.errors, a.first = b.first, a.last = b.last
  PROVE  a = b
<1>1. \A f \in Figures : a[f] = b[f]
  BY DEF Figures
<1> QED BY <1>1 DEF IsSummary

(* Part of what can be summed up can be. *)
LEMMA SummablePart ==
  ASSUME NEW tt, NEW T, Summable(tt, T), NEW U \in SUBSET T
  PROVE  Summable(tt, U)
BY FS_Subset DEF Summable

(* Figures of finitely many traces are over finite sets of numbers. *)
LEMMA FiguresAreNumbers ==
  ASSUME NEW tt, NEW U, Summable(tt, U), NEW f \in Nat
  PROVE  /\ {0} \cup Lengths(tt, U) \in SUBSET Nat /\ {0} \cup Lengths(tt, U) # {}
         /\ IsFiniteSet({0} \cup Lengths(tt, U))
         /\ {f} \cup Starts(tt, U) \in SUBSET Nat /\ {f} \cup Starts(tt, U) # {}
         /\ IsFiniteSet({f} \cup Starts(tt, U))
<1> DEFINE d == [t \in U |-> tt[t].duration]
           s == [t \in U |-> tt[t].start]
<1>1. Lengths(tt, U) = {d[t] : t \in U} /\ Starts(tt, U) = {s[t] : t \in U}
  BY DEF Lengths, Starts
<1> HIDE DEF d, s
<1>2. IsFiniteSet(Lengths(tt, U)) /\ IsFiniteSet(Starts(tt, U))
  BY <1>1, FiniteImage DEF Summable
<1>3. IsFiniteSet({0} \cup Lengths(tt, U)) /\ IsFiniteSet({f} \cup Starts(tt, U))
  BY <1>2, FS_Singleton, FS_Union
<1>4. Lengths(tt, U) \in SUBSET Nat /\ Starts(tt, U) \in SUBSET Nat
  BY DEF Lengths, Starts, Summable
<1> QED BY <1>3, <1>4

(* A trace more. *)
LEMMA SummedNext ==
  ASSUME NEW tt, NEW U, NEW t, t \notin U, Summable(tt, U \cup {t}), NEW f \in Nat
  PROVE  Summed(tt, f, U \cup {t}) = AddTrace(Summed(tt, f, U), tt[t])
<1> DEFINE T == U \cup {t}
           row == tt[t]
<1>1. Summable(tt, T) /\ Summable(tt, U) /\ Summable(tt, {t}) /\ t \in T
  BY SummablePart
<1>2. /\ IsFiniteSet(U) /\ IsFiniteSet(T)
      /\ row.duration \in Nat /\ row.start \in Nat /\ row.tokens \in Nat \cup {NoValue}
  BY <1>1 DEF Summable
<1>3. Cardinality(T) = Cardinality(U) + 1
  BY <1>2, FS_AddElement
<1>4. TokensOf(tt, T) = AddTokens(TokensOf(tt, U), row.tokens)
  <2>1. HasAmounts(tt, U) /\ HasAmounts(tt, {t}) /\ U \cap {t} = {}
    BY <1>1 DEF Summable, HasAmounts
  <2>2. TokensOf(tt, T) = AddTokens(TokensOf(tt, U), TokensOf(tt, {t}))
    BY <2>1, TokensAdd
  <2>3. TokensOf(tt, {t}) = row.tokens
    <3> DEFINE g == [x \in {t} |-> IF tt[x].tokens = NoValue THEN 0 ELSE tt[x].tokens]
    <3>1. TokensOf(tt, {t}) = IF Counted(tt, {t}) = {} THEN NoValue
                              ELSE SumFunctionOnSet(g, {t})
      BY <2>1, TokensAsSum
    <3>2. Counted(tt, {t}) = {} <=> row.tokens = NoValue
      BY DEF Counted
    <3>3. g[t] = (IF row.tokens = NoValue THEN 0 ELSE row.tokens) /\ g[t] \in Nat
      BY <1>2
    <3> HIDE DEF g
    <3>4. SumFunctionOnSet(g, {t}) = g[t]
      <4>1. SumFunctionOnSet(g, {t}) = g[t] + SumFunctionOnSet(g, {t} \ {t})
        BY <3>3, FS_Singleton, SumWithout
      <4>2. {t} \ {t} = {}
        OBVIOUS
      <4>3. SumFunctionOnSet(g, {t} \ {t}) = 0
        BY <4>2, SumEmpty
      <4> QED BY <3>3, <4>1, <4>3
    <3> QED BY <3>1, <3>2, <3>3, <3>4
  <2> QED BY <2>2, <2>3
<1>5. SumFunctionOnSet(Lasts(tt, T), T) = SumFunctionOnSet(Lasts(tt, U), U) + row.duration
  <2> DEFINE d == Lasts(tt, T)
             e == Lasts(tt, U)
  <2>1. (\A x \in T : d[x] \in Nat) /\ d[t] = row.duration /\ \A x \in U : d[x] = e[x]
    BY <1>1 DEF Lasts, Summable
  <2> HIDE DEF d, e
  <2>2. SumFunctionOnSet(d, T) = d[t] + SumFunctionOnSet(d, T \ {t})
    BY <1>1, <1>2, <2>1, SumWithout
  <2>3. T \ {t} = U
    OBVIOUS
  <2>4. SumFunctionOnSet(d, U) = SumFunctionOnSet(e, U)
    BY <1>2, <2>1, SumSame
  <2>5. SumFunctionOnSet(d, U) \in Nat
    BY <1>2, <2>1, SumType
  <2> HIDE DEF T
  <2>6. SumFunctionOnSet(d, T) = d[t] + SumFunctionOnSet(d, U)
    BY <2>2, <2>3
  <2> QED BY <1>2, <2>1, <2>4, <2>5, <2>6 DEF d, e
<1>6. Max({0} \cup Lengths(tt, T)) = LET m == Max({0} \cup Lengths(tt, U))
                                     IN  IF row.duration > m THEN row.duration ELSE m
  <2> DEFINE S == {0} \cup Lengths(tt, U)
  <2>1. {0} \cup Lengths(tt, T) = S \cup {row.duration}
    BY DEF Lengths
  <2>2. S \in SUBSET Nat /\ S # {} /\ IsFiniteSet(S)
    BY <1>1, FiguresAreNumbers
  <2> HIDE DEF S
  <2> QED BY <1>2, <2>1, <2>2, MaxOfMore DEF S
<1>7. Cardinality(Errors(tt, T)) = IF row.status \in Failed THEN Cardinality(Errors(tt, U)) + 1
                                   ELSE Cardinality(Errors(tt, U))
  <2> DEFINE E == Errors(tt, U)
  <2>1. Errors(tt, T) = IF row.status \in Failed THEN E \cup {t} ELSE E
    BY DEF Errors
  <2>2. IsFiniteSet(E) /\ t \notin E
    <3>1. E \in SUBSET U
      BY DEF Errors
    <3> QED BY <1>2, <3>1, FS_Subset
  <2> HIDE DEF E, T
  <2>3. Cardinality(E \cup {t}) = Cardinality(E) + 1
    BY <2>2, FS_AddElement
  <2> QED BY <2>1, <2>3 DEF E
<1>8. /\ Min({f} \cup Starts(tt, T)) = (LET m == Min({f} \cup Starts(tt, U))
                                       IN  IF row.start < m THEN row.start ELSE m)
      /\ Max({f} \cup Starts(tt, T)) = (LET m == Max({f} \cup Starts(tt, U))
                                       IN  IF row.start > m THEN row.start ELSE m)
  <2> DEFINE S == {f} \cup Starts(tt, U)
  <2>1. {f} \cup Starts(tt, T) = S \cup {row.start}
    BY DEF Starts
  <2>2. S \in SUBSET Nat /\ S # {} /\ IsFiniteSet(S)
    BY <1>1, FiguresAreNumbers
  <2> HIDE DEF S
  <2> QED BY <1>2, <2>1, <2>2, MaxOfMore, MinOfMore DEF S
<1> DEFINE old == Summed(tt, f, U)
           new == Summed(tt, f, T)
<1>9. /\ IsSummary(old) /\ old.traces = Cardinality(U) /\ old.tokens = TokensOf(tt, U)
      /\ old.duration = SumFunctionOnSet(Lasts(tt, U), U)
      /\ old.longest = Max({0} \cup Lengths(tt, U)) /\ old.errors = Cardinality(Errors(tt, U))
      /\ old.first = Min({f} \cup Starts(tt, U)) /\ old.last = Max({f} \cup Starts(tt, U))
  BY DEF Summed, IsSummary, Figures
<1>10. /\ IsSummary(new) /\ new.traces = Cardinality(T) /\ new.tokens = TokensOf(tt, T)
       /\ new.duration = SumFunctionOnSet(Lasts(tt, T), T)
       /\ new.longest = Max({0} \cup Lengths(tt, T)) /\ new.errors = Cardinality(Errors(tt, T))
       /\ new.first = Min({f} \cup Starts(tt, T)) /\ new.last = Max({f} \cup Starts(tt, T))
  BY DEF Summed, IsSummary, Figures
<1> HIDE DEF T, row, old, new
<1> DEFINE r == AddTrace(old, row)
<1>11. /\ IsSummary(r)
       /\ r.traces = old.traces + 1 /\ r.tokens = AddTokens(old.tokens, row.tokens)
       /\ r.duration = old.duration + row.duration
       /\ r.longest = (IF row.duration > old.longest THEN row.duration ELSE old.longest)
       /\ r.errors = (IF row.status \in Failed THEN old.errors + 1 ELSE old.errors)
       /\ r.first = (IF row.start < old.first THEN row.start ELSE old.first)
       /\ r.last = (IF row.start > old.last THEN row.start ELSE old.last)
  BY ONLY <1>9, AddTraceIs
<1> HIDE DEF r
<1>13. r.traces = new.traces /\ r.tokens = new.tokens /\ r.duration = new.duration
  BY ONLY <1>3, <1>4, <1>5, <1>9, <1>10, <1>11
<1>14. r.longest = new.longest /\ r.first = new.first /\ r.last = new.last
  BY ONLY <1>6, <1>8, <1>9, <1>10, <1>11
<1>15. r.errors = new.errors
  BY ONLY <1>7, <1>9, <1>10, <1>11
<1>12. new = r
  BY ONLY <1>10, <1>11, <1>13, <1>14, <1>15, SameSum
<1> QED BY <1>12 DEF T, row, old, new, r

(* The recursion of Summarise, as an equation for g. *)
AddLoop(tt, s, S, g) ==
  g = [P \in SUBSET S |-> IF P = {} THEN NewSummary(tt[s[1]])
                                    ELSE AddTrace(g[P \ {Max(P)}], tt[s[Max(P)]])]
AddedUp(tt, s, S) == (CHOOSE g : AddLoop(tt, s, S, g))[S]
LEMMA SummariseIsLoop ==
  \A tt, T : Summarise(tt, T) = AddedUp(tt, SetToSeq(T), DOMAIN SetToSeq(T))
BY DEF Summarise, FoldLeft, MapThenFoldSet, AddedUp, AddLoop

(* What a solution says of one set. *)
LEMMA AddLoopAt ==
  ASSUME NEW tt, NEW s, NEW S, NEW g, AddLoop(tt, s, S, g), NEW P \in SUBSET S
  PROVE  /\ P = {} => g[P] = NewSummary(tt[s[1]])
         /\ P # {} => g[P] = AddTrace(g[P \ {Max(P)}], tt[s[Max(P)]])
<1> DEFINE body(U) == IF U = {} THEN NewSummary(tt[s[1]])
                                ELSE AddTrace(g[U \ {Max(U)}], tt[s[Max(U)]])
<1>1. g = [U \in SUBSET S |-> body(U)]
  BY DEF AddLoop
<1>2. g[P] = body(P)
  <2> HIDE DEF body
  <2> QED BY <1>1
<1> QED BY <1>2

(* No trace yet. *)
LEMMA SummedNone ==
  ASSUME NEW tt, NEW row, row.start \in Nat
  PROVE  Summed(tt, row.start, {}) = NewSummary(row)
<1> DEFINE f == row.start
<1>1. Cardinality({}) = 0
  BY FS_EmptySet
<1>2. TokensOf(tt, {}) = NoValue
  BY DEF TokensOf, Counted
<1>3. SumFunctionOnSet(Lasts(tt, {}), {}) = 0
  BY SumEmpty
<1>4. Lengths(tt, {}) = {} /\ Errors(tt, {}) = {} /\ Starts(tt, {}) = {}
  BY DEF Lengths, Errors, Starts
<1>5. Max({0}) = 0 /\ Max({f}) = f /\ Min({f}) = f
  BY MaxIs, MinIs
<1>6. {0} \cup {} = {0} /\ {f} \cup {} = {f}
  OBVIOUS
<1> HIDE DEF f
<1>7. Summed(tt, f, {})
      = [traces |-> 0, tokens |-> NoValue, duration |-> 0, longest |-> 0, errors |-> 0,
         first |-> f, last |-> f]
  BY <1>1, <1>2, <1>3, <1>4, <1>5, <1>6 DEF Summed
<1> QED BY <1>7 DEF NewSummary, f

(* The loop over a list of traces, each listed once, has their sums. *)
LEMMA LoopIsSummed ==
  ASSUME NEW tt, NEW T, Summable(tt, T), NEW s, NEW n \in Nat \ {0}, DOMAIN s = 1 .. n,
         Renames(s, DOMAIN s, T)
  PROVE  AddedUp(tt, s, DOMAIN s) = Summed(tt, tt[s[1]].start, T)
<1> DEFINE S == DOMAIN s
           f == tt[s[1]].start
           Of(P) == {s[i] : i \in P}
           h == [P \in SUBSET S |-> Summed(tt, f, Of(P))]
<1>1. S \in SUBSET Nat /\ IsFiniteSet(S) /\ 1 \in S
  BY FS_Interval
<1>2. /\ T = Of(S) /\ \A x, y \in S : s[x] = s[y] => x = y
      /\ \A P \in SUBSET S : Of(P) \in SUBSET T
  BY DEF Renames
<1>3. f \in Nat
  BY <1>1, <1>2 DEF Summable
<1>4. ASSUME NEW P \in SUBSET S
      PROVE  h[P] = IF P = {} THEN NewSummary(tt[s[1]])
                              ELSE AddTrace(h[P \ {Max(P)}], tt[s[Max(P)]])
  <2>1. CASE P = {}
    <3>1. Of(P) = {}
      BY <2>1
    <3>2. h[P] = Summed(tt, f, {})
      BY <3>1
    <3>3. Summed(tt, f, {}) = NewSummary(tt[s[1]])
      BY <1>3, SummedNone
    <3> HIDE DEF h
    <3> QED BY <2>1, <3>2, <3>3
  <2>2. CASE P # {}
    <3> DEFINE m == Max(P)
               Q == P \ {m}
    <3>1. m \in P
      BY <1>1, <2>2, FS_Subset, FiniteMax
    <3> HIDE DEF m
    <3>2. Of(P) = Of(Q) \cup {s[m]} /\ s[m] \notin Of(Q) /\ Of(P) \in SUBSET T
      BY <1>2, <3>1
    <3>3. h[P] = Summed(tt, f, Of(P)) /\ h[Q] = Summed(tt, f, Of(Q))
      OBVIOUS
    <3>4. Summable(tt, Of(P))
      BY <3>2, SummablePart
    <3> HIDE DEF h, Of, Q, f
    <3>5. Summed(tt, f, Of(P)) = AddTrace(Summed(tt, f, Of(Q)), tt[s[m]])
      BY <1>3, <3>2, <3>4, SummedNext
    <3>6. h[P] = AddTrace(h[Q], tt[s[m]])
      BY <3>3, <3>5
    <3> QED BY <2>2, <3>6 DEF Q, m
  <2> QED BY <2>1, <2>2
<1>5. AddLoop(tt, s, S, h)
  <2>1. h = [P \in SUBSET S |-> h[P]]
    OBVIOUS
  <2> HIDE DEF h, S
  <2> QED BY <1>4, <2>1 DEF AddLoop
<1> HIDE DEF S
<1>6. PICK g : AddLoop(tt, s, S, g) /\ AddedUp(tt, s, S) = g[S]
  <2> HIDE DEF h
  <2> QED BY <1>5 DEF AddedUp
<1> DEFINE Good == {P \in SUBSET S : g[P] = h[P]}
<1>7. ASSUME NEW P \in SUBSET S, \A U \in SUBSET P : U # P => U \in Good
      PROVE  P \in Good
  <2> HIDE DEF h
  <2>3. /\ P = {} => g[P] = NewSummary(tt[s[1]])
        /\ P # {} => g[P] = AddTrace(g[P \ {Max(P)}], tt[s[Max(P)]])
    BY <1>6, AddLoopAt
  <2>4. h[P] = IF P = {} THEN NewSummary(tt[s[1]])
                         ELSE AddTrace(h[P \ {Max(P)}], tt[s[Max(P)]])
    BY <1>4
  <2>1. CASE P = {}
    BY <2>1, <2>3, <2>4
  <2>2. CASE P # {}
    <3> DEFINE m == Max(P)
               Q == P \ {m}
    <3>1. m \in P
      BY <1>1, <2>2, FS_Subset, FiniteMax
    <3>2. g[P] = AddTrace(g[Q], tt[s[m]]) /\ h[P] = AddTrace(h[Q], tt[s[m]])
      BY <2>2, <2>3, <2>4
    <3>3. g[Q] = h[Q]
      BY <1>7, <3>1
    <3> HIDE DEF Q, m
    <3> QED BY <3>2, <3>3
  <2> QED BY <2>1, <2>2
<1> HIDE DEF Good
<1>8. S \in Good
  BY <1>1, <1>7, SubsetInduction
<1>9. g[S] = h[S]
  BY <1>8 DEF Good
<1>10. h[S] = Summed(tt, f, T)
  BY <1>2
<1> HIDE DEF h
<1> QED BY <1>6, <1>9, <1>10 DEF S

(* The figures of the loop are those of the statement. *)
LEMMA SummedIsSql ==
  ASSUME NEW tt, NEW T, Summable(tt, T), NEW t \in T
  PROVE  Summed(tt, tt[t].start, T) = SqlSummary(tt, T)
<1> DEFINE f == tt[t].start
           Tokens == SqlSum(T, LAMBDA u : tt[u].tokens)
           Time == SqlSum(T, LAMBDA u : tt[u].duration)
<1>1. f \in Nat /\ \A u \in T : tt[u].duration \in Nat
  BY DEF Summable
<1>2. TokensOf(tt, T) = Tokens
  BY DEF SqlSum, TokensOf, Counted
<1>3. SumFunctionOnSet(Lasts(tt, T), T) = Time
  <2> DEFINE known == {u \in T : tt[u].duration # NoValue}
  <2>1. known = T /\ T # {}
    BY <1>1, NoValueAssumption
  <2>2. Time = IF known = {} THEN NoValue
               ELSE SumFunction([u \in known |-> tt[u].duration])
    BY DEF SqlSum
  <2>3. Time = SumFunction(Lasts(tt, T))
    <3> HIDE DEF Time, known
    <3> QED BY <2>1, <2>2 DEF Lasts
  <2>4. DOMAIN Lasts(tt, T) = T
    BY DEF Lasts
  <2>5. SumFunction(Lasts(tt, T)) = SumFunctionOnSet(Lasts(tt, T), DOMAIN Lasts(tt, T))
    BY DEF SumFunction, SumFunctionOnSet, FoldFunction
  <2> HIDE DEF Time
  <2> QED BY <2>3, <2>4, <2>5
<1>4. Max({0} \cup Lengths(tt, T)) = Max({tt[u].duration : u \in T})
  <2> DEFINE S == Lengths(tt, T)
             m == Max({0} \cup S)
  <2>1. S = {tt[u].duration : u \in T} /\ S # {} /\ S \in SUBSET Nat
    BY <1>1 DEF Lengths
  <2>2. m \in {0} \cup S /\ \A x \in {0} \cup S : x <= m
    <3>1. LET U == {0} \cup S IN U \in SUBSET Nat /\ U # {} /\ IsFiniteSet(U)
      BY <1>1, FiguresAreNumbers
    <3> HIDE DEF S
    <3> QED BY <3>1, FiniteMax
  <2> HIDE DEF S, m
  <2>3. m \in S
    <3>1. PICK x \in S : x \in Nat
      BY <2>1
    <3>2. x <= m
      BY ONLY <2>2, <3>1
    <3>3. m = 0 => x = m
      BY ONLY <3>1, <3>2
    <3> QED BY ONLY <2>2, <3>1, <3>3
  <2>4. Max(S) = m
    BY <2>1, <2>2, <2>3, MaxIs
  <2> QED BY <2>1, <2>4 DEF m, S
<1>5. Errors(tt, T) = {u \in T : StatusOf(tt[u]) = ERROR}
  BY ValuesAssumption DEF Errors, StatusOf
<1>6. {f} \cup Starts(tt, T) = {tt[u].start : u \in T}
  BY DEF Starts
<1>7. SqlSummary(tt, T)
      = [traces |-> Cardinality(T), tokens |-> Tokens, duration |-> Time,
         longest |-> Max({tt[u].duration : u \in T}),
         errors |-> Cardinality({u \in T : StatusOf(tt[u]) = ERROR}),
         first |-> Min({tt[u].start : u \in T}), last |-> Max({tt[u].start : u \in T})]
  BY DEF SqlSummary
<1>8. Summed(tt, f, T)
      = [traces |-> Cardinality(T), tokens |-> TokensOf(tt, T),
         duration |-> SumFunctionOnSet(Lasts(tt, T), T),
         longest |-> Max({0} \cup Lengths(tt, T)), errors |-> Cardinality(Errors(tt, T)),
         first |-> Min({f} \cup Starts(tt, T)), last |-> Max({f} \cup Starts(tt, T))]
  BY DEF Summed
<1> HIDE DEF f, Tokens, Time
<1>9. Summed(tt, f, T) = SqlSummary(tt, T)
  BY <1>2, <1>3, <1>4, <1>5, <1>6, <1>7, <1>8
<1> QED BY <1>9 DEF f

(* A trace or several, in memory and in SQL. *)
LEMMA SameSums ==
  ASSUME NEW tt, NEW T, Summable(tt, T), T # {}
  PROVE  Summarise(tt, T) = SqlSummary(tt, T)
<1> DEFINE s == SetToSeq(T)
           n == Len(s)
<1>1. IsFiniteSet(T)
  BY DEF Summable
<1>2. IsSeq(s) /\ Renames(s, DOMAIN s, T)
  BY <1>1, OrderedSet
<1> HIDE DEF s
<1>3. DOMAIN s = 1 .. n /\ n \in Nat
  BY <1>2, SeqIs
<1> HIDE DEF n
<1>4. n # 0 /\ 1 \in DOMAIN s
  BY <1>2, <1>3 DEF Renames
<1>5. s[1] \in T
  BY <1>2, <1>4 DEF Renames
<1>6. AddedUp(tt, s, DOMAIN s) = Summed(tt, tt[s[1]].start, T)
  BY <1>2, <1>3, <1>4, LoopIsSummed
<1>7. Summarise(tt, T) = AddedUp(tt, s, DOMAIN s)
  BY SummariseIsLoop DEF s
<1> QED BY <1>5, <1>6, <1>7, SummedIsSql

(* What is stored can be summed up, if no trace ends before it starts. *)
LEMMA StoredTraces ==
  ASSUME TypeInv, RowsFit(traces, spans)
  PROVE  IsFiniteSet(DOMAIN traces)
<1> DEFINE S == DOMAIN spans
           trace == [i \in S |-> spans[i].trace]
<1>1. IsFiniteSet(S)
  BY StoredPlaces DEF TypeInv
<1>2. DOMAIN traces = {trace[i] : i \in S}
  BY DEF RowsFit
<1> HIDE DEF trace, S
<1>3. IsFiniteSet({trace[i] : i \in S})
  BY <1>1, FiniteImage
<1> QED BY <1>2, <1>3
LEMMA StoredSums ==
  ASSUME TypeInv, RowsFit(traces, spans), Lasting
  PROVE  Summable(traces, DOMAIN traces)
<1>1. ASSUME NEW t \in DOMAIN traces
      PROVE  /\ traces[t].duration \in Nat /\ traces[t].start \in Nat
             /\ traces[t].tokens \in Nat \cup {NoValue}
  <2> DEFINE P == At(spans, {t})
  <2>1. P \in SUBSET DOMAIN spans
    BY DEF At
  <2>2. RowFits(traces[t], spans, P)
    BY DEF RowsFit
  <2> HIDE DEF P
  <2>3. Places(spans, P)
    BY <2>1, StoredPlaces DEF TypeInv
  <2>4. traces[t].start \in Nat
    BY <2>2, <2>3 DEF RowFits, Tells, StartIs, Places, IsSpan
  <2>5. traces[t].duration \in Nat
    <3>1. traces[t].duration \in Int
      BY <2>2 DEF RowFits
    <3>2. traces[t].duration >= 0
      BY DEF Lasting
    <3> QED BY <3>1, <3>2
  <2>6. traces[t].tokens \in Nat \cup {NoValue}
    <3> DEFINE g == Amount(spans, P)
    <3>1. traces[t].tokens = TokensOf(spans, P)
      BY <2>2 DEF RowFits, Tells
    <3>2. HasAmounts(spans, P)
      BY <2>3, PlacesHaveAmounts
    <3>3. \A i \in P : g[i] = (IF spans[i].tokens = NoValue THEN 0 ELSE spans[i].tokens)
                          /\ g[i] \in Nat
      BY <3>2 DEF HasAmounts, Amount
    <3> HIDE DEF g
    <3>4. SumFunctionOnSet(g, P) \in Nat
      BY <3>2, <3>3, SumType DEF HasAmounts
    <3>5. TokensOf(spans, P) = IF Counted(spans, P) = {} THEN NoValue
                               ELSE SumFunctionOnSet(g, P)
      BY <3>2, <3>3, TokensAsSum
    <3> QED BY <3>1, <3>4, <3>5
  <2> QED BY <2>4, <2>5, <2>6
<1>2. IsFiniteSet(DOMAIN traces)
  BY StoredTraces
<1> QED BY <1>1, <1>2 DEF Summable

(* The WHERE clause of the session list and its loop select the same. *)
LEMMA SameMatches ==
  ASSUME NEW row, NEW q, row.start \in Nat
  PROVE  /\ MemMatches(row, q) => row.session # NoValue /\ Selected(row, SessionClauses(q))
         /\ q.name \notin Wild =>
              (MemMatches(row, q)
                 <=> row.session # NoValue /\ Selected(row, SessionClauses(q)))
<1> DEFINE Passes(column, op, v) == Selected(row, Clause(column, op, v))
<1>1. Selected(row, SessionClauses(q)) <=>
        /\ Passes("service", "=", q.service) /\ Passes("session", "LIKE", q.name)
        /\ Passes("start", ">=", q.from) /\ Passes("start", "<=", q.to)
  BY DEF Selected, SessionClauses
<1>2. \A column, v :
        /\ Passes(column, "=", v) <=> (Given(v) => row[column] = v)
        /\ Passes(column, ">=", v) <=> (Given(v) => row[column] # NoValue /\ row[column] >= v)
        /\ Passes(column, "<=", v) <=> (Given(v) => row[column] # NoValue /\ row[column] <= v)
        /\ Passes(column, "LIKE", v) <=> (Given(v) => <<row[column], v>> \in Like)
  BY ClauseIs
<1> HIDE DEF Passes
<1>3. row.start # NoValue
  BY NoValueAssumption
<1>4. /\ <<row.session, q.name>> \in ContainsText => <<row.session, q.name>> \in Like
      /\ q.name \notin Wild =>
           (<<row.session, q.name>> \in ContainsText <=> <<row.session, q.name>> \in Like)
  BY Searches
<1> QED BY <1>1, <1>2, <1>3, <1>4 DEF MemMatches

(* Their sessions, and what is told of each. *)
LEMMA SameSessions ==
  ASSUME NEW tt, Summable(tt, DOMAIN tt), NEW q
  PROVE  LET list == MemSessions(tt, q)
         IN  /\ q.name \notin Wild => list = SqlSessions(tt, q)
             /\ IsFiniteSet(DOMAIN list)
             /\ \A s \in DOMAIN list : /\ TracesIn(tt, s) # {}
                                       /\ list[s] = SqlSummary(tt, TracesIn(tt, s))
<1> DEFINE mem == {t \in DOMAIN tt : MemMatches(tt[t], q)}
           sql == {t \in DOMAIN tt : /\ tt[t].session # NoValue
                                     /\ Selected(tt[t], SessionClauses(q))}
           S == {tt[t].session : t \in mem}
           list == MemSessions(tt, q)
<1>1. q.name \notin Wild => mem = sql
  <2>1. \A t \in DOMAIN tt : tt[t].start \in Nat
    BY DEF Summable
  <2> QED BY <2>1, SameMatches
<1>2. IsFiniteSet(S)
  <2> DEFINE session == [t \in mem |-> tt[t].session]
  <2>1. IsFiniteSet(mem)
    <3>1. mem \in SUBSET DOMAIN tt
      OBVIOUS
    <3> HIDE DEF mem
    <3> QED BY <3>1, FS_Subset DEF Summable
  <2>2. S = {session[t] : t \in mem}
    OBVIOUS
  <2> HIDE DEF session, mem, S
  <2> QED BY <2>1, <2>2, FiniteImage
<1>3. ASSUME NEW s \in S
      PROVE  /\ TracesIn(tt, s) # {}
             /\ Summarise(tt, TracesIn(tt, s)) = SqlSummary(tt, TracesIn(tt, s))
  <2>1. TracesIn(tt, s) # {} /\ TracesIn(tt, s) \in SUBSET DOMAIN tt
    BY DEF TracesIn
  <2> HIDE DEF S
  <2> QED BY <2>1, SummablePart, SameSums
<1>4. list = [s \in S |-> Summarise(tt, TracesIn(tt, s))]
  BY DEF MemSessions
<1>5. SqlSessions(tt, q) = [s \in {tt[t].session : t \in sql} |-> SqlSummary(tt, TracesIn(tt, s))]
  BY DEF SqlSessions
<1> HIDE DEF mem, sql
<1>6. q.name \notin Wild => SqlSessions(tt, q) = [s \in S |-> SqlSummary(tt, TracesIn(tt, s))]
  BY <1>1, <1>5
<1> HIDE DEF S, list
<1>7. q.name \notin Wild => list = SqlSessions(tt, q)
  BY <1>3, <1>4, <1>6
<1>8. DOMAIN list = S /\ \A s \in S : list[s] = SqlSummary(tt, TracesIn(tt, s))
  BY <1>3, <1>4
<1> QED BY <1>2, <1>3, <1>7, <1>8 DEF list

(* A quotient rounded to a unit is off by no more than half of it. *)
LEMMA RoundedIsNear ==
  ASSUME NEW n \in Nat, NEW m \in Nat \ {0}, NEW unit \in Nat \ {0}
  PROVE  Nearest(RoundedTo(n, m, unit), <<n, m>>)
<1> DEFINE x == 2 * unit * n + m
           k == x \div (2 * m)
<1>1. x \in Nat /\ 2 * m \in Nat \ {0}
  <2>1. unit * n \in Nat
    OBVIOUS
  <2> QED BY <2>1
<1>2. k \in Int /\ (2 * m) * k <= x /\ x < (2 * m) * k + 2 * m
  <2> HIDE DEF x
  <2>1. \A a \in Nat, b \in Nat \ {0} :
          a \div b \in Int /\ b * (a \div b) <= a /\ a < b * (a \div b) + b
    OBVIOUS
  <2>2. k \in Int /\ (2 * m) * k <= x /\ x < (2 * m) * k + (2 * m)
    BY <1>1, <2>1
  <2> QED BY <2>2
<1> HIDE DEF k
<1> DEFINE p == k * m
           r == n * unit
<1>3. p \in Int /\ r \in Int /\ (2 * m) * k = 2 * p /\ x = 2 * r + m
  <2>1. p \in Int /\ r \in Int
    BY <1>2
  <2>2. (2 * m) * k = 2 * p
    BY <1>2
  <2>3. x = 2 * r + m
    OBVIOUS
  <2> QED BY <2>1, <2>2, <2>3
<1> HIDE DEF x, p, r
<1>4. -m <= 2 * (p - r) /\ 2 * (p - r) <= m
  BY <1>2, <1>3
<1>5. RoundedTo(n, m, unit) = <<k, unit>>
  BY DEF RoundedTo, k, x
<1>6. <<k, unit>>[1] = k /\ <<k, unit>>[2] = unit /\ <<n, m>>[1] = n /\ <<n, m>>[2] = m
  OBVIOUS
<1> QED BY <1>4, <1>5, <1>6 DEF Nearest, p, r

(* A session is told of alike, but for its cost. *)
LEMMA FiguresMatch ==
  ASSUME NEW tt, Summable(tt, DOMAIN tt), NEW s, TracesIn(tt, s) # {}
  PROVE  SameFigures(MemFigures(s, SqlSummary(tt, TracesIn(tt, s))), SqlFigures(tt, s))
<1> DEFINE T == TracesIn(tt, s)
           sums == SqlSummary(tt, T)
           mem == MemFigures(s, sums)
           sql == SqlFigures(tt, s)
<1>1. T \in SUBSET DOMAIN tt /\ T # {}
  BY DEF TracesIn
<1>2. /\ mem.session = s /\ mem.sums = sums
      /\ mem.average = <<sums.duration, sums.traces>>
      /\ mem.rate = <<sums.errors, sums.traces>>
  BY DEF MemFigures
<1>3. /\ sql.session = s /\ sql.sums = sums
      /\ sql.average = RoundedTo(sums.duration, sums.traces, 1)
      /\ sql.rate = RoundedTo(sums.errors, sums.traces, 10000)
  BY DEF SqlFigures
<1> HIDE DEF mem, sql, T
<1>4. Summable(tt, T)
  BY <1>1, SummablePart
<1>5. PICK t \in T : TRUE
  BY <1>1
<1>6. Summed(tt, tt[t].start, T) = sums
  BY <1>4, SummedIsSql
<1>7. /\ sums.traces = Cardinality(T) /\ sums.errors = Cardinality(Errors(tt, T))
      /\ sums.duration = SumFunctionOnSet(Lasts(tt, T), T)
  BY <1>6 DEF Summed
<1> HIDE DEF sums
<1>8. IsFiniteSet(T)
  BY <1>4 DEF Summable
<1>9. Cardinality(T) \in Nat \ {0} /\ Cardinality(Errors(tt, T)) \in Nat
  <2>1. Errors(tt, T) \in SUBSET T
    BY DEF Errors
  <2>2. IsFiniteSet(Errors(tt, T))
    BY <1>8, <2>1, FS_Subset
  <2> QED BY <1>1, <1>8, <2>2, FS_CardinalityType, FS_EmptySet
<1>10. SumFunctionOnSet(Lasts(tt, T), T) \in Nat
  <2>1. \A u \in T : Lasts(tt, T)[u] \in Nat
    BY <1>4 DEF Lasts, Summable
  <2> QED BY <1>8, <2>1, SumType
<1>11. Nearest(sql.average, mem.average) /\ Nearest(sql.rate, mem.rate)
  BY <1>2, <1>3, <1>7, <1>9, <1>10, RoundedIsNear
<1> QED BY <1>2, <1>3, <1>11 DEF SameFigures, mem, sql, sums, T

(* One page of the session lists. *)
ItemsAreSums(tt, answers) ==
  \A a \in answers : \A i \in DOMAIN a.items :
    \E s : /\ TracesIn(tt, s) # {}
           /\ a.items[i] = MemFigures(s, SqlSummary(tt, TracesIn(tt, s)))
LEMMA SameSessionPage ==
  ASSUME NEW tt, Summable(tt, DOMAIN tt), NEW q,
         NEW page \in Nat \ {0}, NEW size \in Nat \ {0}
  PROVE  /\ q.name \notin Wild =>
              Paired(MemListSessions(tt, q, page, size), SqlListSessions(tt, q, page, size),
                     SamePages)
         /\ ItemsAreSums(tt, MemListSessions(tt, q, page, size))
<1> DEFINE list == MemSessions(tt, q)
           Page(o) == MemPage(o, page, size)
           total == Cardinality(DOMAIN list)
           MemAnswer(p) == [total |-> total, items |-> [i \in DOMAIN p |->
                                                          MemFigures(p[i], list[p[i]])]]
           SqlAnswer(p) == [total |-> total, items |-> [i \in DOMAIN p |->
                                                          SqlFigures(tt, p[i])]]
           mem == MemListSessions(tt, q, page, size)
           sql == SqlListSessions(tt, q, page, size)
<1>1. (q.name \notin Wild => list = SqlSessions(tt, q)) /\ IsFiniteSet(DOMAIN list)
  BY SameSessions
<1>2. \A s \in DOMAIN list : TracesIn(tt, s) # {} /\ list[s] = SqlSummary(tt, TracesIn(tt, s))
  BY SameSessions
<1>3. ASSUME NEW o \in LastActive(list)
      PROVE  Page(o) = SqlPage(o, page, size) /\ \A i \in DOMAIN Page(o) : Page(o)[i] \in DOMAIN list
  <2>1. o \in SetToSeqs(DOMAIN list)
    BY DEF LastActive, Orders
  <2> HIDE DEF list
  <2>2. IsSeq(o) /\ {o[i] : i \in DOMAIN o} \subseteq DOMAIN list
    BY <1>1, <2>1, OrderIs
  <2> QED BY <2>2, SamePage
<1>4. mem = {MemAnswer(Page(o)) : o \in LastActive(list)}
  BY DEF MemListSessions, Numbers
<1>5. q.name \notin Wild => sql = {SqlAnswer(SqlPage(o, page, size)) : o \in LastActive(list)}
  <2> HIDE DEF list
  <2> QED BY <1>1 DEF SqlListSessions, Numbers
<1> HIDE DEF list, Page, total, mem, sql
<1>6. ASSUME NEW p
      PROVE  /\ MemAnswer(p).total = total /\ DOMAIN MemAnswer(p).items = DOMAIN p
             /\ SqlAnswer(p).total = total /\ DOMAIN SqlAnswer(p).items = DOMAIN p
             /\ \A i \in DOMAIN p : /\ MemAnswer(p).items[i] = MemFigures(p[i], list[p[i]])
                                    /\ SqlAnswer(p).items[i] = SqlFigures(tt, p[i])
  OBVIOUS
<1> HIDE DEF MemAnswer, SqlAnswer
<1>7. ASSUME NEW o \in LastActive(list) PROVE SamePages(MemAnswer(Page(o)), SqlAnswer(Page(o)))
  <2> DEFINE p == Page(o)
  <2>1. ASSUME NEW i \in DOMAIN p
        PROVE  SameFigures(MemAnswer(p).items[i], SqlAnswer(p).items[i])
    <3>1. p[i] \in DOMAIN list
      BY <1>3
    <3> HIDE DEF p
    <3>2. SameFigures(MemFigures(p[i], list[p[i]]), SqlFigures(tt, p[i]))
      BY <1>2, <3>1, FiguresMatch
    <3> QED BY <1>6, <3>2
  <2> HIDE DEF p
  <2>2. SamePages(MemAnswer(p), SqlAnswer(p))
    BY <1>6, <2>1 DEF SamePages
  <2> QED BY <2>2 DEF p
<1>8. ASSUME q.name \notin Wild PROVE Paired(mem, sql, SamePages)
  <2>1. ASSUME NEW a \in mem PROVE \E b \in sql : SamePages(a, b)
    <3>1. PICK o \in LastActive(list) : a = MemAnswer(Page(o))
      BY <1>4
    <3>2. SqlAnswer(Page(o)) \in sql
      BY <1>3, <1>5, <1>8
    <3> QED BY <1>7, <3>1, <3>2
  <2>2. ASSUME NEW b \in sql PROVE \E a \in mem : SamePages(a, b)
    <3>1. PICK o \in LastActive(list) : b = SqlAnswer(SqlPage(o, page, size))
      BY <1>5, <1>8
    <3>2. MemAnswer(Page(o)) \in mem /\ b = SqlAnswer(Page(o))
      BY <1>3, <1>4, <3>1
    <3> QED BY <1>7, <3>2
  <2> QED BY <2>1, <2>2 DEF Paired
<1>9. ASSUME NEW a \in mem, NEW i \in DOMAIN a.items
      PROVE  \E s : /\ TracesIn(tt, s) # {}
                    /\ a.items[i] = MemFigures(s, SqlSummary(tt, TracesIn(tt, s)))
  <2>1. PICK o \in LastActive(list) : a = MemAnswer(Page(o))
    BY <1>4
  <2> DEFINE p == Page(o)
  <2>2. i \in DOMAIN p /\ a.items[i] = MemFigures(p[i], list[p[i]])
    BY <1>6, <2>1
  <2>3. p[i] \in DOMAIN list
    BY <1>3, <2>2
  <2> HIDE DEF p
  <2> QED BY <1>2, <2>2, <2>3
<1> QED BY <1>8, <1>9 DEF ItemsAreSums, mem, sql

(* One session: its figures, and a page of its traces. *)
LEMMA SameSession ==
  ASSUME TypeInv, RowsFit(traces, spans), Summable(traces, DOMAIN traces),
         NEW s, TracesIn(traces, s) # {}, NEW page \in Nat \ {0}, NEW size \in Nat \ {0}
  PROVE  /\ SessionsMatch(s, page, size)
         /\ \A d \in SqlGetSession(traces, spans, s, page, size) :
              d.session = SqlFigures(traces, s)
<1> DEFINE T == TracesIn(traces, s)
           figures == MemFigures(s, SqlSummary(traces, T))
           mem == MemGetSession(traces, spans, s, page, size)
           sql == SqlGetSession(traces, spans, s, page, size)
           memPage(o) == LET p == MemPage(o, page, size)
                         IN  [i \in DOMAIN p |-> MemItem(traces, spans, p[i])]
           sqlPage(o) == LET p == SqlPage(o, page, size)
                         IN  [i \in DOMAIN p |-> SqlItem(traces, spans, p[i])]
           Answer(f, items) == [error |-> FALSE, found |-> TRUE, session |-> f, items |-> items]
           told == SqlFigures(traces, s)
           Same(a, b) == /\ SameFigures(a.session, b.session)
                         /\ (\A t \in T : OneRoot(t)) => a.items = b.items
<1>1. T \in SUBSET DOMAIN traces /\ T # {}
  BY DEF TracesIn
<1>2. IsFiniteSet(T) /\ MemFigures(s, Summarise(traces, T)) = figures
  <2> HIDE DEF T
  <2>1. Summable(traces, T)
    BY <1>1, SummablePart
  <2> QED BY <1>1, <2>1, SameSums DEF Summable
<1>3. mem = {Answer(figures, memPage(o)) : o \in Oldest(traces, T)}
  <2>1. mem = {[error |-> FALSE, found |-> TRUE,
                session |-> MemFigures(s, Summarise(traces, T)),
                items |-> memPage(o)] : o \in Oldest(traces, T)}
    BY <1>1 DEF MemGetSession, Numbers
  <2> HIDE DEF T, figures, mem, memPage
  <2> QED BY <1>2, <2>1
<1>4. sql = {Answer(told, sqlPage(o)) : o \in Oldest(traces, T)}
  <2> HIDE DEF told
  <2> QED BY <1>1 DEF SqlGetSession, Numbers, told
<1>5. ASSUME \A t \in T : OneRoot(t), NEW o \in Oldest(traces, T)
      PROVE  memPage(o) = sqlPage(o)
  <2> DEFINE m == MemPage(o, page, size)
  <2>1. o \in SetToSeqs(T)
    BY <1>5 DEF Oldest, Orders
  <2> HIDE DEF T
  <2>2. IsSeq(o) /\ {o[i] : i \in DOMAIN o} \subseteq T
    BY <1>2, <2>1, OrderIs
  <2>3. m = SqlPage(o, page, size) /\ \A i \in DOMAIN m : m[i] \in {o[j] : j \in DOMAIN o}
    BY <2>2, SamePage
  <2>4. \A i \in DOMAIN m : m[i] \in T /\ m[i] \in DOMAIN traces
    BY <1>1, <2>2, <2>3
  <2> HIDE DEF m
  <2>5. \A i \in DOMAIN m : MemItem(traces, spans, m[i]) = SqlItem(traces, spans, m[i])
    <3>1. \A i \in DOMAIN m : OneRoot(m[i])
      BY <1>5, <2>4
    <3> QED BY <2>4, <3>1, SamePrompt, ValuesAssumption DEF MemItem, SqlItem
  <2>6. /\ memPage(o) = [i \in DOMAIN m |-> MemItem(traces, spans, m[i])]
        /\ sqlPage(o) = [i \in DOMAIN m |-> SqlItem(traces, spans, m[i])]
    BY <2>3 DEF m
  <2> HIDE DEF memPage, sqlPage
  <2> QED BY <2>5, <2>6
<1>6. SameFigures(figures, told)
  BY <1>1, FiguresMatch
<1> HIDE DEF memPage, sqlPage, mem, sql, T, figures, told
<1>7. ASSUME NEW o \in Oldest(traces, T)
      PROVE  Same(Answer(figures, memPage(o)), Answer(told, sqlPage(o)))
  BY <1>5, <1>6
<1>8. ASSUME NEW a \in mem PROVE \E b \in sql : Same(a, b)
  <2> HIDE DEF Answer, Same
  <2> QED BY <1>3, <1>4, <1>7
<1>9. ASSUME NEW b \in sql PROVE \E a \in mem : Same(a, b)
  <2> HIDE DEF Answer, Same
  <2> QED BY <1>3, <1>4, <1>7
<1>10. SessionsMatch(s, page, size)
  BY <1>8, <1>9 DEF SessionsMatch, Paired, mem, sql, T
<1>11. \A d \in sql : d.session = told
  BY <1>4
<1> QED BY <1>10, <1>11 DEF sql, told

(* Sessions, as the list and the page of one tell them. *)
LEMMA SessionsAlwaysAgree == ReadInv => SessionsAgree
<1> SUFFICES ASSUME ReadInv, Lasting PROVE SessionsAgree
  BY DEF SessionsAgree
<1>1. TypeInv /\ RowsFit(traces, spans)
  BY DEF ReadInv
<1>2. Summable(traces, DOMAIN traces)
  BY <1>1, StoredSums
<1>3. ASSUME NEW q, NEW t \in DOMAIN traces, MemMatches(traces[t], q)
      PROVE  Selected(traces[t], SessionClauses(q))
  <2>1. traces[t].start \in Nat
    BY <1>2 DEF Summable
  <2> QED BY <1>3, <2>1, SameMatches
<1>4. ASSUME NEW q, NEW page \in Nat \ {0}, NEW size \in Nat \ {0}, q.name \notin Wild
      PROVE  SessionListsMatch(q, page, size)
  BY <1>2, <1>4, SameSessionPage DEF SessionListsMatch
<1>5. ASSUME NEW q, NEW page \in Nat \ {0}, NEW size \in Nat \ {0},
             NEW a \in MemListSessions(traces, q, page, size), NEW i \in DOMAIN a.items
      PROVE  LET s == a.items[i].session
             IN  /\ SessionsMatch(s, page, size)
                 /\ \A d \in SqlGetSession(traces, spans, s, page, size) :
                      SameFigures(a.items[i], d.session)
  <2>1. ItemsAreSums(traces, MemListSessions(traces, q, page, size))
    BY <1>2, SameSessionPage
  <2>2. PICK s : /\ TracesIn(traces, s) # {}
                 /\ a.items[i] = MemFigures(s, SqlSummary(traces, TracesIn(traces, s)))
    BY <2>1 DEF ItemsAreSums
  <2>3. a.items[i].session = s
    BY <2>2 DEF MemFigures
  <2>4. /\ SessionsMatch(s, page, size)
        /\ \A d \in SqlGetSession(traces, spans, s, page, size) :
             d.session = SqlFigures(traces, s)
    BY <1>1, <1>2, <2>2, SameSession
  <2>5. SameFigures(a.items[i], SqlFigures(traces, s))
    BY <1>2, <2>2, FiguresMatch
  <2> QED BY <2>3, <2>4, <2>5
<1>6. \A n \in PageNumbers, m \in PageSizes : PageOf(n) \in Nat \ {0} /\ SizeOf(m) \in Nat \ {0}
  BY PageIs
<1> QED BY <1>3, <1>4, <1>5, <1>6 DEF SessionsAgree

-----------------------------------------------------------------------------
(* Pages, and the logs of a trace.                                         *)

(* The pages up to the p-th show the first p * size entries. *)
LEMMA PagesShowAll ==
  ASSUME NEW list, IsSeq(list), NEW size \in Nat \ {0}
  PROVE  PagesShow(list, size)
<1> DEFINE L == Len(list)
           S == {list[i] : i \in DOMAIN list}
           n == L + 1
           Page(p) == MemPage(list, p, size)
           seqs == [p \in 1 .. n |-> Page(p)]
           first(p) == Least(p * size, L)
           h == [p \in 1 .. n |-> SubSeq(list, 1, first(p))]
<1>1. L \in Nat /\ list \in Seq(S)
  BY SeqIs DEF IsSeq
<1> HIDE DEF L, S
<1>2. n \in Nat \ {0}
  BY <1>1
<1>3. Len(seqs) = n
  <2>1. seqs \in [1 .. n -> {Page(p) : p \in 1 .. n}]
    OBVIOUS
  <2> HIDE DEF seqs
  <2> QED BY <1>2, <2>1, FunctionSeq
<1>4. ASSUME NEW p \in 1 .. n
      PROVE  /\ first(p - 1) \in 0 .. L /\ first(p) \in first(p - 1) .. L
             /\ Page(p) = SubSeq(list, first(p - 1) + 1, first(p))
  <2> DEFINE x == (p - 1) * size
             y == p * size
  <2>1. p \in Nat /\ p - 1 \in Nat
    BY <1>2
  <2>2. x \in Nat /\ y = x + size
    BY <2>1
  <2>3. Page(p) = SubSeq(list, Least(x, L) + 1, Least(Least(x, L) + size, L))
    BY DEF MemPage, L
  <2>4. first(p - 1) = Least(x, L) /\ first(p) = Least(y, L)
    OBVIOUS
  <2> HIDE DEF x, y, Page, first
  <2>5. /\ Least(x, L) \in 0 .. L /\ Least(y, L) \in Least(x, L) .. L
        /\ Least(Least(x, L) + size, L) = Least(y, L)
    BY <1>1, <2>2 DEF Least
  <2> QED BY <2>3, <2>4, <2>5
<1>5. first(0) = 0 /\ first(n) = L
  <2>1. n * size \in Nat /\ n * size >= n /\ 0 * size = 0
    <3>1. n * size = n * (size - 1) + n /\ size - 1 \in Nat
      BY <1>2
    <3>2. n * (size - 1) \in Nat
      BY <1>2, <3>1
    <3> DEFINE w == n * (size - 1)
    <3>3. n * size = w + n /\ w \in Nat
      BY <3>1, <3>2
    <3>4. 0 * size = 0
      OBVIOUS
    <3> HIDE DEF w
    <3> QED BY <1>2, <3>3, <3>4
  <2> DEFINE z == n * size
  <2>2. z \in Nat /\ z > L
    BY <1>1, <2>1
  <2> HIDE DEF z
  <2>3. Least(z, L) = L /\ Least(0, L) = 0
    BY <1>1, <2>2 DEF Least
  <2> QED BY <2>1, <2>3 DEF z
<1>6. ASSUME NEW p \in 1 .. n
      PROVE  h[p] = IF p = 1 THEN seqs[p] ELSE h[p - 1] \o seqs[p]
  <2> DEFINE a == first(p - 1)
             b == first(p)
  <2>1. a \in 0 .. L /\ b \in a .. L /\ Page(p) = SubSeq(list, a + 1, b)
    BY <1>4
  <2>2. h[p] = SubSeq(list, 1, b) /\ seqs[p] = Page(p)
    OBVIOUS
  <2>3. CASE p = 1
    <3>1. a = 0
      BY <1>5, <2>3
    <3> HIDE DEF a, b, h, seqs, Page
    <3> QED BY <2>1, <2>2, <2>3, <3>1
  <2>4. CASE p # 1
    <3>1. p - 1 \in 1 .. n
      BY <1>2, <2>4
    <3>2. h[p - 1] = SubSeq(list, 1, a)
      BY <3>1
    <3> HIDE DEF a, b, h, seqs, Page, n
    <3>3. SubSeq(list, 1, a) \o SubSeq(list, a + 1, b) = SubSeq(list, 1, b)
      <4>1. 1 \in 1 .. Len(list) + 1 /\ a \in 1 - 1 .. Len(list) /\ b \in a .. Len(list)
        BY <1>1, <2>1 DEF L
      <4> QED BY <1>1, <4>1, ConcatAdjacentSubSeq
    <3> QED BY <2>1, <2>2, <2>4, <3>2, <3>3
  <2> QED BY <2>3, <2>4
<1>7. Joins(seqs, n, h)
  <2>1. h = [p \in 1 .. n |-> h[p]]
    OBVIOUS
  <2> HIDE DEF h, seqs, n
  <2> QED BY <1>6, <2>1 DEF Joins
<1>8. h[n] = list
  <2>1. h[n] = SubSeq(list, 1, first(n)) /\ first(n) = L
    <3>1. n \in 1 .. n
      BY <1>2
    <3> QED BY <1>5, <3>1
  <2>2. SubSeq(list, 1, L) = list
    BY <1>1, SubSeqFull DEF L
  <2> HIDE DEF h, first
  <2> QED BY <2>1, <2>2
<1>9. FlattenSeq(seqs) = list
  <2> HIDE DEF h, seqs, n
  <2> QED BY <1>2, <1>3, <1>7, <1>8, FlattenIs
<1> QED BY <1>9 DEF PagesShow, L

(* A sum of ones counts. *)
LEMMA SumOfOnes ==
  ASSUME NEW S, IsFiniteSet(S), NEW f, \A x \in S : f[x] = 1
  PROVE  SumFunctionOnSet(f, S) = Cardinality(S)
<1> DEFINE Good == {T \in SUBSET S : SumFunctionOnSet(f, T) = Cardinality(T)}
<1>1. ASSUME NEW T \in SUBSET S, \A U \in SUBSET T : U # T => U \in Good
      PROVE  T \in Good
  <2>1. CASE T = {}
    BY <2>1, SumEmpty, FS_EmptySet
  <2>2. ASSUME NEW x \in T PROVE SumFunctionOnSet(f, T) = Cardinality(T)
    <3> DEFINE U == T \ {x}
    <3>1. U \in Good /\ IsFiniteSet(T)
      BY <1>1, FS_Subset
    <3>2. SumFunctionOnSet(f, U) = Cardinality(U)
      BY <3>1
    <3>3. SumFunctionOnSet(f, T) = f[x] + SumFunctionOnSet(f, U)
      BY <3>1, SumWithout
    <3>4. Cardinality(U) = Cardinality(T) - 1 /\ Cardinality(T) \in Nat
      BY <3>1, FS_RemoveElement, FS_CardinalityType
    <3>5. f[x] = 1
      OBVIOUS
    <3> HIDE DEF U
    <3> QED BY <3>2, <3>3, <3>4, <3>5
  <2> QED BY <2>1, <2>2
<1> HIDE DEF Good
<1>2. S \in Good
  BY <1>1, SubsetInduction
<1> QED BY <1>2 DEF Good

(* The sizes of its parts add up to that of the whole. *)
LEMMA PartsCount ==
  ASSUME NEW S, IsFiniteSet(S), NEW key, NEW K, K = {key[x] : x \in S}
  PROVE  SumFunction([k \in K |-> Cardinality({x \in S : key[x] = k})]) = Cardinality(S)
<1> DEFINE g == [k \in K |-> Cardinality({x \in S : key[x] = k})]
           one == [x \in S |-> 1]
<1>1. IsFiniteSet(K)
  BY FiniteImage
<1>2. SumFunction(g) = SumFunctionOnSet(g, K)
  BY DEF SumFunction, SumFunctionOnSet, FoldFunction
<1>3. Shares(g, K, one, S, key)
  <2> SUFFICES ASSUME NEW k \in K
               PROVE  g[k] = SumFunctionOnSet(one, {x \in S : key[x] = k})
    BY DEF Shares
  <2> DEFINE P == {x \in S : key[x] = k}
  <2>1. g[k] = Cardinality(P)
    OBVIOUS
  <2>2. IsFiniteSet(P) /\ \A x \in P : one[x] = 1
    BY FS_Subset
  <2> HIDE DEF P, g, one
  <2> QED BY <2>1, <2>2, SumOfOnes DEF P
<1>4. (\A x \in S : one[x] = 1) /\ (\A x \in S : one[x] \in Nat)
  OBVIOUS
<1> HIDE DEF g, one
<1>5. SumFunctionOnSet(g, K) = SumFunctionOnSet(one, {x \in S : key[x] \in K})
  BY <1>1, <1>3, <1>4, SumOfParts
<1>6. {x \in S : key[x] \in K} = S
  OBVIOUS
<1>7. SumFunctionOnSet(one, S) = Cardinality(S)
  BY <1>4, SumOfOnes
<1> QED BY <1>2, <1>5, <1>6, <1>7 DEF g

(* A query with one filter more. *)
IsQuery(q) == q = [x \in DOMAIN q |-> q[x]]
LEMMA WithIs ==
  ASSUME NEW q, IsQuery(q), NEW f, NEW v
  PROVE  LET r == With(f, v, q)
         IN  /\ IsQuery(r) /\ DOMAIN r = DOMAIN q
             /\ \A x \in DOMAIN q : r[x] = IF x = f THEN v ELSE q[x]
BY DEF With, IsQuery
LogFilters == {"severity", "event", "body", "trace", "span", "from", "to", "asc"}
LEMMA NoFilterIs ==
  LET q == NoLogFilter
  IN  /\ DOMAIN q = LogFilters /\ IsQuery(q)
      /\ \A x \in LogFilters : x # "asc" => ~Given(q[x])
<1>1. LET q == NoLogFilter
      IN  DOMAIN q = LogFilters /\ IsQuery(q)
  BY DEF NoLogFilter, LogFilters, IsQuery
<1>2. ~Given(NoValue) /\ ~Given(0)
  BY DEF Given
<1>3. LET q == NoLogFilter
      IN  \A x \in LogFilters \ {"asc"} : q[x] \in {NoValue, 0}
  BY DEF NoLogFilter, LogFilters
<1> QED BY <1>1, <1>2, <1>3

(* A member of a set is in an order of it, and an order is as long as that *)
(* has members.                                                            *)
LEMMA OrderHasAll ==
  ASSUME NEW S, IsFiniteSet(S), NEW s \in SetToSeqs(S)
  PROVE  IsSeq(s) /\ Len(s) = Cardinality(S) /\ Renames(s, DOMAIN s, S)
<1> DEFINE n == Cardinality(S)
<1>1. n \in Nat
  BY FS_CardinalityType
<1>2. s \in [1 .. n -> S] /\ \A i, j \in 1 .. n : i # j => s[i] # s[j]
  BY DEF SetToSeqs
<1> HIDE DEF n
<1>3. Cardinality(1 .. n) = n /\ IsFiniteSet(1 .. n)
  <2>1. Cardinality(1 .. n) = IF 1 > n THEN 0 ELSE n - 1 + 1
    BY <1>1, FS_Interval
  <2> QED BY <1>1, <2>1, FS_Interval
<1>4. s \in Surjection(1 .. n, S)
  <2>1. s \in Injection(1 .. n, S)
    BY <1>2 DEF Injection, IsInjective
  <2> QED BY <1>3, <2>1, FS_Injection DEF n
<1>5. S = {s[i] : i \in 1 .. n}
  BY <1>2, <1>4 DEF Surjection
<1>6. Renames(s, 1 .. n, S)
  BY <1>2, <1>5 DEF Renames
<1>7. IsSeq(s) /\ Len(s) = n /\ DOMAIN s = 1 .. n
  BY <1>1, <1>2, FunctionSeq
<1> QED BY <1>6, <1>7 DEF n

(* The first page of a list it has room for is the list; any first page    *)
(* has an entry if the list has one.                                       *)
LEMMA FirstPage ==
  ASSUME NEW s, IsSeq(s), NEW size \in Nat \ {0}
  PROVE  /\ Len(s) <= size => MemPage(s, 1, size) = s
         /\ Len(s) # 0 => MemPage(s, 1, size) # << >>
<1> DEFINE S == {s[i] : i \in DOMAIN s}
           n == Len(s)
           m == Least(size, n)
<1>1. n \in Nat /\ DOMAIN s = 1 .. n /\ s \in Seq(S)
  BY SeqIs DEF IsSeq
<1>2. MemPage(s, 1, size) = SubSeq(s, 1, m)
  <2>1. (1 - 1) * size = 0
    OBVIOUS
  <2>2. Least((1 - 1) * size, n) = 0
    BY <1>1, <2>1 DEF Least
  <2>3. 0 + 1 = 1 /\ 0 + size = size
    OBVIOUS
  <2>4. MemPage(s, 1, size) = SubSeq(s, 0 + 1, Least(0 + size, n))
    BY <2>2 DEF MemPage
  <2> QED BY <2>3, <2>4
<1>3. /\ n <= size => m = n
      /\ n # 0 => m >= 1 /\ m <= n /\ m \in Nat
  <2> HIDE DEF n, S
  <2> QED BY <1>1 DEF Least
<1>5. SubSeq(s, 1, n) = s
  BY <1>1, SubSeqFull
<1>6. n # 0 => SubSeq(s, 1, m) # << >>
  <2> SUFFICES ASSUME n # 0 PROVE SubSeq(s, 1, m) # << >>
    OBVIOUS
  <2> HIDE DEF m
  <2>1. m \in Int /\ 1 <= m /\ m - 1 + 1 # 0 /\ \A i \in 1 .. m : s[i] \in S
    BY <1>1, <1>3
  <2> HIDE DEF S
  <2>2. Len(SubSeq(s, 1, m)) = m - 1 + 1
    BY <2>1, SubSeqProperties
  <2> QED BY <2>1, <2>2
<1> HIDE DEF m, n
<1> QED BY <1>2, <1>3, <1>5, <1>6 DEF n

(* The log list with a trace as its filter is what the trace's page shows. *)
LEMMA TracesHaveTheirLogs ==
  ASSUME LogsOK(logs), NEW t, Given(t)
  PROVE  LogsOfTrace(t)
<1> DEFINE one == With("trace", t, NoLogFilter)
           q == With("asc", TRUE, one)
           size == Len(logs) + 1
           counts == LogCountsByTrace(logs, t)
           I == LogsOf(logs, t)
           found == {i \in DOMAIN logs : MemLogSelects(logs[i], q)}
           listed == MemListLogs(logs, q, 1, size)
<1>1. /\ ~Given(q.severity) /\ ~Given(q.event) /\ ~Given(q.body) /\ ~Given(q.span)
      /\ ~Given(q.from) /\ ~Given(q.to) /\ q.trace = t /\ q.asc = TRUE
  <2>1. /\ IsQuery(one) /\ DOMAIN one = LogFilters
        /\ \A x \in LogFilters : one[x] = IF x = "trace" THEN t ELSE NoLogFilter[x]
    BY NoFilterIs, WithIs
  <2> DEFINE yes == TRUE
  <2>2. q = With("asc", yes, one)
    OBVIOUS
  <2> HIDE DEF one, q, yes
  <2>3. \A x \in LogFilters : q[x] = IF x = "asc" THEN yes ELSE one[x]
    BY <2>1, <2>2, WithIs
  <2>4. q.asc = yes
    BY <2>3 DEF LogFilters
  <2>5. q.asc = TRUE
    BY <2>4 DEF yes
  <2> QED BY <2>1, <2>3, <2>5, NoFilterIs DEF LogFilters
<1> HIDE DEF q, one
<1>2. found = I
  BY <1>1 DEF MemLogSelects, LogsOf
<1>3. IsFiniteSet(I) /\ Cardinality(I) <= size /\ size \in Nat \ {0}
  <2>1. Len(logs) \in Nat /\ DOMAIN logs = 1 .. Len(logs)
    BY SeqIs DEF LogsOK
  <2>2. I \in SUBSET (1 .. Len(logs))
    BY <2>1 DEF LogsOf
  <2>3. IsFiniteSet(1 .. Len(logs)) /\ Cardinality(1 .. Len(logs)) = Len(logs)
    <3> DEFINE n == Len(logs)
    <3>1. Cardinality(1 .. n) = IF 1 > n THEN 0 ELSE n - 1 + 1
      BY <2>1, FS_Interval
    <3> QED BY <2>1, <3>1, FS_Interval
  <2> HIDE DEF I
  <2>4. IsFiniteSet(I) /\ Cardinality(I) <= Len(logs) /\ Cardinality(I) \in Nat
    BY <2>2, <2>3, FS_Subset, FS_CardinalityType
  <2> QED BY <2>1, <2>4
<1> HIDE DEF size, I
<1>4. \A s \in Sorted(logs, I, TRUE) : MemPage(s, 1, size) = s
  <2> SUFFICES ASSUME NEW s \in Sorted(logs, I, TRUE) PROVE MemPage(s, 1, size) = s
    OBVIOUS
  <2>1. s \in SetToSeqs(I)
    BY DEF Sorted, Orders
  <2>2. IsSeq(s) /\ Len(s) = Cardinality(I)
    BY <1>3, <2>1, OrderHasAll
  <2> QED BY <1>3, <2>2, FirstPage
<1>5. listed = {[total |-> Cardinality(found), items |-> MemPage(s, 1, size)] :
                  s \in Sorted(logs, found, TRUE)}
  BY <1>1 DEF MemListLogs
<1> HIDE DEF listed, found
<1> DEFINE S == Sorted(logs, I, TRUE)
           Answer(s) == [total |-> Cardinality(I), items |-> s]
<1>6. listed = {Answer(s) : s \in S}
  BY <1>2, <1>4, <1>5
<1>10. \A s : Answer(s).items = s /\ Answer(s).total = Cardinality(I)
  OBVIOUS
<1> HIDE DEF S, Answer
<1>7. LogsByTrace(logs, t) = {a.items : a \in listed}
  <2>1. S = {a.items : a \in listed}
    BY <1>6, <1>10
  <2> QED BY <2>1 DEF LogsByTrace, I, S
<1>8. Cardinality(I) = SumFunction(counts)
  <2> DEFINE key == [i \in I |-> logs[i].span]
             K == {key[i] : i \in I}
  <2>1. counts = [k \in K |-> Cardinality({i \in I : key[i] = k})]
    <3>1. K = {logs[i].span : i \in I}
      OBVIOUS
    <3>2. \A k : {i \in I : key[i] = k} = {i \in I : logs[i].span = k}
      OBVIOUS
    <3> HIDE DEF key, K
    <3> QED BY <3>1, <3>2 DEF LogCountsByTrace, I
  <2> HIDE DEF key, counts
  <2> QED BY <1>3, <2>1, PartsCount
<1> HIDE DEF counts
<1>9. \A a \in listed : a.total = SumFunction(counts)
  BY <1>6, <1>8, <1>10
<1> QED BY <1>7, <1>9 DEF LogsOfTrace, q, one, size, listed, counts

(* Every event the filter offers has a log. *)
LEMMA EventsHaveLogs ==
  ASSUME LogsOK(logs), NEW e \in LogEventNames(logs),
         NEW a \in SqlListLogs(logs, With("event", e, NoLogFilter), 1, 1)
  PROVE  a.items # << >>
<1> DEFINE q == With("event", e, NoLogFilter)
           found == {i \in DOMAIN logs : MemLogSelects(logs[i], q)}
<1>1. /\ ~Given(q.severity) /\ ~Given(q.trace) /\ ~Given(q.body) /\ ~Given(q.span)
      /\ ~Given(q.from) /\ ~Given(q.to) /\ q.event = e
  <2>1. \A x \in LogFilters : q[x] = IF x = "event" THEN e ELSE NoLogFilter[x]
    BY NoFilterIs, WithIs
  <2> HIDE DEF q
  <2> QED BY <2>1, NoFilterIs DEF LogFilters
<1> HIDE DEF q
<1>2. SqlListLogs(logs, q, 1, 1) = MemListLogs(logs, q, 1, 1)
  BY <1>1, LogListsAgree DEF LogsOK, IsRecord
<1>3. PICK s \in Sorted(logs, found, q.asc) : a.items = MemPage(s, 1, 1)
  BY <1>2 DEF MemListLogs, q
<1>4. IsFiniteSet(found) /\ Cardinality(found) # 0
  <2>1. Len(logs) \in Nat /\ DOMAIN logs = 1 .. Len(logs)
    BY SeqIs DEF LogsOK
  <2>2. IsFiniteSet(DOMAIN logs)
    BY <2>1, FS_Interval
  <2>3. PICK i \in DOMAIN logs : logs[i].event = e
    BY DEF LogEventNames
  <2>4. i \in found
    BY <1>1, <2>3 DEF MemLogSelects
  <2>5. found \in SUBSET DOMAIN logs /\ found # {}
    BY <2>4
  <2> HIDE DEF found
  <2> QED BY <2>2, <2>5, FS_Subset, FS_EmptySet
<1> HIDE DEF found
<1>5. s \in SetToSeqs(found)
  BY <1>3 DEF Sorted, Orders
<1>6. IsSeq(s) /\ Len(s) # 0
  BY <1>4, <1>5, OrderHasAll
<1> QED BY <1>3, <1>6, FirstPage

(* Pages, the logs of traces, and the events. *)
LEMMA PagesAlwaysPartition == ReadInv => PagesPartition
<1> SUFFICES ASSUME ReadInv PROVE PagesPartition
  OBVIOUS
<1>1. TypeInv /\ RowsFit(traces, spans) /\ LogsOK(logs)
  BY DEF ReadInv
<1>2. IsFiniteSet(DOMAIN traces) /\ IsFiniteSet(DOMAIN logs)
  <2>1. Len(logs) \in Nat /\ DOMAIN logs = 1 .. Len(logs)
    BY <1>1, SeqIs DEF LogsOK
  <2> QED BY <1>1, <2>1, StoredTraces, FS_Interval
<1>3. ASSUME NEW m \in PageSizes, NEW o,
             o \in SetToSeqs(DOMAIN traces) \/ o \in SetToSeqs(DOMAIN logs)
      PROVE  PagesShow(o, SizeOf(m))
  <2>1. SizeOf(m) \in Nat \ {0}
    BY QueriesAssumption DEF SizeOf
  <2>2. IsSeq(o)
    BY <1>2, <1>3, OrderIs
  <2> QED BY <2>1, <2>2, PagesShowAll
<1>4. \A o \in Newest(traces, DOMAIN traces) : o \in SetToSeqs(DOMAIN traces)
  BY DEF Newest, Orders
<1>5. \A o \in Sorted(logs, DOMAIN logs, TRUE) : o \in SetToSeqs(DOMAIN logs)
  BY DEF Sorted, Orders
<1>6. \A t \in AllTraces : Given(t) => LogsOfTrace(t)
  BY <1>1, TracesHaveTheirLogs
<1>7. \A e \in LogEventNames(logs) :
        \A a \in SqlListLogs(logs, With("event", e, NoLogFilter), 1, 1) : a.items # << >>
  BY <1>1, EventsHaveLogs
<1> QED BY <1>3, <1>4, <1>5, <1>6, <1>7 DEF PagesPartition

(* Whatever calls, prices, purges, crashes and failed writes led to the    *)
(* content of the store, it answers every query of traces, sessions and    *)
(* logs as the statements of the SQLite store would, and its pages, the    *)
(* logs of a trace and the events of the filter agree with its lists       *)
(* (storage.go, Store, and the List and Get methods of its two             *)
(* implementations).                                                       *)
THEOREM StoresAlwaysAgree == Spec => []StoresAgree
<1>1. ReadInv => StoresAgree
  BY ListsAlwaysAgree, SessionsAlwaysAgree, PagesAlwaysPartition DEF StoresAgree
<1> QED BY <1>1, ReadInvariance, PTL DEF Spec

-----------------------------------------------------------------------------
(* What has been put together of the input of a computation.               *)
InputFits ==
  /\ kind \in DOMAIN Inputs /\ input \in Seq(AllOf(kind))
  /\ \A i \in DOMAIN input : i \in DOMAIN Inputs[kind] /\ input[i] \in Inputs[kind][i]

LEMMA InputInvariance == InputSpec => []InputFits
<1>1. InputInit => InputFits
  <2> SUFFICES ASSUME InputInit PROVE InputFits
    OBVIOUS
  <2>1. kind \in DOMAIN Inputs /\ input = << >>
    BY DEF InputInit
  <2>2. << >> \in Seq(AllOf(kind)) /\ DOMAIN << >> = {}
    OBVIOUS
  <2> QED BY <2>1, <2>2 DEF InputFits
<1>2. InputFits /\ [Extend]_<<kind, input>> => InputFits'
  <2> SUFFICES ASSUME InputFits, Extend PROVE InputFits'
    <3>1. InputFits /\ UNCHANGED <<kind, input>> => InputFits'
      BY DEF InputFits, AllOf
    <3> QED BY <3>1
  <2> DEFINE n == Len(input) + 1
             S == AllOf(kind)
  <2>1. kind' = kind /\ kind \in DOMAIN Inputs /\ input \in Seq(S) /\ n \in DOMAIN Inputs[kind]
    BY DEF InputFits, Extend
  <2>2. PICK item \in Inputs[kind][n] : input' = Append(input, item)
    BY DEF Extend
  <2>3. item \in S
    BY <2>1, <2>2 DEF AllOf
  <2>4. AllOf(kind)' = S
    BY <2>1 DEF AllOf
  <2>5. /\ input' \in Seq(S) /\ DOMAIN input' = 1 .. n /\ input'[n] = item
        /\ \A i \in 1 .. n : i # n => i \in DOMAIN input /\ input'[i] = input[i]
    <3> HIDE DEF S
    <3> QED BY <2>1, <2>2, <2>3
  <2>6. \A i \in DOMAIN input : i \in DOMAIN Inputs[kind] /\ input[i] \in Inputs[kind][i]
    BY DEF InputFits
  <2>7. \A i \in DOMAIN input' : i \in DOMAIN Inputs[kind] /\ input'[i] \in Inputs[kind][i]
    <3> HIDE DEF n, S
    <3> QED BY <2>1, <2>2, <2>5, <2>6
  <2> HIDE DEF n, S
  <2> QED BY <2>1, <2>4, <2>5, <2>7 DEF InputFits
<1> QED BY <1>1, <1>2, PTL DEF InputSpec

(* Whatever the spans, the loop of aggregateTraces leaves the row that can *)
(* be read off them as a whole, and the merge of the rows of two parts has *)
(* the count, the range, the tokens and the session of the whole.          *)
THEOREM RowsAreRead == InputSpec => []RowOfBatch
<1>1. InputFits => RowOfBatch
  <2> SUFFICES ASSUME InputFits, kind = "row", input # << >>
               PROVE  /\ FoldSpans(input) = Aggregate(input)
                      /\ \A k \in 1 .. Len(input) - 1 :
                           LET merged == Merge(Aggregate(SubSeq(input, 1, k)),
                                               Aggregate(SubSeq(input, k + 1, Len(input))))
                           IN  \A f \in {"count", "start", "end", "tokens", "session"} :
                                 merged[f] = Aggregate(input)[f]
    BY DEF RowOfBatch
  <2> DEFINE S == AllOf("row")
  <2>1. input \in Seq(S) /\ \A sp \in S : IsSpan(sp) /\ sp.start # 0
    BY RowsAssumption DEF InputFits
  <2> HIDE DEF S
  <2>2. FoldSpans(input) = Aggregate(input)
    BY <2>1, LoopIsAggregate
  <2>3. ASSUME NEW k \in 1 .. Len(input) - 1 PROVE k \in Nat /\ 0 < k /\ k < Len(input)
    <3>1. Len(input) \in Nat
      BY <2>1
    <3> QED BY <3>1
  <2> QED BY <2>1, <2>2, <2>3, AnyCutIsTheWhole
<1> QED BY <1>1, InputInvariance, PTL

-----------------------------------------------------------------------------
(* The nodes of a tree and what their parent chains lead to, as positions; *)
(* 0 stands for the end of a chain.                                        *)
TreeFits ==
  /\ IsSeq(input) /\ MaxWalk \in Nat /\ Len(input) <= MaxWalk
  /\ \A i \in DOMAIN input : /\ input[i].id = i /\ input[i].trace = 1
                             /\ input[i].invoke \in BOOLEAN /\ input[i].start \in Nat
Node(p) == IF p = 0 THEN NoSpan ELSE input[p]
UpFrom(p) == IF p # 0 /\ input[p].parent \in DOMAIN input THEN input[p].parent ELSE 0
Above0(sp) == IF sp.id = NoValue \/ sp.parent = NoValue THEN NoSpan
              ELSE ById(input, sp.parent)
Chain(i, h) ==
  /\ h \in [Nat -> {0} \cup DOMAIN input] /\ h[0] = i
  /\ \A n \in Nat : h[n + 1] = UpFrom(h[n])

LEMMA InputIsTree == InputFits /\ kind = "tree" => TreeFits
<1> SUFFICES ASSUME InputFits, kind = "tree" PROVE TreeFits
  OBVIOUS
<1>1. IsSeq(input)
  BY SeqOver DEF InputFits
<1>2. Len(input) \in Nat /\ DOMAIN input = 1 .. Len(input)
  BY <1>1, SeqIs
<1>3. "tree" \in DOMAIN Inputs /\ \A i \in DOMAIN input : /\ i \in DOMAIN Inputs["tree"]
                                                        /\ input[i] \in Inputs["tree"][i]
  BY DEF InputFits
<1>4. MaxWalk \in Nat /\ \A i \in DOMAIN input :
        /\ i \in 1 .. MaxWalk /\ input[i].id = i /\ input[i].trace = 1
        /\ input[i].invoke \in BOOLEAN /\ input[i].start \in Nat
  BY <1>3, TreesAssumption
<1>5. Len(input) <= MaxWalk
  <2>1. CASE Len(input) = 0
    BY <1>4, <2>1
  <2>2. CASE Len(input) # 0
    <3>1. Len(input) \in DOMAIN input
      BY <1>2, <2>2
    <3> QED BY <1>4, <3>1
  <2> QED BY <2>1, <2>2
<1> QED BY <1>1, <1>4, <1>5 DEF TreeFits

(* One step up the chain. *)
LEMMA NextNode ==
  ASSUME TreeFits, NEW p \in {0} \cup DOMAIN input
  PROVE  Above0(Node(p)) = Node(UpFrom(p)) /\ UpFrom(p) \in {0} \cup DOMAIN input
<1>1. DOMAIN input = 1 .. Len(input) /\ Len(input) \in Nat /\ 0 \notin DOMAIN input
  BY SeqIs DEF TreeFits
<1>2. CASE p = 0
  BY <1>2 DEF Node, UpFrom, Above0, NoSpan
<1>3. CASE p # 0
  <2> DEFINE sp == input[p]
             par == sp.parent
             I == {i \in DOMAIN input : input[i].id = par}
  <2>1. p \in DOMAIN input /\ p \in Nat /\ sp.id = p /\ Node(p) = sp
    BY <1>1, <1>3 DEF TreeFits, Node
  <2>2. sp.id # NoValue
    BY <2>1, NoValueAssumption
  <2>3. NoValue \notin DOMAIN input
    BY <1>1, NoValueAssumption
  <2>4. CASE par \in DOMAIN input
    <3>1. UpFrom(p) = par /\ Node(par) = input[par] /\ par # NoValue
      BY <1>1, <1>3, <2>3, <2>4 DEF UpFrom, Node
    <3>2. I = {par} /\ par \in Nat
      BY <1>1, <2>4 DEF TreeFits
    <3>3. Max({par}) = par
      <4> HIDE DEF par
      <4> QED BY <3>2, MaxIs
    <3>4. ById(input, par) = input[par]
      <4>1. {par} # {}
        OBVIOUS
      <4>2. ById(input, par) = IF I = {} THEN NoSpan ELSE input[Max(I)]
        BY DEF ById
      <4> HIDE DEF I, par
      <4> QED BY <3>2, <3>3, <4>1, <4>2
    <3> QED BY <2>1, <2>2, <2>4, <3>1, <3>4 DEF Above0
  <2>5. CASE par \notin DOMAIN input
    <3>1. UpFrom(p) = 0 /\ Node(0) = NoSpan
      BY <2>5 DEF UpFrom, Node
    <3>2. I = {}
      BY <2>5 DEF TreeFits
    <3>3. ById(input, par) = NoSpan
      BY <3>2 DEF ById
    <3> QED BY <2>1, <2>2, <3>1, <3>3 DEF Above0
  <2> QED BY <2>4, <2>5
<1> QED BY <1>2, <1>3

LEMMA ChainExists ==
  ASSUME TreeFits, NEW i \in DOMAIN input
  PROVE  \E h : Chain(i, h)
<1> DEFINE V == {0} \cup DOMAIN input
           next == [p \in V |-> UpFrom(p)]
<1>1. next \in [V -> V]
  BY NextNode
<1>2. i \in V
  OBVIOUS
<1>3. \A p \in V : next[p] = UpFrom(p)
  OBVIOUS
<1> HIDE DEF next
<1>4. PICK h \in [Nat -> V] : Repeats(next, i, h)
  <2> HIDE DEF V
  <2> QED BY <1>1, <1>2, OrbitForever
<1>5. h[0] = i /\ \A n \in Nat : h[n + 1] = UpFrom(h[n])
  BY <1>3, <1>4 DEF Repeats
<1> QED BY <1>5 DEF Chain

(* The walk of computeSessionContextSpans goes along the chain. *)
Walk(sp, at) == at = [n \in Nat |-> IF n = 0 THEN sp ELSE Above0(at[n - 1])]
Nearest0(h) == {n \in 0 .. MaxWalk - 1 : Node(h[n]).invoke}
LEMMA WalkIsChain ==
  ASSUME TreeFits, NEW i \in DOMAIN input, NEW h, Chain(i, h), NEW at, Walk(input[i], at)
  PROVE  \A n \in Nat : at[n] = Node(h[n])
<1> DEFINE body(n) == IF n = 0 THEN input[i] ELSE Above0(at[n - 1])
           Good == {n \in Nat : at[n] = Node(h[n])}
<1>1. \A n \in Nat : at[n] = body(n)
  <2>1. at = [n \in Nat |-> body(n)]
    BY DEF Walk
  <2> HIDE DEF body
  <2> QED BY <2>1
<1>2. 0 \in Good
  <2>1. i # 0
    BY SeqIs DEF TreeFits
  <2> QED BY <1>1, <2>1 DEF Chain, Node
<1>3. ASSUME NEW n \in Nat, n \in Good PROVE n + 1 \in Good
  <2>1. n + 1 \in Nat /\ n + 1 # 0 /\ n + 1 - 1 = n
    OBVIOUS
  <2>2. at[n + 1] = Above0(at[n])
    BY <1>1, <2>1
  <2>3. h[n] \in {0} \cup DOMAIN input /\ h[n + 1] = UpFrom(h[n])
    BY DEF Chain
  <2>4. Above0(Node(h[n])) = Node(UpFrom(h[n]))
    BY <2>3, NextNode
  <2>5. at[n + 1] = Node(h[n + 1])
    BY <1>3, <2>2, <2>3, <2>4
  <2> QED BY <2>1, <2>5
<1> HIDE DEF Good
<1>4. Nat \subseteq Good
  BY <1>2, <1>3, NatInSet
<1> QED BY <1>4 DEF Good

LEMMA WalkExists ==
  ASSUME TreeFits, NEW i \in DOMAIN input, NEW h, Chain(i, h)
  PROVE  \E at : Walk(input[i], at)
<1> DEFINE at == [n \in Nat |-> Node(h[n])]
<1>1. ASSUME NEW n \in Nat PROVE Node(h[n]) = IF n = 0 THEN input[i] ELSE Above0(at[n - 1])
  <2>1. CASE n = 0
    <3>1. i # 0
      BY SeqIs DEF TreeFits
    <3> QED BY <2>1, <3>1 DEF Chain, Node
  <2>2. CASE n # 0
    <3>1. n - 1 \in Nat /\ n - 1 + 1 = n
      BY <2>2
    <3>2. h[n - 1] \in {0} \cup DOMAIN input /\ h[n] = UpFrom(h[n - 1])
      BY <3>1 DEF Chain
    <3>3. at[n - 1] = Node(h[n - 1])
      BY <3>1
    <3> HIDE DEF at
    <3> QED BY <2>2, <3>2, <3>3, NextNode
  <2> QED BY <2>1, <2>2
<1>2. at = [n \in Nat |-> IF n = 0 THEN input[i] ELSE Above0(at[n - 1])]
  <2>1. at = [n \in Nat |-> Node(h[n])]
    OBVIOUS
  <2> HIDE DEF at
  <2> QED BY <1>1, <2>1
<1> HIDE DEF at
<1> QED BY <1>2 DEF Walk

(* So OwnerInvoke is the first on the chain that invokes an agent. *)
LEMMA OwnerIs ==
  ASSUME TreeFits, NEW i \in DOMAIN input, NEW h, Chain(i, h)
  PROVE  OwnerInvoke(input, input[i])
           = IF Nearest0(h) = {} THEN NoSpan ELSE Node(h[Min(Nearest0(h))])
<1> DEFINE at == CHOOSE f : Walk(input[i], f)
           I == {n \in 0 .. MaxWalk - 1 : at[n].invoke}
<1>1. Walk(input[i], at)
  BY WalkExists
<1>2. OwnerInvoke(input, input[i]) = IF I = {} THEN NoSpan ELSE at[Min(I)]
  BY DEF OwnerInvoke, Walk, Above0
<1> HIDE DEF at
<1>3. \A n \in Nat : at[n] = Node(h[n])
  BY <1>1, WalkIsChain
<1>4. 0 .. MaxWalk - 1 \subseteq Nat
  BY DEF TreeFits
<1>5. I = Nearest0(h)
  BY <1>3, <1>4 DEF Nearest0
<1>6. I # {} => Min(I) \in Nat
  <2>1. I \in SUBSET Nat
    BY <1>4
  <2> HIDE DEF I
  <2> QED BY <2>1, MinInSet
<1> HIDE DEF I
<1> QED BY <1>2, <1>3, <1>5, <1>6

(* Once at its end a chain stays there. *)
LEMMA ChainEnds ==
  ASSUME TreeFits, NEW i \in DOMAIN input, NEW h, Chain(i, h),
         NEW m \in Nat, NEW n \in Nat, m <= n, h[m] = 0
  PROVE  h[n] = 0
<1> DEFINE Good == {k \in Nat : h[m + k] = 0}
<1>1. 0 \in Good
  OBVIOUS
<1>2. ASSUME NEW k \in Nat, k \in Good PROVE k + 1 \in Good
  <2>1. m + k \in Nat /\ m + (k + 1) = (m + k) + 1 /\ h[m + k] = 0
    BY <1>2
  <2>2. h[m + k + 1] = UpFrom(h[m + k])
    BY <2>1 DEF Chain
  <2> QED BY <2>1, <2>2 DEF UpFrom
<1> HIDE DEF Good
<1>3. n - m \in Good /\ m + (n - m) = n
  BY <1>1, <1>2, NatInSet
<1> QED BY <1>3 DEF Good

(* A chain that meets itself goes round for ever. *)
LEMMA ChainRepeats ==
  ASSUME NEW i, NEW h, Chain(i, h), NEW a \in Nat, NEW b \in Nat, h[a] = h[b]
  PROVE  \A k \in Nat : h[a + k] = h[b + k]
<1> DEFINE Good == {k \in Nat : h[a + k] = h[b + k]}
<1>1. 0 \in Good
  OBVIOUS
<1>2. ASSUME NEW k \in Nat, k \in Good PROVE k + 1 \in Good
  <2>1. /\ a + k \in Nat /\ a + (k + 1) = (a + k) + 1
        /\ b + k \in Nat /\ b + (k + 1) = (b + k) + 1
    OBVIOUS
  <2>2. h[a + k + 1] = UpFrom(h[a + k]) /\ h[b + k + 1] = UpFrom(h[b + k])
    BY <2>1 DEF Chain
  <2>3. h[a + k] = h[b + k]
    BY <1>2
  <2>4. h[a + (k + 1)] = h[b + (k + 1)]
    BY <2>1, <2>2, <2>3
  <2> QED BY <2>4
<1> HIDE DEF Good
<1>3. Nat \subseteq Good
  BY <1>1, <1>2, NatInSet
<1> QED BY <1>3 DEF Good

(* What lies above a node is what its chain goes through. *)
LEMMA AboveIsChain ==
  ASSUME TreeFits, NEW i \in DOMAIN input, NEW h, Chain(i, h)
  PROVE  \A j \in DOMAIN input : j \in Above(i) <=> \E n \in Nat : h[n] = j
<1>0. 0 \notin DOMAIN input
  BY SeqIs DEF TreeFits
<1>1. ASSUME NEW j \in DOMAIN input, j \in Above(i) PROVE \E n \in Nat : h[n] = j
  <2> DEFINE S == {k \in DOMAIN input : \E n \in Nat : h[n] = k}
  <2>1. i \in S
    BY DEF Chain
  <2>2. ASSUME NEW k \in S PROVE Parents(k) \subseteq S
    <3> SUFFICES ASSUME input[k].parent \in DOMAIN input PROVE input[k].parent \in S
      BY DEF Parents
    <3>1. PICK n \in Nat : h[n] = k
      OBVIOUS
    <3>2. n + 1 \in Nat /\ h[n + 1] = UpFrom(k)
      BY <3>1 DEF Chain
    <3>3. UpFrom(k) = input[k].parent
      BY <1>0 DEF UpFrom
    <3> QED BY <3>2, <3>3
  <2>3. S \in SUBSET DOMAIN input
    OBVIOUS
  <2> HIDE DEF S
  <2>4. j \in S
    BY <1>1, <2>1, <2>2, <2>3 DEF Above
  <2> QED BY <2>4 DEF S
<1>2. ASSUME NEW j \in DOMAIN input, NEW m \in Nat, h[m] = j PROVE j \in Above(i)
  <2> SUFFICES ASSUME NEW S \in SUBSET DOMAIN input, i \in S,
                      \A k \in S : Parents(k) \subseteq S
               PROVE  j \in S
    BY DEF Above
  <2> DEFINE Good == {n \in Nat : h[n] # 0 => h[n] \in S}
  <2>1. 0 \in Good
    BY DEF Chain
  <2>2. ASSUME NEW n \in Nat, n \in Good PROVE n + 1 \in Good
    <3>1. h[n + 1] = UpFrom(h[n])
      BY DEF Chain
    <3>2. CASE h[n] = 0 \/ input[h[n]].parent \notin DOMAIN input
      BY <3>1, <3>2 DEF UpFrom
    <3>3. CASE h[n] # 0 /\ input[h[n]].parent \in DOMAIN input
      <4>1. h[n] \in S /\ h[n + 1] = input[h[n]].parent
        BY <2>2, <3>1, <3>3 DEF UpFrom
      <4>2. h[n + 1] \in Parents(h[n])
        BY <3>3, <4>1 DEF Parents
      <4>3. h[n + 1] \in S
        BY <4>1, <4>2
      <4> QED BY <4>3
    <3> QED BY <3>2, <3>3
  <2> HIDE DEF Good
  <2>3. m \in Good
    BY <2>1, <2>2, NatInSet
  <2> QED BY <1>0, <1>2, <2>3 DEF Good
<1> QED BY <1>1, <1>2

(* A chain reaches what it reaches within as many steps as there are nodes. *)
LEMMA ChainIsShort ==
  ASSUME TreeFits, NEW i \in DOMAIN input, NEW h, Chain(i, h), NEW r \in DOMAIN input,
         NEW m \in Nat, h[m] = r, \A n \in Nat : h[n] = r => m <= n
  PROVE  m \in 0 .. MaxWalk - 1
<1> DEFINE P == 0 .. m
           N == Len(input)
<1>1. N \in Nat /\ DOMAIN input = 1 .. N /\ 0 \notin DOMAIN input
  BY SeqIs DEF TreeFits
<1>2. ASSUME NEW n \in P PROVE h[n] \in DOMAIN input
  <2>1. n \in Nat /\ n <= m
    OBVIOUS
  <2>2. h[n] # 0
    BY <1>1, <2>1, ChainEnds
  <2> QED BY <2>1, <2>2 DEF Chain
<1>3. ASSUME NEW a \in P, NEW b \in P, a < b PROVE h[a] # h[b]
  <2> SUFFICES ASSUME h[a] = h[b] PROVE FALSE
    OBVIOUS
  <2>1. a \in Nat /\ b \in Nat /\ m - b \in Nat /\ a + (m - b) \in Nat
        /\ a + (m - b) < m /\ b + (m - b) = m
    BY <1>3
  <2>2. h[a + (m - b)] = h[b + (m - b)]
    BY <2>1, ChainRepeats
  <2> QED BY <2>1, <2>2
<1> DEFINE f == [n \in P |-> h[n]]
<1>4. f \in Injection(P, DOMAIN input)
  <2>1. f \in [P -> DOMAIN input]
    BY <1>2
  <2>2. ASSUME NEW a \in P, NEW b \in P, f[a] = f[b] PROVE a = b
    <3>1. ~(a < b) /\ ~(b < a)
      BY <1>3, <2>2
    <3> QED BY <3>1
  <2> HIDE DEF f
  <2> QED BY <2>1, <2>2 DEF Injection, IsInjective
<1>5. Cardinality(P) <= Cardinality(DOMAIN input)
  <2>1. IsFiniteSet(DOMAIN input)
    BY <1>1, FS_Interval
  <2> HIDE DEF f, P
  <2> QED BY <1>4, <2>1, FS_Injection
<1>6. Cardinality(P) = m + 1
  <2>1. Cardinality(0 .. m) = IF 0 > m THEN 0 ELSE m - 0 + 1
    BY FS_Interval
  <2> QED BY <2>1
<1>7. Cardinality(DOMAIN input) = N
  <2>1. Cardinality(1 .. N) = IF 1 > N THEN 0 ELSE N - 1 + 1
    BY <1>1, FS_Interval
  <2> QED BY <1>1, <2>1
<1>8. m + 1 <= N /\ N <= MaxWalk /\ MaxWalk \in Nat
  BY <1>5, <1>6, <1>7 DEF TreeFits
<1> QED BY <1>1, <1>8

(* The owner of a span is the root exactly if the root is all that invokes *)
(* an agent above it.                                                      *)
LEMMA OwnerIsRoot ==
  ASSUME TreeFits, NEW i \in DOMAIN input, NEW root \in DOMAIN input,
         input[root].parent = NoValue
  PROVE  LET owner == OwnerInvoke(input, input[i])
         IN  owner # NoSpan /\ owner.id = root
               <=> {j \in Above(i) : input[j].invoke} = {root}
<1> DEFINE owner == OwnerInvoke(input, input[i])
           invokers == {j \in Above(i) : input[j].invoke}
<1>0. DOMAIN input \subseteq Nat /\ 0 \notin DOMAIN input /\ NoValue \notin Nat
  BY SeqIs, NoValueAssumption DEF TreeFits
<1>1. PICK h : Chain(i, h)
  BY ChainExists
<1> DEFINE I == Nearest0(h)
<1>2. owner = IF I = {} THEN NoSpan ELSE Node(h[Min(I)])
  BY <1>1, OwnerIs
<1>3. /\ I \in SUBSET Nat /\ 0 .. MaxWalk - 1 \subseteq Nat
      /\ \A n \in I : n \in 0 .. MaxWalk - 1 /\ h[n] \in DOMAIN input /\ input[h[n]].invoke
  <2>1. 0 .. MaxWalk - 1 \subseteq Nat
    BY DEF TreeFits
  <2>2. \A n \in I : n \in 0 .. MaxWalk - 1 /\ Node(h[n]).invoke
    BY DEF Nearest0
  <2>3. ~Node(0).invoke
    BY DEF Node, NoSpan
  <2>4. \A n \in I : h[n] \in {0} \cup DOMAIN input /\ h[n] # 0
    BY <1>1, <2>1, <2>2, <2>3 DEF Chain
  <2>5. \A n \in I : Node(h[n]) = input[h[n]]
    BY <2>4 DEF Node
  <2> HIDE DEF I
  <2> QED BY <2>1, <2>2, <2>4, <2>5
<1>4. \A j \in DOMAIN input : j \in Above(i) <=> \E n \in Nat : h[n] = j
  BY <1>1, AboveIsChain
<1>5. invokers \subseteq DOMAIN input
  BY DEF Above
<1>6. ASSUME owner # NoSpan, owner.id = root PROVE invokers = {root}
  <2> DEFINE m == Min(I)
  <2>1. I # {} /\ m \in I /\ \A n \in I : m <= n
    <3>1. I # {}
      BY <1>2, <1>6
    <3> HIDE DEF I
    <3> QED BY <1>3, <3>1, MinInSet
  <2>2. m \in Nat /\ m \in 0 .. MaxWalk - 1 /\ h[m] \in DOMAIN input /\ input[h[m]].invoke
    BY <1>3, <2>1
  <2>3. owner = Node(h[m])
    BY <1>2, <2>1
  <2> HIDE DEF m, I, owner
  <2>4. h[m] = root
    BY <1>0, <1>6, <2>2, <2>3 DEF Node, TreeFits
  <2>5. root \in Above(i)
    BY <1>4, <2>2, <2>4
  <2>6. ASSUME NEW j \in invokers PROVE j = root
    <3>1. j \in DOMAIN input /\ input[j].invoke
      BY <1>5
    <3>2. PICK n \in Nat : h[n] = j
      BY <1>4, <3>1
    <3>3. CASE n < m
      <4>1. n \in 0 .. MaxWalk - 1
        <5>1. MaxWalk \in Nat
          BY DEF TreeFits
        <5> QED BY <2>2, <3>3, <5>1
      <4>2. Node(h[n]).invoke
        BY <1>0, <3>1, <3>2 DEF Node
      <4>3. n \in I
        BY <4>1, <4>2 DEF I, Nearest0
      <4> QED BY <2>1, <2>2, <3>3, <4>3
    <3>4. CASE n > m
      <4>1. m + 1 \in Nat /\ m + 1 <= n
        BY <2>2, <3>4
      <4>2. UpFrom(root) = 0
        BY <1>0 DEF UpFrom
      <4>3. h[m + 1] = UpFrom(h[m])
        BY <1>1, <2>2 DEF Chain
      <4>4. h[m + 1] = 0
        BY <2>4, <4>2, <4>3
      <4>5. h[n] = 0
        BY <1>1, <4>1, <4>4, ChainEnds
      <4> QED BY <1>0, <3>1, <3>2, <4>5
    <3>5. CASE n = m
      BY <2>4, <3>2, <3>5
    <3> QED BY <2>2, <3>3, <3>4, <3>5
  <2> QED BY <2>2, <2>4, <2>5, <2>6
<1>7. ASSUME invokers = {root} PROVE owner # NoSpan /\ owner.id = root
  <2>1. root \in Above(i) /\ input[root].invoke
    BY <1>7
  <2> DEFINE R == {n \in Nat : h[n] = root}
             m == Min(R)
  <2>2. R # {} /\ R \in SUBSET Nat
    BY <1>4, <2>1
  <2>3. m \in R /\ \A n \in R : m <= n
    <3> HIDE DEF R
    <3> QED BY <2>2, MinInSet
  <2>4. m \in Nat /\ h[m] = root /\ \A n \in Nat : h[n] = root => m <= n
    BY <2>3
  <2> HIDE DEF m, R
  <2>5. m \in 0 .. MaxWalk - 1
    BY <1>1, <2>4, ChainIsShort
  <2>6. Node(root) = input[root] /\ input[root].id = root
    BY <1>0 DEF Node, TreeFits
  <2>7. m \in I
    BY <2>1, <2>4, <2>5, <2>6 DEF Nearest0
  <2>8. ASSUME NEW n \in I PROVE m <= n
    <3>1. n \in Nat /\ h[n] \in DOMAIN input /\ input[h[n]].invoke
      BY <1>3
    <3>2. h[n] \in invokers
      BY <1>4, <3>1
    <3> QED BY <1>7, <2>4, <3>1, <3>2
  <2> HIDE DEF I
  <2>9. Min(I) = m
    BY <1>3, <2>7, <2>8, MinIs
  <2>10. owner = input[root]
    BY <1>2, <2>4, <2>6, <2>7, <2>9
  <2>11. owner.id = root /\ NoSpan.id = NoValue
    BY <2>6, <2>10 DEF NoSpan
  <2> HIDE DEF owner
  <2> QED BY <1>0, <2>11
<1> QED BY <1>6, <1>7

(* For any tree of spans that is no deeper than chains are followed, with  *)
(* missing parents and loops, the context of a root is the spans with      *)
(* tokens under it and under no other span that invokes an agent           *)
(* (computeSessionContextSpans).                                           *)
THEOREM ContextIsTheMainAgents == InputSpec => []ContextIsMainAgent
<1>1. InputFits => ContextIsMainAgent
  <2> SUFFICES ASSUME InputFits, kind = "tree", NEW root \in DOMAIN input,
                      input[root].parent = NoValue
               PROVE  LET tt == [t \in {1} |-> [session |-> Label, root |-> root]]
                      IN  \A o \in ContextOrders(RootByTrace(tt, Label),
                                                 SpansIn(tt, input, Label)) :
                            /\ {o[k] : k \in DOMAIN o} = MainAgent(root)
                            /\ Len(o) = Cardinality(MainAgent(root))
    BY DEF ContextIsMainAgent
  <2> DEFINE tt == [t \in {1} |-> [session |-> Label, root |-> root]]
             C == ContextSpans(RootByTrace(tt, Label), input)
  <2>1. TreeFits
    BY InputIsTree
  <2>2. TracesIn(tt, Label) = {1}
    BY DEF TracesIn
  <2>3. SpansIn(tt, input, Label) = input
    <3>1. {i \in DOMAIN input : input[i].trace \in TracesIn(tt, Label)} = DOMAIN input
      BY <2>1, <2>2 DEF TreeFits
    <3>2. SpansIn(tt, input, Label) = Picked(input, DOMAIN input)
      BY <3>1 DEF SpansIn
    <3> QED BY <2>1, <3>2, AllPicked DEF TreeFits, IsSeq
  <2>4. /\ DOMAIN RootByTrace(tt, Label) = {1}
        /\ RootByTrace(tt, Label)[1] = root
    BY <2>2 DEF RootByTrace
  <2> HIDE DEF tt
  <2>5. C = MainAgent(root)
    <3>1. ASSUME NEW i \in DOMAIN input PROVE i \in C <=> i \in MainAgent(root)
      <4>1. i \in C <=> /\ Given(input[i].tokens)
                        /\ OwnerInvoke(input, input[i]) # NoSpan
                        /\ OwnerInvoke(input, input[i]).id = root
        BY <2>1, <2>4 DEF ContextSpans, TreeFits
      <4>2. /\ OwnerInvoke(input, input[i]) # NoSpan
            /\ OwnerInvoke(input, input[i]).id = root
            <=> {j \in Above(i) : input[j].invoke} = {root}
        BY <2>1, OwnerIsRoot
      <4> QED BY <4>1, <4>2 DEF MainAgent
    <3>2. C \subseteq DOMAIN input /\ MainAgent(root) \subseteq DOMAIN input
      BY DEF ContextSpans, MainAgent
    <3> QED BY <3>1, <3>2
  <2>6. IsFiniteSet(MainAgent(root))
    <3>1. IsFiniteSet(DOMAIN input)
      BY <2>1, SeqIs, FS_Interval DEF TreeFits
    <3>2. MainAgent(root) \in SUBSET DOMAIN input
      BY DEF MainAgent
    <3> QED BY <3>1, <3>2, FS_Subset
  <2>7. ASSUME NEW o \in ContextOrders(RootByTrace(tt, Label), SpansIn(tt, input, Label))
        PROVE  /\ {o[k] : k \in DOMAIN o} = MainAgent(root)
               /\ Len(o) = Cardinality(MainAgent(root))
    <3>1. o \in SetToSeqs(C)
      BY <2>3 DEF ContextOrders, Orders
    <3> HIDE DEF C
    <3> QED BY <2>5, <2>6, <3>1, OrderHasAll DEF Renames
  <2> QED BY <2>7 DEF tt
<1> QED BY <1>1, InputInvariance, PTL
-----------------------------------------------------------------------------
(* What an agent calls its attributes.  The place of the first key that    *)
(* passes, and the value that is found under it.                           *)
FirstPlace(i, keys, P) ==
  i \in DOMAIN keys /\ keys[i] \in P /\ \A j \in DOMAIN keys : keys[j] \in P => i <= j
NonePasses(keys, P) == \A j \in DOMAIN keys : keys[j] \notin P

(* FirstOf is the key at the first place, or Nothing if none passes. *)
LEMMA FirstIsAt ==
  ASSUME NEW keys, IsSeq(keys), NEW P,
         NEW I, I = {i \in DOMAIN keys : keys[i] \in P}
  PROVE  IF I = {} THEN NonePasses(keys, P) ELSE FirstPlace(Min(I), keys, P)
<1>1. I \subseteq Nat
  BY SeqIs
<1>2. CASE I = {}
  BY <1>2 DEF NonePasses
<1>3. CASE I # {}
  <2>1. Min(I) \in I /\ \A x \in I : Min(I) <= x
    BY <1>1, <1>3, MinInSet
  <2> QED BY <1>3, <2>1 DEF FirstPlace
<1> QED BY <1>2, <1>3

(* The keys that are there; those of them that count as a number. *)
Counting(attrs) == {k \in DOMAIN attrs : attrs[k] \in Nat /\ attrs[k] < WordSize}
KeysFor(k) == <<k>> \o AttrAliases[k]
Reads(v, attrs, keys) ==
  \/ NonePasses(keys, Counting(attrs)) /\ v = Nothing
  \/ \E i : FirstPlace(i, keys, Counting(attrs)) /\ v = attrs[keys[i]]

(* A value that is read is the only one. *)
LEMMA OneIsRead ==
  ASSUME NEW keys, IsSeq(keys), NEW attrs, NEW v, Reads(v, attrs, keys),
         NEW w, Reads(w, attrs, keys)
  PROVE  v = w
<1>1. DOMAIN keys \subseteq Nat
  BY SeqIs
<1>2. \A i, j : FirstPlace(i, keys, Counting(attrs)) /\ FirstPlace(j, keys, Counting(attrs)) => i = j
  BY <1>1 DEF FirstPlace
<1>3. \A i : ~(FirstPlace(i, keys, Counting(attrs)) /\ NonePasses(keys, Counting(attrs)))
  BY DEF FirstPlace, NonePasses
<1> QED BY <1>2, <1>3 DEF Reads

LEMMA KeysAre ==
  ASSUME NEW k \in DOMAIN AttrAliases
  PROVE  /\ IsSeq(AttrAliases[k]) /\ IsSeq(KeysFor(k)) /\ KeysFor(k)[1] = k /\ 1 \in DOMAIN KeysFor(k)
         /\ \A i \in DOMAIN AttrAliases[k] :
              /\ i \in Nat /\ 1 <= i /\ i + 1 \in DOMAIN KeysFor(k)
              /\ KeysFor(k)[i + 1] = AttrAliases[k][i]
         /\ \A j \in DOMAIN KeysFor(k) :
              /\ j \in Nat
              /\ \/ j = 1
                 \/ j - 1 \in DOMAIN AttrAliases[k] /\ KeysFor(k)[j] = AttrAliases[k][j - 1]
         /\ \A i \in DOMAIN AttrAliases[k] : AttrAliases[k][i] \notin DOMAIN AttrAliases
         /\ \A j \in DOMAIN KeysFor(k) : KeysFor(k)[j] # Nothing
<1> DEFINE S == Range(AttrAliases[k])
           a == AttrAliases[k]
<1>1. a \in Seq(S) /\ Nothing \notin {k} \cup S /\ S \cap DOMAIN AttrAliases = {}
  BY AliasesAssumption
<1>2. \A i \in DOMAIN a : a[i] \in S
  BY DEF Range
<1> HIDE DEF a, S
<1>3. KeysFor(k) = <<k>> \o a
  BY DEF KeysFor, a
<1>4. DOMAIN a = 1 .. Len(a) /\ Len(a) \in Nat
  BY <1>1
<1>5. /\ KeysFor(k) \in Seq({k} \cup S) /\ Len(KeysFor(k)) = Len(a) + 1
      /\ KeysFor(k)[1] = k /\ \A i \in 1 .. Len(a) : KeysFor(k)[i + 1] = a[i]
  BY <1>1, <1>3
<1>6. DOMAIN KeysFor(k) = 1 .. Len(a) + 1
  BY <1>5, <1>4
<1>7. IsSeq(a) /\ IsSeq(KeysFor(k))
  BY <1>1, <1>5, SeqIs, SeqOver
<1>8. \A j \in 1 .. Len(a) + 1 :
        j \in Nat /\ (j = 1 \/ (j - 1 \in 1 .. Len(a) /\ KeysFor(k)[j] = a[j - 1]))
  <2>1. ASSUME NEW j \in 1 .. Len(a) + 1, j # 1
        PROVE  j - 1 \in 1 .. Len(a) /\ KeysFor(k)[(j - 1) + 1] = a[j - 1]
    BY <1>4, <1>5, <2>1
  <2> QED BY <1>4, <2>1
<1>9. \A j \in DOMAIN KeysFor(k) : KeysFor(k)[j] # Nothing
  BY <1>1, <1>2, <1>4, <1>5, <1>6, <1>8
<1> QED BY <1>1, <1>2, <1>4, <1>5, <1>6, <1>7, <1>8, <1>9 DEF a

(* ReadUint32 reads the first of a key and its fallbacks that counts. *)
LEMMA ReadIs ==
  ASSUME NEW attrs, NEW k \in DOMAIN AttrAliases
  PROVE  Reads(ReadUint32(attrs, k), attrs, KeysFor(k))
<1> DEFINE keys == KeysFor(k)
           P == Counting(attrs)
           I == {i \in DOMAIN keys : keys[i] \in P}
           J == {i \in DOMAIN keys : /\ keys[i] \in DOMAIN attrs
                                     /\ attrs[keys[i]] \in Nat /\ attrs[keys[i]] < WordSize}
           found == IF J = {} THEN Nothing ELSE keys[Min(J)]
<1>1. ReadUint32(attrs, k) = IF found = Nothing THEN Nothing ELSE attrs[found]
  BY DEF ReadUint32, FirstOf, KeysFor
<1>2. I = J
  BY DEF Counting
<1> HIDE DEF J
<1>3. IsSeq(keys) /\ \A j \in DOMAIN keys : keys[j] # Nothing
  BY KeysAre
<1>4. IF I = {} THEN NonePasses(keys, P) ELSE FirstPlace(Min(I), keys, P)
  BY <1>3, FirstIsAt
<1> HIDE DEF keys, P, I
<1>5. CASE I = {}
  <2>1. ReadUint32(attrs, k) = Nothing /\ NonePasses(keys, P)
    BY <1>1, <1>2, <1>4, <1>5
  <2> QED BY <2>1 DEF Reads, keys, P
<1>6. CASE I # {}
  <2>1. FirstPlace(Min(I), keys, P)
    BY <1>4, <1>6
  <2>2. found = keys[Min(I)] /\ found # Nothing
    BY <1>2, <1>3, <1>6, <2>1 DEF FirstPlace
  <2>3. ReadUint32(attrs, k) = attrs[keys[Min(I)]]
    BY <1>1, <2>2
  <2> QED BY <2>1, <2>3 DEF Reads, keys, P
<1> QED BY <1>5, <1>6

(* A standard key that is absent is given its first fallback, all else is  *)
(* as it came.                                                             *)
Lacks(k, attrs) == k \in DOMAIN AttrAliases \ DOMAIN attrs
LEMMA NormalizedIs ==
  ASSUME NEW attrs, NEW k
  PROVE  LET N == NormalizeAttributes(attrs) IN
    /\ k \in DOMAIN attrs \/ k \notin DOMAIN AttrAliases
         => (k \in DOMAIN N <=> k \in DOMAIN attrs) /\ (k \in DOMAIN attrs => N[k] = attrs[k])
    /\ \A i : Lacks(k, attrs) /\ FirstPlace(i, AttrAliases[k], DOMAIN attrs)
         => k \in DOMAIN N /\ N[k] = attrs[AttrAliases[k][i]]
    /\ Lacks(k, attrs) /\ NonePasses(AttrAliases[k], DOMAIN attrs) => k \notin DOMAIN N
<1> DEFINE I(l) == {i \in DOMAIN AttrAliases[l] : AttrAliases[l][i] \in DOMAIN attrs}
           source == [l \in DOMAIN AttrAliases \ DOMAIN attrs |->
                        IF I(l) = {} THEN Nothing ELSE AttrAliases[l][Min(I(l))]]
           copied == {l \in DOMAIN source : source[l] # Nothing}
           N == NormalizeAttributes(attrs)
<1>1. N = [l \in DOMAIN attrs \cup copied |-> IF l \in copied THEN attrs[source[l]] ELSE attrs[l]]
  BY DEF NormalizeAttributes, FirstOf
<1>2. DOMAIN source = DOMAIN AttrAliases \ DOMAIN attrs
  OBVIOUS
<1>3. Lacks(k, attrs) => source[k] = IF I(k) = {} THEN Nothing ELSE AttrAliases[k][Min(I(k))]
  BY DEF Lacks
<1> HIDE DEF source, N
<1>4. k \in DOMAIN attrs \/ k \notin DOMAIN AttrAliases
         => (k \in DOMAIN N <=> k \in DOMAIN attrs) /\ (k \in DOMAIN attrs => N[k] = attrs[k])
  BY <1>1, <1>2
<1>5. ASSUME Lacks(k, attrs)
      PROVE  /\ \A i : FirstPlace(i, AttrAliases[k], DOMAIN attrs)
                    => k \in DOMAIN N /\ N[k] = attrs[AttrAliases[k][i]]
             /\ NonePasses(AttrAliases[k], DOMAIN attrs) => k \notin DOMAIN N
  <2> DEFINE a == AttrAliases[k]
  <2>0. k \in DOMAIN AttrAliases /\ k \notin DOMAIN attrs
    BY <1>5 DEF Lacks
  <2>1. IsSeq(a) /\ \A i \in DOMAIN a : a[i] # Nothing
    BY <2>0, KeysAre
  <2>2. IF I(k) = {} THEN NonePasses(a, DOMAIN attrs) ELSE FirstPlace(Min(I(k)), a, DOMAIN attrs)
    BY <2>1, FirstIsAt
  <2>3. ASSUME NEW i, FirstPlace(i, a, DOMAIN attrs)
        PROVE  k \in DOMAIN N /\ N[k] = attrs[a[i]]
    <3>1. i \in I(k)
      BY <2>3 DEF FirstPlace
    <3>2. FirstPlace(Min(I(k)), a, DOMAIN attrs)
      BY <2>2, <3>1
    <3>3. DOMAIN a \subseteq Nat
      BY <2>1, SeqIs
    <3>4. Min(I(k)) = i
      BY <2>3, <3>2, <3>3 DEF FirstPlace
    <3>5. source[k] = a[i] /\ a[i] # Nothing
      BY <1>3, <1>5, <2>1, <3>1, <3>4
    <3> QED BY <1>1, <1>2, <2>0, <3>5
  <2>4. ASSUME NonePasses(a, DOMAIN attrs) PROVE k \notin DOMAIN N
    <3>1. I(k) = {}
      BY <2>4 DEF NonePasses
    <3>2. source[k] = Nothing
      BY <1>3, <1>5, <3>1
    <3> QED BY <1>1, <2>0, <3>2
  <2> QED BY <2>3, <2>4
<1> QED BY <1>4, <1>5 DEF N

(* Keys that count alike, with the same values, read alike. *)
LEMMA SameReads ==
  ASSUME NEW keys, NEW x, NEW y, NEW v, Reads(v, x, keys),
         \A j \in DOMAIN keys : /\ keys[j] \in Counting(x) <=> keys[j] \in Counting(y)
                                /\ keys[j] \in Counting(x) => x[keys[j]] = y[keys[j]]
  PROVE  Reads(v, y, keys)
<1>1. NonePasses(keys, Counting(x)) => NonePasses(keys, Counting(y))
  BY DEF NonePasses
<1>2. \A i : FirstPlace(i, keys, Counting(x))
               => FirstPlace(i, keys, Counting(y)) /\ x[keys[i]] = y[keys[i]]
  BY DEF FirstPlace
<1> QED BY <1>1, <1>2 DEF Reads

(* What is stored reads as what came. *)
LEMMA NormalizedReads ==
  ASSUME NEW attrs, NEW k \in DOMAIN AttrAliases
  PROVE  ReadUint32(NormalizeAttributes(attrs), k) = ReadUint32(attrs, k)
<1> DEFINE N == NormalizeAttributes(attrs)
           a == AttrAliases[k]
           keys == KeysFor(k)
           v == ReadUint32(attrs, k)
<1>1. Reads(v, attrs, keys) /\ Reads(ReadUint32(N, k), N, keys)
  BY ReadIs
<1>2. /\ IsSeq(a) /\ IsSeq(keys) /\ keys[1] = k /\ 1 \in DOMAIN keys
      /\ \A i \in DOMAIN a : i \in Nat /\ 1 <= i /\ i + 1 \in DOMAIN keys /\ keys[i + 1] = a[i]
      /\ \A j \in DOMAIN keys : j \in Nat /\ (j = 1 \/ (j - 1 \in DOMAIN a /\ keys[j] = a[j - 1]))
      /\ \A i \in DOMAIN a : a[i] \notin DOMAIN AttrAliases
  BY KeysAre
<1>3. \A i \in DOMAIN a : /\ a[i] \in DOMAIN N <=> a[i] \in DOMAIN attrs
                          /\ a[i] \in DOMAIN attrs => N[a[i]] = attrs[a[i]]
  BY <1>2, NormalizedIs
<1>4. /\ k \in DOMAIN attrs => k \in DOMAIN N /\ N[k] = attrs[k]
      /\ \A i : Lacks(k, attrs) /\ FirstPlace(i, a, DOMAIN attrs)
                  => k \in DOMAIN N /\ N[k] = attrs[a[i]]
      /\ Lacks(k, attrs) /\ NonePasses(a, DOMAIN attrs) => k \notin DOMAIN N
  BY NormalizedIs
<1>5. k \notin DOMAIN attrs => Lacks(k, attrs)
  BY DEF Lacks
<1> HIDE DEF N, a, keys, v
<1>6. \A i \in DOMAIN a : /\ a[i] \in Counting(attrs) <=> a[i] \in Counting(N)
                          /\ a[i] \in Counting(attrs) => attrs[a[i]] = N[a[i]]
  BY <1>3 DEF Counting
<1>7. ASSUME k \in Counting(attrs) <=> k \in Counting(N),
             k \in Counting(attrs) => attrs[k] = N[k]
      PROVE  Reads(v, N, keys)
  <2>1. \A j \in DOMAIN keys : /\ keys[j] \in Counting(attrs) <=> keys[j] \in Counting(N)
                               /\ keys[j] \in Counting(attrs) => attrs[keys[j]] = N[keys[j]]
    BY <1>2, <1>6, <1>7
  <2> QED BY <1>1, <2>1, SameReads
<1>8. ASSUME k \in DOMAIN attrs PROVE Reads(v, N, keys)
  <2>1. k \in DOMAIN N /\ N[k] = attrs[k]
    BY <1>4, <1>8
  <2>2. k \in Counting(attrs) <=> k \in Counting(N)
    BY <1>8, <2>1 DEF Counting
  <2> QED BY <1>7, <2>1, <2>2
<1>9. ASSUME k \notin DOMAIN attrs, NonePasses(a, DOMAIN attrs) PROVE Reads(v, N, keys)
  <2>1. k \notin Counting(attrs) /\ k \notin Counting(N)
    BY <1>4, <1>5, <1>9 DEF Counting
  <2> QED BY <1>7, <2>1
<1>10. ASSUME k \notin DOMAIN attrs, NEW m, FirstPlace(m, a, DOMAIN attrs)
       PROVE  Reads(v, N, keys)
  <2>1. m \in DOMAIN a /\ a[m] \in DOMAIN attrs /\ \A i \in DOMAIN a : a[i] \in DOMAIN attrs => m <= i
    BY <1>10 DEF FirstPlace
  <2>2. k \in DOMAIN N /\ N[k] = attrs[a[m]] /\ k \notin Counting(attrs)
    BY <1>4, <1>5, <1>10 DEF Counting
  <2>3. CASE a[m] \notin Counting(attrs)
    <3>1. k \notin Counting(N)
      BY <2>1, <2>2, <2>3 DEF Counting
    <3> QED BY <1>7, <2>2, <3>1
  <2>4. CASE a[m] \in Counting(attrs)
    <3>1. \A j \in DOMAIN keys : keys[j] \in Counting(attrs) => m + 1 <= j
      <4>1. ASSUME NEW j \in DOMAIN keys, keys[j] \in Counting(attrs)
            PROVE  m + 1 <= j
        <5>1. j \in Nat /\ m \in Nat /\ j - 1 \in DOMAIN a /\ keys[j] = a[j - 1]
          BY <1>2, <2>1, <2>2, <4>1
        <5>2. m <= j - 1
          BY <2>1, <4>1, <5>1 DEF Counting
        <5> QED BY <5>1, <5>2
      <4> QED BY <4>1
    <3>2. FirstPlace(m + 1, keys, Counting(attrs)) /\ keys[m + 1] = a[m]
      BY <1>2, <2>1, <2>4, <3>1 DEF FirstPlace
    <3>3. Reads(attrs[a[m]], attrs, keys)
      BY <3>2 DEF Reads
    <3>4. v = attrs[a[m]]
      BY <1>1, <1>2, <3>3, OneIsRead
    <3>5. keys[1] \in Counting(N) /\ \A j \in DOMAIN keys : 1 <= j
      BY <1>2, <2>2, <2>4 DEF Counting
    <3>6. FirstPlace(1, keys, Counting(N)) /\ N[keys[1]] = v
      BY <1>2, <2>2, <3>4, <3>5 DEF FirstPlace
    <3> QED BY <3>6 DEF Reads
  <2> QED BY <2>3, <2>4
<1>11. Reads(v, N, keys)
  <2> DEFINE I == {i \in DOMAIN a : a[i] \in DOMAIN attrs}
  <2>1. IF I = {} THEN NonePasses(a, DOMAIN attrs) ELSE FirstPlace(Min(I), a, DOMAIN attrs)
    BY <1>2, FirstIsAt
  <2> HIDE DEF I
  <2> QED BY <1>8, <1>9, <1>10, <2>1
<1> QED BY <1>1, <1>2, <1>11, OneIsRead DEF N, keys, v

(* So the tokens. *)
LEMMA NormalizedTokens ==
  ASSUME NEW attrs
  PROVE  DeriveTokenBuckets(NormalizeAttributes(attrs)) = DeriveTokenBuckets(attrs)
<1>1. \A i \in 1 .. 4 : Buckets[i] \in DOMAIN AttrAliases
  <2>1. \A i \in 1 .. 4 : Buckets[i] \in Range(Buckets)
    BY DEF Buckets, Range
  <2> QED BY <2>1, AliasesAssumption
<1>2. \A i \in 1 .. 4 : ReadUint32(NormalizeAttributes(attrs), Buckets[i])
                          = ReadUint32(attrs, Buckets[i])
  BY <1>1, NormalizedReads
<1>3. [i \in 1 .. 4 |-> ReadUint32(NormalizeAttributes(attrs), Buckets[i])]
        = [i \in 1 .. 4 |-> ReadUint32(attrs, Buckets[i])]
  BY <1>2
<1> QED BY <1>3 DEF DeriveTokenBuckets

(* An attribute that goes by another name: f instead of k. *)
Spelt(k, f, attrs) ==
  /\ k \in DOMAIN AttrAliases \cap DOMAIN attrs /\ f \in Range(AttrAliases[k])
  /\ Range(AttrAliases[k]) \cap DOMAIN attrs = {}

LEMMA RenamedIs ==
  ASSUME NEW attrs, NEW k, NEW f, Spelt(k, f, attrs)
  PROVE  LET R == Renamed(attrs, k, f) IN
    /\ f \notin DOMAIN AttrAliases /\ k \notin DOMAIN R /\ f \in DOMAIN R /\ R[f] = attrs[k]
    /\ \A x : x # k /\ x # f => /\ x \in DOMAIN R <=> x \in DOMAIN attrs
                                /\ x \in DOMAIN attrs => R[x] = attrs[x]
    /\ \A l \in DOMAIN AttrAliases \ {k} : f \notin Range(AttrAliases[l])
<1>1. /\ k \in DOMAIN AttrAliases /\ f \notin DOMAIN AttrAliases
      /\ \A l \in DOMAIN AttrAliases \ {k} : f \notin Range(AttrAliases[l])
  <2>1. k \in DOMAIN AttrAliases /\ f \in Range(AttrAliases[k])
    BY DEF Spelt
  <2> QED BY <2>1, AliasesAssumption
<1> QED BY <1>1 DEF Renamed

LEMMA RenamedReads ==
  ASSUME NEW attrs, NEW k, NEW f, Spelt(k, f, attrs), NEW l \in DOMAIN AttrAliases
  PROVE  ReadUint32(Renamed(attrs, k, f), l) = ReadUint32(attrs, l)
<1> DEFINE R == Renamed(attrs, k, f)
           a == AttrAliases[l]
           keys == KeysFor(l)
           v == ReadUint32(attrs, l)
<1>1. Reads(v, attrs, keys) /\ Reads(ReadUint32(R, l), R, keys)
  BY ReadIs
<1>2. /\ IsSeq(keys) /\ keys[1] = l /\ 1 \in DOMAIN keys
      /\ \A i \in DOMAIN a : i \in Nat /\ 1 <= i /\ i + 1 \in DOMAIN keys /\ keys[i + 1] = a[i]
      /\ \A j \in DOMAIN keys : j \in Nat /\ (j = 1 \/ (j - 1 \in DOMAIN a /\ keys[j] = a[j - 1]))
      /\ \A i \in DOMAIN a : a[i] \notin DOMAIN AttrAliases
  BY KeysAre
<1>3. /\ f \notin DOMAIN AttrAliases /\ k \notin DOMAIN R /\ f \in DOMAIN R /\ R[f] = attrs[k]
      /\ \A x : x # k /\ x # f => /\ x \in DOMAIN R <=> x \in DOMAIN attrs
                                  /\ x \in DOMAIN attrs => R[x] = attrs[x]
      /\ l # k => f \notin Range(a)
  BY RenamedIs
<1>4. /\ k \in DOMAIN AttrAliases /\ k \in DOMAIN attrs /\ f \in Range(AttrAliases[k])
      /\ Range(AttrAliases[k]) \cap DOMAIN attrs = {}
  BY DEF Spelt
<1>5. \A i \in DOMAIN a : a[i] \in Range(a)
  BY DEF Range
<1> HIDE DEF R, keys, v
<1>6. CASE l # k
  <2>1. \A j \in DOMAIN keys : keys[j] # k /\ keys[j] # f
    BY <1>2, <1>3, <1>4, <1>5, <1>6
  <2>2. \A j \in DOMAIN keys : /\ keys[j] \in Counting(attrs) <=> keys[j] \in Counting(R)
                               /\ keys[j] \in Counting(attrs) => attrs[keys[j]] = R[keys[j]]
    BY <1>3, <2>1 DEF Counting
  <2>3. Reads(v, R, keys)
    BY <1>1, <2>2, SameReads
  <2> QED BY <1>1, <1>2, <2>3, OneIsRead DEF R, keys, v
<1>7. CASE l = k
  <2>1. \A j \in DOMAIN keys : /\ keys[j] \in DOMAIN attrs <=> j = 1
                               /\ keys[j] \in DOMAIN R <=> keys[j] = f
    BY <1>2, <1>3, <1>4, <1>5, <1>7
  <2>2. CASE k \notin Counting(attrs)
    <3>1. NonePasses(keys, Counting(attrs))
      BY <1>2, <1>7, <2>1, <2>2 DEF NonePasses, Counting
    <3>2. NonePasses(keys, Counting(R))
      BY <1>3, <1>4, <2>1, <2>2 DEF NonePasses, Counting
    <3>3. Reads(Nothing, attrs, keys) /\ Reads(Nothing, R, keys)
      BY <3>1, <3>2 DEF Reads
    <3> QED BY <1>1, <1>2, <3>3, OneIsRead DEF R, keys, v
  <2>3. CASE k \in Counting(attrs)
    <3> DEFINE I == {i \in DOMAIN keys : keys[i] \in {f}}
    <3>1. PICK i \in DOMAIN a : a[i] = f
      BY <1>4, <1>7 DEF Range
    <3>2. i + 1 \in I
      BY <1>2, <3>1
    <3>3. FirstPlace(Min(I), keys, {f})
      <4>1. IF I = {} THEN NonePasses(keys, {f}) ELSE FirstPlace(Min(I), keys, {f})
        BY <1>2, FirstIsAt
      <4> HIDE DEF I
      <4> QED BY <3>2, <4>1
    <3>4. f \in Counting(R) /\ R[f] = attrs[k]
      BY <1>3, <1>4, <2>3 DEF Counting
    <3>5. PICK m : FirstPlace(m, keys, {f})
      BY <3>3
    <3> HIDE DEF I
    <3>6. FirstPlace(m, keys, Counting(R)) /\ keys[m] = f
      BY <2>1, <3>4, <3>5 DEF FirstPlace, Counting
    <3>7. Reads(attrs[k], R, keys)
      BY <3>4, <3>6 DEF Reads
    <3>8. FirstPlace(1, keys, Counting(attrs)) /\ keys[1] = k
      BY <1>2, <1>7, <2>1, <2>3 DEF FirstPlace, Counting
    <3>9. Reads(attrs[k], attrs, keys)
      BY <3>8 DEF Reads
    <3> QED BY <1>1, <1>2, <3>7, <3>9, OneIsRead DEF R, keys, v
  <2> QED BY <2>2, <2>3
<1> QED BY <1>6, <1>7

(* What a standard key is stored as does not change either. *)
LEMMA RenamedStored ==
  ASSUME NEW attrs, NEW k, NEW f, Spelt(k, f, attrs), NEW l \in DOMAIN AttrAliases
  PROVE  LET N == NormalizeAttributes(attrs)
             M == NormalizeAttributes(Renamed(attrs, k, f))
         IN  (l \in DOMAIN N <=> l \in DOMAIN M) /\ (l \in DOMAIN N => N[l] = M[l])
<1> DEFINE R == Renamed(attrs, k, f)
           a == AttrAliases[l]
           N == NormalizeAttributes(attrs)
           M == NormalizeAttributes(R)
<1>1. IsSeq(a) /\ \A i \in DOMAIN a : a[i] \notin DOMAIN AttrAliases
  BY KeysAre
<1>2. /\ f \notin DOMAIN AttrAliases /\ k \notin DOMAIN R /\ f \in DOMAIN R /\ R[f] = attrs[k]
      /\ \A x : x # k /\ x # f => /\ x \in DOMAIN R <=> x \in DOMAIN attrs
                                  /\ x \in DOMAIN attrs => R[x] = attrs[x]
      /\ l # k => f \notin Range(a)
  BY RenamedIs
<1>3. /\ k \in DOMAIN AttrAliases /\ k \in DOMAIN attrs /\ f \in Range(AttrAliases[k])
      /\ Range(AttrAliases[k]) \cap DOMAIN attrs = {}
  BY DEF Spelt
<1>4. \A i \in DOMAIN a : a[i] \in Range(a)
  BY DEF Range
<1>5. \A x \in {attrs, R} :
        /\ l \in DOMAIN x => /\ l \in DOMAIN NormalizeAttributes(x)
                             /\ NormalizeAttributes(x)[l] = x[l]
        /\ \A i : Lacks(l, x) /\ FirstPlace(i, a, DOMAIN x)
             => /\ l \in DOMAIN NormalizeAttributes(x)
                /\ NormalizeAttributes(x)[l] = x[a[i]]
        /\ Lacks(l, x) /\ NonePasses(a, DOMAIN x) => l \notin DOMAIN NormalizeAttributes(x)
  BY NormalizedIs
<1>6. /\ l \in DOMAIN attrs => l \in DOMAIN N /\ N[l] = attrs[l]
      /\ \A i : Lacks(l, attrs) /\ FirstPlace(i, a, DOMAIN attrs)
                  => l \in DOMAIN N /\ N[l] = attrs[a[i]]
      /\ Lacks(l, attrs) /\ NonePasses(a, DOMAIN attrs) => l \notin DOMAIN N
      /\ l \in DOMAIN R => l \in DOMAIN M /\ M[l] = R[l]
      /\ \A i : Lacks(l, R) /\ FirstPlace(i, a, DOMAIN R) => l \in DOMAIN M /\ M[l] = R[a[i]]
      /\ Lacks(l, R) /\ NonePasses(a, DOMAIN R) => l \notin DOMAIN M
  BY <1>5
<1>7. /\ l \notin DOMAIN attrs => Lacks(l, attrs)
      /\ l \notin DOMAIN R => Lacks(l, R)
  BY DEF Lacks
<1> HIDE DEF R, N, M
<1>8. CASE l = k
  <2> DEFINE I == {i \in DOMAIN a : a[i] \in {f}}
  <2>1. PICK i \in DOMAIN a : a[i] = f
    BY <1>3, <1>8 DEF Range
  <2>2. IF I = {} THEN NonePasses(a, {f}) ELSE FirstPlace(Min(I), a, {f})
    BY <1>1, FirstIsAt
  <2>3. PICK m : FirstPlace(m, a, {f})
    <3>1. i \in I
      BY <2>1
    <3> HIDE DEF I
    <3> QED BY <2>2, <3>1
  <2> HIDE DEF I
  <2>4. \A j \in DOMAIN a : a[j] \in DOMAIN R <=> a[j] = f
    BY <1>1, <1>2, <1>3, <1>4, <1>8
  <2>5. FirstPlace(m, a, DOMAIN R) /\ a[m] = f
    BY <2>3, <2>4 DEF FirstPlace
  <2>6. l \in DOMAIN M /\ M[l] = attrs[k]
    BY <1>2, <1>6, <1>7, <1>8, <2>5
  <2> QED BY <1>3, <1>6, <1>8, <2>6 DEF N, M, R
<1>9. CASE l # k
  <2>1. /\ l \in DOMAIN R <=> l \in DOMAIN attrs
        /\ l \in DOMAIN attrs => R[l] = attrs[l]
    BY <1>2, <1>9
  <2>2. \A j \in DOMAIN a : /\ a[j] \in DOMAIN R <=> a[j] \in DOMAIN attrs
                            /\ a[j] \in DOMAIN attrs => R[a[j]] = attrs[a[j]]
    BY <1>1, <1>2, <1>3, <1>4, <1>9
  <2>3. CASE l \in DOMAIN attrs
    BY <1>6, <2>1, <2>3 DEF N, M, R
  <2>4. CASE l \notin DOMAIN attrs /\ NonePasses(a, DOMAIN attrs)
    <3>1. NonePasses(a, DOMAIN R)
      BY <2>2, <2>4 DEF NonePasses
    <3> QED BY <1>6, <1>7, <2>1, <2>4, <3>1 DEF N, M, R
  <2>5. ASSUME l \notin DOMAIN attrs, NEW m, FirstPlace(m, a, DOMAIN attrs)
        PROVE  l \in DOMAIN N /\ l \in DOMAIN M /\ N[l] = M[l]
    <3>1. FirstPlace(m, a, DOMAIN R) /\ R[a[m]] = attrs[a[m]]
      BY <2>2, <2>5 DEF FirstPlace
    <3> QED BY <1>6, <1>7, <2>1, <2>5, <3>1
  <2> DEFINE I == {i \in DOMAIN a : a[i] \in DOMAIN attrs}
  <2>6. IF I = {} THEN NonePasses(a, DOMAIN attrs) ELSE FirstPlace(Min(I), a, DOMAIN attrs)
    BY <1>1, FirstIsAt
  <2> HIDE DEF I
  <2> QED BY <2>3, <2>4, <2>5, <2>6 DEF N, M, R
<1> QED BY <1>8, <1>9

(* What a span costs only depends on its tokens and its model. *)
LEMMA SameCost ==
  ASSUME NEW x, NEW y, NEW pricings, x.tokens = y.tokens, x.model = y.model
  PROVE  CalculateTraceCost(<<x>>, pricings) = CalculateTraceCost(<<y>>, pricings)
<1>1. CalculateSpanCost(x, pricings) = CalculateSpanCost(y, pricings)
  BY DEF CalculateSpanCost
<1> DEFINE c == CalculateSpanCost(x, pricings)
           I == IF c = Nothing THEN {} ELSE {1}
           U == IF c = Nothing /\ x.tokens.total \notin {Nothing, 0} THEN {1} ELSE {}
           Add(s) == FoldLeft(LAMBDA p, q : p + q, 0, s)
           Currency(m) == pricings[Min({i \in DOMAIN pricings : pricings[i].model = m})].currency
           Told == [cost |-> IF c = Nothing THEN Nothing ELSE Add([i \in {1} |-> c]),
                    currency |-> IF c = Nothing THEN Nothing ELSE Currency(x.model),
                    unpriced |-> Cardinality(U)]
<1>2. ASSUME NEW z \in {x, y}
      PROVE  CalculateTraceCost(<<z>>, pricings) = Told
  <2>1. CalculateSpanCost(z, pricings) = c /\ z.tokens = x.tokens /\ z.model = x.model
    BY <1>1
  <2> HIDE DEF c
  <2> DEFINE s == <<z>>
             Cost(sp) == CalculateSpanCost(sp, pricings)
             K == {i \in DOMAIN s : Cost(s[i]) # Nothing}
             V == {i \in DOMAIN s : Cost(s[i]) = Nothing /\ s[i].tokens.total \notin {Nothing, 0}}
             priced == Picked(s, K)
             costs == [i \in DOMAIN priced |-> Cost(priced[i])]
             got == [cost |-> IF priced = << >> THEN Nothing ELSE Add(costs),
                     currency |-> IF priced = << >> THEN Nothing ELSE Currency(priced[1].model),
                     unpriced |-> Cardinality(V)]
  <2>2. CalculateTraceCost(s, pricings) = got
    BY DEF CalculateTraceCost
  <2>3. s \in Seq({z}) /\ DOMAIN s = {1} /\ s[1] = z
    OBVIOUS
  <2>4. K = I /\ V = U
    BY <2>1, <2>3
  <2>5. CASE c = Nothing
    <3>1. K = {}
      BY <2>4, <2>5
    <3>2. priced \in Seq({z}) /\ \E h : Lists(h, s, {}, priced)
      <4> HIDE DEF priced, s
      <4> QED BY <2>3, <3>1, PickedIs DEF priced
    <3>3. priced = << >>
      <4> HIDE DEF priced, s
      <4> QED BY <3>2 DEF Lists
    <3> HIDE DEF priced, V, U, K, Add, Currency
    <3> QED BY <2>2, <2>4, <2>5, <3>3
  <2>6. CASE c # Nothing
    <3>1. K = DOMAIN s
      BY <2>3, <2>4, <2>6
    <3>2. priced = s
      <4> HIDE DEF s, K
      <4> QED BY <2>3, <3>1, AllPicked
    <3>3. priced # << >> /\ priced[1].model = x.model /\ costs = [i \in {1} |-> c]
      <4>1. costs = [i \in {1} |-> Cost(s[i])]
        BY <2>3, <3>2
      <4>2. costs = [i \in {1} |-> c]
        BY <2>1, <4>1
      <4> HIDE DEF priced, costs
      <4> QED BY <2>1, <2>3, <3>2, <4>2
    <3> HIDE DEF priced, costs, V, U, K, Add, Currency
    <3> QED BY <2>2, <2>4, <2>6, <3>3
  <2> QED BY <2>5, <2>6
<1> HIDE DEF Told
<1> QED BY <1>2

(* Of a batch of a nil and a span, the span is translated. *)
LEMMA NilIsSkipped ==
  ASSUME NEW ps, ps # NilSpan
  PROVE  TranslateSpans(<<NilSpan, ps>>)[1] = TranslateSpan(ps)
<1> DEFINE s == <<NilSpan, ps>>
           I == {i \in DOMAIN s : s[i] # NilSpan}
           r == Picked(s, I)
<1>1. s \in Seq({NilSpan, ps}) /\ DOMAIN s = {1, 2} /\ s[1] = NilSpan /\ s[2] = ps
  OBVIOUS
<1>2. I = {2} /\ I \in SUBSET DOMAIN s
  <2> HIDE DEF s
  <2> QED BY <1>1
<1>3. TranslateSpans(s) = [i \in DOMAIN r |-> TranslateSpan(r[i])]
  BY DEF TranslateSpans
<1> HIDE DEF s, I
<1>4. PICK h : Lists(h, s, I, r)
  BY <1>1, <1>2, PickedIs
<1>5. 1 \in DOMAIN r /\ r[1] = ps
  <2>1. r \in Seq({NilSpan, ps})
    BY <1>1, <1>2, PickedIs
  <2> HIDE DEF r
  <2> QED BY <1>1, <1>2, <1>4, <2>1 DEF Lists
<1> HIDE DEF r
<1> QED BY <1>3, <1>5 DEF s

LEMMA RenamedMeaning ==
  ASSUME NEW attrs, NEW k, NEW f, Spelt(k, f, attrs)
  PROVE  Meaning(Renamed(attrs, k, f)) = Meaning(attrs)
<1> DEFINE R == Renamed(attrs, k, f)
           Ps(x) == [trace |-> 1, id |-> 1, parent |-> NoValue, start |-> 2, end |-> 1,
                     status |-> OK, attrs |-> x]
           Sp(x) == TranslateSpan(Ps(x))
           ModelOf(x) == LET N == NormalizeAttributes(x)
                         IN  IF Model \in DOMAIN N THEN N[Model] ELSE Nothing
<1>1. ASSUME NEW x
      PROVE  /\ Sp(x).tokens = DeriveTokenBuckets(x) /\ Sp(x).model = ModelOf(x)
             /\ Meaning(x) = <<Sp(x).tokens, Sp(x).model, CalculateTraceCost(<<Sp(x)>>, Pricings)>>
  <2>1. Ps(x) # NilSpan /\ Ps(x).attrs = x
    <3>1. "id" \in DOMAIN Ps(x) /\ "id" \notin DOMAIN NilSpan
      BY DEF NilSpan
    <3> QED BY <3>1
  <2>2. Meaning(x) = LET sp == TranslateSpans(<<NilSpan, Ps(x)>>)[1]
                     IN  <<sp.tokens, sp.model, CalculateTraceCost(<<sp>>, Pricings)>>
    BY DEF Meaning
  <2> HIDE DEF Ps
  <2>3. TranslateSpans(<<NilSpan, Ps(x)>>)[1] = Sp(x)
    BY <2>1, NilIsSkipped
  <2>4. /\ Sp(x).tokens = DeriveTokenBuckets(NormalizeAttributes(x))
        /\ Sp(x).model = ModelOf(x)
    BY <2>1 DEF TranslateSpan
  <2>5. DeriveTokenBuckets(NormalizeAttributes(x)) = DeriveTokenBuckets(x)
    BY NormalizedTokens
  <2> HIDE DEF Sp, ModelOf
  <2> QED BY <2>2, <2>3, <2>4, <2>5
<1>2. DeriveTokenBuckets(R) = DeriveTokenBuckets(attrs)
  <2>1. \A i \in 1 .. 4 : Buckets[i] \in DOMAIN AttrAliases
    <3>1. \A i \in 1 .. 4 : Buckets[i] \in Range(Buckets)
      BY DEF Buckets, Range
    <3> QED BY <3>1, AliasesAssumption
  <2>2. \A i \in 1 .. 4 : ReadUint32(R, Buckets[i]) = ReadUint32(attrs, Buckets[i])
    BY <2>1, RenamedReads
  <2> HIDE DEF R
  <2>3. [i \in 1 .. 4 |-> ReadUint32(R, Buckets[i])]
          = [i \in 1 .. 4 |-> ReadUint32(attrs, Buckets[i])]
    BY <2>2
  <2> QED BY <2>3 DEF DeriveTokenBuckets
<1>3. ModelOf(R) = ModelOf(attrs)
  <2>1. Model \in DOMAIN AttrAliases
    BY AliasesAssumption
  <2> QED BY <2>1, RenamedStored
<1> HIDE DEF R, Sp, ModelOf
<1>4. Sp(R).tokens = Sp(attrs).tokens /\ Sp(R).model = Sp(attrs).model
  BY <1>1, <1>2, <1>3
<1>5. CalculateTraceCost(<<Sp(R)>>, Pricings) = CalculateTraceCost(<<Sp(attrs)>>, Pricings)
  BY <1>4, SameCost
<1>6. Meaning(R) = Meaning(attrs)
  BY <1>1, <1>4, <1>5
<1> QED BY <1>6 DEF R

-----------------------------------------------------------------------------
(* A log and its level.  A list of one list is that list. *)
LEMMA FlattenOne ==
  ASSUME NEW seqs, Len(seqs) = 1
  PROVE  FlattenSeq(seqs) = seqs[1]
<1> DEFINE h == [i \in 1 .. 1 |-> seqs[1]]
<1>1. h = [i \in 1 .. 1 |-> IF i = 1 THEN seqs[i] ELSE h[i - 1] \o seqs[i]]
  <2>1. \A i \in 1 .. 1 : i = 1
    OBVIOUS
  <2>2. [i \in 1 .. 1 |-> IF i = 1 THEN seqs[i] ELSE h[i - 1] \o seqs[i]] = [i \in 1 .. 1 |-> seqs[1]]
    <3> HIDE DEF h
    <3> QED BY <2>1
  <2> QED BY <2>2
<1>2. h[1] = seqs[1]
  OBVIOUS
<1> HIDE DEF h
<1>3. Joins(seqs, 1, h)
  BY <1>1 DEF Joins
<1>4. 1 \in Nat \ {0}
  OBVIOUS
<1> DEFINE n == 1
<1>5. n \in Nat \ {0} /\ Len(seqs) = n /\ Joins(seqs, n, h)
  BY <1>3, <1>4
<1> HIDE DEF n
<1>6. FlattenSeq(seqs) = h[n]
  BY <1>5, FlattenIs
<1> QED BY <1>2, <1>6 DEF n

LEMMA StoredIs ==
  ASSUME NEW lr
  PROVE  Stored(lr).severity = IF lr.number = Unspecified /\ lr.text # Nothing
                               THEN TextLabel[lr.text] ELSE NumberLabel[lr.number]
<1> DEFINE scope == [attrs |-> << >>, records |-> <<lr>>]
           resource == [attrs |-> << >>, scopes |-> <<scope>>]
           resources == <<resource>>
           Record(l, r, s) == TranslateLogRecord(l, r.attrs, s.attrs)
           InScope(r, s) == [l \in DOMAIN s.records |-> Record(s.records[l], r, s)]
           InResource(r) == FlattenSeq([s \in DOMAIN r.scopes |-> InScope(r, r.scopes[s])])
           all == FlattenSeq([r \in DOMAIN resources |-> InResource(resources[r])])
<1>1. Stored(lr) = all[1]
  BY DEF Stored, TranslateLogs
<1>2. /\ scope.records = <<lr>> /\ resource.scopes = <<scope>>
      /\ DOMAIN resources = 1 .. 1 /\ resources[1] = resource
  OBVIOUS
<1>3. Record(lr, resource, scope).severity
        = IF lr.number = Unspecified /\ lr.text # Nothing
          THEN TextLabel[lr.text] ELSE NumberLabel[lr.number]
  BY DEF TranslateLogRecord
<1> HIDE DEF scope, resource, resources, Record
<1>4. InScope(resource, scope)[1] = Record(lr, resource, scope)
  BY <1>2
<1> HIDE DEF InScope
<1>5. InResource(resource) = InScope(resource, scope)
  <2> DEFINE seqs == [s \in DOMAIN resource.scopes |-> InScope(resource, resource.scopes[s])]
  <2>1. Len(seqs) = 1 /\ seqs[1] = InScope(resource, scope)
    BY <1>2
  <2> HIDE DEF seqs
  <2>2. FlattenSeq(seqs) = seqs[1]
    BY <2>1, FlattenOne
  <2> QED BY <2>1, <2>2 DEF seqs
<1> HIDE DEF InResource
<1>6. all = InResource(resource)
  <2> DEFINE seqs == [r \in DOMAIN resources |-> InResource(resources[r])]
  <2>1. Len(seqs) = 1 /\ seqs[1] = InResource(resource)
    BY <1>2
  <2> HIDE DEF seqs
  <2>2. FlattenSeq(seqs) = seqs[1]
    BY <2>1, FlattenOne
  <2> QED BY <2>1, <2>2 DEF seqs
<1> QED BY <1>1, <1>3, <1>4, <1>5, <1>6

(* Both stores find a log by its severity exactly if that is its label. *)
LEMMA FoundIs ==
  ASSUME NEW severity, Upper[severity] = severity
  PROVE  Found(severity) <=> severity = Label
<1> DEFINE l == [severity |-> severity]
           query == [severity |-> Label, event |-> NoValue, body |-> NoValue, trace |-> NoValue,
                     span |-> NoValue, from |-> 0, to |-> 0]
           Passes(column, op, v) == Selected(l, Clause(column, op, v))
<1>1. Upper[Label] = Label /\ Given(Label) /\ ~Given(NoValue) /\ ~Given(0)
  BY LabelsAssumption DEF Given
<1>2. /\ query.severity = Label /\ query.event = NoValue /\ query.body = NoValue
      /\ query.trace = NoValue /\ query.span = NoValue /\ query.from = 0 /\ query.to = 0
      /\ l.severity = severity
  OBVIOUS
<1>3. Found(severity) <=> MemLogSelects(l, query) /\ SqlLogSelects(l, query)
  BY DEF Found
<1> HIDE DEF l, query
<1>4. SqlLogSelects(l, query) <=>
        /\ Passes("severity", "=", query.severity) /\ Passes("event", "=", query.event)
        /\ Passes("body", "LIKE", query.body) /\ Passes("trace", "=", query.trace)
        /\ Passes("span", "=", query.span)
        /\ Passes("time", ">=", query.from) /\ Passes("time", "<=", query.to)
  BY DEF SqlLogSelects, Selected, LogClauses
<1>5. \A column, v :
        /\ Passes(column, "=", v) <=> (Given(v) => l[column] = v)
        /\ Passes(column, ">=", v) <=> (Given(v) => l[column] # NoValue /\ l[column] >= v)
        /\ Passes(column, "<=", v) <=> (Given(v) => l[column] # NoValue /\ l[column] <= v)
        /\ Passes(column, "LIKE", v) <=> (Given(v) => <<l[column], v>> \in Like)
  BY ClauseIs
<1> HIDE DEF Passes
<1>8. \A column : /\ Passes(column, "=", NoValue) /\ Passes(column, "LIKE", NoValue)
                   /\ Passes(column, ">=", 0) /\ Passes(column, "<=", 0)
  BY <1>1, <1>5
<1>9. Passes("severity", "=", Label) <=> severity = Label
  BY <1>1, <1>2, <1>5
<1>6. SqlLogSelects(l, query) <=> severity = Label
  BY <1>2, <1>4, <1>8, <1>9
<1>7. MemLogSelects(l, query) <=> severity = Label
  BY <1>1, <1>2 DEF MemLogSelects
<1> QED BY <1>3, <1>6, <1>7

(* Whatever an agent calls an attribute, the tokens, the model and the     *)
(* price of its span are the same, and what is stored has the tokens of    *)
(* what came; a log is found in both stores by the level it came with.     *)
THEOREM SpellingNeverMatters == InputSpec => []SpellingDoesNotMatter
<1>1. InputFits => SpellingDoesNotMatter
  <2>1. DeriveTokenBuckets(NormalizeAttributes(Attrs)) = DeriveTokenBuckets(Attrs)
    BY NormalizedTokens
  <2>2. ASSUME NEW k \in DOMAIN AttrAliases \cap DOMAIN Attrs, NEW f \in Range(AttrAliases[k]),
               Range(AttrAliases[k]) \cap DOMAIN Attrs = {}
        PROVE  Meaning(Renamed(Attrs, k, f)) = Meaning(Attrs)
    <3>1. Spelt(k, f, Attrs)
      BY <2>2 DEF Spelt
    <3> QED BY <3>1, RenamedMeaning
  <2>3. ASSUME InputFits, kind = "log", NEW i \in DOMAIN input
        PROVE  Level(input[i]) = Label <=> Found(Stored(input[i]).severity)
    <3> DEFINE lr == input[i]
               s == Stored(lr).severity
    <3>1. lr \in AllOf("log")
      BY <2>3 DEF InputFits
    <3>2. lr.number \in DOMAIN NumberLabel /\ lr.text \in DOMAIN TextLabel \cup {Nothing}
      BY <3>1, LabelsAssumption
    <3>3. s = IF lr.number = Unspecified /\ lr.text # Nothing
              THEN TextLabel[lr.text] ELSE NumberLabel[lr.number]
      BY StoredIs
    <3> HIDE DEF lr, s
    <3>4. s \in Range(NumberLabel) \cup Range(TextLabel)
      BY <3>2, <3>3 DEF Range
    <3>5. Upper[s] = s
      BY <3>4, LabelsAssumption
    <3>6. Found(s) <=> s = Label
      BY <3>5, FoundIs
    <3>7. Level(lr) = Label <=> s = Label
      BY <3>3, LabelsAssumption DEF Level
    <3> QED BY <3>6, <3>7 DEF lr, s
  <2> QED BY <2>1, <2>2, <2>3 DEF SpellingDoesNotMatter
<1> QED BY <1>1, InputInvariance, PTL
-----------------------------------------------------------------------------
(* A fold in the order of the positions S, over values in V: next[n] takes *)
(* what the positions before n made to what n makes of it.                 *)
Folding(next, v, S, g) ==
  g = [T \in SUBSET S |-> IF T = {} THEN v ELSE next[Max(T)][g[T \ {Max(T)}]]]
Folded(next, v, T, g) == g[T] = IF T = {} THEN v ELSE next[Max(T)][g[T \ {Max(T)}]]

LEMMA FoldingAt ==
  ASSUME NEW next, NEW v, NEW S, NEW g, Folding(next, v, S, g), NEW T \in SUBSET S
  PROVE  Folded(next, v, T, g)
<1> DEFINE body(U) == IF U = {} THEN v ELSE next[Max(U)][g[U \ {Max(U)}]]
<1>1. g = [U \in SUBSET S |-> body(U)]
  BY DEF Folding
<1>2. g[T] = body(T)
  <2> HIDE DEF body
  <2> QED BY <1>1
<1> QED BY <1>2 DEF Folded

LEMMA FoldingsAgree ==
  ASSUME NEW next, NEW v, NEW S \in SUBSET Nat, NEW T \in SUBSET S, IsFiniteSet(T),
         NEW g, Folding(next, v, S, g), NEW h, Folding(next, v, T, h)
  PROVE  g[T] = h[T]
<1> DEFINE Good == {U \in SUBSET T : g[U] = h[U]}
<1>1. ASSUME NEW U \in SUBSET T, \A W \in SUBSET U : W # U => W \in Good
      PROVE  U \in Good
  <2>1. CASE U = {}
    <3>1. U \in SUBSET S /\ U \in SUBSET T
      OBVIOUS
    <3>2. Folded(next, v, U, g) /\ Folded(next, v, U, h)
      BY <3>1, FoldingAt
    <3>3. g[U] = h[U]
      BY <2>1, <3>2 DEF Folded
    <3> QED BY <3>3
  <2>2. CASE U # {}
    <3> DEFINE m == Max(U)
               W == U \ {m}
    <3>1. m \in U
      BY <2>2, FS_Subset, FiniteMax
    <3>2. Folded(next, v, U, g) /\ Folded(next, v, U, h)
      <4>1. U \in SUBSET S /\ U \in SUBSET T
        OBVIOUS
      <4> QED BY <4>1, FoldingAt
    <3>3. g[U] = next[m][g[W]] /\ h[U] = next[m][h[W]]
      BY <2>2, <3>2 DEF Folded
    <3>4. g[W] = h[W]
      BY <1>1, <3>1
    <3> HIDE DEF W, m
    <3> QED BY <3>3, <3>4
  <2> QED BY <2>1, <2>2
<1> HIDE DEF Good
<1>2. T \in Good
  BY <1>1, SubsetInduction
<1> QED BY <1>2 DEF Good

LEMMA FoldingExists ==
  ASSUME NEW next, NEW v, NEW S \in SUBSET Nat, IsFiniteSet(S)
  PROVE  \E g : Folding(next, v, S, g)
<1> DEFINE Over(T) == (CHOOSE g : Folding(next, v, T, g))[T]
           Good == {T \in SUBSET S : \E g : Folding(next, v, T, g)}
<1>1. ASSUME NEW T \in SUBSET S, \A U \in SUBSET T : U # T => U \in Good
      PROVE  T \in Good
  <2> DEFINE turn(U) == IF U = {} THEN v ELSE next[Max(U)][Over(U \ {Max(U)})]
             g == [U \in SUBSET T |-> turn(U)]
  <2>0. ASSUME NEW U \in SUBSET T, U # {} PROVE Max(U) \in U
    BY <2>0, FS_Subset, FiniteMax
  <2>1. ASSUME NEW U \in SUBSET T, U # T PROVE turn(U) = Over(U)
    <3>1. PICK h : Folding(next, v, U, h) /\ Over(U) = h[U]
      BY <1>1, <2>1
    <3>2. CASE U = {}
      <4>1. U \in SUBSET U
        OBVIOUS
      <4>2. Folded(next, v, U, h)
        BY <3>1, <4>1, FoldingAt
      <4>3. h[U] = v
        BY <3>2, <4>2 DEF Folded
      <4> HIDE DEF Over
      <4> QED BY <3>1, <3>2, <4>3
    <3>3. CASE U # {}
      <4> DEFINE W == U \ {Max(U)}
      <4>1. W \in SUBSET U /\ W \in SUBSET T /\ W # T
        BY <2>0, <2>1, <3>3
      <4>2. PICK k : Folding(next, v, W, k) /\ Over(W) = k[W]
        BY <1>1, <4>1
      <4>3. IsFiniteSet(W) /\ U \in SUBSET Nat
        BY <4>1, FS_Subset
      <4>4. h[W] = k[W]
        <5> HIDE DEF W
        <5> QED BY <3>1, <4>1, <4>2, <4>3, FoldingsAgree
      <4>5. h[U] = next[Max(U)][h[W]]
        BY <3>1, <3>3, FoldingAt DEF Folded
      <4>6. turn(U) = next[Max(U)][Over(W)]
        BY <3>3
      <4> HIDE DEF W, turn, Over
      <4> QED BY <3>1, <4>2, <4>4, <4>5, <4>6
    <3> HIDE DEF turn, Over
    <3> QED BY <3>2, <3>3
  <2>2. ASSUME NEW U \in SUBSET T, U # {} PROVE Over(U \ {Max(U)}) = g[U \ {Max(U)}]
    <3>1. U \ {Max(U)} \in SUBSET T /\ U \ {Max(U)} # T
      BY <2>0, <2>2
    <3> HIDE DEF turn, Over
    <3> QED BY <2>1, <3>1
  <2>3. Folding(next, v, T, g)
    <3>1. ASSUME NEW U \in SUBSET T
          PROVE  turn(U) = IF U = {} THEN v ELSE next[Max(U)][g[U \ {Max(U)}]]
      <4> HIDE DEF g, Over
      <4> QED BY <2>2
    <3> HIDE DEF turn, Over
    <3>2. g = [U \in SUBSET T |-> IF U = {} THEN v ELSE next[Max(U)][g[U \ {Max(U)}]]]
      <4> HIDE DEF g
      <4>1. g = [U \in SUBSET T |-> turn(U)]
        BY DEF g
      <4> QED BY <3>1, <4>1
    <3> HIDE DEF g
    <3> QED BY <3>2 DEF Folding
  <2> HIDE DEF g
  <2> QED BY <2>3
<1> HIDE DEF Good
<1>2. S \in Good
  BY <1>1, SubsetInduction
<1> QED BY <1>2 DEF Good

(* The values of a fold stay in V. *)
LEMMA FoldingIn ==
  ASSUME NEW V, NEW v \in V, NEW S \in SUBSET Nat, IsFiniteSet(S), NEW next \in [S -> [V -> V]],
         NEW g, Folding(next, v, S, g), NEW T \in SUBSET S
  PROVE  g[T] \in V
<1> DEFINE Good == {U \in SUBSET T : g[U] \in V}
<1>1. ASSUME NEW U \in SUBSET T, \A W \in SUBSET U : W # U => W \in Good
      PROVE  U \in Good
  <2>0. Folded(next, v, U, g) /\ IsFiniteSet(U) /\ U \in SUBSET Nat /\ U \in SUBSET S
    <3>1. U \in SUBSET S
      OBVIOUS
    <3> QED BY <3>1, FoldingAt, FS_Subset
  <2>1. CASE U = {}
    BY <2>0, <2>1 DEF Folded
  <2>2. CASE U # {}
    <3> DEFINE m == Max(U)
    <3>1. m \in U
      BY <2>0, <2>2, FiniteMax
    <3>2. g[U] = next[m][g[U \ {m}]]
      BY <2>0, <2>2 DEF Folded
    <3> HIDE DEF m
    <3>3. g[U \ {m}] \in V /\ m \in S
      BY <1>1, <3>1
    <3> QED BY <3>2, <3>3
  <2> QED BY <2>1, <2>2
<1> HIDE DEF Good
<1>2. IsFiniteSet(T)
  BY FS_Subset
<1>3. T \in Good
  BY <1>1, <1>2, SubsetInduction
<1> QED BY <1>3 DEF Good

(* The positions up to n + 1, in the order of a loop. *)
LEMMA LastOfInterval ==
  ASSUME NEW n \in Nat
  PROVE  /\ Max(1 .. n + 1) = n + 1 /\ (1 .. n + 1) \ {n + 1} = 1 .. n
         /\ 1 .. n + 1 # {} /\ 1 .. 0 = {}
<1>1. (1 .. n + 1) \in SUBSET Nat /\ n + 1 \in 1 .. n + 1 /\ \A i \in 1 .. n + 1 : i <= n + 1
  OBVIOUS
<1>2. Max(1 .. n + 1) = n + 1
  BY <1>1, MaxIs
<1>3. (1 .. n + 1) \ {n + 1} = 1 .. n /\ 1 .. n + 1 # {} /\ 1 .. 0 = {}
  OBVIOUS
<1> QED BY <1>2, <1>3

-----------------------------------------------------------------------------
(* Retries.  The recursion of the fold of RetryStep, as an equation, and   *)
(* what it leads to call by call.                                          *)
RetryCounts == [errors : Nat, retries : Nat]
NoRetries == [errors |-> 0, retries |-> 0]
RetryFold(s, S, g) ==
  g = [T \in SUBSET S |-> IF T = {} THEN NoRetries ELSE RetryStep(g[T \ {Max(T)}], s[Max(T)])]
RetryTurns(s, h) ==
  /\ h[0] = NoRetries
  /\ \A n \in Nat : n < Len(s) => h[n + 1] = RetryStep(h[n], s[n + 1])

LEMMA RetryStepIs ==
  ASSUME NEW a \in RetryCounts, NEW sp
  PROVE  /\ sp.status = ERROR => RetryStep(a, sp) = [errors |-> a.errors + 1, retries |-> a.retries]
         /\ sp.status # ERROR =>
              RetryStep(a, sp) = [errors |-> 0,
                 retries |-> IF sp.status = OK THEN a.retries + a.errors ELSE a.retries]
         /\ RetryStep(a, sp) \in RetryCounts
<1>1. a = [errors |-> a.errors, retries |-> a.retries] /\ a.errors \in Nat /\ a.retries \in Nat
  BY DEF RetryCounts
<1>2. [a EXCEPT !.errors = @ + 1] = [errors |-> a.errors + 1, retries |-> a.retries]
  BY DEF RetryCounts
<1>3. [a EXCEPT !.errors = 0] = [errors |-> 0, retries |-> a.retries]
  BY DEF RetryCounts
<1>4. CASE sp.status = ERROR
  <2>1. sp.status # OK
    BY <1>4, CallsAssumption
  <2>2. RetryStep(a, sp) = [a EXCEPT !.errors = @ + 1]
    BY <1>4, <2>1 DEF RetryStep
  <2> QED BY <1>1, <1>2, <1>4, <2>2 DEF RetryCounts
<1>5. CASE sp.status # ERROR /\ sp.status = OK /\ a.errors > 0
  BY <1>1, <1>5 DEF RetryStep, RetryCounts
<1>6. CASE sp.status # ERROR /\ ~(sp.status = OK /\ a.errors > 0)
  <2>1. RetryStep(a, sp) = [errors |-> 0, retries |-> a.retries]
    BY <1>3, <1>6 DEF RetryStep
  <2>2. sp.status = OK => a.retries + a.errors = a.retries
    BY <1>1, <1>6
  <2> QED BY <1>1, <1>6, <2>1, <2>2 DEF RetryCounts
<1> QED BY <1>4, <1>5, <1>6

LEMMA RetriesFold ==
  ASSUME NEW s, IsSeq(s)
  PROVE  \E h : RetryTurns(s, h) /\ Retries(s) = h[Len(s)].retries
<1> DEFINE S == DOMAIN s
           V == RetryCounts
           next == [n \in S |-> [a \in V |-> RetryStep(a, s[n])]]
<1>1. S = 1 .. Len(s) /\ Len(s) \in Nat /\ S \in SUBSET Nat /\ IsFiniteSet(S)
  <2>1. S = 1 .. Len(s) /\ Len(s) \in Nat
    BY SeqIs
  <2> HIDE DEF S
  <2> QED BY <2>1, FS_Interval
<1>2. next \in [S -> [V -> V]] /\ NoRetries \in V
  <2>1. \A n \in S : \A a \in V : RetryStep(a, s[n]) \in V
    BY RetryStepIs
  <2> HIDE DEF V, S
  <2> QED BY <2>1 DEF NoRetries, RetryCounts, V
<1>3. \A n \in S, a \in V : next[n][a] = RetryStep(a, s[n])
  OBVIOUS
<1> HIDE DEF next, V
<1>4. PICK k : Folding(next, NoRetries, S, k)
  BY <1>1, FoldingExists
<1>5. \A T \in SUBSET S : k[T] \in V
  BY <1>1, <1>2, <1>4, FoldingIn
<1>6. RetryFold(s, S, k)
  <2> DEFINE old(T) == IF T = {} THEN NoRetries ELSE next[Max(T)][k[T \ {Max(T)}]]
             new(T) == IF T = {} THEN NoRetries ELSE RetryStep(k[T \ {Max(T)}], s[Max(T)])
  <2>1. k = [T \in SUBSET S |-> old(T)]
    BY <1>4 DEF Folding
  <2>2. ASSUME NEW T \in SUBSET S PROVE old(T) = new(T)
    <3>1. CASE T = {}
      BY <3>1
    <3>2. CASE T # {}
      <4>1. Max(T) \in T
        BY <1>1, <3>2, FS_Subset, FiniteMax
      <4> DEFINE m == Max(T)
      <4> HIDE DEF m
      <4>2. next[m][k[T \ {m}]] = RetryStep(k[T \ {m}], s[m])
        BY <1>3, <1>5, <4>1 DEF m
      <4> QED BY <3>2, <4>2 DEF m
    <3> HIDE DEF old, new
    <3> QED BY <3>1, <3>2
  <2>3. k = [T \in SUBSET S |-> new(T)]
    <3> HIDE DEF old, new
    <3> QED BY <2>1, <2>2
  <2> HIDE DEF S
  <2> QED BY <2>3 DEF RetryFold
<1> DEFINE g == CHOOSE f : RetryFold(s, S, f)
           h == [n \in 0 .. Len(s) |-> g[1 .. n]]
<1>7. RetryFold(s, S, g)
  BY <1>6
<1>8. Retries(s) = g[S].retries
  BY DEF Retries, FoldLeft, MapThenFoldSet, RetryFold, NoRetries
<1> HIDE DEF g
<1>9. ASSUME NEW T \in SUBSET S
      PROVE  g[T] = IF T = {} THEN NoRetries ELSE RetryStep(g[T \ {Max(T)}], s[Max(T)])
  <2> DEFINE new(U) == IF U = {} THEN NoRetries ELSE RetryStep(g[U \ {Max(U)}], s[Max(U)])
  <2>1. g = [U \in SUBSET S |-> new(U)]
    BY <1>7 DEF RetryFold
  <2>2. g[T] = new(T)
    <3> HIDE DEF new, S
    <3> QED BY <2>1
  <2> QED BY <2>2
<1>10. g[1 .. 0] = NoRetries
  <2>1. (1 .. 0) \in SUBSET S /\ 1 .. 0 = {}
    OBVIOUS
  <2> QED BY <1>9, <2>1
<1>11. ASSUME NEW n \in Nat, n < Len(s) PROVE g[1 .. n + 1] = RetryStep(g[1 .. n], s[n + 1])
  <2>1. (1 .. n + 1) \in SUBSET S
    BY <1>1, <1>11
  <2> DEFINE N == 1 .. n + 1
             m == n + 1
  <2>2. Max(N) = m /\ N \ {m} = 1 .. n /\ N # {}
    BY LastOfInterval
  <2> HIDE DEF N, m
  <2>3. g[N] = RetryStep(g[N \ {Max(N)}], s[Max(N)])
    BY <1>9, <2>1, <2>2 DEF N, m
  <2>4. g[N] = RetryStep(g[1 .. n], s[m])
    BY <2>2, <2>3
  <2> QED BY <2>4 DEF N, m
<1>12. RetryTurns(s, h)
  <2>1. h[0] = NoRetries
    BY <1>1, <1>10
  <2>2. ASSUME NEW n \in Nat, n < Len(s) PROVE h[n + 1] = RetryStep(h[n], s[n + 1])
    <3>1. n \in 0 .. Len(s) /\ n + 1 \in 0 .. Len(s)
      BY <1>1, <2>2
    <3>2. h[n] = g[1 .. n] /\ h[n + 1] = g[1 .. n + 1]
      BY <3>1
    <3> HIDE DEF h
    <3> QED BY <1>11, <2>2, <3>2
  <2> HIDE DEF h
  <2> QED BY <2>1, <2>2 DEF RetryTurns
<1>13. h[Len(s)] = g[S]
  BY <1>1
<1> HIDE DEF h
<1> QED BY <1>8, <1>12, <1>13

(* Which of the first n calls were retried, and how many errors in a row   *)
(* end there.                                                              *)
RetriedBy(s, n) ==
  {i \in 1 .. n : \E j \in i + 1 .. n :
     s[j].status = OK /\ \A k \in i .. j - 1 : s[k].status = ERROR}
Failing(s, n, e) ==
  /\ e \in 0 .. n /\ \A k \in n - e + 1 .. n : s[k].status = ERROR
  /\ e < n => s[n - e].status # ERROR

LEMMA RetriedNext ==
  ASSUME NEW s, NEW n \in Nat, NEW e, Failing(s, n, e)
  PROVE  /\ s[n + 1].status = ERROR =>
              RetriedBy(s, n + 1) = RetriedBy(s, n) /\ Failing(s, n + 1, e + 1)
         /\ s[n + 1].status # ERROR => Failing(s, n + 1, 0)
         /\ s[n + 1].status \notin {OK, ERROR} => RetriedBy(s, n + 1) = RetriedBy(s, n)
         /\ s[n + 1].status = OK =>
              /\ RetriedBy(s, n + 1) = RetriedBy(s, n) \cup (n - e + 1 .. n)
              /\ RetriedBy(s, n) \cap (n - e + 1 .. n) = {}
<1> DEFINE Recovers(i, j) == s[j].status = OK /\ \A k \in i .. j - 1 : s[k].status = ERROR
<1>0. /\ \A m, i : i \in RetriedBy(s, m) <=> i \in 1 .. m /\ \E j \in i + 1 .. m : Recovers(i, j)
      /\ OK # ERROR
  BY CallsAssumption DEF RetriedBy
<1>1. e \in Nat /\ e <= n /\ (\A k \in n - e + 1 .. n : s[k].status = ERROR)
      /\ (e < n => s[n - e].status # ERROR)
  BY DEF Failing
<1>2. \A i \in Nat, j \in Nat : Recovers(i, j) <=>
        s[j].status = OK /\ \A k \in Nat : i <= k /\ k < j => s[k].status = ERROR
  OBVIOUS
<1> HIDE DEF Recovers
<1>3. ASSUME NEW i \in RetriedBy(s, n) PROVE i \in RetriedBy(s, n + 1)
  BY <1>0
<1>4. ASSUME NEW i \in RetriedBy(s, n + 1)
      PROVE  i \in RetriedBy(s, n) \/ (i \in 1 .. n /\ Recovers(i, n + 1))
  <2>1. i \in 1 .. n + 1
    BY <1>0
  <2>2. PICK j \in i + 1 .. n + 1 : Recovers(i, j)
    BY <1>0
  <2>3. CASE j = n + 1
    BY <2>1, <2>2, <2>3
  <2>4. CASE j # n + 1
    <3>1. i \in 1 .. n /\ j \in i + 1 .. n
      BY <2>1, <2>2, <2>4
    <3> QED BY <1>0, <2>2, <3>1
  <2> QED BY <2>3, <2>4
<1>5. ASSUME s[n + 1].status # OK PROVE RetriedBy(s, n + 1) = RetriedBy(s, n)
  <2>1. \A i \in 1 .. n : ~Recovers(i, n + 1)
    BY <1>2, <1>5
  <2> QED BY <1>3, <1>4, <2>1
<1>6. ASSUME s[n + 1].status = ERROR PROVE Failing(s, n + 1, e + 1)
  <2>1. /\ e + 1 \in 0 .. n + 1 /\ (n + 1) - (e + 1) + 1 = n - e + 1 /\ (n + 1) - (e + 1) = n - e
        /\ e + 1 < n + 1 <=> e < n
    BY <1>1
  <2>2. \A k \in n - e + 1 .. n + 1 : s[k].status = ERROR
    <3>1. \A k \in n - e + 1 .. n + 1 : k = n + 1 \/ k \in n - e + 1 .. n
      BY <1>1
    <3> QED BY <1>1, <1>6, <3>1
  <2> QED BY <1>1, <2>1, <2>2 DEF Failing
<1>7. ASSUME s[n + 1].status # ERROR PROVE Failing(s, n + 1, 0)
  <2>1. 0 \in 0 .. n + 1 /\ (n + 1) - 0 = n + 1 /\ (n + 1) - 0 + 1 .. n + 1 = {}
    OBVIOUS
  <2> QED BY <1>7, <2>1 DEF Failing
<1>8. \A i \in n - e + 1 .. n : i \in 1 .. n
  BY <1>1
<1>9. ASSUME s[n + 1].status = OK, NEW i \in 1 .. n
      PROVE  Recovers(i, n + 1) <=> i \in n - e + 1 .. n
  <2>1. ASSUME Recovers(i, n + 1) PROVE i \in n - e + 1 .. n
    <3>1. \A k \in Nat : i <= k /\ k < n + 1 => s[k].status = ERROR
      BY <1>2, <2>1
    <3>2. SUFFICES ASSUME i <= n - e PROVE FALSE
      BY <1>1
    <3>3. n - e \in Nat /\ i <= n - e /\ n - e < n + 1 /\ e < n
      BY <1>1, <3>2
    <3> QED BY <1>1, <3>1, <3>3
  <2>2. ASSUME i \in n - e + 1 .. n PROVE Recovers(i, n + 1)
    <3>1. \A k \in Nat : i <= k /\ k < n + 1 => k \in n - e + 1 .. n
      BY <1>1, <2>2
    <3>2. \A k \in Nat : i <= k /\ k < n + 1 => s[k].status = ERROR
      BY <1>1, <3>1
    <3>3. i \in Nat /\ n + 1 \in Nat
      OBVIOUS
    <3> QED BY <1>2, <1>9, <3>2, <3>3
  <2> QED BY <2>1, <2>2
<1>10. ASSUME s[n + 1].status = OK
       PROVE  /\ RetriedBy(s, n + 1) = RetriedBy(s, n) \cup (n - e + 1 .. n)
              /\ RetriedBy(s, n) \cap (n - e + 1 .. n) = {}
  <2>1. \A i \in n - e + 1 .. n : i \in RetriedBy(s, n + 1)
    <3>1. \A i \in n - e + 1 .. n : i \in 1 .. n + 1 /\ n + 1 \in i + 1 .. n + 1
      BY <1>1
    <3> QED BY <1>0, <1>8, <1>9, <1>10, <3>1
  <2>2. \A i \in RetriedBy(s, n) : i \notin n - e + 1 .. n
    <3> SUFFICES ASSUME NEW i \in RetriedBy(s, n), i \in n - e + 1 .. n PROVE FALSE
      OBVIOUS
    <3>1. PICK j \in i + 1 .. n : Recovers(i, j)
      BY <1>0
    <3>2. i \in Nat /\ j \in Nat /\ j \in n - e + 1 .. n
      BY <1>1
    <3>3. s[j].status = OK
      BY <1>2, <3>1, <3>2
    <3> QED BY <1>0, <1>1, <3>2, <3>3
  <2> QED BY <1>3, <1>4, <1>9, <1>10, <2>1, <2>2
<1> QED BY <1>0, <1>5, <1>6, <1>7, <1>10

(* What RetryStep counts are the calls that were retried. *)
LEMMA RetriesAre ==
  ASSUME NEW s, IsSeq(s)
  PROVE  Retries(s) = Cardinality(Retried(s))
<1>0. Len(s) \in Nat /\ DOMAIN s = 1 .. Len(s)
  BY SeqIs
<1>1. PICK h : RetryTurns(s, h) /\ Retries(s) = h[Len(s)].retries
  BY RetriesFold
<1> DEFINE Right(n) == /\ h[n] \in RetryCounts /\ Failing(s, n, h[n].errors)
                       /\ IsFiniteSet(RetriedBy(s, n))
                       /\ h[n].retries = Cardinality(RetriedBy(s, n))
           Good == {n \in Nat : n <= Len(s) => Right(n)}
<1>2. 0 \in Good
  <2>1. h[0] = NoRetries
    BY <1>1 DEF RetryTurns
  <2>2. h[0] \in RetryCounts /\ h[0].errors = 0 /\ h[0].retries = 0
    BY <2>1 DEF NoRetries, RetryCounts
  <2>3. RetriedBy(s, 0) = {}
    BY DEF RetriedBy
  <2>4. Failing(s, 0, 0)
    BY DEF Failing
  <2>5. Right(0)
    BY <2>2, <2>3, <2>4, FS_EmptySet
  <2> HIDE DEF Right
  <2> QED BY <2>5
<1>3. ASSUME NEW n \in Nat, n \in Good PROVE n + 1 \in Good
  <2> SUFFICES ASSUME n + 1 <= Len(s) PROVE Right(n + 1)
    <3> HIDE DEF Right
    <3> QED OBVIOUS
  <2> DEFINE a == h[n]
             sp == s[n + 1]
             e == a.errors
             R == RetriedBy(s, n)
  <2>1. Right(n)
    <3> HIDE DEF Right
    <3> QED BY <1>0, <1>3
  <2>2. h[n + 1] = RetryStep(a, sp)
    BY <1>0, <1>1 DEF RetryTurns
  <2>3. /\ a \in RetryCounts /\ Failing(s, n, e) /\ IsFiniteSet(R) /\ a.retries = Cardinality(R)
    BY <2>1
  <2>4. /\ sp.status = ERROR => RetriedBy(s, n + 1) = R /\ Failing(s, n + 1, e + 1)
        /\ sp.status # ERROR => Failing(s, n + 1, 0)
        /\ sp.status \notin {OK, ERROR} => RetriedBy(s, n + 1) = R
        /\ sp.status = OK => /\ RetriedBy(s, n + 1) = R \cup (n - e + 1 .. n)
                             /\ R \cap (n - e + 1 .. n) = {}
    BY <2>3, RetriedNext
  <2>5. /\ sp.status = ERROR => h[n + 1] = [errors |-> e + 1, retries |-> a.retries]
        /\ sp.status # ERROR =>
              h[n + 1] = [errors |-> 0,
                 retries |-> IF sp.status = OK THEN a.retries + e ELSE a.retries]
        /\ h[n + 1] \in RetryCounts
    BY <2>2, <2>3, RetryStepIs
  <2>6. IsFiniteSet(n - e + 1 .. n) /\ Cardinality(n - e + 1 .. n) = e
    <3>1. e \in Nat /\ e <= n
      BY <2>3 DEF Failing
    <3> HIDE DEF e
    <3>2. n - e + 1 \in Int /\ n \in Int
      BY <3>1
    <3>3. /\ IsFiniteSet(n - e + 1 .. n)
          /\ Cardinality(n - e + 1 .. n) = IF n - e + 1 > n THEN 0 ELSE n - (n - e + 1) + 1
      BY <3>2, FS_Interval
    <3> QED BY <3>1, <3>3
  <2>7. OK # ERROR
    BY CallsAssumption
  <2> HIDE DEF a, sp, e, R
  <2>8. CASE sp.status = ERROR
    <3>1. h[n + 1].errors = e + 1 /\ h[n + 1].retries = a.retries
      BY <2>5, <2>8
    <3> QED BY <2>3, <2>4, <2>5, <2>8, <3>1
  <2>9. CASE sp.status # ERROR /\ sp.status # OK
    <3>1. h[n + 1].errors = 0 /\ h[n + 1].retries = a.retries
      BY <2>5, <2>9
    <3> QED BY <2>3, <2>4, <2>5, <2>9, <3>1
  <2>10. CASE sp.status = OK
    <3>1. h[n + 1].errors = 0 /\ h[n + 1].retries = a.retries + e
      BY <2>5, <2>7, <2>10
    <3> DEFINE I == n - e + 1 .. n
    <3>2. RetriedBy(s, n + 1) = R \cup I /\ R \cap I = {} /\ IsFiniteSet(I) /\ Cardinality(I) = e
      BY <2>4, <2>6, <2>10
    <3> HIDE DEF I
    <3>3. IsFiniteSet(R \cup I) /\ Cardinality(R \cup I) = Cardinality(R) + Cardinality(I)
      <4>1. /\ IsFiniteSet(R \cup I)
            /\ Cardinality(R \cup I) = Cardinality(R) + Cardinality(I) - Cardinality(R \cap I)
        BY <2>3, <3>2, FS_Union
      <4>2. Cardinality(R \cap I) = 0 /\ Cardinality(R) \in Nat /\ Cardinality(I) \in Nat
        BY <2>3, <3>2, FS_EmptySet, FS_CardinalityType
      <4> QED BY <4>1, <4>2
    <3> QED BY <2>3, <2>4, <2>5, <2>7, <2>10, <3>1, <3>2, <3>3
  <2> QED BY <2>8, <2>9, <2>10
<1> HIDE DEF Right
<1>4. Nat \subseteq Good
  <2> HIDE DEF Good
  <2> QED BY <1>2, <1>3, NatInSet
<1>5. Right(Len(s))
  BY <1>0, <1>4
<1>6. RetriedBy(s, Len(s)) = Retried(s)
  BY <1>0 DEF RetriedBy, Retried
<1> QED BY <1>1, <1>5, <1>6 DEF Right

-----------------------------------------------------------------------------
(* Loops.  The recursion of the fold of LoopStep, and what it leads to.    *)
LoopState(D) == [tool : D, run : Nat, longest : UNION {[C -> Nat] : C \in SUBSET D}]
FirstRun(t) == [tool |-> t, run |-> 1, longest |-> << >>]
LoopFold(s, v, S, g) ==
  g = [T \in SUBSET S |-> IF T = {} THEN v ELSE LoopStep(g[T \ {Max(T)}], s[Max(T)])]
LoopTurns(s, v, h) ==
  /\ h[0] = v
  /\ \A n \in Nat : n < Len(s) => h[n + 1] = LoopStep(h[n], s[n + 1])
Longer(t, a) ==
  IF t = a.tool /\ (t \notin DOMAIN a.longest \/ a.run > a.longest[t]) THEN a.run ELSE a.longest[t]

LEMMA EndRunIs ==
  ASSUME NEW D, NEW a \in LoopState(D)
  PROVE  /\ EndRun(a).tool = a.tool /\ EndRun(a).run = a.run
         /\ DOMAIN EndRun(a).longest = DOMAIN a.longest \cup {a.tool}
         /\ \A t \in DOMAIN a.longest \cup {a.tool} :
              EndRun(a).longest[t] = Longer(t, a) /\ Longer(t, a) \in Nat
         /\ EndRun(a) \in LoopState(D)
<1>1. PICK C \in SUBSET D : a.longest \in [C -> Nat]
  BY DEF LoopState
<1>2. a.tool \in D /\ a.run \in Nat /\ DOMAIN a.longest = C
  BY <1>1 DEF LoopState
<1> DEFINE B == C \cup {a.tool}
           w == [t \in B |-> Longer(t, a)]
<1>3. \A t \in B : Longer(t, a) \in Nat
  BY <1>1, <1>2 DEF Longer
<1>4. w \in [B -> Nat] /\ B \in SUBSET D
  BY <1>2, <1>3
<1>5. EndRun(a) = [a EXCEPT !.longest = w]
  BY <1>2 DEF EndRun, Longer
<1> HIDE DEF w
<1>6. EndRun(a).tool = a.tool /\ EndRun(a).run = a.run /\ EndRun(a).longest = w
  BY <1>5 DEF LoopState
<1>7. EndRun(a) \in LoopState(D)
  <2>1. w \in UNION {[A -> Nat] : A \in SUBSET D}
    BY <1>4
  <2> QED BY <1>5, <2>1 DEF LoopState
<1> QED BY <1>2, <1>3, <1>6, <1>7 DEF w

LEMMA LoopStepIs ==
  ASSUME NEW D, NEW a \in LoopState(D), NEW sp, sp.tool \in D
  PROVE  LET b == LoopStep(a, sp) IN
         /\ b \in LoopState(D) /\ b.tool = sp.tool
         /\ sp.tool = a.tool => b.run = a.run + 1 /\ b.longest = a.longest
         /\ sp.tool # a.tool => b.run = 1 /\ b.longest = EndRun(a).longest
<1>1. CASE sp.tool = a.tool
  BY <1>1 DEF LoopStep, LoopState
<1>2. CASE sp.tool # a.tool
  <2> DEFINE c == EndRun(a)
  <2>1. c \in LoopState(D)
    BY EndRunIs
  <2> HIDE DEF c
  <2>2. LoopStep(a, sp) = [c EXCEPT !.tool = sp.tool, !.run = 1]
    BY <1>2 DEF LoopStep, c
  <2>3. /\ LoopStep(a, sp) \in LoopState(D) /\ LoopStep(a, sp).tool = sp.tool
        /\ LoopStep(a, sp).run = 1 /\ LoopStep(a, sp).longest = c.longest
    <3> DEFINE L == UNION {[C -> Nat] : C \in SUBSET D}
    <3> HIDE DEF L
    <3>1. c \in [tool : D, run : Nat, longest : L]
      BY <2>1 DEF LoopState, L
    <3>2. LoopStep(a, sp) = [tool |-> sp.tool, run |-> 1, longest |-> c.longest]
      BY <2>2, <3>1
    <3>3. c.longest \in L /\ 1 \in Nat
      BY <3>1
    <3>4. LoopStep(a, sp) \in [tool : D, run : Nat, longest : L]
      BY <3>2, <3>3
    <3> QED BY <3>2, <3>4 DEF LoopState, L
  <2> QED BY <1>2, <2>3 DEF c
<1> QED BY <1>1, <1>2

LEMMA LoopsFold ==
  ASSUME NEW s, IsSeq(s), NEW D, NEW v \in LoopState(D), \A i \in DOMAIN s : s[i].tool \in D
  PROVE  \E h : LoopTurns(s, v, h) /\ FoldLeft(LoopStep, v, s) = h[Len(s)]
<1> DEFINE S == DOMAIN s
           V == LoopState(D)
           next == [n \in S |-> [a \in V |-> LoopStep(a, s[n])]]
<1>1. S = 1 .. Len(s) /\ Len(s) \in Nat /\ S \in SUBSET Nat /\ IsFiniteSet(S)
  <2>1. S = 1 .. Len(s) /\ Len(s) \in Nat
    BY SeqIs
  <2> HIDE DEF S
  <2> QED BY <2>1, FS_Interval
<1>2. next \in [S -> [V -> V]]
  <2>1. \A n \in S : \A a \in V : LoopStep(a, s[n]) \in V
    BY LoopStepIs
  <2> HIDE DEF V, S
  <2> QED BY <2>1
<1>3. \A n \in S, a \in V : next[n][a] = LoopStep(a, s[n])
  <2> HIDE DEF V, S
  <2> QED OBVIOUS
<1>0. v \in V
  OBVIOUS
<1> HIDE DEF next, V
<1>4. PICK k : Folding(next, v, S, k)
  BY <1>1, FoldingExists
<1>5. \A T \in SUBSET S : k[T] \in V
  BY <1>0, <1>1, <1>2, <1>4, FoldingIn
<1>6. LoopFold(s, v, S, k)
  <2> DEFINE old(T) == IF T = {} THEN v ELSE next[Max(T)][k[T \ {Max(T)}]]
             new(T) == IF T = {} THEN v ELSE LoopStep(k[T \ {Max(T)}], s[Max(T)])
  <2>1. k = [T \in SUBSET S |-> old(T)]
    BY <1>4 DEF Folding
  <2>2. ASSUME NEW T \in SUBSET S PROVE old(T) = new(T)
    <3>1. CASE T = {}
      BY <3>1
    <3>2. CASE T # {}
      <4>1. Max(T) \in T
        BY <1>1, <3>2, FS_Subset, FiniteMax
      <4> DEFINE m == Max(T)
      <4> HIDE DEF m
      <4>2. next[m][k[T \ {m}]] = LoopStep(k[T \ {m}], s[m])
        BY <1>3, <1>5, <4>1 DEF m
      <4> QED BY <3>2, <4>2 DEF m
    <3> HIDE DEF old, new
    <3> QED BY <3>1, <3>2
  <2>3. k = [T \in SUBSET S |-> new(T)]
    <3> HIDE DEF old, new
    <3> QED BY <2>1, <2>2
  <2> HIDE DEF S
  <2> QED BY <2>3 DEF LoopFold
<1> DEFINE g == CHOOSE f : LoopFold(s, v, S, f)
           h == [n \in 0 .. Len(s) |-> g[1 .. n]]
<1>7. LoopFold(s, v, S, g)
  BY <1>6
<1>8. FoldLeft(LoopStep, v, s) = g[S]
  BY DEF FoldLeft, MapThenFoldSet, LoopFold
<1> HIDE DEF g
<1>9. ASSUME NEW T \in SUBSET S
      PROVE  g[T] = IF T = {} THEN v ELSE LoopStep(g[T \ {Max(T)}], s[Max(T)])
  <2> DEFINE new(U) == IF U = {} THEN v ELSE LoopStep(g[U \ {Max(U)}], s[Max(U)])
  <2>1. g = [U \in SUBSET S |-> new(U)]
    BY <1>7 DEF LoopFold
  <2>2. g[T] = new(T)
    <3> HIDE DEF new, S
    <3> QED BY <2>1
  <2> QED BY <2>2
<1>10. g[1 .. 0] = v
  <2>1. (1 .. 0) \in SUBSET S /\ 1 .. 0 = {}
    OBVIOUS
  <2> QED BY <1>9, <2>1
<1>11. ASSUME NEW n \in Nat, n < Len(s) PROVE g[1 .. n + 1] = LoopStep(g[1 .. n], s[n + 1])
  <2>1. (1 .. n + 1) \in SUBSET S
    BY <1>1, <1>11
  <2> DEFINE N == 1 .. n + 1
             m == n + 1
  <2>2. Max(N) = m /\ N \ {m} = 1 .. n /\ N # {}
    BY LastOfInterval
  <2> HIDE DEF N, m
  <2>3. g[N] = LoopStep(g[N \ {Max(N)}], s[Max(N)])
    BY <1>9, <2>1, <2>2 DEF N, m
  <2>4. g[N] = LoopStep(g[1 .. n], s[m])
    BY <2>2, <2>3
  <2> QED BY <2>4 DEF N, m
<1>12. LoopTurns(s, v, h)
  <2>1. h[0] = v
    BY <1>1, <1>10
  <2>2. ASSUME NEW n \in Nat, n < Len(s) PROVE h[n + 1] = LoopStep(h[n], s[n + 1])
    <3>1. n \in 0 .. Len(s) /\ n + 1 \in 0 .. Len(s)
      BY <1>1, <2>2
    <3>2. h[n] = g[1 .. n] /\ h[n + 1] = g[1 .. n + 1]
      BY <3>1
    <3> HIDE DEF h
    <3> QED BY <1>11, <2>2, <3>2
  <2> HIDE DEF h
  <2> QED BY <2>1, <2>2 DEF LoopTurns
<1>13. h[Len(s)] = g[S]
  BY <1>1
<1> HIDE DEF h
<1> QED BY <1>8, <1>12, <1>13

(* A run of m calls of a tool after the i-th, its longest among the first  *)
(* n calls, and the run the n-th ends.                                     *)
RunAt(s, t, i, m) == \A k \in i + 1 .. i + m : s[k].tool = t
Longest(s, n, t, m) ==
  /\ m \in 0 .. n /\ \E i \in 0 .. n - m : RunAt(s, t, i, m)
  /\ \A l \in 0 .. n : (\E i \in 0 .. n - l : RunAt(s, t, i, l)) => l <= m
LastRun(s, n, r) ==
  /\ r \in 1 .. n /\ RunAt(s, s[n].tool, n - r, r)
  /\ r < n => s[n - r].tool # s[n].tool

LEMMA NoRun ==
  ASSUME NEW s, NEW n \in Nat, NEW t, \A i \in 1 .. n : s[i].tool # t
  PROVE  Longest(s, n, t, 0)
<1>1. ASSUME NEW l \in 0 .. n, NEW i \in 0 .. n - l, RunAt(s, t, i, l) PROVE l <= 0
  <2> SUFFICES ASSUME l > 0 PROVE FALSE
    OBVIOUS
  <2>1. i + 1 \in i + 1 .. i + l /\ i + 1 \in 1 .. n
    OBVIOUS
  <2> QED BY <1>1, <2>1 DEF RunAt
<1>2. RunAt(s, t, 0, 0) /\ 0 \in 0 .. n - 0 /\ 0 \in 0 .. n
  BY DEF RunAt
<1> QED BY <1>1, <1>2 DEF Longest

LEMMA OtherRun ==
  ASSUME NEW s, NEW n \in Nat, NEW t, NEW m, Longest(s, n, t, m), s[n + 1].tool # t
  PROVE  Longest(s, n + 1, t, m)
<1>1. m \in 0 .. n /\ \A l \in 0 .. n : (\E i \in 0 .. n - l : RunAt(s, t, i, l)) => l <= m
  BY DEF Longest
<1>2. PICK i \in 0 .. n - m : RunAt(s, t, i, m)
  BY DEF Longest
<1>3. m \in 0 .. n + 1 /\ i \in 0 .. (n + 1) - m
  BY <1>1
<1>4. ASSUME NEW l \in 0 .. n + 1, NEW j \in 0 .. (n + 1) - l, RunAt(s, t, j, l) PROVE l <= m
  <2>1. CASE l = 0
    BY <1>1, <2>1
  <2>2. CASE l # 0 /\ j + l = n + 1
    <3>1. n + 1 \in j + 1 .. j + l
      BY <2>2
    <3> QED BY <1>4, <3>1 DEF RunAt
  <2>3. CASE l # 0 /\ j + l # n + 1
    <3>1. l \in 0 .. n /\ j \in 0 .. n - l
      BY <2>3
    <3> QED BY <1>1, <1>4, <3>1
  <2> QED BY <2>1, <2>2, <2>3
<1> QED BY <1>2, <1>3, <1>4 DEF Longest

LEMMA SameRun ==
  ASSUME NEW s, NEW n \in Nat, NEW t, NEW m, Longest(s, n, t, m), s[n + 1].tool = t,
         NEW r, LastRun(s, n + 1, r)
  PROVE  Longest(s, n + 1, t, IF r > m THEN r ELSE m)
<1>1. m \in 0 .. n /\ \A l \in 0 .. n : (\E i \in 0 .. n - l : RunAt(s, t, i, l)) => l <= m
  BY DEF Longest
<1>2. PICK i \in 0 .. n - m : RunAt(s, t, i, m)
  BY DEF Longest
<1>3. /\ r \in 1 .. n + 1 /\ RunAt(s, t, (n + 1) - r, r)
      /\ r < n + 1 => s[(n + 1) - r].tool # t
  BY DEF LastRun
<1> DEFINE w == IF r > m THEN r ELSE m
<1>4. w \in 0 .. n + 1 /\ r <= w /\ m <= w /\ (w = r \/ w = m)
  BY <1>1, <1>3
<1> HIDE DEF w
<1>5. \E j \in 0 .. (n + 1) - w : RunAt(s, t, j, w)
  <2>1. CASE w = r
    <3>1. (n + 1) - r \in 0 .. (n + 1) - r
      BY <1>3
    <3> QED BY <1>3, <2>1, <3>1
  <2>2. CASE w = m
    <3>1. i \in 0 .. (n + 1) - m
      BY <1>1
    <3> QED BY <1>2, <2>2, <3>1
  <2> QED BY <1>4, <2>1, <2>2
<1>6. ASSUME NEW l \in 0 .. n + 1, NEW j \in 0 .. (n + 1) - l, RunAt(s, t, j, l) PROVE l <= w
  <2>1. CASE j + l = n + 1
    <3>1. l <= r
      <4> SUFFICES ASSUME r < l PROVE FALSE
        BY <1>3
      <4>1. (n + 1) - r \in j + 1 .. j + l /\ r < n + 1
        BY <1>3, <2>1
      <4> QED BY <1>3, <1>6, <4>1 DEF RunAt
    <3> QED BY <1>3, <1>4, <3>1
  <2>2. CASE j + l # n + 1
    <3>1. l \in 0 .. n /\ j \in 0 .. n - l
      BY <2>2
    <3>2. l <= m
      BY <1>1, <1>6, <3>1
    <3> QED BY <1>1, <1>4, <3>2
  <2> QED BY <2>1, <2>2
<1>7. Longest(s, n + 1, t, w)
  BY <1>4, <1>5, <1>6 DEF Longest
<1> QED BY <1>7 DEF w

LEMMA NextRun ==
  ASSUME NEW s, NEW n \in Nat \ {0}, NEW r, LastRun(s, n, r)
  PROVE  LastRun(s, n + 1, IF s[n + 1].tool = s[n].tool THEN r + 1 ELSE 1)
<1>1. /\ r \in 1 .. n /\ RunAt(s, s[n].tool, n - r, r)
      /\ r < n => s[n - r].tool # s[n].tool
  BY DEF LastRun
<1>2. CASE s[n + 1].tool = s[n].tool
  <2>1. /\ r + 1 \in 1 .. n + 1 /\ (n + 1) - (r + 1) = n - r /\ r + 1 < n + 1 <=> r < n
    BY <1>1
  <2>2. \A k \in n - r + 1 .. n - r + (r + 1) : k = n + 1 \/ k \in n - r + 1 .. n - r + r
    BY <1>1
  <2>3. RunAt(s, s[n + 1].tool, n - r, r + 1)
    BY <1>1, <1>2, <2>2 DEF RunAt
  <2> QED BY <1>1, <1>2, <2>1, <2>3 DEF LastRun
<1>3. CASE s[n + 1].tool # s[n].tool
  <2>1. 1 \in 1 .. n + 1 /\ (n + 1) - 1 = n /\ n + 1 .. n + 1 = {n + 1}
    OBVIOUS
  <2>2. RunAt(s, s[n + 1].tool, n, 1)
    BY <2>1 DEF RunAt
  <2> QED BY <1>3, <2>1, <2>2 DEF LastRun
<1> QED BY <1>2, <1>3

(* After the n-th call: its run, and the longest of each tool so far.      *)
LoopRight(s, n, D, a) ==
  /\ a \in LoopState(D) /\ a.tool = s[n].tool /\ LastRun(s, n, a.run)
  /\ DOMAIN a.longest \cup {a.tool} = {s[i].tool : i \in 1 .. n}
  /\ \A t \in DOMAIN a.longest \cup {a.tool} : Longest(s, n, t, Longer(t, a))

LEMMA FirstRunIsRight ==
  ASSUME NEW s, NEW D, s[1].tool \in D
  PROVE  LoopRight(s, 1, D, FirstRun(s[1].tool))
<1> DEFINE t == s[1].tool
           a == FirstRun(t)
<1>1. a.tool = t /\ a.run = 1 /\ DOMAIN a.longest = {}
  BY DEF FirstRun
<1>2. a \in LoopState(D)
  <2>1. << >> \in [{} -> Nat] /\ {} \in SUBSET D
    OBVIOUS
  <2>2. << >> \in UNION {[C -> Nat] : C \in SUBSET D}
    BY <2>1
  <2> QED BY <2>2 DEF FirstRun, LoopState
<1>3. 1 .. 1 = {1} /\ 0 + 1 .. 0 + 1 = {1} /\ 1 - 1 = 0 /\ 0 \in 0 .. 0
  OBVIOUS
<1>4. RunAt(s, t, 0, 1)
  BY <1>3 DEF RunAt
<1>5. LastRun(s, 1, 1)
  BY <1>3, <1>4 DEF LastRun
<1>6. Longest(s, 1, t, 1)
  BY <1>3, <1>4 DEF Longest
<1>7. Longer(t, a) = 1
  BY <1>1 DEF Longer
<1>8. {s[i].tool : i \in 1 .. 1} = {t}
  BY <1>3
<1> HIDE DEF t, a
<1>9. LoopRight(s, 1, D, a)
  BY <1>1, <1>2, <1>5, <1>6, <1>7, <1>8 DEF LoopRight, t
<1> QED BY <1>9 DEF a, t

LEMMA LoopStepIsRight ==
  ASSUME NEW s, NEW D, NEW n \in Nat \ {0}, NEW a, LoopRight(s, n, D, a), s[n + 1].tool \in D
  PROVE  LoopRight(s, n + 1, D, LoopStep(a, s[n + 1]))
<1> DEFINE u == s[n + 1].tool
           b == LoopStep(a, s[n + 1])
           Seen(m) == {s[i].tool : i \in 1 .. m}
<1>1. /\ a \in LoopState(D) /\ a.tool = s[n].tool /\ LastRun(s, n, a.run)
      /\ DOMAIN a.longest \cup {a.tool} = Seen(n)
      /\ \A t \in Seen(n) : Longest(s, n, t, Longer(t, a))
  BY DEF LoopRight
<1>2. /\ b \in LoopState(D) /\ b.tool = u
      /\ u = a.tool => b.run = a.run + 1 /\ b.longest = a.longest
      /\ u # a.tool => b.run = 1 /\ b.longest = EndRun(a).longest
  BY <1>1, LoopStepIs
<1>3. /\ DOMAIN EndRun(a).longest = Seen(n)
      /\ \A t \in Seen(n) : EndRun(a).longest[t] = Longer(t, a) /\ Longer(t, a) \in Nat
  BY <1>1, EndRunIs
<1>4. LastRun(s, n + 1, b.run)
  <2>1. b.run = IF u = s[n].tool THEN a.run + 1 ELSE 1
    BY <1>1, <1>2
  <2> QED BY <1>1, <2>1, NextRun
<1>5. Seen(n + 1) = Seen(n) \cup {u} /\ a.tool \in Seen(n)
  <2>1. 1 .. n + 1 = 1 .. n \cup {n + 1} /\ n \in 1 .. n
    OBVIOUS
  <2> QED BY <1>1, <2>1
<1>6. \A t \in Seen(n) : t # u => Longest(s, n + 1, t, Longer(t, a))
  <2> HIDE DEF Seen
  <2> QED BY <1>1, OtherRun
<1>7. \A t : t \notin Seen(n) => Longest(s, n, t, 0)
  BY NoRun
<1> HIDE DEF b, Seen, u
<1>8. a.run \in Nat /\ b.run \in Nat
  BY <1>1, <1>2 DEF LoopState
<1>9. CASE u = a.tool
  <2>1. b.run = a.run + 1 /\ b.longest = a.longest /\ b.tool = a.tool
    BY <1>2, <1>9
  <2>2. DOMAIN b.longest \cup {b.tool} = Seen(n + 1)
    BY <1>1, <1>5, <1>9, <2>1
  <2>3. ASSUME NEW t \in Seen(n + 1) PROVE Longest(s, n + 1, t, Longer(t, b))
    <3>1. CASE t # u
      <4>1. Longer(t, b) = Longer(t, a) /\ t \in Seen(n)
        BY <1>5, <1>9, <2>1, <3>1 DEF Longer
      <4> QED BY <1>6, <3>1, <4>1
    <3>2. CASE t = u
      <4> DEFINE m == Longer(u, a)
      <4>1. Longest(s, n, u, m) /\ m \in Nat
        BY <1>1, <1>3, <1>5, <1>9
      <4>2. Longer(u, b) = IF b.run > m THEN b.run ELSE m
        <5>1. u \in DOMAIN a.longest => a.longest[u] \in Nat
          BY <1>1 DEF LoopState
        <5> QED BY <1>8, <1>9, <2>1, <5>1 DEF Longer
      <4> HIDE DEF m
      <4>3. s[n + 1].tool = u
        BY DEF u
      <4>4. Longest(s, n + 1, u, IF b.run > m THEN b.run ELSE m)
        BY <1>4, <4>1, <4>3, SameRun
      <4> QED BY <3>2, <4>2, <4>4
    <3> QED BY <3>1, <3>2
  <2>4. LoopRight(s, n + 1, D, b)
    BY <1>2, <1>4, <2>2, <2>3 DEF LoopRight, Seen, u
  <2> QED BY <2>4 DEF b
<1>10. CASE u # a.tool
  <2>1. b.run = 1 /\ b.longest = EndRun(a).longest /\ b.tool = u
    BY <1>2, <1>10
  <2>2. DOMAIN b.longest \cup {b.tool} = Seen(n + 1)
    BY <1>3, <1>5, <2>1
  <2>3. ASSUME NEW t \in Seen(n + 1) PROVE Longest(s, n + 1, t, Longer(t, b))
    <3>1. CASE t # u
      <4>1. Longer(t, b) = Longer(t, a) /\ t \in Seen(n)
        BY <1>3, <1>5, <2>1, <3>1 DEF Longer
      <4> QED BY <1>6, <3>1, <4>1
    <3>2. CASE t = u
      <4> DEFINE m == IF u \in Seen(n) THEN Longer(u, a) ELSE 0
      <4>1. Longest(s, n, u, m) /\ m \in Nat
        BY <1>1, <1>3, <1>7
      <4>2. Longer(u, b) = IF b.run > m THEN b.run ELSE m
        <5>1. u \in Seen(n) => b.longest[u] = m
          BY <1>3, <2>1
        <5>2. u \in DOMAIN b.longest <=> u \in Seen(n)
          BY <1>3, <2>1
        <5>3. CASE u \in Seen(n)
          <6> HIDE DEF m
          <6> QED BY <2>1, <5>1, <5>2, <5>3 DEF Longer
        <5>4. CASE u \notin Seen(n)
          <6>1. m = 0
            BY <5>4
          <6> HIDE DEF m
          <6> QED BY <2>1, <5>2, <5>4, <6>1 DEF Longer
        <5> QED BY <5>3, <5>4
      <4> HIDE DEF m
      <4>3. s[n + 1].tool = u
        BY DEF u
      <4>4. Longest(s, n + 1, u, IF b.run > m THEN b.run ELSE m)
        BY <1>4, <4>1, <4>3, SameRun
      <4> QED BY <3>2, <4>2, <4>4
    <3> QED BY <3>1, <3>2
  <2>4. LoopRight(s, n + 1, D, b)
    BY <1>2, <1>4, <2>2, <2>3 DEF LoopRight, Seen, u
  <2> QED BY <2>4 DEF b
<1> QED BY <1>9, <1>10

(* What MaxLoops tells of each tool is its longest run. *)
LEMMA LoopsAre ==
  ASSUME NEW calls, IsSeq(calls), calls # << >>
  PROVE  /\ DOMAIN MaxLoops(calls) = {calls[i].tool : i \in DOMAIN calls}
         /\ \A t \in DOMAIN MaxLoops(calls) :
              MaxLoops(calls)[t] \in Nat /\ MaxLoops(calls)[t] = Max(Runs(calls, t))
<1> DEFINE N == Len(calls)
           D == {calls[i].tool : i \in DOMAIN calls}
           s == Tail(calls)
           v == FirstRun(calls[1].tool)
<1>1. N \in Nat \ {0} /\ DOMAIN calls = 1 .. N
  <2> DEFINE S == {calls[i] : i \in DOMAIN calls}
  <2>1. calls \in Seq(S)
    BY DEF IsSeq
  <2> HIDE DEF S
  <2> QED BY <2>1
<1>2. /\ IsSeq(s) /\ Len(s) = N - 1 /\ DOMAIN s = 1 .. N - 1
      /\ \A n \in 1 .. N - 1 : s[n] = calls[n + 1]
  <2> DEFINE S == {calls[i] : i \in DOMAIN calls}
  <2>1. calls \in Seq(S)
    BY DEF IsSeq
  <2> HIDE DEF S
  <2>2. s \in Seq(S) /\ Len(s) = N - 1 /\ \A n \in 1 .. N - 1 : s[n] = calls[n + 1]
    BY <1>1, <2>1
  <2> HIDE DEF s
  <2>3. IsSeq(s)
    BY <2>2, SeqOver
  <2>4. DOMAIN s = 1 .. N - 1
    BY <2>2, <2>3, SeqIs
  <2> QED BY <2>2, <2>3, <2>4
<1> HIDE DEF s, N
<1>3. calls[1].tool \in D /\ \A i \in DOMAIN s : s[i].tool \in D
  <2>1. \A i \in 1 .. N : calls[i].tool \in D
    BY <1>1
  <2>2. 1 \in 1 .. N /\ \A i \in 1 .. N - 1 : i + 1 \in 1 .. N
    BY <1>1
  <2> HIDE DEF D
  <2> QED BY <1>2, <2>1, <2>2
<1> HIDE DEF D
<1>4. LoopRight(calls, 1, D, v)
  BY <1>3, FirstRunIsRight
<1> HIDE DEF v
<1>5. PICK h : LoopTurns(s, v, h) /\ FoldLeft(LoopStep, v, s) = h[Len(s)]
  <2>1. v \in LoopState(D)
    BY <1>4 DEF LoopRight
  <2> QED BY <1>2, <1>3, <2>1, LoopsFold
<1> DEFINE Good == {n \in Nat : n < N => LoopRight(calls, n + 1, D, h[n])}
<1>6. 0 \in Good
  BY <1>4, <1>5 DEF LoopTurns
<1>7. ASSUME NEW n \in Nat, n \in Good PROVE n + 1 \in Good
  <2> SUFFICES ASSUME n + 1 < N PROVE LoopRight(calls, (n + 1) + 1, D, h[n + 1])
    OBVIOUS
  <2>1. LoopRight(calls, n + 1, D, h[n])
    BY <1>1, <1>7
  <2>2. n < Len(s) /\ n + 1 \in 1 .. N - 1 /\ n + 1 \in Nat \ {0}
    BY <1>1, <1>2
  <2>3. s[n + 1] = calls[(n + 1) + 1] /\ s[n + 1].tool \in D
    BY <1>2, <1>3, <2>2
  <2>4. h[n + 1] = LoopStep(h[n], calls[(n + 1) + 1])
    BY <1>5, <2>2, <2>3 DEF LoopTurns
  <2> QED BY <2>1, <2>2, <2>3, <2>4, LoopStepIsRight
<1>8. Nat \subseteq Good
  <2> HIDE DEF Good
  <2> QED BY <1>6, <1>7, NatInSet
<1> DEFINE a == h[N - 1]
<1>9. LoopRight(calls, N, D, a)
  <2>1. N - 1 \in Nat /\ N - 1 < N /\ (N - 1) + 1 = N
    BY <1>1
  <2> QED BY <1>8, <2>1
<1>10. MaxLoops(calls) = EndRun(a).longest
  <2>1. MaxLoops(calls) = EndRun(FoldLeft(LoopStep, v, s)).longest
    BY DEF MaxLoops, FirstRun, s, v
  <2> QED BY <1>2, <1>5, <2>1
<1> HIDE DEF a, Good
<1>11. a \in LoopState(D) /\ DOMAIN a.longest \cup {a.tool} = D
       /\ \A t \in D : Longest(calls, N, t, Longer(t, a))
  BY <1>1, <1>9 DEF LoopRight, D
<1>12. /\ DOMAIN EndRun(a).longest = D
       /\ \A t \in D : EndRun(a).longest[t] = Longer(t, a) /\ Longer(t, a) \in Nat
  BY <1>11, EndRunIs
<1>13. ASSUME NEW t \in D PROVE Longer(t, a) = Max(Runs(calls, t))
  <2> DEFINE m == Longer(t, a)
             R == Runs(calls, t)
  <2>1. Longest(calls, N, t, m)
    BY <1>11
  <2>2. \A l : l \in R <=> l \in 0 .. N /\ \E i \in 0 .. N - l : RunAt(calls, t, i, l)
    BY DEF Runs, RunAt, N
  <2> HIDE DEF m, R
  <2>3. m \in R /\ (\A l \in R : l <= m) /\ R \in SUBSET Nat
    BY <1>1, <2>1, <2>2 DEF Longest
  <2>4. Max(R) = m
    BY <2>3, MaxIs
  <2> QED BY <2>4 DEF m, R
<1> QED BY <1>10, <1>12, <1>13 DEF D

-----------------------------------------------------------------------------
(* Sums over the tools.  The sizes of the parts add up, also of parts that *)
(* are empty.                                                              *)
LEMMA PartsCountIn ==
  ASSUME NEW S, IsFiniteSet(S), NEW key, NEW K, IsFiniteSet(K), \A x \in S : key[x] \in K
  PROVE  SumFunction([k \in K |-> Cardinality({x \in S : key[x] = k})]) = Cardinality(S)
<1> DEFINE g == [k \in K |-> Cardinality({x \in S : key[x] = k})]
           one == [x \in S |-> 1]
<1>2. SumFunction(g) = SumFunctionOnSet(g, K)
  BY DEF SumFunction, SumFunctionOnSet, FoldFunction
<1>3. Shares(g, K, one, S, key)
  <2> SUFFICES ASSUME NEW k \in K
               PROVE  g[k] = SumFunctionOnSet(one, {x \in S : key[x] = k})
    BY DEF Shares
  <2> DEFINE P == {x \in S : key[x] = k}
  <2>1. g[k] = Cardinality(P)
    OBVIOUS
  <2>2. IsFiniteSet(P) /\ \A x \in P : one[x] = 1
    BY FS_Subset
  <2> HIDE DEF P, g, one
  <2> QED BY <2>1, <2>2, SumOfOnes DEF P
<1>4. (\A x \in S : one[x] = 1) /\ (\A x \in S : one[x] \in Nat)
  OBVIOUS
<1> HIDE DEF g, one
<1>5. SumFunctionOnSet(g, K) = SumFunctionOnSet(one, {x \in S : key[x] \in K})
  BY <1>3, <1>4, SumOfParts
<1>6. {x \in S : key[x] \in K} = S
  OBVIOUS
<1>7. SumFunctionOnSet(one, S) = Cardinality(S)
  BY <1>4, SumOfOnes
<1> QED BY <1>2, <1>5, <1>6, <1>7 DEF g

(* As many entries of a part of a list lie in J as J has members. *)
LEMMA ListsCount ==
  ASSUME NEW s, NEW I \in SUBSET Nat, NEW p, IsSeq(p), NEW h, Lists(h, s, I, p),
         NEW J \in SUBSET I
  PROVE  Cardinality({k \in DOMAIN p : h[k] \in J}) = Cardinality(J)
<1> DEFINE K == {k \in DOMAIN p : h[k] \in J}
           f == [k \in K |-> h[k]]
<1>1. DOMAIN p = 1 .. Len(p) /\ Len(p) \in Nat
  BY SeqIs
<1>2. IsFiniteSet(K)
  <2>1. IsFiniteSet(1 .. Len(p))
    BY <1>1, FS_Interval
  <2> QED BY <1>1, <2>1, FS_Subset
<1>3. /\ \A i \in J : \E k \in K : h[k] = i
      /\ \A j, k \in K : h[j] = h[k] => j = k
  <2>1. /\ \A i \in I : \E k \in DOMAIN p : h[k] = i
        /\ \A j, k \in DOMAIN p : j < k => h[j] < h[k]
    BY DEF Lists
  <2>2. J \subseteq I /\ \A k \in DOMAIN p : k \in K <=> h[k] \in J
    OBVIOUS
  <2>3. \A i \in J : \E k \in K : h[k] = i
    <3> HIDE DEF K
    <3> QED BY <2>1, <2>2
  <2>4. ASSUME NEW j \in K, NEW k \in K, h[j] = h[k] PROVE j = k
    <3>1. j \in Nat /\ k \in Nat /\ j \in DOMAIN p /\ k \in DOMAIN p
      BY <1>1
    <3>2. ~(h[j] < h[k]) /\ ~(h[k] < h[j])
      <4>1. h[j] \in Nat /\ h[k] \in Nat
        BY <3>1 DEF Lists
      <4> QED BY <2>4, <4>1
    <3> HIDE DEF K
    <3> QED BY <2>1, <3>1, <3>2
  <2> HIDE DEF K
  <2> QED BY <2>3, <2>4
<1>4. f \in Bijection(K, J)
  <2>1. f \in [K -> J] /\ \A k \in K : f[k] = h[k]
    OBVIOUS
  <2> HIDE DEF f, K
  <2> QED BY <1>3, <2>1 DEF Bijection, Injection, IsInjective, Surjection
<1> HIDE DEF f, K
<1>5. ExistsBijection(K, J)
  BY <1>4 DEF ExistsBijection
<1>6. Cardinality(J) = Cardinality(K)
  BY <1>2, <1>5, FS_Bijection
<1> QED BY <1>6 DEF K

(* The calls of one tool, and those of them that succeed, by position. *)
PlacesOf(calls, t) == {i \in DOMAIN calls : calls[i].tool = t}
Fine(calls) == {i \in DOMAIN calls : calls[i].status = OK}
Wrong(calls) == {i \in DOMAIN calls : calls[i].status # OK}
Ours(calls, S, t) == {i \in S : calls[i].tool = t}

LEMMA CallsCount ==
  ASSUME NEW calls, IsSeq(calls), NEW t
  PROVE  LET own == CallsOf(calls, t) IN
         /\ IsSeq(own) /\ Len(own) = Cardinality(PlacesOf(calls, t))
         /\ Successes(own) = Cardinality(Ours(calls, Fine(calls), t))
         /\ Cardinality(Wrong(own)) = Cardinality(Ours(calls, Wrong(calls), t))
         /\ \A k \in DOMAIN own : \E i \in DOMAIN calls : own[k] = calls[i]
<1> DEFINE own == CallsOf(calls, t)
           I == PlacesOf(calls, t)
           S == {calls[i] : i \in DOMAIN calls}
<1>1. DOMAIN calls = 1 .. Len(calls) /\ Len(calls) \in Nat /\ calls \in Seq(S)
  BY SeqIs DEF IsSeq
<1>2. I \in SUBSET DOMAIN calls /\ I \in SUBSET Nat /\ own = Picked(calls, I)
  BY <1>1 DEF PlacesOf, CallsOf
<1> HIDE DEF S
<1>3. own \in Seq(S) /\ \E h : Lists(h, calls, I, own)
  BY <1>1, <1>2, PickedIs
<1>4. PICK h : Lists(h, calls, I, own)
  BY <1>3
<1>5. IsSeq(own)
  BY <1>3, SeqOver
<1>6. DOMAIN own = 1 .. Len(own) /\ Len(own) \in Nat
  BY <1>5, SeqIs
<1>7. \A k \in DOMAIN own : h[k] \in I /\ own[k] = calls[h[k]]
  BY <1>4 DEF Lists
<1> HIDE DEF own, I
<1>8. Len(own) = Cardinality(I)
  <2>1. Cardinality({k \in DOMAIN own : h[k] \in I}) = Cardinality(I)
    BY <1>2, <1>4, <1>5, ListsCount
  <2>2. {k \in DOMAIN own : h[k] \in I} = 1 .. Len(own)
    BY <1>6, <1>7
  <2> DEFINE n == Len(own)
  <2>3. n \in Nat /\ Cardinality(1 .. n) = Cardinality(I)
    BY <1>6, <2>1, <2>2
  <2> HIDE DEF n
  <2>4. Cardinality(1 .. n) = IF 1 > n THEN 0 ELSE n - 1 + 1
    BY <2>3, FS_Interval
  <2>5. n = Cardinality(I)
    BY <2>3, <2>4
  <2> QED BY <2>5 DEF n
<1>9. ASSUME NEW J \in SUBSET I
      PROVE  Cardinality({k \in DOMAIN own : h[k] \in J}) = Cardinality(J)
  BY <1>2, <1>4, <1>5, ListsCount
<1>10. Successes(own) = Cardinality(Ours(calls, Fine(calls), t))
  <2> DEFINE J == Ours(calls, Fine(calls), t)
  <2>1. J \in SUBSET I
    BY DEF Fine, I, PlacesOf, J, Ours
  <2>2. {k \in DOMAIN own : h[k] \in J} = {k \in DOMAIN own : own[k].status = OK}
    BY <1>7 DEF Fine, I, PlacesOf, J, Ours
  <2> HIDE DEF J
  <2>3. Cardinality({k \in DOMAIN own : h[k] \in J}) = Cardinality(J)
    BY <1>9, <2>1
  <2> QED BY <2>2, <2>3 DEF Successes, J
<1>11. Cardinality(Wrong(own)) = Cardinality(Ours(calls, Wrong(calls), t))
  <2> DEFINE J == Ours(calls, Wrong(calls), t)
  <2>1. J \in SUBSET I
    BY DEF Wrong, I, PlacesOf, J, Ours
  <2>2. {k \in DOMAIN own : h[k] \in J} = Wrong(own)
    BY <1>7 DEF Wrong, I, PlacesOf, J, Ours
  <2> HIDE DEF J
  <2>3. Cardinality({k \in DOMAIN own : h[k] \in J}) = Cardinality(J)
    BY <1>9, <2>1
  <2> QED BY <2>2, <2>3 DEF J
<1>12. \A k \in DOMAIN own : \E i \in DOMAIN calls : own[k] = calls[i]
  BY <1>2, <1>7
<1> QED BY <1>5, <1>8, <1>10, <1>11, <1>12 DEF own, I

(* No more of its errors are retried than a tool has. *)
LEMMA RetriesAreErrors ==
  ASSUME NEW own, IsSeq(own)
  PROVE  /\ Retries(own) \in Nat /\ Retries(own) <= Cardinality(Wrong(own))
         /\ Wrong(own) = {} => Retries(own) = 0
<1>1. IsFiniteSet(DOMAIN own)
  <2>1. DOMAIN own = 1 .. Len(own) /\ Len(own) \in Nat
    BY SeqIs
  <2> QED BY <2>1, FS_Interval
<1>2. Retried(own) \in SUBSET Wrong(own)
  <2> SUFFICES ASSUME NEW i \in Retried(own) PROVE i \in Wrong(own)
    OBVIOUS
  <2>1. PICK j \in i + 1 .. Len(own) : \A k \in i .. j - 1 : own[k].status = ERROR
    BY DEF Retried
  <2>2. i \in DOMAIN own /\ i \in Int /\ i \in i .. j - 1
    <3>1. i \in DOMAIN own /\ DOMAIN own = 1 .. Len(own) /\ Len(own) \in Nat
      BY SeqIs DEF Retried
    <3> QED BY <2>1, <3>1
  <2>3. own[i].status # OK
    BY <2>1, <2>2, CallsAssumption
  <2> QED BY <2>2, <2>3 DEF Wrong
<1>3. IsFiniteSet(Wrong(own))
  BY <1>1, FS_Subset DEF Wrong
<1>4. IsFiniteSet(Retried(own)) /\ Cardinality(Retried(own)) <= Cardinality(Wrong(own))
  BY <1>2, <1>3, FS_Subset
<1>5. Retries(own) = Cardinality(Retried(own)) /\ Cardinality(Retried(own)) \in Nat
  BY <1>4, RetriesAre, FS_CardinalityType
<1>6. Wrong(own) = {} => Cardinality(Retried(own)) = 0
  BY <1>2, FS_EmptySet
<1> QED BY <1>4, <1>5, <1>6

(* What AgentStats tells, figure by figure. *)
ToolsOf(calls) == {calls[i].tool : i \in DOMAIN calls}
RetriesOf(calls) == [t \in ToolsOf(calls) |-> Retries(CallsOf(calls, t))]
StatsTell(stats, statuses, calls) ==
  LET tools == ToolsOf(calls)
      R == RetriesOf(calls)
      loops == MaxLoops(calls)
  IN  /\ stats.total = Len(calls) /\ stats.successful = Successes(calls)
      /\ stats.traceSuccess = Rate(Cardinality({i \in DOMAIN statuses : statuses[i] = OK}),
                                   Len(statuses))
      /\ stats.retries = Rate(SumFunction(R), Cardinality({t \in tools : R[t] > 0}))
      /\ stats.maxLoop = IF loops = << >> THEN 0 ELSE Max({loops[t] : t \in tools})
      /\ DOMAIN stats.usage = tools
      /\ \A t \in tools :
           LET own == CallsOf(calls, t)
           IN  /\ stats.usage[t].calls = Len(own)
               /\ stats.usage[t].success = Rate(Successes(own), Len(own))
               /\ stats.usage[t].retries = R[t] /\ stats.usage[t].maxLoop = loops[t]

LEMMA ToolsAreFinite ==
  ASSUME NEW calls, IsSeq(calls)
  PROVE  IsFiniteSet(DOMAIN calls) /\ IsFiniteSet(ToolsOf(calls))
<1>1. IsFiniteSet(DOMAIN calls)
  <2>1. DOMAIN calls = 1 .. Len(calls) /\ Len(calls) \in Nat
    BY SeqIs
  <2> QED BY <2>1, FS_Interval
<1> DEFINE f == [i \in DOMAIN calls |-> calls[i].tool]
<1>2. IsFiniteSet({f[i] : i \in DOMAIN calls})
  <2> HIDE DEF f
  <2> QED BY <1>1, FiniteImage
<1>3. {f[i] : i \in DOMAIN calls} = ToolsOf(calls)
  BY DEF ToolsOf
<1> QED BY <1>1, <1>2, <1>3

(* Numbers over the tools are added up as they are. *)
LEMMA TotalIs ==
  ASSUME NEW S, NEW f, \A x \in S : f[x] \in Nat
  PROVE  SumFunction([x \in S |-> IF f[x] = NoValue THEN 0 ELSE f[x]])
           = SumFunction([x \in S |-> f[x]])
<1>1. \A x \in S : f[x] # NoValue
  BY NoValueAssumption
<1>2. [x \in S |-> IF f[x] = NoValue THEN 0 ELSE f[x]] = [x \in S |-> f[x]]
  BY <1>1
<1> QED BY <1>2

LEMMA StatsAre ==
  ASSUME NEW statuses, NEW ss, NEW calls, IsSeq(calls)
  PROVE  StatsTell(AgentStats(statuses, ss, calls), statuses, calls)
<1> DEFINE tools == ToolsOf(calls)
           R == RetriesOf(calls)
           loops == MaxLoops(calls)
           A == AgentStats(statuses, ss, calls)
           retried == {t \in tools : Retries(CallsOf(calls, t)) > 0}
           T == Total(tools, LAMBDA t : Retries(CallsOf(calls, t)))
<1>1. T = SumFunction(R)
  <2>1. \A t \in tools : R[t] \in Nat
    <3>1. \A t \in tools : IsSeq(CallsOf(calls, t))
      BY CallsCount
    <3> QED BY <3>1, RetriesAreErrors DEF RetriesOf
  <2>2. T = SumFunction([t \in tools |-> IF R[t] = NoValue THEN 0 ELSE R[t]])
    <3>1. [t \in tools |-> IF R[t] = NoValue THEN 0 ELSE R[t]]
           = [t \in tools |-> IF Retries(CallsOf(calls, t)) = NoValue
                              THEN 0 ELSE Retries(CallsOf(calls, t))]
      BY DEF RetriesOf
    <3> HIDE DEF tools, R
    <3> QED BY <3>1 DEF Total
  <2>3. R = [t \in tools |-> R[t]]
    BY DEF RetriesOf
  <2> HIDE DEF tools, R
  <2> QED BY <2>1, <2>2, <2>3, TotalIs
<1>2. retried = {t \in tools : R[t] > 0}
  BY DEF RetriesOf
<1> DEFINE usage == [t \in tools |->
                    [calls |-> Len(CallsOf(calls, t)),
                     success |-> Rate(Successes(CallsOf(calls, t)), Len(CallsOf(calls, t))),
                     retries |-> Retries(CallsOf(calls, t)), maxLoop |-> loops[t]]]
<1> HIDE DEF T, retried
<1>3. /\ A.total = Len(calls) /\ A.successful = Successes(calls)
      /\ A.traceSuccess
           = Rate(Cardinality({i \in DOMAIN statuses : statuses[i] = OK}), Len(statuses))
      /\ A.retries = Rate(T, Cardinality(retried))
      /\ A.maxLoop = IF loops = << >> THEN 0 ELSE Max({loops[t] : t \in tools})
      /\ A.usage = usage
  BY DEF AgentStats, ToolsOf, T, retried
<1>4. /\ DOMAIN usage = tools
      /\ \A t \in tools :
           LET own == CallsOf(calls, t)
           IN  /\ usage[t].calls = Len(own)
               /\ usage[t].success = Rate(Successes(own), Len(own))
               /\ usage[t].retries = R[t] /\ usage[t].maxLoop = loops[t]
  <2> HIDE DEF loops
  <2> QED BY DEF RetriesOf
<1> HIDE DEF A, usage, R, tools, loops
<1>5. /\ A.total = Len(calls) /\ A.successful = Successes(calls)
      /\ A.retries = Rate(SumFunction(R), Cardinality({t \in tools : R[t] > 0}))
      /\ DOMAIN A.usage = tools
      /\ \A t \in tools :
           LET own == CallsOf(calls, t)
           IN  /\ A.usage[t].calls = Len(own)
               /\ A.usage[t].success = Rate(Successes(own), Len(own))
               /\ A.usage[t].retries = R[t] /\ A.usage[t].maxLoop = loops[t]
  BY <1>1, <1>2, <1>3, <1>4
<1> QED BY <1>3, <1>5 DEF StatsTell, tools, R, loops, A

LEMMA ToldExactly ==
  ASSUME NEW calls, IsSeq(calls), calls # << >>, NEW statuses, NEW stats,
         StatsTell(stats, statuses, calls)
  PROVE  ToolsAreExact(calls, stats.usage)
<1> SUFFICES ASSUME NEW t \in ToolsOf(calls)
             PROVE  /\ stats.usage[t].retries = Cardinality(Retried(CallsOf(calls, t)))
                    /\ stats.usage[t].maxLoop = Max(Runs(calls, t))
  BY DEF ToolsAreExact, StatsTell
<1>1. /\ stats.usage[t].retries = RetriesOf(calls)[t]
      /\ stats.usage[t].maxLoop = MaxLoops(calls)[t]
  BY DEF StatsTell
<1>2. RetriesOf(calls)[t] = Cardinality(Retried(CallsOf(calls, t)))
  <2>1. IsSeq(CallsOf(calls, t))
    BY CallsCount
  <2> QED BY <2>1, RetriesAre DEF RetriesOf
<1>3. MaxLoops(calls)[t] = Max(Runs(calls, t))
  BY LoopsAre DEF ToolsOf
<1> QED BY <1>1, <1>2, <1>3

(* The errors that were retried, over all tools. *)
LEMMA SomeRetried ==
  ASSUME NEW calls, IsSeq(calls)
  PROVE  LET R == RetriesOf(calls)
             tools == ToolsOf(calls)
         IN  /\ \A t \in tools : R[t] \in Nat
             /\ SumFunction(R) \in Nat /\ SumFunction(R) <= Cardinality(Wrong(calls))
             /\ Cardinality({t \in tools : R[t] > 0}) = 0 => SumFunction(R) = 0
             /\ (\A t \in tools : R[t] = 0) => Cardinality({t \in tools : R[t] > 0}) = 0
<1> DEFINE R == RetriesOf(calls)
           tools == ToolsOf(calls)
           wrong == [t \in tools |-> Cardinality({i \in Wrong(calls) : calls[i].tool = t})]
<1>1. IsFiniteSet(DOMAIN calls) /\ IsFiniteSet(tools)
  BY ToolsAreFinite
<1>2. \A t \in tools : R[t] \in Nat /\ R[t] <= wrong[t] /\ wrong[t] \in Nat
  <2> SUFFICES ASSUME NEW t \in tools PROVE R[t] \in Nat /\ R[t] <= wrong[t] /\ wrong[t] \in Nat
    OBVIOUS
  <2> DEFINE own == CallsOf(calls, t)
             W == Ours(calls, Wrong(calls), t)
  <2>1. IsSeq(own) /\ Cardinality(Wrong(own)) = Cardinality(W)
    BY CallsCount
  <2>2. R[t] = Retries(own) /\ wrong[t] = Cardinality(W)
    BY DEF RetriesOf, Ours
  <2>3. IsFiniteSet(W)
    BY <1>1, FS_Subset DEF Wrong, Ours
  <2> HIDE DEF own, W, R, wrong
  <2>4. Retries(own) \in Nat /\ Retries(own) <= Cardinality(Wrong(own)) /\ Cardinality(W) \in Nat
    BY <2>1, <2>3, RetriesAreErrors, FS_CardinalityType
  <2> QED BY <2>1, <2>2, <2>4
<1>3. SumFunction(wrong) = Cardinality(Wrong(calls))
  <2> DEFINE key == [i \in DOMAIN calls |-> calls[i].tool]
             W == Wrong(calls)
  <2>1. IsFiniteSet(W) /\ \A i \in W : key[i] \in tools
    BY <1>1, FS_Subset DEF Wrong, ToolsOf
  <2>2. wrong = [t \in tools |-> Cardinality({i \in W : key[i] = t})]
    <3>1. \A i \in W : key[i] = calls[i].tool
      BY DEF Wrong
    <3> HIDE DEF key, W, tools
    <3> QED BY <3>1 DEF W
  <2> HIDE DEF key, W, tools, wrong
  <2>3. SumFunction([t \in tools |-> Cardinality({i \in W : key[i] = t})]) = Cardinality(W)
    BY <1>1, <2>1, PartsCountIn
  <2> QED BY <2>2, <2>3 DEF W
<1>4. /\ SumFunction(R) = SumFunctionOnSet(R, tools)
      /\ SumFunction(wrong) = SumFunctionOnSet(wrong, tools)
  <2>1. DOMAIN R = tools /\ DOMAIN wrong = tools
    BY DEF RetriesOf
  <2> HIDE DEF R, wrong, tools
  <2> QED BY <2>1 DEF SumFunction, SumFunctionOnSet, FoldFunction
<1> HIDE DEF R, tools, wrong
<1>5. SumFunctionOnSet(R, tools) <= SumFunctionOnSet(wrong, tools)
  BY <1>1, <1>2, SumIsMonotone
<1>6. SumFunctionOnSet(R, tools) \in Nat
  BY <1>1, <1>2, SumType
<1>7. ASSUME Cardinality({t \in tools : R[t] > 0}) = 0 PROVE SumFunction(R) = 0
  <2>1. IsFiniteSet({t \in tools : R[t] > 0})
    BY <1>1, FS_Subset
  <2>2. {t \in tools : R[t] > 0} = {}
    BY <1>7, <2>1, FS_EmptySet
  <2>3. \A t \in tools : R[t] = 0
    BY <1>2, <2>2
  <2> QED BY <1>1, <1>2, <1>4, <2>3, SumIsZero
<1>8. ASSUME \A t \in tools : R[t] = 0 PROVE Cardinality({t \in tools : R[t] > 0}) = 0
  <2>1. {t \in tools : R[t] > 0} = {}
    BY <1>8
  <2> QED BY <2>1, FS_EmptySet
<1>9. \A t \in tools : R[t] \in Nat
  BY <1>2
<1> QED BY <1>3, <1>4, <1>5, <1>6, <1>7, <1>8, <1>9 DEF R, tools

LEMMA RateFirst ==
  ASSUME NEW n, NEW m, m = 0 => n = 0
  PROVE  Rate(n, m)[1] = n
BY DEF Rate

(* Every call is of one of the tools. *)
LEMMA OfSomeTool ==
  ASSUME NEW calls, IsSeq(calls), NEW S \in SUBSET DOMAIN calls
  PROVE  LET f == [t \in ToolsOf(calls) |-> Cardinality({i \in S : calls[i].tool = t})]
         IN  /\ SumFunction(f) = Cardinality(S) /\ \A t \in ToolsOf(calls) : f[t] \in Nat
             /\ IsFiniteSet(S) /\ Cardinality(S) \in Nat
<1> DEFINE key == [i \in DOMAIN calls |-> calls[i].tool]
           tools == ToolsOf(calls)
           Part(t) == {i \in S : key[i] = t}
           f == [t \in tools |-> Cardinality(Part(t))]
<1>1. IsFiniteSet(DOMAIN calls) /\ IsFiniteSet(tools)
  BY ToolsAreFinite
<1>2. IsFiniteSet(S) /\ Cardinality(S) \in Nat /\ \A i \in S : key[i] \in tools
  BY <1>1, FS_Subset, FS_CardinalityType DEF ToolsOf
<1>3. \A t \in tools : Part(t) = {i \in S : calls[i].tool = t}
  OBVIOUS
<1> HIDE DEF key, tools
<1>4. SumFunction([t \in tools |-> Cardinality({i \in S : key[i] = t})]) = Cardinality(S)
  BY <1>1, <1>2, PartsCountIn
<1>5. \A t \in tools : Cardinality(Part(t)) \in Nat
  <2>1. \A t \in tools : IsFiniteSet(Part(t))
    BY <1>2, FS_Subset
  <2> HIDE DEF Part
  <2> QED BY <2>1, FS_CardinalityType
<1>6. [t \in tools |-> Cardinality({i \in S : calls[i].tool = t})] = f
  <2> HIDE DEF Part
  <2> QED BY <1>3
<1> HIDE DEF Part
<1>7. \A t \in tools : f[t] \in Nat
  BY <1>5
<1>8. SumFunction(f) = Cardinality(S)
  BY <1>4 DEF Part
<1> HIDE DEF f
<1> QED BY <1>2, <1>6, <1>7, <1>8 DEF tools

LEMMA ToldAddsUp ==
  ASSUME NEW calls, IsSeq(calls), calls # << >>, NEW statuses, NEW stats,
         StatsTell(stats, statuses, calls)
  PROVE  ToolsAddUp(calls, stats)
<1> DEFINE tools == ToolsOf(calls)
           usage == stats.usage
           R == RetriesOf(calls)
           all == [t \in tools |-> Cardinality({i \in DOMAIN calls : calls[i].tool = t})]
           fine == [t \in tools |-> Cardinality({i \in Fine(calls) : calls[i].tool = t})]
           loops == MaxLoops(calls)
<1>1. /\ stats.total = Len(calls) /\ stats.successful = Successes(calls)
      /\ stats.retries = Rate(SumFunction(R), Cardinality({t \in tools : R[t] > 0}))
      /\ stats.maxLoop = IF loops = << >> THEN 0 ELSE Max({loops[t] : t \in tools})
      /\ DOMAIN usage = tools
      /\ \A t \in tools :
           LET own == CallsOf(calls, t)
           IN  /\ usage[t].calls = Len(own) /\ usage[t].success = Rate(Successes(own), Len(own))
               /\ usage[t].retries = R[t] /\ usage[t].maxLoop = loops[t]
  BY DEF StatsTell
<1>2. DOMAIN calls = 1 .. Len(calls) /\ Len(calls) \in Nat /\ DOMAIN calls # {}
  <2>1. DOMAIN calls = 1 .. Len(calls) /\ Len(calls) \in Nat
    BY SeqIs
  <2> DEFINE S == {calls[i] : i \in DOMAIN calls}
  <2>2. calls \in Seq(S)
    BY DEF IsSeq
  <2> HIDE DEF S
  <2>3. Len(calls) # 0
    BY <2>2
  <2> QED BY <2>1, <2>3
<1>3. /\ SumFunction(all) = Cardinality(DOMAIN calls) /\ \A t \in tools : all[t] \in Nat
      /\ IsFiniteSet(DOMAIN calls)
  BY OfSomeTool
<1>4. /\ SumFunction(fine) = Cardinality(Fine(calls)) /\ \A t \in tools : fine[t] \in Nat
      /\ IsFiniteSet(Fine(calls)) /\ Cardinality(Fine(calls)) \in Nat
  <2>1. Fine(calls) \in SUBSET DOMAIN calls
    BY DEF Fine
  <2> QED BY <2>1, OfSomeTool
<1>5. IsFiniteSet(Wrong(calls)) /\ Cardinality(Wrong(calls)) \in Nat
  <2>1. Wrong(calls) \in SUBSET DOMAIN calls
    BY DEF Wrong
  <2> QED BY <2>1, OfSomeTool
<1>6. Cardinality(DOMAIN calls) = Len(calls)
  <2>1. Cardinality(1 .. Len(calls)) = IF 1 > Len(calls) THEN 0 ELSE Len(calls) - 1 + 1
    BY <1>2, FS_Interval
  <2> DEFINE n == Len(calls)
  <2>2. n \in Nat /\ Cardinality(1 .. n) = IF 1 > n THEN 0 ELSE n - 1 + 1
    BY <1>2, <2>1
  <2> HIDE DEF n
  <2>3. Cardinality(1 .. n) = n
    BY <2>2
  <2> QED BY <1>2, <2>3 DEF n
<1>7. \A t \in tools :
        /\ usage[t].calls = all[t] /\ usage[t].success[1] = fine[t] /\ usage[t].retries = R[t]
  <2> SUFFICES ASSUME NEW t \in tools
               PROVE  usage[t].calls = all[t] /\ usage[t].success[1] = fine[t]
    BY <1>1
  <2> DEFINE own == CallsOf(calls, t)
             F == Ours(calls, Fine(calls), t)
  <2>1. Len(own) = Cardinality(PlacesOf(calls, t)) /\ Successes(own) = Cardinality(F)
    BY CallsCount
  <2>2. usage[t].calls = Len(own) /\ usage[t].success = Rate(Successes(own), Len(own))
    BY <1>1
  <2>3. all[t] = Cardinality(PlacesOf(calls, t)) /\ fine[t] = Cardinality(F)
    BY DEF PlacesOf, Ours
  <2>4. F \in SUBSET PlacesOf(calls, t) /\ IsFiniteSet(PlacesOf(calls, t))
    BY <1>3, FS_Subset DEF PlacesOf, Fine, Ours
  <2>5. Len(own) = 0 => Successes(own) = 0
    BY <2>1, <2>4, FS_EmptySet
  <2> HIDE DEF own, F, usage, all, fine
  <2> QED BY <2>1, <2>2, <2>3, <2>5, RateFirst
<1>8. /\ \A t \in tools : R[t] \in Nat
      /\ SumFunction(R) \in Nat /\ SumFunction(R) <= Cardinality(Wrong(calls))
      /\ Cardinality({t \in tools : R[t] > 0}) = 0 => SumFunction(R) = 0
  BY SomeRetried
<1>9. stats.retries[1] = SumFunction(R)
  <2> HIDE DEF R, tools
  <2> QED BY <1>1, <1>8, RateFirst
<1>10. DOMAIN all = tools /\ DOMAIN fine = tools /\ DOMAIN R = tools
       /\ all = [t \in DOMAIN all |-> all[t]] /\ fine = [t \in DOMAIN fine |-> fine[t]]
       /\ R = [t \in DOMAIN R |-> R[t]]
  BY DEF RetriesOf
<1>11. /\ Total(DOMAIN usage, LAMBDA t : usage[t].calls) = SumFunction(all)
       /\ Total(DOMAIN usage, LAMBDA t : usage[t].success[1]) = SumFunction(fine)
       /\ Total(DOMAIN usage, LAMBDA t : usage[t].retries) = SumFunction(R)
  <2> HIDE DEF usage, all, fine, R, tools
  <2>0. \A t \in tools : all[t] # NoValue /\ fine[t] # NoValue /\ R[t] # NoValue
    BY <1>3, <1>4, <1>8, NoValueAssumption
  <2>1. [t \in DOMAIN usage |-> IF usage[t].calls = NoValue THEN 0 ELSE usage[t].calls] = all
    BY <1>1, <1>7, <1>10, <2>0
  <2>2. [t \in DOMAIN usage |-> IF usage[t].success[1] = NoValue THEN 0 ELSE usage[t].success[1]]
          = fine
    BY <1>1, <1>7, <1>10, <2>0
  <2>3. [t \in DOMAIN usage |-> IF usage[t].retries = NoValue THEN 0 ELSE usage[t].retries] = R
    BY <1>1, <1>7, <1>10, <2>0
  <2> QED BY <2>1, <2>2, <2>3 DEF Total
<1>12. Successes(calls) = Cardinality(Fine(calls))
  BY DEF Successes, Fine
<1>13. Cardinality(Fine(calls)) + Cardinality(Wrong(calls)) = Len(calls)
  <2>1. Fine(calls) \cup Wrong(calls) = DOMAIN calls /\ Fine(calls) \cap Wrong(calls) = {}
    BY DEF Fine, Wrong
  <2>2. Cardinality(Fine(calls) \cup Wrong(calls))
         = Cardinality(Fine(calls)) + Cardinality(Wrong(calls))
             - Cardinality(Fine(calls) \cap Wrong(calls))
    BY <1>4, <1>5, FS_Union
  <2>3. Cardinality(Fine(calls) \cap Wrong(calls)) = 0
    BY <2>1, FS_EmptySet
  <2> QED BY <1>4, <1>5, <1>6, <2>1, <2>2, <2>3
<1>14. stats.maxLoop = Max({usage[t].maxLoop : t \in DOMAIN usage})
  <2>1. DOMAIN loops = tools /\ tools # {}
    BY <1>2, LoopsAre DEF ToolsOf
  <2>2. loops # << >>
    <3> HIDE DEF loops, tools
    <3> QED BY <2>1
  <2>3. {usage[t].maxLoop : t \in DOMAIN usage} = {loops[t] : t \in tools}
    <3> HIDE DEF loops, tools, usage
    <3> QED BY <1>1
  <2> HIDE DEF loops, tools, usage
  <2> QED BY <1>1, <2>2, <2>3
<1>15. stats.retries[1] + stats.successful <= stats.total
  <2> HIDE DEF R
  <2> QED BY <1>1, <1>4, <1>5, <1>8, <1>9, <1>12, <1>13
<1>16. /\ stats.total = Total(DOMAIN usage, LAMBDA t : usage[t].calls)
       /\ stats.successful = Total(DOMAIN usage, LAMBDA t : usage[t].success[1])
       /\ stats.retries[1] = Total(DOMAIN usage, LAMBDA t : usage[t].retries)
  BY <1>1, <1>3, <1>4, <1>6, <1>9, <1>11, <1>12
<1> QED BY <1>1, <1>14, <1>15, <1>16 DEF ToolsAddUp

(* A finite set can be put in an order in which f never rises. *)
Falling(s, f) == \A i, j \in DOMAIN s : i < j => ~(f[s[j]] > f[s[i]])

LEMMA OrderExists ==
  ASSUME NEW S, IsFiniteSet(S), NEW f, \A x \in S : f[x] \in Nat
  PROVE  \E s \in SetToSeqs(S) : Falling(s, f)
<1> DEFINE Ordered(T) == \E s \in SetToSeqs(T) : Falling(s, f)
           Good == {T \in SUBSET S : Ordered(T)}
<1>1. ASSUME NEW T \in SUBSET S, \A U \in SUBSET T : U # T => U \in Good
      PROVE  T \in Good
  <2>1. ASSUME T = {} PROVE Ordered(T)
    <3>1. << >> \in SetToSeqs({})
      BY FS_EmptySet DEF SetToSeqs
    <3>2. Falling(<< >>, f)
      BY DEF Falling
    <3> QED BY <2>1, <3>1, <3>2
  <2>2. ASSUME T # {} PROVE Ordered(T)
    <3> DEFINE V == {f[x] : x \in T}
    <3>1. V \in SUBSET Nat /\ V # {}
      BY <2>2
    <3>2. PICK x \in T : f[x] = Min(V)
      <4>1. Min(V) \in V
        BY <3>1, MinInSet
      <4> QED BY <4>1
    <3>3. \A y \in T : f[x] <= f[y]
      <4>1. \A v \in V : Min(V) <= v
        BY <3>1, MinInSet
      <4> QED BY <3>2, <4>1
    <3> DEFINE U == T \ {x}
               n == Cardinality(U)
    <3>4. U \in Good
      BY <1>1, <3>2
    <3>5. PICK s \in SetToSeqs(U) : Falling(s, f)
      BY <3>4
    <3>6. IsFiniteSet(T) /\ IsFiniteSet(U) /\ n \in Nat /\ Cardinality(T) = n + 1
      <4>1. IsFiniteSet(T) /\ IsFiniteSet(U)
        BY FS_Subset
      <4>2. Cardinality(U) = Cardinality(T) - 1
        BY <4>1, <3>2, FS_RemoveElement
      <4>3. n \in Nat /\ Cardinality(T) \in Nat
        BY <4>1, FS_CardinalityType
      <4> HIDE DEF U
      <4> QED BY <4>1, <4>2, <4>3
    <3>7. s \in [1 .. n -> U] /\ \A i, j \in 1 .. n : i # j => s[i] # s[j]
      BY <3>5 DEF SetToSeqs
    <3> HIDE DEF n
    <3> DEFINE t == [i \in 1 .. n + 1 |-> IF i = n + 1 THEN x ELSE s[i]]
    <3>8. \A i \in 1 .. n + 1 : i # n + 1 => i \in 1 .. n
      BY <3>6
    <3>9. /\ t \in [1 .. n + 1 -> T] /\ t[n + 1] = x
          /\ \A i \in 1 .. n : t[i] = s[i] /\ t[i] \in U /\ i # n + 1
      BY <3>2, <3>6, <3>7, <3>8
    <3> HIDE DEF t
    <3>10. \A i, j \in 1 .. n + 1 : i # j => t[i] # t[j]
      BY <3>7, <3>8, <3>9
    <3>11. t \in SetToSeqs(T)
      BY <3>6, <3>9, <3>10 DEF SetToSeqs
    <3>12. Falling(t, f)
      <4> SUFFICES ASSUME NEW i \in 1 .. n + 1, NEW j \in 1 .. n + 1, i < j
                   PROVE  ~(f[t[j]] > f[t[i]])
        BY <3>9 DEF Falling
      <4>1. CASE j = n + 1
        <5>1. t[i] \in T /\ f[x] <= f[t[i]] /\ f[t[i]] \in Nat /\ f[x] \in Nat /\ t[j] = x
          BY <3>2, <3>3, <3>9, <4>1
        <5> QED BY <5>1
      <4>2. CASE j # n + 1
        <5>1. j \in 1 .. n /\ i \in 1 .. n
          BY <3>6, <3>8, <4>2
        <5>2. t[i] = s[i] /\ t[j] = s[j] /\ DOMAIN s = 1 .. n
          BY <3>7, <3>9, <5>1
        <5> QED BY <3>5, <5>1, <5>2 DEF Falling
      <4> QED BY <4>1, <4>2
    <3> QED BY <3>11, <3>12
  <2> HIDE DEF Ordered
  <2> QED BY <2>1, <2>2
<1> HIDE DEF Ordered
<1>2. S \in Good
  <2> HIDE DEF Good
  <2> QED BY <1>1, SubsetInduction
<1> QED BY <1>2 DEF Ordered

(* Nothing is said of tools none of which is deep in a loop or poor. *)
LEMMA PickedNone ==
  ASSUME NEW s, IsSeq(s)
  PROVE  Picked(s, {}) = << >>
<1> DEFINE S == {s[i] : i \in DOMAIN s}
           p == Picked(s, {})
<1>1. s \in Seq(S)
  BY DEF IsSeq
<1> HIDE DEF S
<1>2. p \in Seq(S) /\ \E h : Lists(h, s, {}, p)
  BY <1>1, PickedIs
<1>3. PICK h : Lists(h, s, {}, p)
  BY <1>2
<1> HIDE DEF p
<1>4. \A k \in DOMAIN p : FALSE
  BY <1>3 DEF Lists
<1>5. p \in Seq(S) /\ Len(p) = 0
  <2>1. p \in Seq(S)
    BY <1>2
  <2>2. Len(p) \in Nat /\ DOMAIN p = 1 .. Len(p)
    BY <2>1
  <2>3. 1 \notin DOMAIN p
    BY <1>4
  <2> QED BY <2>1, <2>2, <2>3
<1>6. p = << >>
  BY <1>5
<1> QED BY <1>6 DEF p

NothingBad(stats) ==
  /\ \A t \in DOMAIN stats.usage : ~Deep(stats, t) /\ ~Poor(stats, t)
  /\ ~Below(stats.traceSuccess, 7, 10) /\ ~(stats.retries[1] > stats.retries[2])

LEMMA NoAdvice ==
  ASSUME NEW stats, NothingBad(stats), NEW names, IsSeq(names),
         \A i \in DOMAIN names : names[i] \in DOMAIN stats.usage
  PROVE  SubSeq(Advice(stats, names), 1, Least(4, Len(Advice(stats, names)))) = << >>
<1>1. /\ {i \in DOMAIN names : Deep(stats, names[i])} = {}
      /\ {i \in DOMAIN names : Poor(stats, names[i])} = {}
  BY DEF NothingBad
<1>2. /\ Picked(names, {i \in DOMAIN names : Deep(stats, names[i])}) = << >>
      /\ Picked(names, {i \in DOMAIN names : Poor(stats, names[i])}) = << >>
  BY <1>1, PickedNone
<1>3. \A what : Say(what, << >>) = << >>
  BY DEF Say
<1>4. /\ ~(Below(stats.traceSuccess, 7, 10) /\ stats.traceSuccess[1] > 0)
      /\ ~(stats.retries[1] > stats.retries[2])
  BY DEF NothingBad
<1> DEFINE none == << >>
<1>5. Advice(stats, names) = none \o none \o none \o none
  <2> DEFINE a == Say("loop", Picked(names, {i \in DOMAIN names : Deep(stats, names[i])}))
             b == Say("unreliable", Picked(names, {i \in DOMAIN names : Poor(stats, names[i])}))
             c == IF Below(stats.traceSuccess, 7, 10) /\ stats.traceSuccess[1] > 0
                  THEN <<<<"traces", NoValue>>>> ELSE << >>
             d == IF stats.retries[1] > stats.retries[2] THEN <<<<"retries", NoValue>>>> ELSE << >>
  <2>1. a = none /\ b = none
    BY <1>2, <1>3
  <2>2. c = none /\ d = none
    BY <1>4
  <2>3. Advice(stats, names) = a \o b \o c \o d
    BY DEF Advice
  <2> HIDE DEF a, b, c, d, none
  <2> QED BY <2>1, <2>2, <2>3
<1>6. none \o none \o none \o none = << >>
  OBVIOUS
<1>7. SubSeq(<< >>, 1, Least(4, Len(<< >>))) = << >>
  BY DEF Least
<1> QED BY <1>5, <1>6, <1>7

(* Nor of a session without errors and without a run of three. *)
LEMMA FineIsNotBad ==
  ASSUME NEW calls, IsSeq(calls), calls # << >>, Wrong(calls) = {},
         NEW stats, StatsTell(stats, <<OK>>, calls), stats.maxLoop < 3
  PROVE  NothingBad(stats)
<1> DEFINE tools == ToolsOf(calls)
           R == RetriesOf(calls)
           loops == MaxLoops(calls)
           retried == {t \in tools : R[t] > 0}
<1>1. /\ stats.traceSuccess = Rate(Cardinality({i \in DOMAIN <<OK>> : <<OK>>[i] = OK}), Len(<<OK>>))
      /\ stats.retries = Rate(SumFunction(R), Cardinality(retried))
      /\ stats.maxLoop = IF loops = << >> THEN 0 ELSE Max({loops[t] : t \in tools})
      /\ DOMAIN stats.usage = tools
      /\ \A t \in tools :
           LET own == CallsOf(calls, t)
           IN  /\ stats.usage[t].calls = Len(own)
               /\ stats.usage[t].success = Rate(Successes(own), Len(own))
               /\ stats.usage[t].maxLoop = loops[t]
  BY DEF StatsTell
<1>2. \A t \in tools : IsSeq(CallsOf(calls, t)) /\ Wrong(CallsOf(calls, t)) = {}
  <2> SUFFICES ASSUME NEW t \in tools
               PROVE  IsSeq(CallsOf(calls, t)) /\ Wrong(CallsOf(calls, t)) = {}
    OBVIOUS
  <2> DEFINE own == CallsOf(calls, t)
  <2>1. IsSeq(own) /\ \A k \in DOMAIN own : \E i \in DOMAIN calls : own[k] = calls[i]
    BY CallsCount
  <2> HIDE DEF own
  <2>2. \A i \in DOMAIN calls : calls[i].status = OK
    BY DEF Wrong
  <2>3. Wrong(own) = {}
    BY <2>1, <2>2 DEF Wrong
  <2> QED BY <2>1, <2>3 DEF own
<1>3. ~(stats.retries[1] > stats.retries[2])
  <2>1. \A t \in tools : R[t] = 0
    BY <1>2, RetriesAreErrors DEF RetriesOf
  <2>2. Cardinality(retried) = 0
    BY <2>1, SomeRetried
  <2> HIDE DEF R, retried, tools
  <2>3. stats.retries = <<0, 1>>
    BY <1>1, <2>2 DEF Rate
  <2> QED BY <2>3
<1>4. ~Below(stats.traceSuccess, 7, 10)
  <2>1. {i \in DOMAIN <<OK>> : <<OK>>[i] = OK} = {1} /\ Len(<<OK>>) = 1
    OBVIOUS
  <2>2. Cardinality({1}) = 1
    BY FS_Singleton
  <2>3. stats.traceSuccess = <<1, 1>>
    BY <1>1, <2>1, <2>2 DEF Rate
  <2> QED BY <2>3 DEF Below
<1>5. ASSUME NEW t \in tools PROVE ~Poor(stats, t)
  <2> DEFINE own == CallsOf(calls, t)
             n == Len(own)
  <2>1. IsSeq(own) /\ Wrong(own) = {}
    BY <1>2
  <2>2. stats.usage[t].calls = n /\ stats.usage[t].success = Rate(Successes(own), n)
    BY <1>1
  <2> HIDE DEF own
  <2>3. DOMAIN own = 1 .. n /\ n \in Nat
    BY <2>1, SeqIs
  <2>4. Successes(own) = Cardinality(1 .. n)
    <3>1. {i \in DOMAIN own : own[i].status = OK} = 1 .. n
      BY <2>1, <2>3 DEF Wrong
    <3> QED BY <3>1 DEF Successes
  <2> HIDE DEF n
  <2>5. Cardinality(1 .. n) = n
    <3>1. Cardinality(1 .. n) = IF 1 > n THEN 0 ELSE n - 1 + 1
      BY <2>3, FS_Interval
    <3> QED BY <2>3, <3>1
  <2>6. n # 0 => stats.usage[t].success = <<n, n>>
    BY <2>2, <2>4, <2>5 DEF Rate
  <2>7. n # 0 => ~Below(stats.usage[t].success, 8, 10)
    BY <2>3, <2>6 DEF Below
  <2> QED BY <2>2, <2>3, <2>7 DEF Poor
<1>6. ASSUME NEW t \in tools PROVE ~Deep(stats, t)
  <2>1. DOMAIN loops = tools /\ \A u \in tools : loops[u] \in Nat
    BY LoopsAre DEF ToolsOf
  <2>2. IsFiniteSet(tools)
    BY ToolsAreFinite
  <2> DEFINE V == {loops[u] : u \in tools}
  <2>3. stats.usage[t].maxLoop = loops[t]
    BY <1>1
  <2> HIDE DEF loops, tools
  <2>4. V \in SUBSET Nat /\ V # {} /\ loops[t] \in V
    BY <2>1
  <2>5. IsFiniteSet(V)
    BY <2>2, FiniteImage
  <2>6. loops # << >>
    BY <2>1
  <2>7. stats.maxLoop = Max(V)
    BY <1>1, <2>6
  <2> HIDE DEF V
  <2>8. Max(V) \in Nat /\ loops[t] <= Max(V) /\ loops[t] \in Nat
    BY <2>4, <2>5, FiniteMax
  <2> QED BY <2>3, <2>7, <2>8 DEF Deep
<1> QED BY <1>1, <1>3, <1>4, <1>5, <1>6 DEF NothingBad

LEMMA FineIsNotAdvised ==
  ASSUME NEW calls, IsSeq(calls), calls # << >>, Wrong(calls) = {},
         NEW stats, StatsTell(stats, <<OK>>, calls), stats.maxLoop < 3
  PROVE  Insights(stats) = {<< >>}
<1> DEFINE tools == DOMAIN stats.usage
           T == Orders(tools, LAMBDA t, u : stats.usage[t].calls > stats.usage[u].calls)
           Said(names) == SubSeq(Advice(stats, names), 1, Least(4, Len(Advice(stats, names))))
<1>1. NothingBad(stats)
  BY FineIsNotBad
<1>2. tools = ToolsOf(calls) /\ IsFiniteSet(tools)
  BY ToolsAreFinite DEF StatsTell
<1>3. ASSUME NEW names \in T PROVE Said(names) = << >>
  <2>1. names \in SetToSeqs(tools)
    BY DEF Orders
  <2> HIDE DEF T
  <2>2. IsSeq(names) /\ \A i \in DOMAIN names : names[i] \in tools
    BY <1>2, <2>1, OrderHasAll DEF Renames
  <2> QED BY <1>1, <2>2, NoAdvice
<1>4. T # {}
  <2> DEFINE f == [t \in tools |-> stats.usage[t].calls]
  <2>1. \A t \in tools : f[t] \in Nat
    <3> SUFFICES ASSUME NEW t \in tools PROVE stats.usage[t].calls \in Nat
      OBVIOUS
    <3>1. stats.usage[t].calls = Len(CallsOf(calls, t))
      BY DEF StatsTell
    <3>2. IsSeq(CallsOf(calls, t))
      BY CallsCount
    <3> QED BY <3>1, <3>2, SeqIs
  <2>2. \A t \in tools : f[t] = stats.usage[t].calls
    OBVIOUS
  <2> HIDE DEF f
  <2>3. PICK names \in SetToSeqs(tools) : Falling(names, f)
    BY <1>2, <2>1, OrderExists
  <2>4. \A i \in DOMAIN names : names[i] \in tools
    BY <1>2, OrderHasAll DEF Renames
  <2>5. \A i, j \in DOMAIN names :
          i < j => ~(stats.usage[names[j]].calls > stats.usage[names[i]].calls)
    BY <2>2, <2>3, <2>4 DEF Falling
  <2>6. names \in T
    BY <2>5 DEF Orders
  <2> QED BY <2>6
<1>5. Insights(stats) = {Said(names) : names \in T}
  BY DEF Insights
<1> HIDE DEF Said, T
<1> QED BY <1>3, <1>4, <1>5

(* What ToolSpans of the input returns: the items in some order. *)
LEMMA CallsAreInput ==
  ASSUME InputFits, kind = "calls", input # << >>, NEW calls \in ToolSpans(input)
  PROVE  /\ IsSeq(calls) /\ Len(calls) = Len(input) /\ calls # << >>
         /\ \A k \in DOMAIN calls : \E i \in DOMAIN input : calls[k] = input[i]
<1>1. /\ IsSeq(input) /\ \A i \in DOMAIN input : input[i].tool # NoValue
      /\ DOMAIN input = 1 .. Len(input) /\ Len(input) \in Nat /\ Len(input) # 0
  <2>1. input \in Seq(AllOf("calls")) /\ \A i \in DOMAIN input : input[i] \in AllOf("calls")
    BY DEF InputFits
  <2>2. Len(input) # 0
    BY <2>1
  <2> QED BY <2>1, <2>2, SeqOver, CallsAssumption
<1> DEFINE I == {i \in DOMAIN input : input[i].tool # NoValue}
           n == Len(input)
<1>2. I = 1 .. n /\ I = DOMAIN input
  BY <1>1
<1>3. PICK o \in SetToSeqs(I) : calls = [k \in DOMAIN o |-> input[o[k]]]
  BY DEF ToolSpans, Orders
<1> HIDE DEF I, n
<1>4. n \in Nat /\ IsFiniteSet(I) /\ Cardinality(I) = n
  <2>1. n \in Nat
    BY <1>1 DEF n
  <2>2. Cardinality(1 .. n) = IF 1 > n THEN 0 ELSE n - 1 + 1
    BY <2>1, FS_Interval
  <2> QED BY <1>2, <2>1, <2>2, FS_Interval
<1>5. o \in [1 .. n -> I]
  BY <1>3, <1>4 DEF SetToSeqs
<1> DEFINE S == {input[i] : i \in DOMAIN input}
<1>6. calls \in [1 .. n -> S] /\ \A k \in 1 .. n : o[k] \in I /\ calls[k] = input[o[k]]
  BY <1>2, <1>3, <1>5
<1>7. IsSeq(calls) /\ Len(calls) = n
  <2> HIDE DEF S
  <2> QED BY <1>4, <1>6, FunctionSeq
<1>8. calls # << >>
  <2>1. n # 0
    BY <1>1 DEF n
  <2> QED BY <1>7, <2>1
<1>9. DOMAIN calls = 1 .. n
  BY <1>6
<1> QED BY <1>2, <1>6, <1>7, <1>8, <1>9 DEF n

(* The retries and the loop of every tool are what its calls say, the      *)
(* tools add up to the session, and a session without errors and without a *)
(* run of three gets no advice, whatever the calls and in whatever order   *)
(* calls of one start come.                                                *)
THEOREM StatsAreAlwaysExact == InputSpec => []StatsAreExact
<1>1. InputFits => StatsAreExact
  <2> SUFFICES ASSUME InputFits, kind = "calls", input # << >>, NEW calls \in ToolSpans(input)
               PROVE  LET stats == AgentStats(<<input[1].status>>, input, calls)
                      IN  /\ Len(calls) = Len(input) /\ ToolsAreExact(calls, stats.usage)
                          /\ ToolsAddUp(calls, stats) /\ NothingToAdvise(stats)
    BY DEF StatsAreExact
  <2> DEFINE statuses == <<input[1].status>>
             stats == AgentStats(statuses, input, calls)
  <2>1. /\ IsSeq(calls) /\ Len(calls) = Len(input) /\ calls # << >>
        /\ \A k \in DOMAIN calls : \E i \in DOMAIN input : calls[k] = input[i]
    BY CallsAreInput
  <2>2. StatsTell(stats, statuses, calls)
    BY <2>1, StatsAre
  <2>3. 1 \in DOMAIN input
    <3>1. input \in Seq(AllOf(kind))
      BY DEF InputFits
    <3> QED BY <3>1
  <2> HIDE DEF stats
  <2>4. NothingToAdvise(stats)
    <3> SUFFICES ASSUME \A i \in DOMAIN input : input[i].status = OK, stats.maxLoop < 3
                 PROVE  Insights(stats) = {<< >>}
      BY DEF NothingToAdvise
    <3>1. Wrong(calls) = {}
      BY <2>1 DEF Wrong
    <3>2. statuses = <<OK>>
      BY <2>3
    <3> QED BY <2>1, <2>2, <3>1, <3>2, FineIsNotAdvised
  <2>5. ToolsAreExact(calls, stats.usage) /\ ToolsAddUp(calls, stats)
    BY <2>1, <2>2, ToldExactly, ToldAddsUp
  <2> QED BY <2>1, <2>4, <2>5 DEF stats
<1> QED BY <1>1, InputInvariance, PTL
=============================================================================
