-------------------------- MODULE DiagnosisProofs --------------------------
(***************************************************************************)
(* Proofs about Diagnosis, for any handlers, traces, spans, configurations *)
(* and any number of deletions.                                            *)
(***************************************************************************)
EXTENDS Diagnosis, TLAPS

PCs == {"check", "compare", "claim"} \cup Claimed
Reqs == [Requests -> Request \cup {Idle}]

-----------------------------------------------------------------------------
(* What the ways to change a handler's record leave alone. *)

(* What a request that is not idle carries. *)
LEMMA Active ==
  ASSUME TypeOK, NEW q \in Requests, req[q].pc # "idle"
  PROVE  /\ req[q] \in Request /\ req[q] # Idle
         /\ req[q].pc \in PCs /\ req[q].trace \in Traces /\ req[q].here \in BOOLEAN
         /\ req[q].read \in Snapshot \cup {None}
<1>1. req[q] \in Request \cup {Idle}
  BY DEF TypeOK
<1>2. req[q] # Idle
  BY DEF Idle
<1>3. req[q] \in Request
  BY <1>1, <1>2
<1> QED
  BY <1>2, <1>3 DEF Request, PCs

(* A step to pc changes nothing else of the request, and no other request. *)
LEMMA Went ==
  ASSUME TypeOK, NEW q \in Requests, req[q].pc # "idle", NEW pc \in PCs, Goto(q, pc)
  PROVE  /\ req' \in Reqs
         /\ \A p \in Requests : p # q => req'[p] = req[p]
         /\ req'[q].pc = pc /\ req'[q].trace = req[q].trace
         /\ req'[q].force = req[q].force /\ req'[q].here = req[q].here
         /\ req'[q].read = req[q].read /\ req'[q].current = req[q].current
<1>1. req[q] \in Request
  BY Active
<1>2. req \in Reqs
  BY DEF TypeOK, Reqs
<1>3. [req[q] EXCEPT !.pc = pc] \in Request
  BY <1>1 DEF Request, PCs
<1> QED
  BY <1>1, <1>2, <1>3 DEF Goto, Reqs, Request

(* A step to pc that takes a snapshot along. *)
LEMMA WentWith ==
  ASSUME TypeOK, NEW q \in Requests, req[q].pc # "idle", NEW pc \in PCs,
         NEW r \in Snapshot \cup {None},
         Take(q, pc, r)
  PROVE  /\ req' \in Reqs
         /\ \A p \in Requests : p # q => req'[p] = req[p]
         /\ req'[q].pc = pc /\ req'[q].trace = req[q].trace
         /\ req'[q].force = req[q].force /\ req'[q].here = req[q].here
         /\ req'[q].read = r /\ req'[q].current = req[q].current
<1>1. req[q] \in Request
  BY Active
<1>2. req \in Reqs
  BY DEF TypeOK, Reqs
<1>3. [req[q] EXCEPT !.pc = pc, !.read = r] \in Request
  BY <1>1 DEF Request, PCs
<1> QED
  BY <1>1, <1>2, <1>3 DEF Take, Reqs, Request

(* An answer leaves the handler idle. *)
LEMMA Answered ==
  ASSUME TypeOK, NEW q \in Requests, Answer(q)
  PROVE  /\ req' \in Reqs
         /\ \A p \in Requests : p # q => req'[p] = req[p]
         /\ req'[q] = Idle /\ req'[q].pc = "idle"
BY DEF TypeOK, Reqs, Answer, Idle

(* The client leaves: nothing but `here` changes. *)
LEMMA Left ==
  ASSUME TypeOK, NEW q \in Requests, Disconnect(q)
  PROVE  /\ req' \in Reqs
         /\ \A p \in Requests : p # q => req'[p] = req[p]
         /\ req'[q].pc = req[q].pc /\ req'[q].trace = req[q].trace
         /\ req'[q].force = req[q].force /\ req'[q].here = FALSE
         /\ req'[q].read = req[q].read /\ req'[q].current = req[q].current
<1>1. req \in Reqs /\ req[q] \in Request
  BY DEF TypeOK, Reqs, Disconnect
<1>2. [req[q] EXCEPT !.here = FALSE] \in Request
  BY <1>1 DEF Request
<1> QED
  BY <1>1, <1>2 DEF Disconnect, Reqs, Request

(* A change of trace t takes `current` from the requests for it, and nothing else. *)
LEMMA MadeOutdated ==
  ASSUME TypeOK, NEW t \in Traces, Outdated(t)
  PROVE  /\ req' \in Reqs
         /\ \A p \in Requests :
              /\ req'[p].pc = req[p].pc
              /\ req[p].pc # "idle" =>
                   /\ req'[p].trace = req[p].trace /\ req'[p].here = req[p].here
                   /\ req'[p].force = req[p].force /\ req'[p].read = req[p].read
                   /\ req'[p].current =>
                        req[p].current /\ req[p].trace # t
<1>1. req \in Reqs
  BY DEF TypeOK, Reqs
<1> SUFFICES ASSUME NEW p \in Requests
             PROVE  /\ req'[p] \in Request \cup {Idle}
                    /\ req'[p].pc = req[p].pc
                    /\ req[p].pc # "idle" =>
                         /\ req'[p].trace = req[p].trace /\ req'[p].here = req[p].here
                         /\ req'[p].force = req[p].force /\ req'[p].read = req[p].read
                         /\ req'[p].current => req[p].current /\ req[p].trace # t
  BY DEF Outdated, Reqs
<1>2. CASE req[p] # Idle /\ req[p].trace = t
  <2>1. req[p] \in Request /\ req'[p] = [req[p] EXCEPT !.current = FALSE]
    BY <1>1, <1>2 DEF Outdated, Reqs
  <2> QED
    BY <2>1 DEF Request
<1>3. CASE ~(req[p] # Idle /\ req[p].trace = t)
  <2>1. req'[p] = req[p]
    BY <1>3 DEF Outdated
  <2>2. req[p].pc # "idle" => req[p].trace # t
    BY <1>3 DEF Idle
  <2> QED
    BY <1>1, <2>1, <2>2 DEF Reqs
<1> QED
  BY <1>2, <1>3

(* A new request begins with nothing read. *)
LEMMA Posted ==
  ASSUME TypeOK, NEW q \in Requests, NEW t \in Traces, NEW force \in BOOLEAN,
         Post(q, t, force)
  PROVE  /\ req' \in Reqs
         /\ \A p \in Requests : p # q => req'[p] = req[p]
         /\ req'[q].pc \in {"claim", "check"} /\ req'[q].trace = t
         /\ req'[q].pc = "claim" => force
         /\ req'[q].force = force /\ req'[q].here = TRUE
         /\ req'[q].read = None
         /\ req'[q].current = (results[t] = Now(t))
<1> DEFINE r == [pc |-> IF force THEN "claim" ELSE "check", trace |-> t,
                 force |-> force, here |-> TRUE, read |-> None,
                 current |-> results[t] = Now(t)]
<1>1. r \in Request
  BY DEF Request
<1>2. req \in Reqs /\ req' = [req EXCEPT ![q] = r]
  BY DEF TypeOK, Reqs, Post
<1>3. /\ r.pc \in {"claim", "check"} /\ r.trace = t /\ (r.pc = "claim" => force)
      /\ r.force = force /\ r.here = TRUE /\ r.read = None
      /\ r.current = (results[t] = Now(t))
  OBVIOUS
<1> HIDE DEF r
<1> QED
  BY <1>1, <1>2, <1>3 DEF Reqs

-----------------------------------------------------------------------------
(* The steps by what they change. *)
StoreStep(t) == (\E s \in Spans : InsertSpans(t, s)) \/ DeleteTraces(t) \/ Purge(t)
RequestStep(q) ==
  \/ \E t \in Traces, force \in BOOLEAN : Post(q, t, force)
  \/ Disconnect(q) \/ Handle(q) \/ Model(q)

(* Every step is one of the store, of the configurations or of a request. *)
LEMMA Steps ==
  ASSUME [Next]_vars
  PROVE  \/ \E t \in Traces : StoreStep(t)
         \/ ConfigTraffic
         \/ \E q \in Requests : RequestStep(q)
         \/ UNCHANGED vars
BY DEF Next, StoreTraffic, Clients, StoreStep, RequestStep

(* A request's step leaves the trace and the configurations alone. *)
LEMMA RequestsKeepTraces ==
  ASSUME NEW q \in Requests, RequestStep(q)
  PROVE  UNCHANGED <<spans, configs, era>>
BY DEF RequestStep, Post, Disconnect, Handle, Model, GetDiagnosisResult,
       CompareSnapshot, Claim, GetTrace, GetLLMConfigs, LLMAnswers, LLMFails,
       UpsertDiagnosisResult, Release

(* A request's step leaves the other requests alone. *)
LEMMA OthersKept ==
  ASSUME TypeOK, NEW q \in Requests, RequestStep(q), NEW p \in Requests, p # q
  PROVE  req'[p] = req[p]
<1>1. ASSUME NEW r, req' = [req EXCEPT ![q] = r] PROVE req'[p] = req[p]
  BY <1>1 DEF TypeOK
<1>2. \A pc : Goto(q, pc) => req'[p] = req[p]
  BY DEF Goto, TypeOK
<1>3. \A pc, r : Take(q, pc, r) => req'[p] = req[p]
  BY DEF Take, TypeOK
<1>4. Answer(q) => req'[p] = req[p]
  BY DEF Answer, TypeOK
<1>5. Disconnect(q) => req'[p] = req[p]
  BY DEF Disconnect, TypeOK
<1> QED
  BY <1>1, <1>2, <1>3, <1>4, <1>5
  DEF RequestStep, Post, Handle, Model, GetDiagnosisResult, CompareSnapshot, Claim,
      GetTrace, GetLLMConfigs, LLMAnswers, LLMFails, UpsertDiagnosisResult, Release

(* A snapshot of a trace is one. *)
LEMMA NowTyped ==
  ASSUME TypeOK, NEW t \in Traces
  PROVE  Now(t) \in Snapshot /\ Now(t).spans = spans[t] /\ Now(t).era = era[t]
BY DEF TypeOK, Now, Snapshot

(* The two steps that take something along. *)
Rest(q) ==
  /\ req'[q].trace = req[q].trace /\ req'[q].force = req[q].force
  /\ req'[q].here = req[q].here /\ req'[q].current = req[q].current

(* The read of the stored result. *)
LEMMA Checked ==
  ASSUME TypeOK, NEW q \in Requests, GetDiagnosisResult(q)
  PROVE  /\ req' \in Reqs
         /\ \A p \in Requests : p # q => req'[p] = req[p]
         /\ UNCHANGED <<results, inFlight>>
         /\ \/ req'[q].pc = "idle"
            \/ /\ req[q].here /\ Rest(q)
               /\ req'[q].pc = IF results[req[q].trace] = None THEN "claim" ELSE "compare"
               /\ req'[q].read = results[req[q].trace]
<1> DEFINE r == results[req[q].trace]
           pc == IF r = None THEN "claim" ELSE "compare"
<1>0. UNCHANGED <<results, inFlight>>
  BY DEF GetDiagnosisResult
<1>1. CASE ~req[q].here
  BY <1>0, <1>1, Answered DEF GetDiagnosisResult
<1>2. CASE req[q].here
  <2>1. req[q].pc # "idle"
    BY DEF GetDiagnosisResult, At
  <2>2. req[q].trace \in Traces
    BY <2>1, Active
  <2>3. r \in Snapshot \cup {None} /\ pc \in PCs
    BY <2>2 DEF TypeOK, PCs
  <2>4. Take(q, pc, r)
    BY <1>2 DEF GetDiagnosisResult
  <2> HIDE DEF r, pc
  <2>5. /\ req' \in Reqs /\ \A p \in Requests : p # q => req'[p] = req[p]
        /\ req'[q].pc = pc /\ req'[q].read = r /\ Rest(q)
    BY <2>1, <2>3, <2>4, WentWith DEF Rest
  <2> QED
    BY <1>0, <1>2, <2>5 DEF r, pc
<1> QED
  BY <1>1, <1>2

(* The read of the trace. *)
LEMMA Loaded ==
  ASSUME TypeOK, NEW q \in Requests, GetTrace(q)
  PROVE  /\ req' \in Reqs
         /\ \A p \in Requests : p # q => req'[p] = req[p]
         /\ UNCHANGED <<results, inFlight>>
         /\ Rest(q)
         /\ \/ req'[q].pc = "release"
            \/ /\ req[q].here /\ spans[req[q].trace] # {}
               /\ req'[q].pc = "config" /\ req'[q].read = Now(req[q].trace)
<1>0. UNCHANGED <<results, inFlight>> /\ req[q].pc # "idle"
  BY DEF GetTrace, At
<1>1. CASE Goto(q, "release")
  BY <1>0, <1>1, Went DEF PCs, Claimed, Rest
<1>2. CASE /\ req[q].here /\ spans[req[q].trace] # {}
           /\ Take(q, "config", Now(req[q].trace))
  <2>1. Now(req[q].trace) \in Snapshot \cup {None}
    BY <1>0, Active, NowTyped
  <2>2. "config" \in PCs
    BY DEF PCs, Claimed
  <2> QED
    BY <1>0, <1>2, <2>1, <2>2, WentWith DEF Rest
<1> QED
  BY <1>1, <1>2 DEF GetTrace

-----------------------------------------------------------------------------
(* Every variable keeps its type. *)

(* A request's step keeps the types ... *)
LEMMA RequestType ==
  ASSUME TypeOK, NEW q \in Requests, RequestStep(q)
  PROVE  TypeOK'
<1> USE DEF At
<1>0. /\ req' \in Reqs
      /\ results' \in [Traces -> Snapshot \cup {None}]
      /\ inFlight' \subseteq Traces
      => TypeOK'
  BY RequestsKeepTraces DEF TypeOK, Reqs
<1>1. ASSUME NEW t \in Traces, NEW force \in BOOLEAN, Post(q, t, force)
      PROVE  TypeOK'
  <2>1. req' \in Reqs
    BY <1>1, Posted
  <2>2. UNCHANGED <<results, inFlight>>
    BY <1>1 DEF Post
  <2> QED
    BY <2>1, <2>2, <1>0 DEF TypeOK
<1>2. CASE Disconnect(q)
  <2>1. req' \in Reqs
    BY <1>2, Left
  <2>2. UNCHANGED <<results, inFlight>>
    BY <1>2 DEF Disconnect
  <2> QED
    BY <2>1, <2>2, <1>0 DEF TypeOK
<1>3. CASE GetDiagnosisResult(q)
  BY <1>3, <1>0, Checked DEF TypeOK
<1>4. CASE CompareSnapshot(q)
  BY <1>4, <1>0, Answered, WentWith DEF CompareSnapshot, TypeOK, PCs
<1>5. CASE Claim(q)
  BY <1>5, <1>0, Answered, Went, Active DEF Claim, TypeOK, PCs, Claimed
<1>6. CASE GetTrace(q)
  BY <1>6, <1>0, Loaded DEF TypeOK
<1>7. CASE GetLLMConfigs(q)
  BY <1>7, <1>0, Went DEF GetLLMConfigs, TypeOK, PCs, Claimed
<1>8. CASE LLMAnswers(q) \/ LLMFails(q)
  BY <1>8, <1>0, Went DEF LLMAnswers, LLMFails, TypeOK, PCs, Claimed
<1>9. CASE UpsertDiagnosisResult(q)
  BY <1>9, <1>0, Went, Active DEF UpsertDiagnosisResult, TypeOK, PCs, Claimed
<1>10. CASE Release(q)
  BY <1>10, <1>0, Answered DEF Release, TypeOK
<1> QED
  BY <1>1, <1>2, <1>3, <1>4, <1>5, <1>6, <1>7, <1>8, <1>9, <1>10
  DEF RequestStep, Handle, Model

(* ... one of the store too ... *)
LEMMA StoreType ==
  ASSUME TypeOK, NEW t \in Traces, StoreStep(t)
  PROVE  TypeOK'
<1>1. ASSUME NEW s \in Spans, InsertSpans(t, s)
      PROVE  TypeOK'
  BY <1>1, MadeOutdated DEF InsertSpans, TypeOK, Reqs
<1>2. CASE Remove(t)
  <2>1. req' \in Reqs
    BY <1>2, MadeOutdated DEF Remove
  <2>2. era' \in [Traces -> 0..MaxEra]
    BY <1>2, EraAssumption DEF Remove, TypeOK
  <2> QED
    BY <1>2, <2>1, <2>2 DEF StoreStep, InsertSpans, DeleteTraces, Purge, Remove, TypeOK, Reqs
<1> QED
  BY <1>1, <1>2 DEF StoreStep, DeleteTraces, Purge

(* ... and one of the configurations. *)
LEMMA ConfigType ==
  ASSUME TypeOK, ConfigTraffic
  PROVE  TypeOK'
<1>0. /\ DOMAIN configs' \subseteq Configs
      /\ \A c \in DOMAIN configs' : configs'[c] \in BOOLEAN
      => TypeOK'
  BY DEF TypeOK, ConfigTraffic, CreateLLMConfig, UpdateLLMConfig, ClearedOnly,
         DeleteLLMConfig
<1>1. ASSUME NEW c \in Configs, NEW d \in BOOLEAN, CreateLLMConfig(c, d)
      PROVE  TypeOK'
  BY <1>1, <1>0 DEF CreateLLMConfig, Set, TypeOK
<1>2. ASSUME NEW c \in Configs, NEW d \in BOOLEAN, NEW m \in BOOLEAN,
             UpdateLLMConfig(c, d, m)
      PROVE  TypeOK'
  BY <1>2, <1>0 DEF UpdateLLMConfig, Set, TypeOK
<1>3. CASE ClearedOnly
  BY <1>3, <1>0 DEF ClearedOnly, TypeOK
<1>4. ASSUME NEW c \in Configs, DeleteLLMConfig(c)
      PROVE  TypeOK'
  BY <1>4, <1>0 DEF DeleteLLMConfig, TypeOK
<1> QED
  BY <1>1, <1>2, <1>3, <1>4 DEF ConfigTraffic

(* Any step keeps them. *)
LEMMA NextType == TypeOK /\ [Next]_vars => TypeOK'
<1> SUFFICES ASSUME TypeOK, [Next]_vars PROVE TypeOK'
  OBVIOUS
<1>1. CASE UNCHANGED vars
  BY <1>1 DEF vars, TypeOK
<1> QED
  BY <1>1, Steps, StoreType, ConfigType, RequestType

(* The first state is typed. *)
LEMMA InitType == Init => TypeOK
BY EraAssumption DEF Init, TypeOK, Idle

(* Every variable keeps its type: the traces, results and configurations   *)
(* of the store, the in-flight set and what each handler carries.          *)
THEOREM TypeCorrect == Spec => []TypeOK
BY InitType, NextType, PTL DEF Spec

-----------------------------------------------------------------------------
(* One diagnosis at a time.  Who has entered the set is in it, which is    *)
(* what keeps a second one out.                                            *)
Entered == \A q \in Requests : req[q].pc \in Claimed => req[q].trace \in inFlight
Exclusion == TypeOK /\ Entered /\ OneCallPerTrace

(* A request enters the set before it calls, and one at a time per trace. *)
LEMMA RequestExclusion ==
  ASSUME Exclusion, NEW q \in Requests, RequestStep(q)
  PROVE  Entered' /\ OneCallPerTrace'
<1> USE DEF At, Exclusion
<1>0. /\ \A p \in Requests : p # q => req'[p] = req[p]
      /\ req'[q].pc \in Claimed =>
           req[q].pc \in Claimed /\ req'[q].trace = req[q].trace
      /\ inFlight' = inFlight
      => Entered' /\ OneCallPerTrace'
  BY DEF Entered, OneCallPerTrace, Holds
<1>1. ASSUME NEW t \in Traces, NEW force \in BOOLEAN, Post(q, t, force)
      PROVE  Entered' /\ OneCallPerTrace'
  <2>1. inFlight' = inFlight
    BY <1>1 DEF Post
  <2>2. req'[q].pc \notin Claimed /\ \A p \in Requests : p # q => req'[p] = req[p]
    BY <1>1, Posted DEF Claimed
  <2> QED
    BY <2>1, <2>2, <1>0
<1>2. CASE Disconnect(q)
  <2>1. inFlight' = inFlight
    BY <1>2 DEF Disconnect
  <2> QED
    BY <1>2, <2>1, <1>0, Left
<1>3. CASE GetDiagnosisResult(q)
  BY <1>3, <1>0, Checked DEF Claimed
<1>4. CASE CompareSnapshot(q)
  BY <1>4, <1>0, Answered, WentWith DEF CompareSnapshot, Claimed, PCs
<1>5. CASE Claim(q)
  <2>1. CASE req[q].trace \in inFlight
    BY <1>5, <2>1, <1>0, Answered DEF Claim, Claimed
  <2>2. CASE req[q].trace \notin inFlight
    <3>1. /\ \A p \in Requests : p # q => req'[p] = req[p]
          /\ req'[q].trace = req[q].trace
          /\ inFlight' = inFlight \cup {req[q].trace}
      BY <1>5, <2>2, Went DEF Claim, PCs, Claimed
    <3>2. \A p \in Requests : ~(req[p].pc \in Claimed /\ req[p].trace = req[q].trace)
      BY <2>2 DEF Entered
    <3> QED
      BY <3>1, <3>2 DEF Entered, OneCallPerTrace, Holds
  <2> QED
    BY <2>1, <2>2
<1>6. CASE GetTrace(q)
  BY <1>6, <1>0, Loaded DEF GetTrace, Rest, Claimed
<1>7. CASE GetLLMConfigs(q)
  BY <1>7, <1>0, Went DEF GetLLMConfigs, PCs, Claimed
<1>8. CASE LLMAnswers(q) \/ LLMFails(q)
  BY <1>8, <1>0, Went DEF LLMAnswers, LLMFails, PCs, Claimed
<1>9. CASE UpsertDiagnosisResult(q)
  BY <1>9, <1>0, Went DEF UpsertDiagnosisResult, PCs, Claimed
<1>10. CASE Release(q)
  <2>1. /\ \A p \in Requests : p # q => req'[p] = req[p]
        /\ req'[q].pc = "idle"
        /\ inFlight' = inFlight \ {req[q].trace}
    BY <1>10, Answered DEF Release
  <2>2. req[q].pc \in Claimed /\ req[q].trace \in Traces
    BY <1>10, Active DEF Release, Claimed
  <2>3. \A p \in Requests : p # q /\ req[p].pc \in Claimed => req[p].trace # req[q].trace
    BY <2>2 DEF OneCallPerTrace, Holds
  <2> QED
    BY <2>1, <2>3 DEF Entered, OneCallPerTrace, Holds, Claimed
<1> QED
  BY <1>1, <1>2, <1>3, <1>4, <1>5, <1>6, <1>7, <1>8, <1>9, <1>10
  DEF RequestStep, Handle, Model

(* Any step keeps the exclusion. *)
LEMMA NextExclusion == Exclusion /\ [Next]_vars => Exclusion'
<1> SUFFICES ASSUME Exclusion, [Next]_vars PROVE Exclusion'
  OBVIOUS
<1>0. TypeOK'
  BY NextType DEF Exclusion
<1>1. ASSUME NEW t \in Traces, StoreStep(t)
      PROVE  Entered' /\ OneCallPerTrace'
  <2>1. inFlight' = inFlight /\ Outdated(t)
    BY <1>1 DEF StoreStep, InsertSpans, DeleteTraces, Purge, Remove
  <2>2. \A p \in Requests : req'[p].pc = req[p].pc
                          /\ (req[p].pc # "idle" => req'[p].trace = req[p].trace)
    BY <2>1, MadeOutdated DEF Exclusion
  <2> QED
    BY <2>1, <2>2 DEF Exclusion, Entered, OneCallPerTrace, Holds, Claimed
<1>2. CASE UNCHANGED <<req, inFlight>>
  BY <1>0, <1>2 DEF Exclusion, Entered, OneCallPerTrace, Holds
<1>3. ConfigTraffic \/ UNCHANGED vars => UNCHANGED <<req, inFlight>>
  BY DEF vars, ConfigTraffic, CreateLLMConfig, UpdateLLMConfig, ClearedOnly,
         DeleteLLMConfig
<1> QED
  BY <1>0, <1>1, <1>2, <1>3, Steps, RequestExclusion DEF Exclusion

(* Nobody is past the check at first. *)
LEMMA InitExclusion == Init => Exclusion
BY InitType DEF Init, Exclusion, Entered, OneCallPerTrace, Holds, Idle, Claimed

(* Of a trace one diagnosis runs at a time: for any number of handlers.    *)
THEOREM OneCall == Spec => []OneCallPerTrace
<1>1. Exclusion => OneCallPerTrace
  BY DEF Exclusion
<1> QED
  BY <1>1, InitExclusion, NextExclusion, PTL DEF Spec

-----------------------------------------------------------------------------
(* At most one configuration is the default: for any number of them.       *)
THEOREM OneDefault == Spec => []AtMostOneDefault
<1>1. Init => AtMostOneDefault
  BY DEF Init, AtMostOneDefault
<1>2. AtMostOneDefault /\ [Next]_vars => AtMostOneDefault'
  <2> SUFFICES ASSUME AtMostOneDefault, [Next]_vars PROVE AtMostOneDefault'
    OBVIOUS
  <2>1. CASE configs' = configs
    BY <2>1 DEF AtMostOneDefault
  <2>2. ASSUME NEW c \in Configs, NEW d \in BOOLEAN,
               CreateLLMConfig(c, d) \/ \E m \in BOOLEAN : UpdateLLMConfig(c, d, m)
        PROVE  AtMostOneDefault'
    BY <2>2 DEF AtMostOneDefault, CreateLLMConfig, UpdateLLMConfig, Set
  <2>3. CASE ClearedOnly
    BY <2>3 DEF AtMostOneDefault, ClearedOnly
  <2>4. ASSUME NEW c \in Configs, DeleteLLMConfig(c)
        PROVE  AtMostOneDefault'
    BY <2>4 DEF AtMostOneDefault, DeleteLLMConfig
  <2>5. ASSUME NEW t \in Traces, StoreStep(t)
        PROVE  configs' = configs
    BY <2>5 DEF StoreStep, InsertSpans, DeleteTraces, Purge
  <2>6. UNCHANGED vars => configs' = configs
    BY DEF vars
  <2> QED
    BY <2>1, <2>2, <2>3, <2>4, <2>5, <2>6, Steps, RequestsKeepTraces DEF ConfigTraffic
<1> QED
  BY <1>1, <1>2, PTL DEF Spec

-----------------------------------------------------------------------------
(* What is stored or under way has been seen no later than now, and what   *)
(* is stored not later than what is under way.                             *)
LEMMA OlderOrder ==
  /\ \A a \in Snapshot : Older(a, a)
  /\ \A a, b, c \in Snapshot : Older(a, b) /\ Older(b, c) => Older(a, c)
  /\ \A a, b \in Snapshot : Older(a, b) /\ Older(b, a) => a = b
<1> USE EraAssumption DEF Snapshot, Older
<1>1. \A a \in Snapshot : Older(a, a)
  OBVIOUS
<1>2. \A a, b, c \in Snapshot : Older(a, b) /\ Older(b, c) => Older(a, c)
  OBVIOUS
<1>3. \A a, b \in Snapshot : Older(a, b) /\ Older(b, a) => a = b
  <2> SUFFICES ASSUME NEW a \in Snapshot, NEW b \in Snapshot, Older(a, b), Older(b, a)
               PROVE  a = b
    OBVIOUS
  <2>1. a.era = b.era /\ a.spans = b.spans
    OBVIOUS
  <2> QED
    BY <2>1
<1> QED
  BY <1>1, <1>2, <1>3

Underway == {"config", "call", "store"}
Seen ==
  \A t \in Traces :
    results[t] # None => Older(results[t], Now(t)) /\ results[t].spans # {}
ReadBy(q) ==
  req[q].pc \in Underway =>
    /\ req[q].read \in Snapshot /\ req[q].read.spans # {}
    /\ Older(req[q].read, Now(req[q].trace))
    /\ results[req[q].trace] # None => Older(results[req[q].trace], req[q].read)
(* A request that found a current result has it, unless its client left.   *)
SparedBy(q) ==
  req[q].pc # "idle" /\ req[q].current =>
    /\ results[req[q].trace] = Now(req[q].trace)
    /\ req[q].pc = "compare" => req[q].read = Now(req[q].trace)
    /\ req[q].pc \in {"claim", "load", "config"} => req[q].force \/ ~req[q].here
Past == Seen /\ \A q \in Requests : ReadBy(q) /\ SparedBy(q)
Order == Exclusion /\ Past

(* Nothing is stored or carried at first. *)
LEMMA InitOrder == Init => Order
BY InitExclusion DEF Init, Order, Past, Seen, ReadBy, SparedBy, Idle, Underway

(* The trace only moves on, and a diagnosis is at most taken away.         *)
LEMMA StoreOrder ==
  ASSUME Order, NEW t \in Traces, StoreStep(t)
  PROVE  Past'
<1> USE DEF Order, Exclusion
<1>0. TypeOK'
  BY StoreType
<1>1. \A u \in Traces : Now(u) \in Snapshot /\ Now(u)' \in Snapshot
  BY <1>0, NowTyped DEF TypeOK, Now, Snapshot
<1>2. \A u \in Traces : Older(Now(u), Now(u)')
  <2> SUFFICES ASSUME NEW u \in Traces PROVE Older(Now(u), Now(u)')
    OBVIOUS
  <2>1. /\ Now(u).spans = spans[u] /\ Now(u).era = era[u]
        /\ Now(u)'.spans = spans'[u] /\ Now(u)'.era = era'[u]
    BY DEF Now
  <2>2. era[u] \in Nat
    BY EraAssumption DEF TypeOK
  <2>3. era[u] < era'[u] \/ (era[u] = era'[u] /\ spans[u] \subseteq spans'[u])
    BY <2>2 DEF StoreStep, InsertSpans, DeleteTraces, Purge, Remove, TypeOK
  <2> QED
    BY <2>1, <2>3 DEF Older
<1>3. \A u \in Traces : u # t => Now(u)' = Now(u)
  BY DEF StoreStep, InsertSpans, DeleteTraces, Purge, Remove, Now, TypeOK
<1>4. \A u \in Traces : results'[u] = results[u] \/ (u = t /\ results'[u] = None)
  BY DEF StoreStep, InsertSpans, DeleteTraces, Purge, TypeOK
<1>5. \A u \in Traces : results[u] \in Snapshot \cup {None}
  BY DEF TypeOK
<1>6. Seen'
  BY <1>1, <1>2, <1>4, <1>5, OlderOrder DEF Past, Seen
<1> SUFFICES ASSUME NEW q \in Requests PROVE ReadBy(q)' /\ SparedBy(q)'
  BY <1>6 DEF Past
<1>7. Outdated(t)
  BY DEF StoreStep, InsertSpans, DeleteTraces, Purge, Remove
<1>8. /\ req'[q].pc = req[q].pc
      /\ req[q].pc # "idle" =>
           /\ req'[q].trace = req[q].trace /\ req'[q].here = req[q].here
           /\ req'[q].force = req[q].force /\ req'[q].read = req[q].read
           /\ req'[q].current => req[q].current /\ req[q].trace # t
  BY <1>7, MadeOutdated
<1>9. req[q].pc # "idle" => req[q].trace \in Traces
  BY Active
<1>10. ReadBy(q)'
  <2> SUFFICES ASSUME req[q].pc \in Underway, NEW u \in Traces, u = req[q].trace
               PROVE  /\ req[q].read \in Snapshot /\ req[q].read.spans # {}
                      /\ Older(req[q].read, Now(u)')
                      /\ results'[u] # None => Older(results'[u], req[q].read)
    BY <1>8, <1>9 DEF ReadBy, Underway
  <2>1. ReadBy(q)
    BY DEF Past
  <2>2. /\ req[q].read \in Snapshot /\ req[q].read.spans # {}
        /\ Older(req[q].read, Now(u))
        /\ results[u] # None => Older(results[u], req[q].read)
    BY <2>1 DEF ReadBy
  <2>3. Older(req[q].read, Now(u)')
    BY <1>1, <1>2, <2>2, OlderOrder
  <2> QED
    BY <1>4, <2>2, <2>3
<1>11. SparedBy(q)'
  BY <1>3, <1>4, <1>8, <1>9 DEF Past, SparedBy
<1> QED
  BY <1>10, <1>11

(* A step of a handler.  Only the store changes a result: the handler is   *)
(* alone with the trace, so nothing is under way that it makes old.        *)
LEMMA RequestOrder ==
  ASSUME Order, NEW q \in Requests, RequestStep(q)
  PROVE  Past'
<1> USE DEF Order, Exclusion
<1>1. \A u \in Traces : Now(u)' = Now(u) /\ Now(u) \in Snapshot /\ Now(u).spans = spans[u]
  BY RequestsKeepTraces, NowTyped DEF Now
<1>2. \A p \in Requests : req[p].pc # "idle" => req[p].trace \in Traces
  BY Active
<1>3. ASSUME NEW p \in Requests, req'[p] = req[p], results' = results
      PROVE  ReadBy(p)' /\ SparedBy(p)'
  <2>1. ReadBy(p) /\ SparedBy(p)
    BY DEF Past
  <2>2. CASE req[p].pc = "idle"
    BY <1>3, <2>2 DEF ReadBy, SparedBy, Underway
  <2>3. CASE req[p].pc # "idle"
    <3>1. PICK u \in Traces : u = req[p].trace /\ u = req'[p].trace
      BY <1>2, <1>3, <2>3
    <3>2. Now(u)' = Now(u)
      BY <1>1
    <3>3. Now(req[p].trace)' = Now(req[p].trace)
      BY <3>1, <3>2 DEF Now
    <3> QED
      BY <1>3, <2>1, <3>3 DEF ReadBy, SparedBy
  <2> QED
    BY <2>2, <2>3
<1>4. results' = results => Seen'
  BY <1>1 DEF Past, Seen
<1>5. /\ results' = results
      /\ \A p \in Requests : p # q => req'[p] = req[p]
      /\ ReadBy(q)' /\ SparedBy(q)'
      => Past'
  BY <1>3, <1>4 DEF Past
<1>6. req'[q].pc = "idle" => ReadBy(q)' /\ SparedBy(q)'
  BY DEF ReadBy, SparedBy, Underway
(* A step that keeps what the handler carries and moves it on.             *)
<1>7. ASSUME req[q].pc # "idle", results' = results,
             req'[q].trace = req[q].trace, req'[q].read = req[q].read,
             req'[q].current = req[q].current, req'[q].force = req[q].force,
             req'[q].here = req[q].here \/ req'[q].here = FALSE,
             req'[q].pc \in Underway => req[q].pc \in Underway,
             req'[q].pc = "compare" => req[q].pc = "compare",
             req'[q].pc \in {"claim", "load", "config"} =>
               req[q].pc \in {"claim", "load", "config"}
      PROVE  ReadBy(q)' /\ SparedBy(q)'
  <2>1. ReadBy(q) /\ SparedBy(q)
    BY DEF Past
  <2>2. PICK u \in Traces : u = req[q].trace /\ u = req'[q].trace
    BY <1>2, <1>7
  <2>3. Now(u)' = Now(u)
    BY <1>1
  <2>4. Now(req[q].trace)' = Now(req[q].trace)
    BY <2>2, <2>3 DEF Now
  <2>5. ReadBy(q)'
    BY <1>7, <2>1, <2>4 DEF ReadBy
  <2>6. SparedBy(q)'
    BY <1>7, <2>1, <2>4 DEF SparedBy
  <2> QED
    BY <2>5, <2>6
<1>10. ASSUME NEW t \in Traces, NEW force \in BOOLEAN, Post(q, t, force)
       PROVE  Past'
  <2>1. results' = results
    BY <1>10 DEF Post
  <2>2. Now(t)' = Now(t)
    BY <1>1
  <2>3. /\ \A p \in Requests : p # q => req'[p] = req[p]
        /\ req'[q].pc \in {"claim", "check"} /\ req'[q].trace = t
        /\ req'[q].pc = "claim" => force
        /\ req'[q].force = force
        /\ req'[q].current = (results[t] = Now(t))
    BY <1>10, Posted, ZenonT(40)
  <2>4. ReadBy(q)'
    BY <2>3 DEF ReadBy, Underway
  <2>5. Now(req[q].trace)' = Now(t)
    BY <2>2, <2>3 DEF Now
  <2>6. SparedBy(q)'
    BY <2>1, <2>3, <2>5 DEF SparedBy
  <2> QED
    BY <2>1, <2>3, <2>4, <2>6, <1>5
<1>11. CASE Disconnect(q)
  <2>1. results' = results
    BY <1>11 DEF Disconnect
  <2>2. req[q].pc # "idle"
    BY <1>11, Active DEF Disconnect, TypeOK, Request, Claimed
  <2> QED
    BY <1>11, <2>1, <2>2, <1>5, <1>7, Left
<1>12. CASE GetDiagnosisResult(q)
  <2>1. /\ results' = results
        /\ \A p \in Requests : p # q => req'[p] = req[p]
    BY <1>12, Checked
  <2>2. CASE req'[q].pc = "idle"
    BY <2>1, <2>2, <1>5, <1>6
  <2>3. CASE req'[q].pc # "idle"
    <3>1. PICK u \in Traces : u = req[q].trace
      BY <1>12, <1>2 DEF GetDiagnosisResult, At
    <3>2. /\ Rest(q) /\ req'[q].read = results[u]
          /\ req'[q].pc = IF results[u] = None THEN "claim" ELSE "compare"
      BY <1>12, <2>3, <3>1, Checked
    <3>3. Now(u)' = Now(u) /\ Now(u) # None
      BY <1>1, NoneAssumption
    <3>4. Now(req[q].trace)' = Now(u)
      BY <3>1, <3>2, <3>3 DEF Now, Rest
    <3>5. req[q].current => results[u] = Now(u)
      BY <1>12, <3>1 DEF Past, SparedBy, GetDiagnosisResult, At
    <3>6. ReadBy(q)'
      BY <3>2 DEF ReadBy, Underway
    <3>7. SparedBy(q)'
      BY <2>1, <3>1, <3>2, <3>3, <3>4, <3>5 DEF SparedBy, Rest
    <3> QED
      BY <2>1, <3>6, <3>7, <1>5
  <2> QED
    BY <2>2, <2>3
<1>13. CASE CompareSnapshot(q)
  <2>1. results' = results /\ req[q].pc = "compare"
    BY <1>13 DEF CompareSnapshot, At
  <2>2. CASE Answer(q)
    BY <2>1, <2>2, <1>5, <1>6, Answered
  <2>3. CASE Take(q, "claim", None) /\ ~Answer(q)
    <3>1. PICK u \in Traces : u = req[q].trace
      BY <2>1, <1>2
    <3>2. /\ \A p \in Requests : p # q => req'[p] = req[p]
          /\ Rest(q) /\ req'[q].pc = "claim"
      BY <2>1, <2>3, WentWith DEF Rest, PCs
    <3>3. Now(req[q].trace)' = Now(u) /\ Now(u) # None /\ Now(u).spans = spans[u]
      BY <3>1, <3>2, <1>1, NoneAssumption DEF Now, Rest
    <3>4. req[q].current => results[u] = Now(u) /\ req[q].read = Now(u)
      BY <2>1, <3>1 DEF Past, SparedBy
    <3>5. req[q].current => ~req[q].here
      BY <1>13, <2>3, <3>1, <3>3, <3>4 DEF CompareSnapshot, Past, Seen
    <3>6. ReadBy(q)'
      BY <3>2 DEF ReadBy, Underway
    <3>7. SparedBy(q)'
      BY <2>1, <3>1, <3>2, <3>3, <3>4, <3>5 DEF SparedBy, Rest
    <3> QED
      BY <2>1, <3>2, <3>6, <3>7, <1>5
  <2> QED
    BY <1>13, <2>2, <2>3 DEF CompareSnapshot
<1>14. CASE Claim(q)
  <2>1. results' = results /\ req[q].pc = "claim"
    BY <1>14 DEF Claim, At
  <2>2. CASE Answer(q)
    BY <2>1, <2>2, <1>5, <1>6, Answered
  <2>3. CASE Goto(q, "load")
    <3>1. /\ \A p \in Requests : p # q => req'[p] = req[p]
          /\ req'[q].trace = req[q].trace /\ req'[q].read = req[q].read
          /\ req'[q].current = req[q].current /\ req'[q].force = req[q].force
          /\ req'[q].here = req[q].here /\ req'[q].pc = "load"
      BY <2>1, <2>3, Went DEF PCs, Claimed
    <3>2. ReadBy(q)' /\ SparedBy(q)'
      BY <2>1, <3>1, <1>7 DEF Underway
    <3> QED
      BY <2>1, <3>1, <3>2, <1>5
  <2> QED
    BY <1>14, <2>2, <2>3 DEF Claim
<1>15. CASE GetTrace(q)
  <2>1. /\ results' = results /\ Rest(q) /\ req[q].pc = "load"
        /\ \A p \in Requests : p # q => req'[p] = req[p]
    BY <1>15, Loaded DEF GetTrace, At
  <2>2. PICK u \in Traces : u = req[q].trace
    BY <2>1, <1>2
  <2>3. Now(req[q].trace)' = Now(u) /\ Now(u) \in Snapshot /\ Now(u).spans = spans[u]
    BY <2>1, <2>2, <1>1 DEF Now, Rest
  <2>4. SparedBy(q)
    BY DEF Past
  <2>5. SparedBy(q)'
    BY <1>15, <2>1, <2>2, <2>3, <2>4, Loaded DEF SparedBy, Rest
  <2>6. ReadBy(q)'
    <3>1. CASE req'[q].pc = "release"
      BY <3>1 DEF ReadBy, Underway
    <3>2. CASE req'[q].pc # "release"
      <4>1. req'[q].read = Now(u) /\ spans[u] # {}
        BY <1>15, <2>2, <3>2, Loaded
      <4>2. Older(Now(u), Now(u)) /\ (results[u] # None => Older(results[u], Now(u)))
        BY <2>3, OlderOrder DEF Past, Seen
      <4> QED
        BY <2>1, <2>2, <2>3, <4>1, <4>2 DEF ReadBy, Rest
    <3> QED
      BY <3>1, <3>2
  <2> QED
    BY <2>1, <2>5, <2>6, <1>5
<1>16. CASE GetLLMConfigs(q)
  <2>1. results' = results /\ req[q].pc = "config"
    BY <1>16 DEF GetLLMConfigs, At
  <2>2. PICK pc \in {"call", "release"} : Goto(q, pc)
    BY <1>16 DEF GetLLMConfigs
  <2> QED
    BY <2>1, <2>2, <1>5, <1>7, Went DEF PCs, Claimed, Underway
<1>17. CASE LLMAnswers(q) \/ LLMFails(q)
  <2>1. results' = results /\ req[q].pc = "call"
    BY <1>17 DEF LLMAnswers, LLMFails, At
  <2>2. PICK pc \in {"store", "release"} : Goto(q, pc)
    BY <1>17 DEF LLMAnswers, LLMFails
  <2> QED
    BY <2>1, <2>2, <1>5, <1>7, Went DEF PCs, Claimed, Underway
<1>18. CASE UpsertDiagnosisResult(q)
  <2>1. /\ req[q].pc = "store" /\ Goto(q, "release")
        /\ results' = IF req[q].here
                      THEN [results EXCEPT ![req[q].trace] = req[q].read] ELSE results
    BY <1>18 DEF UpsertDiagnosisResult, At
  <2>2. /\ \A p \in Requests : p # q => req'[p] = req[p]
        /\ req'[q].trace = req[q].trace /\ req'[q].read = req[q].read
        /\ req'[q].current = req[q].current /\ req'[q].force = req[q].force
        /\ req'[q].here = req[q].here /\ req'[q].pc = "release"
    BY <2>1, Went DEF PCs, Claimed
  <2>3. CASE ~req[q].here
    BY <2>1, <2>2, <2>3, <1>5, <1>7 DEF Underway
  <2>4. CASE req[q].here
    <3>1. PICK u \in Traces : u = req[q].trace
      BY <2>1, <1>2
    <3>2. /\ req[q].read \in Snapshot /\ req[q].read.spans # {}
          /\ Older(req[q].read, Now(u))
          /\ results[u] # None => Older(results[u], req[q].read)
      BY <2>1, <3>1 DEF Past, ReadBy, Underway
    <3>3. /\ results'[u] = req[q].read
          /\ \A t \in Traces : t # u => results'[t] = results[t]
      BY <2>1, <2>4, <3>1 DEF TypeOK
    <3>4. Seen'
      BY <3>2, <3>3, <1>1 DEF Past, Seen
    <3>5. results[u] = Now(u) => req[q].read = Now(u)
      BY <3>2, <1>1, NoneAssumption, OlderOrder
    <3>6. ASSUME NEW p \in Requests PROVE ReadBy(p)' /\ SparedBy(p)'
      <4>1. /\ req'[p].pc \in Underway \cup {"compare", "claim", "load"} => req'[p] = req[p]
            /\ req'[p].pc # "idle" =>
                 /\ req[p].pc # "idle" /\ req'[p].trace = req[p].trace
                 /\ req'[p].current = req[p].current
        BY <2>1, <2>2 DEF Underway
      <4>2. ReadBy(p) /\ SparedBy(p)
        BY DEF Past
      <4>3. CASE req[p].pc = "idle" \/ req'[p].pc = "idle"
        BY <4>1, <4>3 DEF ReadBy, SparedBy, Underway
      <4>4. CASE req[p].pc # "idle" /\ req'[p].pc # "idle"
        <5>1. PICK v \in Traces : v = req[p].trace /\ v = req'[p].trace
          BY <4>1, <4>4, <1>2
        <5>2. Now(v)' = Now(v)
          BY <1>1
        <5>3. Now(req[p].trace)' = Now(v)
          BY <5>1, <5>2 DEF Now
        <5>4. req[p].pc \in Underway => v # u \/ p = q
          BY <2>1, <3>1, <5>1 DEF OneCallPerTrace, Holds, Underway, Claimed
        <5>5. ReadBy(p)'
          BY <2>2, <3>3, <4>1, <4>2, <5>1, <5>3, <5>4 DEF ReadBy, Underway
        <5>6. SparedBy(p)'
          BY <3>3, <3>5, <4>1, <4>2, <4>4, <5>1, <5>3 DEF SparedBy, Underway
        <5> QED
          BY <5>5, <5>6
      <4> QED
        BY <4>3, <4>4
    <3> QED
      BY <3>4, <3>6 DEF Past
  <2> QED
    BY <2>3, <2>4
<1>19. CASE Release(q)
  BY <1>19, <1>5, <1>6, Answered DEF Release
<1> QED
  BY <1>10, <1>11, <1>12, <1>13, <1>14, <1>15, <1>16, <1>17, <1>18, <1>19
  DEF RequestStep, Handle, Model

(* Any step keeps the snapshots in line. *)
LEMMA NextOrder == Order /\ [Next]_vars => Order'
<1> SUFFICES ASSUME Order, [Next]_vars PROVE Past'
  BY NextExclusion DEF Order
<1>1. CASE UNCHANGED <<spans, era, results, req>>
  BY <1>1 DEF Order, Past, Seen, ReadBy, SparedBy, Now
<1>2. ConfigTraffic \/ UNCHANGED vars => UNCHANGED <<spans, era, results, req>>
  BY DEF vars, ConfigTraffic, CreateLLMConfig, UpdateLLMConfig, ClearedOnly,
         DeleteLLMConfig
<1> QED
  BY <1>1, <1>2, Steps, StoreOrder, RequestOrder

(* A stored diagnosis is only replaced by one that has seen as much: for    *)
(* any number of handlers, spans and deletions.                            *)
THEOREM NewerWins == Spec => NewerDiagnosisWins
<1> DEFINE Kept == \A t \in Traces :
                     results[t] # None /\ results'[t] # None => Older(results[t], results'[t])
<1>1. Order /\ [Next]_vars => Kept
  <2> SUFFICES ASSUME Order, [Next]_vars, NEW t \in Traces,
                      results[t] # None, results'[t] # None
               PROVE  Older(results[t], results'[t])
    OBVIOUS
  <2>0. results[t] \in Snapshot
    BY DEF Order, Exclusion, TypeOK
  <2>1. CASE results'[t] = results[t]
    BY <2>0, <2>1, OlderOrder
  <2>2. ASSUME NEW u \in Traces, StoreStep(u) PROVE results'[t] = results[t]
    BY <2>2 DEF StoreStep, InsertSpans, DeleteTraces, Purge, Order, Exclusion, TypeOK
  <2>3. ASSUME NEW q \in Requests, UpsertDiagnosisResult(q)
        PROVE  Older(results[t], results'[t])
    <3>1. /\ req[q].pc = "store"
          /\ results' = IF req[q].here
                        THEN [results EXCEPT ![req[q].trace] = req[q].read] ELSE results
      BY <2>3 DEF UpsertDiagnosisResult, At
    <3>2. ReadBy(q)
      BY DEF Order, Past
    <3>3. CASE req[q].here /\ req[q].trace = t
      BY <3>1, <3>2, <3>3 DEF ReadBy, Underway, Order, Exclusion, TypeOK
    <3>4. CASE ~(req[q].here /\ req[q].trace = t)
      BY <3>1, <3>4, <2>1 DEF Order, Exclusion, TypeOK
    <3> QED
      BY <3>3, <3>4
  <2>4. ASSUME NEW q \in Requests, RequestStep(q), ~UpsertDiagnosisResult(q)
        PROVE  results' = results
    BY <2>4 DEF RequestStep, Post, Disconnect, Handle, Model, GetDiagnosisResult,
                CompareSnapshot, Claim, GetTrace, GetLLMConfigs, LLMAnswers, LLMFails,
                Release
  <2>5. ConfigTraffic \/ UNCHANGED vars => results' = results
    BY DEF vars, ConfigTraffic, CreateLLMConfig, UpdateLLMConfig, ClearedOnly,
           DeleteLLMConfig
  <2> QED
    BY <2>1, <2>2, <2>3, <2>4, <2>5, Steps
<1>2. Order /\ [Next]_vars => [Kept]_vars
  BY <1>1
<1> QED
  BY <1>2, InitOrder, NextOrder, PTL DEF Spec, NewerDiagnosisWins

(* The model is not asked for what a current diagnosis could answer: for    *)
(* any number of handlers, spans and deletions.                            *)
THEOREM Spared == Spec => CurrentResultSparesTheCall
<1> DEFINE Kept == \A q \in Requests :
                     At(q, "config") /\ req'[q].pc = "call" => req[q].force \/ ~req[q].current
<1>1. Order /\ [Next]_vars => Kept
  <2> SUFFICES ASSUME Order, [Next]_vars, NEW q \in Requests,
                      req[q].pc = "config", req'[q].pc = "call"
               PROVE  req[q].force \/ ~req[q].current
    BY DEF At
  <2> USE DEF Order, Exclusion
  <2>1. ASSUME NEW t \in Traces, StoreStep(t) PROVE FALSE
    BY <2>1, MadeOutdated DEF StoreStep, InsertSpans, DeleteTraces, Purge, Remove
  <2>2. ConfigTraffic \/ UNCHANGED vars => FALSE
    BY DEF vars, ConfigTraffic, CreateLLMConfig, UpdateLLMConfig, ClearedOnly,
           DeleteLLMConfig
  <2>3. ASSUME NEW p \in Requests, RequestStep(p), p # q PROVE FALSE
    BY <2>3, OthersKept
  <2>4. ASSUME RequestStep(q) PROVE GetLLMConfigs(q)
    <3>1. ~Disconnect(q)
      BY Left
    <3> QED
      BY <2>4, <3>1 DEF RequestStep, Handle, Model, Post, GetDiagnosisResult,
           CompareSnapshot, Claim, GetTrace, LLMAnswers, LLMFails,
           UpsertDiagnosisResult, Release, At
  <2>5. GetLLMConfigs(q) => req[q].here
    BY Went DEF GetLLMConfigs, PCs, Claimed
  <2>6. SparedBy(q)
    BY DEF Past
  <2> QED
    BY <2>1, <2>2, <2>3, <2>4, <2>5, <2>6, Steps DEF SparedBy
<1>2. Order /\ [Next]_vars => [Kept]_vars
  BY <1>1
<1> QED
  BY <1>2, InitOrder, NextOrder, PTL DEF Spec, CurrentResultSparesTheCall
=============================================================================
