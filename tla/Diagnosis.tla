----------------------------- MODULE Diagnosis -----------------------------
(* POST /traces/{id}/diagnose (internal/api/trace_handler.go) with what it *)
(* reads and writes: spans, diagnosis results and LLM configurations.      *)
(*                                                                         *)
(* A handler is a process.  Each call of the store is one step, for the    *)
(* store has one mutex; between two steps others ingest, delete, purge,    *)
(* change configurations or diagnose.  The client may go away at any time: *)
(* a store call under its request then fails, but the model has a context  *)
(* of its own.  A snapshot (computeSpanSnapshot) is the set of spans it    *)
(* lists.  Logs are not read back and are left out.                        *)
EXTENDS Naturals

CONSTANTS
  Requests,  (* handlers that may run at the same time       *)
  Traces,
  Spans,     (* the spans a trace may have                   *)
  Configs,   (* the ids of LLM configurations                *)
  MaxEra,    (* bound: how often a trace is deleted          *)
  None

ASSUME EraAssumption == MaxEra \in Nat

(* What a diagnosis has seen: the spans, of which life of the trace. *)
Snapshot == [spans : SUBSET Spans, era : 0..MaxEra]

ASSUME NoneAssumption == None \notin Snapshot

VARIABLES
  spans,     (* per trace, its spans; a trace without spans is not stored *)
  results,   (* diagnosis_results                                         *)
  configs,   (* llm_configs: id -> is_default                             *)
  inFlight,  (* the handler's set of traces                               *)
  req,       (* per handler, where it is and what it has read             *)
  era        (* history: how often a trace was deleted                    *)

vars == <<spans, results, configs, inFlight, req, era>>

Idle == [pc |-> "idle"]
Claimed == {"load", "config", "call", "store", "release"}
Request ==
  [pc : {"check", "compare", "claim"} \cup Claimed, trace : Traces, force : BOOLEAN,
   here : BOOLEAN, read : Snapshot \cup {None}, current : BOOLEAN]

TypeOK ==
  /\ spans \in [Traces -> SUBSET Spans]
  /\ results \in [Traces -> Snapshot \cup {None}]
  /\ DOMAIN configs \subseteq Configs
  /\ \A c \in DOMAIN configs : configs[c] \in BOOLEAN
  /\ inFlight \subseteq Traces
  /\ req \in [Requests -> Request \cup {Idle}]
  /\ era \in [Traces -> 0..MaxEra]

Init ==
  /\ spans = [t \in Traces |-> {}] /\ results = [t \in Traces |-> None]
  /\ configs = << >> /\ inFlight = {}
  /\ req = [q \in Requests |-> Idle]
  /\ era = [t \in Traces |-> 0]

Now(t) == [spans |-> spans[t], era |-> era[t]]

-----------------------------------------------------------------------------
(* The store, as others use it. *)

(* Whoever waits with a result that was current waits with an old one now. *)
Outdated(t) ==
  req' = [q \in Requests |->
            IF req[q] # Idle /\ req[q].trace = t THEN [req[q] EXCEPT !.current = FALSE]
            ELSE req[q]]

InsertSpans(t, s) ==
  /\ s \notin spans[t]
  /\ spans' = [spans EXCEPT ![t] = @ \cup {s}]
  /\ Outdated(t)
  /\ UNCHANGED <<results, configs, inFlight, era>>

(* The trace's spans go; an id that is not stored is ignored. *)
Remove(t) ==
  /\ spans[t] # {} => era[t] < MaxEra
  /\ spans' = [spans EXCEPT ![t] = {}]
  /\ era' = [era EXCEPT ![t] = IF spans[t] = {} THEN @ ELSE @ + 1]
  /\ Outdated(t)

DeleteTraces(t) ==
  /\ Remove(t)
  /\ results' = [results EXCEPT ![t] = None]
  /\ UNCHANGED <<configs, inFlight>>

(* Retention leaves the diagnosis. *)
Purge(t) == Remove(t) /\ UNCHANGED <<results, configs, inFlight>>

(* One configuration is set; if it becomes the default the others, which   *)
(* the first of the two statements updates, cease to be it.                *)
Set(ids, c, isDefault) ==
  [d \in ids |-> IF d = c THEN isDefault ELSE configs[d] /\ ~isDefault]

CreateLLMConfig(c, isDefault) ==
  /\ c \notin DOMAIN configs
  /\ configs' = Set(DOMAIN configs \cup {c}, c, isDefault)
  /\ UNCHANGED <<spans, results, inFlight, req, era>>

(* Mutant of UpdateLLMConfig: the other defaults stay. *)
UpdateLLMConfigOnly(c, isDefault, masked) ==
  /\ masked => c \in DOMAIN configs
  /\ configs' = [d \in DOMAIN configs |-> IF d = c THEN isDefault ELSE configs[d]]
  /\ UNCHANGED <<spans, results, inFlight, req, era>>

(* A masked API key is looked up first, which an unknown id does not      *)
(* survive; with a key of its own it clears the defaults and sets none.   *)
UpdateLLMConfig(c, isDefault, masked) ==
  /\ masked => c \in DOMAIN configs
  /\ configs' = Set(DOMAIN configs, c, isDefault)
  /\ UNCHANGED <<spans, results, inFlight, req, era>>

(* The request of either ends between its two statements. *)
ClearedOnly ==
  /\ configs' = [c \in DOMAIN configs |-> FALSE]
  /\ UNCHANGED <<spans, results, inFlight, req, era>>

DeleteLLMConfig(c) ==
  /\ configs' = [d \in DOMAIN configs \ {c} |-> configs[d]]
  /\ UNCHANGED <<spans, results, inFlight, req, era>>

-----------------------------------------------------------------------------
(* DiagnoseTrace. *)
At(q, pc) == req[q].pc = pc
Goto(q, pc) == req' = [req EXCEPT ![q].pc = pc]
Take(q, pc, read) == req' = [req EXCEPT ![q].pc = pc, ![q].read = read]
Answer(q) == req' = [req EXCEPT ![q] = Idle]

Post(q, t, force) ==
  /\ At(q, "idle")
  /\ req' = [req EXCEPT ![q] =
               [pc |-> IF force THEN "claim" ELSE "check", trace |-> t, force |-> force,
                here |-> TRUE, read |-> None, current |-> results[t] = Now(t)]]
  /\ UNCHANGED <<spans, results, configs, inFlight, era>>

(* The client goes away, and cancels the request's context. *)
Disconnect(q) ==
  /\ req[q] # Idle /\ req[q].here
  /\ req' = [req EXCEPT ![q].here = FALSE]
  /\ UNCHANGED <<spans, results, configs, inFlight, era>>

GetDiagnosisResult(q) ==
  /\ At(q, "check")
  /\ IF ~req[q].here THEN Answer(q)
     ELSE LET existing == results[req[q].trace]
          IN  Take(q, IF existing = None THEN "claim" ELSE "compare", existing)
  /\ UNCHANGED <<spans, results, configs, inFlight, era>>

(* Mutant of CompareSnapshot: the comparison is the wrong way round. *)
CompareSnapshotInverted(q) ==
  /\ At(q, "compare")
  /\ LET now == spans[req[q].trace]
     IN  IF req[q].here /\ now # {} /\ now # req[q].read.spans
         THEN Answer(q) ELSE Take(q, "claim", None)
  /\ UNCHANGED <<spans, results, configs, inFlight, era>>

(* A stored result of the trace's present spans is the answer.  If the     *)
(* trace cannot be read the diagnosis goes on.                             *)
CompareSnapshot(q) ==
  /\ At(q, "compare")
  /\ LET now == spans[req[q].trace]
     IN  IF req[q].here /\ now # {} /\ now = req[q].read.spans
         THEN Answer(q) ELSE Take(q, "claim", None)
  /\ UNCHANGED <<spans, results, configs, inFlight, era>>

(* Mutant of Claim: the set is not looked at. *)
ClaimAnyway(q) ==
  /\ At(q, "claim")
  /\ inFlight' = inFlight \cup {req[q].trace} /\ Goto(q, "load")
  /\ UNCHANGED <<spans, results, configs, era>>

Claim(q) ==
  /\ At(q, "claim")
  /\ IF req[q].trace \in inFlight
     THEN Answer(q) /\ UNCHANGED inFlight
     ELSE inFlight' = inFlight \cup {req[q].trace} /\ Goto(q, "load")
  /\ UNCHANGED <<spans, results, configs, era>>

GetTrace(q) ==
  /\ At(q, "load")
  /\ IF req[q].here /\ spans[req[q].trace] # {}
     THEN Take(q, "config", Now(req[q].trace))
     ELSE Goto(q, "release")
  /\ UNCHANGED <<spans, results, configs, inFlight, era>>

GetLLMConfigs(q) ==
  /\ At(q, "config")
  /\ Goto(q, IF req[q].here /\ \E c \in DOMAIN configs : configs[c] THEN "call"
             ELSE "release")
  /\ UNCHANGED <<spans, results, configs, inFlight, era>>

(* Mutant of LLMAnswers: the set is left once the model has answered. *)
LLMAnswersAndReleases(q) ==
  /\ At(q, "call") /\ Goto(q, "store")
  /\ inFlight' = inFlight \ {req[q].trace}
  /\ UNCHANGED <<spans, results, configs, era>>

LLMAnswers(q) ==
  /\ At(q, "call") /\ Goto(q, "store")
  /\ UNCHANGED <<spans, results, configs, inFlight, era>>

(* Mutant of LLMFails: the handler returns without its deferred call. *)
LLMFailsAndReturns(q) ==
  /\ At(q, "call") /\ Answer(q)
  /\ UNCHANGED <<spans, results, configs, inFlight, era>>

(* An error, an answer that cannot be used, or 60 seconds. *)
LLMFails(q) ==
  /\ At(q, "call") /\ Goto(q, "release")
  /\ UNCHANGED <<spans, results, configs, inFlight, era>>

(* The result is stored under the request's context; an error is printed. *)
UpsertDiagnosisResult(q) ==
  /\ At(q, "store") /\ Goto(q, "release")
  /\ results' = IF req[q].here THEN [results EXCEPT ![req[q].trace] = req[q].read]
                ELSE results
  /\ UNCHANGED <<spans, configs, inFlight, era>>

(* The deferred delete, after the answer is written. *)
Release(q) ==
  /\ At(q, "release") /\ Answer(q)
  /\ inFlight' = inFlight \ {req[q].trace}
  /\ UNCHANGED <<spans, results, configs, era>>

-----------------------------------------------------------------------------
StoreTraffic ==
  \E t \in Traces :
    \/ \E s \in Spans : InsertSpans(t, s)
    \/ DeleteTraces(t)
    \/ Purge(t)
ConfigTraffic ==
  \/ \E c \in Configs, d \in BOOLEAN : CreateLLMConfig(c, d)
  \/ \E c \in Configs, d, m \in BOOLEAN : UpdateLLMConfig(c, d, m)
  \/ ClearedOnly
  \/ \E c \in Configs : DeleteLLMConfig(c)
Clients ==
  \E q \in Requests :
    \/ \E t \in Traces, force \in BOOLEAN : Post(q, t, force)
    \/ Disconnect(q)
Model(q) == LLMAnswers(q) \/ LLMFails(q)
Handle(q) ==
  \/ GetDiagnosisResult(q) \/ CompareSnapshot(q) \/ Claim(q)
  \/ GetTrace(q) \/ GetLLMConfigs(q) \/ UpsertDiagnosisResult(q) \/ Release(q)

Next ==
  \/ StoreTraffic \/ ConfigTraffic \/ Clients
  \/ \E q \in Requests : Handle(q) \/ Model(q)

Spec == Init /\ [][Next]_vars

(* A handler runs on, and the model answers or the call times out. *)
FairSpec == Spec /\ \A q \in Requests : WF_vars(Handle(q)) /\ WF_vars(Model(q))

-----------------------------------------------------------------------------
Holds(q, t) == req[q].pc \in Claimed /\ req[q].trace = t

(* Of a trace one diagnosis runs at a time, however requests come, fail   *)
(* or are given up.  (the in-flight set, DiagnoseTrace)                   *)
OneCallPerTrace ==
  \A t \in Traces : \A q, p \in Requests : Holds(q, t) /\ Holds(p, t) => q = p

(* At most one configuration is the default, whatever requests do to them *)
(* and wherever they are cut off.  (CreateLLMConfig, UpdateLLMConfig)     *)
AtMostOneDefault == \A c, d \in DOMAIN configs : configs[c] /\ configs[d] => c = d

(* A stored diagnosis is only replaced by one that has seen as much: of   *)
(* the same trace with more spans, or of the trace that came after it.    *)
(* (the set is entered before the trace is read, and left after the store)*)
Older(a, b) == a.era < b.era \/ (a.era = b.era /\ a.spans \subseteq b.spans)
NewerDiagnosisWins ==
  [][\A t \in Traces :
       results[t] # None /\ results'[t] # None => Older(results[t], results'[t])]_vars

(* The model is not asked, unless this is forced, if a diagnosis of the   *)
(* trace as it is was stored when the request came.  It takes the check,  *)
(* and that no older diagnosis can replace that one meanwhile.            *)
(* (DiagnoseTrace, "Check for cached result")                             *)
CurrentResultSparesTheCall ==
  [][\A q \in Requests :
       At(q, "config") /\ req'[q].pc = "call" => req[q].force \/ ~req[q].current]_vars

(* A trace does not stay in flight: it can be diagnosed again, whatever   *)
(* became of the last attempt.  (the deferred delete, the call's timeout) *)
FlightsLand == \A t \in Traces : t \in inFlight ~> t \notin inFlight
=============================================================================
