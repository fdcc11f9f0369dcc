---------------------------- MODULE AlertEngine ----------------------------
(***************************************************************************)
(* internal/alerting/engine.go and setup.go on top of RuleStore: the loop  *)
(* that evaluates every enabled rule for every trace of its window, drives *)
(* the state machine of the pair and sends what it asks for, while traces  *)
(* come, go and grow and users change the rules.                           *)
(*                                                                         *)
(* Time is counted in the engine's 15 second ticks.  An evaluation starts  *)
(* right after its tick and is over before the next; sending may take any  *)
(* number of ticks.  Two instants that are exactly n ticks apart may be a  *)
(* little more or a little less apart for time.Now.                        *)
(***************************************************************************)
EXTENDS RuleStore, Sequences, FiniteSetsExt

CONSTANTS
  Handled,    (* the notifier types that are registered                   *)
  Crowded,    (* whether more than a page of newer traces may come in     *)
  Late,       (* how old a trace may be when it is stored                 *)
  FaultKinds, (* what may happen: "fetch" and "full" (a fetch or a save   *)
              (* fails), "shutdown", "kill", "cut" (the process ends      *)
              (* inside a save)                                           *)
  MaxFaults   (* bound: how often something fails, and how often the      *)
              (* process stops                                            *)

ASSUME CrowdedAssumption == Crowded \in BOOLEAN

VARIABLES
  age,       (* ticks since a stored trace started; None: not stored      *)
  met,       (* the pairs whose conditions hold                           *)
  lastEval,  (* per rule: ticks since it was last evaluated, or None      *)
  tick,      (* a tick waits in the ticker's channel                      *)
  pc,        (* "wait", "rules", "traces", "notify", "record", "gone"     *)
  list,      (* the enabled rules this cycle has still to look at         *)
  rule,      (* the id of the rule being evaluated, with its copy         *)
  batch,     (* the traces it has still to process, and what was seen     *)
  events,    (* the notifications this cycle asks for                     *)
  phase,     (* "up", "closing", "closed", "down" or "disabled"           *)
  told,      (* history: the action last sent for a pair, or None         *)
  alerted,   (* history: the pairs sent as firing since they last cleared *)
  unmetFor,  (* history: ticks since a pair was last seen not to hold     *)
  faults

traceVars == <<age, met>>
engine == <<list, rule, batch>>
observed == <<told, alerted, unmetFor>>
vars == <<storeVars, traceVars, lastEval, tick, pc, engine, events, phase,
          observed, faults>>

(* Something fails, or the process is stopped. *)
Class(kind) == IF kind \in {"fetch", "full"} THEN "failures" ELSE "stops"
Fault(kind) ==
  /\ kind \in FaultKinds /\ faults[Class(kind)] < MaxFaults
  /\ faults' = [faults EXCEPT ![Class(kind)] = @ + 1]
SaveFault(saved) == IF saved THEN UNCHANGED faults ELSE Fault("full")

(* Every counter of ticks stops where nothing differs any more. *)
Shortest == Min(Intervals)
Horizon == Max(Fors \cup {2 * Shortest})
Aged(n, last) == IF n = None \/ n = last THEN n ELSE n + 1
Elapsed(n, bound) == IF n = bound THEN BOOLEAN ELSE {n > bound}
AgedStates(ss) == [p \in DOMAIN ss |-> [ss[p] EXCEPT !.since = Aged(@, Max(Fors) + 1)]]
AgedMemory(m) == [m EXCEPT !.states = AgedStates(@)]
AgedFile == IF file.holds = "a copy" THEN Stale(AgedMemory(file.copy)) ELSE file

Init ==
  /\ StoreInit
  /\ age = [t \in Traces |-> None]
  /\ met = {}
  /\ lastEval = [r \in Rules |-> None]
  /\ tick = FALSE
  /\ pc = "wait"
  /\ list = << >> /\ rule = None /\ batch = {}
  /\ events = << >>
  /\ phase = "up"
  /\ told = [p \in Pairs |-> None] /\ alerted = {}
  /\ unmetFor = [p \in Pairs |-> Horizon]
  /\ faults = [class \in {"failures", "stops"} |-> 0]

-----------------------------------------------------------------------------
(* The traces.  A trace is stored some time after it started, its totals  *)
(* change as batches come in, and retention deletes it.                   *)
StoreTrace(t) ==
  /\ age[t] = None
  /\ \E n \in Late : age' = [age EXCEPT ![t] = n]
  /\ \E over \in SUBSET Rules :
       met' = met \cup (over \X {t})
  /\ UNCHANGED <<storeVars, lastEval, tick, pc, engine, events, phase, observed, faults>>

ChangeTrace(p) ==
  /\ age[p[2]] # None
  /\ met' = IF p \in met THEN met \ {p} ELSE met \cup {p}
  /\ UNCHANGED <<storeVars, age, lastEval, tick, pc, engine, events, phase, observed, faults>>

DropTrace(t) ==
  /\ age[t] # None
  /\ age' = [age EXCEPT ![t] = None]
  /\ met' = {p \in met : p[2] # t}
  /\ UNCHANGED <<storeVars, lastEval, tick, pc, engine, events, phase, observed, faults>>

(* A tick of the clock; the ticker drops it if one is waiting.  Evaluate  *)
(* starts at once if the loop is free.                                    *)
Running == phase \in {"up", "closing", "closed"}
Tick ==
  /\ pc \in {"wait", "notify", "gone"}
  /\ ~(Running /\ pc = "wait" /\ tick)
  /\ tick' = (Running /\ pc # "gone")
  /\ age' = [t \in Traces |-> Aged(age[t], Max(Fors) + Max(Intervals) + 1)]
  /\ lastEval' = [r \in Rules |-> Aged(lastEval[r], Max(Intervals) + 1)]
  /\ states' = AgedStates(states)
  /\ file' = AgedFile /\ copy' = IF copy = None THEN None ELSE AgedMemory(copy)
  /\ unmetFor' = [p \in Pairs |-> Aged(unmetFor[p], Horizon)]
  /\ UNCHANGED <<rules, history, asked, met, pc, engine, events, phase,
                 told, alerted, faults>>

-----------------------------------------------------------------------------
(* RunPolling and Evaluate: a copy of the rules, then rule by rule. *)
EnabledRules == {r \in DOMAIN rules : rules[r].on}

Evaluate ==
  /\ Running /\ pc = "wait" /\ tick
  /\ tick' = FALSE
  /\ list' = Restrict(rules, EnabledRules)
  /\ pc' = "rules"
  /\ UNCHANGED <<storeVars, traceVars, lastEval, rule, batch, events, phase, observed, faults>>

(* Mutant of Due: the rule is evaluated at every tick. *)
AlwaysDue(r) == {TRUE}

(* Mutant of Due: a rule that was never evaluated is skipped. *)
DueOnceSeen(r) == IF lastEval[r] = None THEN {FALSE} ELSE Elapsed(lastEval[r], list[r].interval)

(* now.Sub(last) < interval decides whether the rule is skipped. *)
Due(r) == IF lastEval[r] = None THEN {TRUE} ELSE Elapsed(lastEval[r], list[r].interval)

Skip(r) ==
  /\ pc = "rules" /\ r \in DOMAIN list /\ FALSE \in Due(r)
  /\ list' = Restrict(list, DOMAIN list \ {r})
  /\ UNCHANGED <<storeVars, traceVars, lastEval, tick, pc, rule, batch, events, phase, observed, faults>>

(* The traces that started within interval + for_duration, newest first,  *)
(* and no more than a page of 500: traces that are not among Traces may   *)
(* crowd out the older ones.                                              *)
Window(span) == {t \in Traces : age[t] # None /\ TRUE \in Elapsed(span, age[t])}
Page(span) ==
  {S \in SUBSET Window(span) :
     \A t \in Window(span) \ S :
       \/ FALSE \in Elapsed(span, age[t])
       \/ Crowded /\ \A u \in S : age[u] <= age[t]}

Fetch(r) ==
  /\ pc = "rules" /\ r \in DOMAIN list /\ TRUE \in Due(r)
  /\ lastEval' = [lastEval EXCEPT ![r] = 0]
  /\ list' = Restrict(list, DOMAIN list \ {r})
  /\ rule' = [id |-> r, rule |-> list[r]]
  /\ \E S \in Page(list[r].interval + list[r].for) :
       batch' = {[trace |-> t, met |-> <<r, t>> \in met] : t \in S}
  /\ pc' = "traces"
  /\ UNCHANGED <<storeVars, traceVars, tick, events, phase, observed, faults>>

(* The fetcher fails: the rule waits for its next interval. *)
FetchFails(r) ==
  /\ Fault("fetch")
  /\ pc = "rules" /\ r \in DOMAIN list /\ TRUE \in Due(r)
  /\ lastEval' = [lastEval EXCEPT ![r] = 0]
  /\ list' = Restrict(list, DOMAIN list \ {r})
  /\ UNCHANGED <<storeVars, traceVars, tick, pc, rule, batch, events, phase, observed>>

(* driveStateMachine: the status a pair goes to, and whether to notify. *)
To(status, notify) == [status |-> status, notify |-> notify]

(* Mutant of Drive: a firing pair that still holds notifies again. *)
DriveRepeats(status, holds, long) ==
  CASE status \in {"ok", "resolved"} -> To(IF holds THEN "pending" ELSE status, FALSE)
    [] status = "pending" /\ ~holds -> To("ok", FALSE)
    [] status = "pending" /\ holds -> To(IF long THEN "firing" ELSE "pending", long)
    [] status = "firing" -> To(IF holds THEN "firing" ELSE "resolved", TRUE)

(* Mutant of Drive: a firing pair that clears goes back to ok unnoticed. *)
DriveClearsQuietly(status, holds, long) ==
  CASE status \in {"ok", "resolved"} -> To(IF holds THEN "pending" ELSE status, FALSE)
    [] status = "pending" /\ ~holds -> To("ok", FALSE)
    [] status = "pending" /\ holds -> To(IF long THEN "firing" ELSE "pending", long)
    [] status = "firing" -> To(IF holds THEN "firing" ELSE "ok", FALSE)

Drive(status, holds, long) ==
  CASE status \in {"ok", "resolved"} -> To(IF holds THEN "pending" ELSE status, FALSE)
    [] status = "pending" /\ ~holds -> To("ok", FALSE)
    [] status = "pending" /\ holds -> To(IF long THEN "firing" ELSE "pending", long)
    [] status = "firing" -> To(IF holds THEN "firing" ELSE "resolved", ~holds)

(* A pair without a state starts as ok, triggered now. *)
StateOf(p) == IF p \in DOMAIN states THEN states[p] ELSE [status |-> "ok", since |-> 0]
Event(p, status) ==
  [pair |-> p, action |-> IF status = "resolved" THEN "resolved" ELSE "firing"]

(* One trace of the batch: its state is saved, then its event is queued,  *)
(* unless nobody handles the type of the rule's notifier.  If the file    *)
(* cannot be written the state has changed and the event is not queued.   *)
Process(seen) ==
  /\ pc = "traces" /\ seen \in batch
  /\ LET p == <<rule.id, seen.trace>>
     IN  \E long \in Elapsed(StateOf(p).since, rule.rule.for) :
           LET next == Drive(StateOf(p).status, seen.met, long)
           IN  /\ UpsertAlertState(p, [StateOf(p) EXCEPT !.status = next.status])
               /\ \E saved \in BOOLEAN :
                    /\ SaveLocked(saved) /\ SaveFault(saved)
                    /\ events' = IF saved /\ next.notify /\ rule.rule.kind \in Handled
                                 THEN Append(events, Event(p, next.status))
                                 ELSE events
               /\ alerted' = IF next.status = "resolved" THEN alerted \ {p} ELSE alerted
               /\ unmetFor' = IF seen.met THEN unmetFor ELSE [unmetFor EXCEPT ![p] = 0]
  /\ batch' = batch \ {seen}
  /\ UNCHANGED <<rules, history, copy, asked, traceVars, lastEval, tick, pc, list,
                 rule, phase, told>>

RuleDone ==
  /\ pc = "traces" /\ batch = {}
  /\ pc' = "rules" /\ rule' = None
  /\ UNCHANGED <<storeVars, traceVars, lastEval, tick, list, batch, events, phase, observed, faults>>

Evaluated ==
  /\ pc = "rules" /\ DOMAIN list = {}
  /\ pc' = IF events = << >> THEN "wait" ELSE "notify"
  /\ UNCHANGED <<storeVars, traceVars, lastEval, tick, engine, events, phase, observed, faults>>

(* onEvent: the notifier is called, and what became of it is recorded. *)
Notify ==
  /\ pc = "notify" /\ Running
  /\ LET e == Head(events)
     IN  /\ told' = [told EXCEPT ![e.pair] = e.action]
         /\ alerted' = IF e.action = "firing" THEN alerted \cup {e.pair} ELSE alerted
  /\ pc' = "record"
  /\ UNCHANGED <<storeVars, traceVars, lastEval, tick, engine, events, phase,
                 unmetFor, faults>>

Record ==
  /\ pc = "record" /\ Running
  /\ InsertNotification(Head(events).pair, Head(events).action)
  /\ \E saved \in BOOLEAN : SaveLocked(saved) /\ SaveFault(saved)
  /\ events' = Tail(events)
  /\ pc' = IF Len(events) = 1 THEN "wait" ELSE "notify"
  /\ UNCHANGED <<rules, states, copy, asked, traceVars, lastEval, tick, engine,
                 phase, observed>>

-----------------------------------------------------------------------------
(* main has waited ten seconds for the requests of the API, and gives up  *)
(* on those that last longer.  Subsystem.Shutdown: done is closed, then   *)
(* the store; neither the loop nor those requests are waited for.         *)
Shutdown ==
  /\ Fault("shutdown")
  /\ phase = "up"
  /\ phase' = "closing"
  /\ UNCHANGED <<storeVars, traceVars, lastEval, tick, pc, engine, events, observed>>

LoopReturns ==
  /\ phase \in {"closing", "closed"} /\ pc = "wait"
  /\ pc' = "gone" /\ tick' = FALSE
  /\ UNCHANGED <<storeVars, traceVars, lastEval, engine, events, phase, observed, faults>>

CloseReads ==
  /\ phase = "closing" /\ copy = None
  /\ copy' = Memory
  /\ UNCHANGED <<memory, file, asked, traceVars, lastEval, tick, pc, engine, events,
                 phase, observed, faults>>

(* save writes what it read without the lock.  Of another save since then *)
(* and this write either may be the last, or the file mixes the two.      *)
Overwritten ==
  IF copy = Memory THEN {Current}
  ELSE {Stale(copy)} \cup (IF file.holds = "a copy" THEN {} ELSE {file, Torn})
CloseWrites ==
  /\ phase = "closing" /\ copy # None
  /\ \/ file' \in Overwritten /\ UNCHANGED faults
     \/ file' \in {file, Empty, Torn} /\ Fault("full")
  /\ phase' = "closed" /\ copy' = None
  /\ UNCHANGED <<memory, asked, traceVars, lastEval, tick, pc, engine, events, observed>>

(* The process ends: after Close, by a kill, or while a save is under way. *)
End ==
  \/ phase = "closed" /\ UNCHANGED <<file, faults>>
  \/ phase \in {"up", "closing"} /\ Fault("kill") /\ UNCHANGED file
  \/ Running /\ Fault("cut") /\ file' \in {Empty, Torn}
Exit ==
  /\ End
  /\ phase' = "down" /\ pc' = "wait" /\ tick' = FALSE
  /\ list' = << >> /\ rule' = None /\ batch' = {} /\ events' = << >>
  /\ copy' = None
  /\ lastEval' = [r \in Rules |-> None]
  /\ puts' = [c \in Clients |-> None]
  /\ UNCHANGED <<memory, used, confirmed, traceVars, observed>>

(* InitAlerting; main runs on without alerting if the file does not load. *)
Start ==
  /\ phase = "down"
  /\ IF Loadable
     THEN /\ phase' = "up"
          /\ rules' = Loaded.rules /\ states' = Loaded.states
          /\ history' = Loaded.history
          /\ file' = Current
          /\ alerted' = IF file = Current THEN alerted ELSE {}
     ELSE phase' = "disabled" /\ UNCHANGED <<memory, file, alerted>>
  /\ UNCHANGED <<copy, asked, traceVars, lastEval, tick, pc, engine, events,
                 told, unmetFor, faults>>

-----------------------------------------------------------------------------
Traffic ==
  \/ \E t \in Traces : StoreTrace(t) \/ DropTrace(t)
  \/ \E p \in Pairs : ChangeTrace(p)
Api ==
  /\ Running
  /\ \/ ApiRead /\ UNCHANGED faults
     \/ \E saved \in BOOLEAN : ApiWrite(saved) /\ SaveFault(saved)
  /\ UNCHANGED <<traceVars, lastEval, tick, pc, engine, events, phase, observed>>
Loop ==
  \/ Evaluate
  \/ \E r \in Rules : Skip(r) \/ Fetch(r) \/ FetchFails(r)
  \/ \E seen \in [trace : Traces, met : BOOLEAN] : Process(seen)
  \/ RuleDone \/ Evaluated \/ Notify \/ Record
Lifecycle == Shutdown \/ LoopReturns \/ CloseReads \/ CloseWrites \/ Exit \/ Start

Next == Traffic \/ Api \/ Tick \/ Loop \/ Lifecycle
Spec == Init /\ [][Next]_vars

(* The clock and the loop run on, and a mail server answers in the end.   *)
LiveSpec == Spec /\ WF_vars(Tick) /\ WF_vars(Loop)

-----------------------------------------------------------------------------
(* The event queued last for a pair, or else what was last sent for it. *)
LastWord(p) ==
  LET queued == {i \in DOMAIN events : events[i].pair = p}
  IN  IF queued = {} THEN told[p] ELSE events[Max(queued)].action

(* Users know of an alert what the engine knows: a pair is firing exactly *)
(* if the last notification sent or about to be sent says so.  What was   *)
(* sent is in the history, or is about to be.                             *)
(* (Evaluate, driveStateMachine, RunPolling, onEvent in InitAlerting)     *)
NotificationMatchesState ==
  \A p \in Pairs :
    /\ StateOf(p).status = "firing" <=> LastWord(p) = "firing"
    /\ \/ told[p] = (IF p \in DOMAIN history THEN history[p] ELSE None)
       \/ pc = "record" /\ Head(events).pair = p

(* Nobody is told twice that the same alert fires, without its condition  *)
(* having cleared in between, even if the process is killed at any point. *)
(* A restart from an older or empty file begins anew.                     *)
(* (driveStateMachine, UpsertAlertState)                                  *)
FiringDoesNotRefire ==
  [][pc = "notify" /\ pc' = "record" /\ Head(events).action = "firing" =>
       Head(events).pair \notin alerted]_vars

(* One bad sample does not page: when a pair fires, the last evaluation   *)
(* that saw it not to hold is at least two intervals old, of those the    *)
(* rule may have had.  (Evaluate's interval check, driveStateMachine)     *)
Fires(p) == states'[p].status = "firing" /\ StateOf(p).status # "firing"
FiringSeenTwice ==
  [][\A p \in DOMAIN states' : Fires(p) => unmetFor[p] >= 2 * Shortest]_vars

(* A rule that was deleted does not come back while the process runs,     *)
(* whatever updates were under way, and not after a restart either if its *)
(* deletion was answered with success, whatever failed or was cut off     *)
(* since: unless Close was at work just then, as it may be for a request  *)
(* that outlived the ten seconds of main.                                 *)
(* (updateRule, deleteRule, UpdateRule, saveLocked, Close, load)          *)
DeletedStaysDeleted ==
  [][\A r \in used \ DOMAIN rules :
       r \in DOMAIN rules' => phase = "down" /\ r \notin confirmed]_vars

(* After a rule was deleted its notifications end.                        *)
(* (deleteRule, ListRules in Evaluate)                                    *)
QuietAfterDelete ==
  \A r \in Rules :
    [](r \in used \ DOMAIN rules =>
         <>[](\A i \in DOMAIN events : events[i].pair[1] # r))

(* An enabled rule is evaluated again and again.                          *)
(* (RunPolling, Evaluate)                                                 *)
EvaluatedAgain ==
  \A r \in Rules :
    []<>(r \notin EnabledRules \/ phase # "up" \/ lastEval[r] = 0)

-----------------------------------------------------------------------------
(* What the documents say and this engine does not do. *)

(* docs/architecture.md:442: only after for_duration of holding does a    *)
(* pair go from pending to firing.  (driveStateMachine, triggered_at)     *)
FiresOnlyAfterHolding ==
  [][\A p \in DOMAIN states' : Fires(p) => unmetFor[p] >= rule.rule.for]_vars
=============================================================================
