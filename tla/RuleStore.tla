----------------------------- MODULE RuleStore -----------------------------
(***************************************************************************)
(* internal/alerting/store.go and api.go: the rules, the alert states and  *)
(* the notification history of alerting.  They live in memory behind a     *)
(* read-write lock; every change rewrites the whole file while it holds    *)
(* the lock, so the file is the memory, unless a write failed or was cut   *)
(* off, or Close wrote an older copy over it.                              *)
(***************************************************************************)
EXTENDS Integers, FiniteSets, Functions

CONSTANTS
  Rules,    (* the uuids rules may get                                    *)
  Traces,   (* trace ids                                                  *)
  Clients,  (* concurrent PUT requests                                    *)
  Kinds,    (* notifier types a user may write into a rule                *)
  Fors,     (* for_duration a user may write, in ticks of the engine      *)
  Intervals,(* interval a user may write, in ticks                        *)
  None      (* no value                                                   *)

ASSUME ForsAssumption == Fors \subseteq Nat \ {0} /\ Fors # {}
ASSUME IntervalsAssumption ==
  Intervals \subseteq Nat \ {0} /\ \E n \in Intervals : \A m \in Intervals : n <= m
ASSUME NoneAssumption ==
  /\ None \notin Rules /\ None \notin BOOLEAN /\ None \notin Kinds
  /\ None \notin Fors /\ None \notin Intervals

VARIABLES
  rules,    (* rule by id                                                 *)
  states,   (* alert state by <<rule, trace>>: its status and the ticks   *)
            (* since triggered_at                                         *)
  history,  (* the action last recorded by <<rule, trace>>                *)
  file,     (* Current, Stale(an older memory), Empty or Torn             *)
  puts,     (* per client: None, or the rule updateRule is about to write *)
  copy,     (* what Close read and has still to write, or None            *)
  used,     (* history: the uuids already given out                       *)
  confirmed (* history: the rules whose deletion was answered with        *)
            (* success while Close was not at work                        *)

memory == <<rules, states, history>>
asked == <<puts, used, confirmed>>
storeVars == <<memory, file, copy, asked>>

Current == [holds |-> "the memory"]
Empty == [holds |-> "nothing"]
Torn == [holds |-> "half a write"]
Stale(m) == [holds |-> "a copy", copy |-> m]
Memory == [rules |-> rules, states |-> states, history |-> history]
Pairs == Rules \X Traces
Put(f, k, v) == [x \in DOMAIN f \cup {k} |-> IF x = k THEN v ELSE f[x]]

StoreInit ==
  /\ rules = << >> /\ states = << >> /\ history = << >>
  /\ file = Current /\ copy = None
  /\ puts = [c \in Clients |-> None]
  /\ used = {} /\ confirmed = {}

(* saveLocked: the file is emptied, then written.  If it cannot be opened *)
(* it keeps what it holds; if it cannot be written it is empty or torn.   *)
(* The memory has changed all the same.                                   *)
Kept == IF file = Current THEN Stale(Memory) ELSE file
SaveLocked(saved) == IF saved THEN file' = Current ELSE file' \in {Kept, Empty, Torn}

-----------------------------------------------------------------------------
(* createRule: a new uuid; the rule is enabled. *)
Posted == [on : {TRUE}, kind : Kinds, for : Fors, interval : Intervals]
CreateRule(r, rule, saved) ==
  /\ r \notin used
  /\ used' = used \cup {r}
  /\ rules' = Put(rules, r, rule)
  /\ SaveLocked(saved)
  /\ UNCHANGED <<states, history, copy, puts, confirmed>>

(* updateRule reads the rule under the read lock, lays the fields of the  *)
(* request over the copy and writes it back under the lock.               *)
Given(new, old) == IF new = None THEN old ELSE new
Changes == [on : BOOLEAN \cup {None}, kind : Kinds \cup {None},
            for : Fors \cup {None}, interval : Intervals \cup {None}]
PutRead(c, r, change) ==
  /\ puts[c] = None /\ r \in DOMAIN rules
  /\ puts' = [puts EXCEPT ![c] =
       [id |-> r, rule |-> [on |-> Given(change.on, rules[r].on),
                            kind |-> Given(change.kind, rules[r].kind),
                            for |-> Given(change.for, rules[r].for),
                            interval |-> Given(change.interval, rules[r].interval)]]]
  /\ UNCHANGED <<memory, file, copy, used, confirmed>>

(* Mutant of UpdateRule: a rule that is gone is written all the same. *)
UpdateRuleUnchecked(c, saved) ==
  /\ puts[c] # None
  /\ rules' = Put(rules, puts[c].id, puts[c].rule) /\ SaveLocked(saved)
  /\ puts' = [puts EXCEPT ![c] = None]
  /\ UNCHANGED <<states, history, copy, used, confirmed>>

UpdateRule(c, saved) ==
  /\ puts[c] # None
  /\ IF puts[c].id \in DOMAIN rules
     THEN rules' = Put(rules, puts[c].id, puts[c].rule) /\ SaveLocked(saved)
     ELSE saved /\ UNCHANGED <<rules, file>>
  /\ puts' = [puts EXCEPT ![c] = None]
  /\ UNCHANGED <<states, history, copy, used, confirmed>>

(* The states and the history of the rule stay; so does the answer if the *)
(* rule is already gone.  A failed save is answered with an error.        *)
DeleteRule(r, saved) ==
  /\ r \in used
  /\ rules' = Restrict(rules, DOMAIN rules \ {r})
  /\ SaveLocked(saved)
  /\ confirmed' = IF saved /\ copy = None THEN confirmed \cup {r} ELSE confirmed
  /\ UNCHANGED <<states, history, copy, puts, used>>

(* What the engine writes. *)
UpsertAlertState(p, state) == states' = Put(states, p, state)
InsertNotification(p, action) == history' = Put(history, p, action)

(* load, when the process starts: an empty file is a fresh one, one that  *)
(* does not parse is an error.                                            *)
Loadable == file # Torn
Loaded ==
  CASE file = Current -> Memory
    [] file = Empty -> [rules |-> << >>, states |-> << >>, history |-> << >>]
    [] OTHER -> file.copy

ApiRead == \E c \in Clients, r \in Rules, change \in Changes : PutRead(c, r, change)
ApiWrite(saved) ==
  \/ \E r \in Rules, rule \in Posted : CreateRule(r, rule, saved)
  \/ \E c \in Clients : UpdateRule(c, saved)
  \/ \E r \in Rules : DeleteRule(r, saved)
=============================================================================
