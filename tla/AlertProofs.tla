---------------------------- MODULE AlertProofs ----------------------------
(***************************************************************************)
(* Proofs about AlertEngine, for any rules, traces, clients and durations. *)
(***************************************************************************)
EXTENDS AlertEngine, SequenceTheorems, TLAPS

-----------------------------------------------------------------------------
(* A memory without the rules whose deletion was confirmed.                *)
IsCopy(m) ==
  \E ru, s, h : m = [rules |-> ru, states |-> s, history |-> h]
                /\ confirmed \cap DOMAIN ru = {}

(* What Close has read and what the file holds may be older than the       *)
(* memory, but no older than the last deletion that was confirmed.         *)
FileIsCopy(f) == f \in {Current, Empty, Torn} \/ \E m : f = Stale(m) /\ IsCopy(m)
Copies ==
  /\ confirmed \subseteq used /\ confirmed \cap DOMAIN rules = {}
  /\ copy # None => IsCopy(copy)
  /\ FileIsCopy(file)

(* A copy that grows older is a copy. *)
LEMMA AgedCopy ==
  ASSUME NEW m, IsCopy(m)
  PROVE  IsCopy(AgedMemory(m))
<1>1. PICK ru, s, h : m = [rules |-> ru, states |-> s, history |-> h]
                      /\ confirmed \cap DOMAIN ru = {}
  BY DEF IsCopy
<1>2. AgedMemory(m) = [rules |-> ru, states |-> AgedStates(s), history |-> h]
  BY <1>1 DEF AgedMemory
<1> QED BY <1>1, <1>2 DEF IsCopy

(* So is the memory itself.                                                *)
LEMMA MemoryIsCopy ==
  ASSUME Copies
  PROVE  IsCopy(Memory)
  BY DEF Copies, IsCopy, Memory

(* A file that could not be opened holds what it held.                     *)
LEMMA KeptIsCopy ==
  ASSUME Copies
  PROVE  FileIsCopy(Kept)
  BY MemoryIsCopy DEF Copies, FileIsCopy, Kept

(* A copy stays one while nothing is confirmed.                            *)
LEMMA CopyStays ==
  ASSUME NEW m, IsCopy(m), UNCHANGED confirmed
  PROVE  IsCopy(m)'
  BY DEF IsCopy
LEMMA FileStays ==
  ASSUME NEW f, FileIsCopy(f), UNCHANGED confirmed
  PROVE  FileIsCopy(f)'
<1>1. CASE f \in {Current, Empty, Torn}
  BY <1>1 DEF FileIsCopy
<1>2. CASE \E m : f = Stale(m) /\ IsCopy(m)
  <2>1. PICK m : f = Stale(m) /\ IsCopy(m)
    BY <1>2
  <2>2. IsCopy(m)'
    BY <2>1, CopyStays
  <2> QED BY <2>1, <2>2 DEF FileIsCopy
<1> QED BY <1>1, <1>2 DEF FileIsCopy

(* A step that leaves the rules and the copy alone and whose save, if      *)
(* there is one, succeeds or fails.                                        *)
Saves == file' \in {file, Current, Kept, Empty, Torn}
LEMMA SavedCopy ==
  ASSUME Copies, Saves, UNCHANGED confirmed
  PROVE  FileIsCopy(file)'
<1>1. FileIsCopy(file')
  BY KeptIsCopy DEF Saves, Copies, FileIsCopy
<1>2. PICK f : f = file'
  OBVIOUS
<1>3. FileIsCopy(f)'
  BY <1>1, <1>2, FileStays
<1> QED BY <1>2, <1>3 DEF FileIsCopy
LEMMA CopiesStay ==
  ASSUME Copies, UNCHANGED <<rules, copy, used, confirmed>>, Saves
  PROVE  Copies'
<1>1. FileIsCopy(file)'
  BY SavedCopy
<1>2. copy' # None => IsCopy(copy)'
  BY DEF Copies, IsCopy
<1> QED BY <1>1, <1>2 DEF Copies

(* Users give out new uuids, and a deletion is confirmed once the file     *)
(* holds the memory and Close has no copy of its own.                      *)
LEMMA ApiKeepsCopies ==
  ASSUME Copies, Api
  PROVE  Copies'
<1> USE DEF asked
<1>1. CASE ApiRead
  <2>1. UNCHANGED <<rules, copy, file, used, confirmed>>
    BY <1>1 DEF ApiRead, PutRead, memory
  <2> QED BY <2>1, CopiesStay DEF Saves
<1>2. ASSUME NEW r \in Rules, NEW posted \in Posted, NEW saved \in BOOLEAN,
             CreateRule(r, posted, saved)
      PROVE  Copies'
  <2>1. Saves /\ UNCHANGED <<copy, confirmed>> /\ used' = used \cup {r}
        /\ r \notin used /\ DOMAIN rules' = DOMAIN rules \cup {r}
    BY <1>2 DEF CreateRule, Saves, SaveLocked, Put
  <2>2. copy' # None => IsCopy(copy)'
    BY <2>1 DEF Copies, IsCopy
  <2> QED BY <2>1, <2>2, SavedCopy DEF Copies
<1>3. ASSUME NEW c \in Clients, NEW saved \in BOOLEAN, UpdateRule(c, saved) PROVE Copies'
  <2>1. Saves /\ UNCHANGED <<copy, confirmed, used>>
    BY <1>3 DEF UpdateRule, Saves, SaveLocked
  <2>2. DOMAIN rules' = DOMAIN rules
    BY <1>3 DEF UpdateRule, Put
  <2>3. copy' # None => IsCopy(copy)'
    BY <2>1 DEF Copies, IsCopy
  <2> QED BY <2>1, <2>2, <2>3, SavedCopy DEF Copies
<1>4. ASSUME NEW r \in Rules, NEW saved \in BOOLEAN, DeleteRule(r, saved) PROVE Copies'
  <2>1. Saves /\ UNCHANGED <<copy, used>> /\ r \in used
        /\ DOMAIN rules' = DOMAIN rules \ {r}
    BY <1>4 DEF DeleteRule, Saves, SaveLocked, Restrict
  <2>2. CASE saved /\ copy = None
    <3>1. file' = Current /\ confirmed' = confirmed \cup {r} /\ copy' = None
      BY <1>4, <2>2 DEF DeleteRule, SaveLocked
    <3> QED BY <2>1, <3>1 DEF Copies, FileIsCopy
  <2>3. CASE ~(saved /\ copy = None)
    <3>1. UNCHANGED confirmed
      BY <1>4, <2>3 DEF DeleteRule
    <3>2. copy' # None => IsCopy(copy)'
      BY <2>1, <3>1 DEF Copies, IsCopy
    <3> QED BY <2>1, <3>1, <3>2, SavedCopy DEF Copies
  <2> QED BY <2>2, <2>3
<1> QED BY <1>1, <1>2, <1>3, <1>4 DEF Api, ApiWrite

(* The clock ages a copy as it ages the memory.                            *)
LEMMA TickKeepsCopies ==
  ASSUME Copies, Tick
  PROVE  Copies'
<1>1. UNCHANGED <<rules, used, confirmed>> /\ file' = AgedFile
      /\ copy' = IF copy = None THEN None ELSE AgedMemory(copy)
  BY DEF Tick, asked
<1>2. copy' # None => IsCopy(copy)'
  <2>1. CASE copy = None
    BY <1>1, <2>1
  <2>2. CASE copy # None
    <3>1. IsCopy(AgedMemory(copy))
      BY <2>2, AgedCopy DEF Copies
    <3>2. IsCopy(copy')
      BY <1>1, <2>2, <3>1
    <3> QED BY <1>1, <3>2 DEF IsCopy
  <2> QED BY <2>1, <2>2
<1>3. FileIsCopy(AgedFile)
  <2>1. CASE file \in {Current, Empty, Torn}
    <3>1. /\ Current.holds = "the memory" /\ Empty.holds = "nothing"
          /\ Torn.holds = "half a write"
      BY DEF Current, Empty, Torn
    <3>2. file.holds \in {"the memory", "nothing", "half a write"}
      BY <2>1, <3>1
    <3>3. AgedFile = file
      BY <3>2 DEF AgedFile
    <3> QED BY <2>1, <3>3 DEF FileIsCopy
  <2>2. CASE \E m : file = Stale(m) /\ IsCopy(m)
    <3>1. PICK m : file = Stale(m) /\ IsCopy(m)
      BY <2>2
    <3>2. AgedFile = Stale(AgedMemory(m)) /\ IsCopy(AgedMemory(m))
      BY <3>1, AgedCopy DEF AgedFile, Stale
    <3> QED BY <3>2 DEF FileIsCopy
  <2> QED BY <2>1, <2>2 DEF Copies, FileIsCopy
<1>4. PICK f : f = file'
  OBVIOUS
<1>5. FileIsCopy(f)'
  BY <1>1, <1>3, <1>4, FileStays
<1>6. FileIsCopy(file)'
  BY <1>4, <1>5 DEF FileIsCopy
<1> QED BY <1>1, <1>2, <1>6 DEF Copies

(* The engine writes the file, never the rules.                            *)
LEMMA LoopKeepsCopies ==
  ASSUME Copies, Loop
  PROVE  Copies'
<1>1. UNCHANGED <<rules, copy, used, confirmed>> /\ Saves
  BY DEF Loop, Evaluate, Skip, Fetch, FetchFails, Process, RuleDone, Evaluated,
     Notify, Record, storeVars, memory, asked, Saves, SaveLocked
<1> QED BY <1>1, CopiesStay

(* What load reads has no rule whose deletion was confirmed.               *)
LEMMA LoadedConfirms ==
  ASSUME Copies, Loadable
  PROVE  confirmed \cap DOMAIN Loaded.rules = {}
<1>1. CASE file = Current
  BY <1>1 DEF Loaded, Memory, Copies
<1>2. CASE file = Empty
  BY <1>2 DEF Loaded, Empty, Current
<1>3. CASE \E m : file = Stale(m) /\ IsCopy(m)
  <2>1. PICK m : file = Stale(m) /\ IsCopy(m)
    BY <1>3
  <2>2. confirmed \cap DOMAIN m.rules = {}
    BY <2>1 DEF IsCopy
  <2>3. Loaded = m
    BY <2>1 DEF Loaded, Stale, Current, Empty
  <2> QED BY <2>2, <2>3
<1> QED BY <1>1, <1>2, <1>3 DEF Loadable, Copies, FileIsCopy

(* Close takes the copy and writes it, load reads it.                      *)
LEMMA LifecycleKeepsCopies ==
  ASSUME Copies, Lifecycle
  PROVE  Copies'
<1> USE DEF storeVars, memory, asked
<1>1. CASE Shutdown \/ LoopReturns
  BY <1>1, CopiesStay DEF Shutdown, LoopReturns, Saves
<1>2. CASE CloseReads
  <2>1. UNCHANGED <<rules, file, used, confirmed>> /\ copy' = Memory
    BY <1>2 DEF CloseReads
  <2>2. IsCopy(copy')
    BY <2>1, MemoryIsCopy
  <2>3. IsCopy(copy)'
    BY <2>1, <2>2 DEF IsCopy
  <2>4. FileIsCopy(file)'
    BY <2>1, SavedCopy DEF Saves
  <2> QED BY <2>1, <2>3, <2>4 DEF Copies
<1>3. CASE CloseWrites
  <2>1. UNCHANGED <<rules, used, confirmed>> /\ copy' = None /\ IsCopy(copy)
        /\ file' \in {file, Current, Stale(copy), Empty, Torn}
    BY <1>3 DEF CloseWrites, Overwritten, Copies
  <2>2. FileIsCopy(file)'
    <3>1. CASE file' = Stale(copy)
      BY <2>1, <3>1 DEF FileIsCopy, IsCopy
    <3>2. CASE file' # Stale(copy)
      BY <2>1, <3>2, SavedCopy DEF Saves
    <3> QED BY <3>1, <3>2
  <2> QED BY <2>1, <2>2 DEF Copies
<1>4. CASE Exit
  <2>1. UNCHANGED <<rules, used, confirmed>> /\ copy' = None /\ Saves
    BY <1>4 DEF Exit, End, Saves
  <2> QED BY <2>1, SavedCopy DEF Copies
<1>5. CASE Start
  <2>1. UNCHANGED <<copy, used, confirmed>> /\ Saves
    BY <1>5 DEF Start, Saves
  <2>2. confirmed \cap DOMAIN rules' = {}
    BY <1>5, LoadedConfirms DEF Start, Copies
  <2>3. copy' # None => IsCopy(copy)'
    BY <2>1 DEF Copies, IsCopy
  <2> QED BY <2>1, <2>2, <2>3, SavedCopy DEF Copies
<1> QED BY <1>1, <1>2, <1>3, <1>4, <1>5 DEF Lifecycle

(* No copy has a rule whose deletion was confirmed.                        *)
LEMMA CopiesInvariant == Spec => []Copies
<1>1. Init => Copies
  BY DEF Init, StoreInit, Copies, FileIsCopy
<1>2. Copies /\ [Next]_vars => Copies'
  <2> SUFFICES ASSUME Copies, [Next]_vars PROVE Copies'
    OBVIOUS
  <2>1. CASE Traffic \/ UNCHANGED vars
    BY <2>1, CopiesStay DEF Traffic, StoreTrace, DropTrace, ChangeTrace, vars,
       storeVars, memory, asked, Saves
  <2> QED
    BY <2>1, ApiKeepsCopies, TickKeepsCopies, LoopKeepsCopies, LifecycleKeepsCopies
       DEF Next
<1> QED BY <1>1, <1>2, PTL DEF Spec

(* A rule that was deleted does not come back while the process runs, not  *)
(* even by an update that had read it before; and not after a restart if   *)
(* its deletion was answered with success while Close was not at work,     *)
(* whichever saves fail or are cut off.                                    *)
(* (updateRule, deleteRule, saveLocked, Close, load)                       *)
THEOREM DeletedRulesStayDeleted == Spec => DeletedStaysDeleted
<1> DEFINE Gone == \A r \in used \ DOMAIN rules :
                     r \in DOMAIN rules' => phase = "down" /\ r \notin confirmed
<1>1. Copies /\ [Next]_vars => Gone
  <2> SUFFICES ASSUME Copies, [Next]_vars PROVE Gone
    OBVIOUS
  <2> USE DEF storeVars, memory, asked
  <2>1. CASE Traffic \/ Tick \/ Loop \/ UNCHANGED vars
    <3>1. UNCHANGED rules
      BY <2>1 DEF Traffic, StoreTrace, DropTrace, ChangeTrace, Tick, Loop, Evaluate,
         Skip, Fetch, FetchFails, Process, RuleDone, Evaluated, Notify, Record, vars
    <3> QED BY <3>1
  <2>2. CASE Api
    <3>1. ASSUME NEW r \in Rules, NEW posted \in Posted, NEW saved \in BOOLEAN,
                 CreateRule(r, posted, saved)
          PROVE  Gone
      BY <3>1 DEF CreateRule, Put
    <3>2. CASE ApiRead
      BY <3>2 DEF ApiRead, PutRead
    <3>3. ASSUME NEW c \in Clients, NEW saved \in BOOLEAN, UpdateRule(c, saved)
          PROVE  Gone
      BY <3>3 DEF UpdateRule, Put
    <3>4. ASSUME NEW r \in Rules, NEW saved \in BOOLEAN, DeleteRule(r, saved)
          PROVE  Gone
      BY <3>4 DEF DeleteRule, Restrict
    <3> QED BY <2>2, <3>1, <3>2, <3>3, <3>4 DEF Api, ApiWrite
  <2>3. CASE Shutdown \/ LoopReturns \/ CloseReads \/ CloseWrites \/ Exit
    <3>1. UNCHANGED rules
      BY <2>3 DEF Shutdown, LoopReturns, CloseReads, CloseWrites, Exit
    <3> QED BY <3>1
  <2>4. CASE Start
    <3>1. phase = "down" /\ (rules' = rules \/ (Loadable /\ rules' = Loaded.rules))
      BY <2>4 DEF Start
    <3> QED BY <3>1, LoadedConfirms
  <2> QED BY <2>1, <2>2, <2>3, <2>4 DEF Next, Lifecycle
<1> QED BY <1>1, CopiesInvariant, PTL DEF Spec, DeletedStaysDeleted

-----------------------------------------------------------------------------
(* Without faults the process runs, and every rule that is looked at has a *)
(* type of notifier and an interval users may write.                       *)
Status == {"ok", "pending", "firing", "resolved"}
Actions == {"firing", "resolved"}

Up == phase = "up" /\ pc \in {"wait", "rules", "traces", "notify", "record"}

Valid(ru) == ru.kind \in Kinds /\ ru.interval \in Intervals
Kinded ==
  /\ \A r \in DOMAIN rules : Valid(rules[r])
  /\ DOMAIN puts = Clients
  /\ \A c \in Clients : puts[c] # None => Valid(puts[c].rule)
  /\ \A r \in DOMAIN list : Valid(list[r])
  /\ pc = "traces" => rule.rule.kind \in Kinds /\ rule.id \in Rules

Queued ==
  /\ states \in [DOMAIN states -> [status : Status, since : Nat]]
  /\ events \in Seq([pair : Pairs, action : Actions])
  /\ pc \in {"notify", "record"} => events # << >>
  /\ told \in [Pairs -> Actions \cup {None}]
  /\ pc = "record" => told[Head(events).pair] = Head(events).action

Recorded ==
  \A p \in Pairs :
    \/ told[p] = (IF p \in DOMAIN history THEN history[p] ELSE None)
    \/ pc = "record" /\ Head(events).pair = p

(* What was said last of a pair, in the queue or before it. *)
LastIs(p, a) ==
  \/ /\ \A i \in DOMAIN events : events[i].pair # p
     /\ a = told[p]
  \/ \E i \in DOMAIN events :
       /\ events[i].pair = p /\ events[i].action = a
       /\ \A j \in DOMAIN events : events[j].pair = p => j <= i
Known ==
  \A p \in Pairs : \E a : LastIs(p, a) /\ (StateOf(p).status = "firing" <=> a = "firing")

Matched == Up /\ Kinded /\ Queued /\ Recorded /\ Known

-----------------------------------------------------------------------------
(* Without faults nothing of the life cycle happens.                       *)
LEMMA UpStays ==
  ASSUME FaultKinds = {}, Up, [Next]_vars
  PROVE  Up' /\ ~Lifecycle
<1>1. ~Lifecycle
  BY DEF Up, Lifecycle, Shutdown, LoopReturns, CloseReads, CloseWrites, Exit, End, Start,
     Fault
<1>2. CASE Loop
  <2>1. ASSUME NEW seen, Process(seen) PROVE UNCHANGED <<phase, pc>>
    BY <2>1 DEF Process
  <2>2. UNCHANGED phase /\ pc' \in {pc, "wait", "rules", "traces", "notify", "record"}
    BY <1>2, <2>1 DEF Loop, Evaluate, Skip, Fetch, FetchFails, RuleDone, Evaluated,
       Notify, Record
  <2> QED BY <1>1, <2>2 DEF Up
<1>3. CASE Traffic \/ Api \/ Tick \/ UNCHANGED vars
  <2>1. UNCHANGED <<phase, pc>>
    BY <1>3 DEF Traffic, StoreTrace, DropTrace, ChangeTrace, Api, Tick, vars
  <2> QED BY <1>1, <2>1 DEF Up
<1> QED BY <1>1, <1>2, <1>3 DEF Next

(* Users write kinds of notifiers and intervals only.                      *)
LEMMA ApiKeepsKinds ==
  ASSUME Kinded, Api
  PROVE  Kinded'
<1>1. UNCHANGED <<list, pc, rule>>
  BY DEF Api, engine
<1>2. ASSUME NEW r \in Rules, NEW posted \in Posted, NEW saved, CreateRule(r, posted, saved)
      PROVE  Kinded'
  <2>1. Valid(posted) /\ rules' = Put(rules, r, posted) /\ UNCHANGED puts
    BY <1>2 DEF CreateRule, Posted, Valid
  <2> QED BY <1>1, <2>1 DEF Put, Kinded
<1>3. ASSUME NEW c \in Clients, NEW r \in Rules, NEW change \in Changes,
             PutRead(c, r, change)
      PROVE  Kinded'
  <2>1. r \in DOMAIN rules /\ rules' = rules /\ Valid(rules[r])
    BY <1>3 DEF PutRead, Kinded, memory
  <2>2. /\ Given(change.kind, rules[r].kind) \in Kinds
        /\ Given(change.interval, rules[r].interval) \in Intervals
    BY <1>3, <2>1, NoneAssumption DEF Given, Valid, Changes
  <2> DEFINE put == [id |-> r, rule |-> [on |-> Given(change.on, rules[r].on),
                                        kind |-> Given(change.kind, rules[r].kind),
                                        for |-> Given(change.for, rules[r].for),
                                        interval |-> Given(change.interval,
                                                           rules[r].interval)]]
  <2>3. puts' = [puts EXCEPT ![c] = put]
    BY <1>3 DEF PutRead
  <2>4. Valid(put.rule)
    BY <2>2 DEF Valid
  <2> HIDE DEF put
  <2> QED BY <1>1, <2>1, <2>3, <2>4 DEF Kinded
<1>4. ASSUME NEW c \in Clients, NEW saved, UpdateRule(c, saved) PROVE Kinded'
  <2>1. puts' = [puts EXCEPT ![c] = None]
    BY <1>4 DEF UpdateRule
  <2>2. \A r \in DOMAIN rules' : Valid(rules'[r])
    BY <1>4 DEF UpdateRule, Put, Kinded
  <2> QED BY <1>1, <2>1, <2>2 DEF Kinded
<1>5. ASSUME NEW r \in Rules, NEW saved, DeleteRule(r, saved) PROVE Kinded'
  BY <1>1, <1>5 DEF DeleteRule, Restrict, Kinded
<1> QED BY <1>2, <1>3, <1>4, <1>5 DEF Api, ApiRead, ApiWrite

(* A step that leaves the rules alone.                                     *)
LEMMA KindsStay ==
  ASSUME Kinded, UNCHANGED <<rules, puts, list>>,
         pc' # "traces" \/ UNCHANGED <<pc, rule>>
  PROVE  Kinded'
  BY DEF Kinded

(* The loop copies the rules as they are.                                  *)
LEMMA LoopKeepsKinds ==
  ASSUME Kinded, Loop
  PROVE  Kinded'
<1> USE DEF storeVars, memory, asked, engine
<1>1. CASE Evaluate
  BY <1>1 DEF Evaluate, Restrict, EnabledRules, Kinded
<1>2. ASSUME NEW r \in Rules, Skip(r) \/ FetchFails(r) PROVE Kinded'
  BY <1>2 DEF Skip, FetchFails, Restrict, Kinded
<1>3. ASSUME NEW r \in Rules, Fetch(r) PROVE Kinded'
  <2>1. /\ UNCHANGED <<rules, puts>> /\ r \in DOMAIN list
        /\ list' = Restrict(list, DOMAIN list \ {r})
        /\ rule' = [id |-> r, rule |-> list[r]]
    BY <1>3 DEF Fetch
  <2> QED BY <2>1 DEF Restrict, Kinded, Valid
<1>4. ASSUME NEW seen, Process(seen) PROVE Kinded'
  BY <1>4, KindsStay DEF Process
<1>5. CASE RuleDone \/ Evaluated \/ Notify \/ Record
  BY <1>5, KindsStay DEF RuleDone, Evaluated, Notify, Record
<1> QED BY <1>1, <1>2, <1>3, <1>4, <1>5 DEF Loop

(* Every step keeps the kinds.                                             *)
LEMMA KindsPreserved ==
  ASSUME FaultKinds = {}, Up, Kinded, [Next]_vars
  PROVE  Kinded'
<1>1. CASE Traffic \/ Tick \/ UNCHANGED vars
  BY <1>1, KindsStay DEF Traffic, StoreTrace, DropTrace, ChangeTrace, Tick, vars,
     storeVars, memory, asked, engine
<1> QED BY <1>1, UpStays, ApiKeepsKinds, LoopKeepsKinds DEF Next

-----------------------------------------------------------------------------
(* A step that says nothing, and changes no pair's being firing. *)
LEMMA WordStays ==
  ASSUME Queued, Recorded, Known, UNCHANGED <<events, told, history>>,
         pc' \notin {"notify", "record"} \/ pc' = pc,
         pc # "record" \/ pc' = pc,
         states' \in [DOMAIN states' -> [status : Status, since : Nat]],
         \A p \in Pairs : StateOf(p)'.status = "firing" <=> StateOf(p).status = "firing"
  PROVE  Queued' /\ Recorded' /\ Known'
<1>1. Queued'
  BY DEF Queued
<1>2. Recorded'
  BY DEF Recorded
<1>3. \A p \in Pairs : \A a : LastIs(p, a) => LastIs(p, a)'
  BY DEF LastIs
<1>4. Known'
  BY <1>3 DEF Known
<1> QED BY <1>1, <1>2, <1>4

(* The clock says nothing.                                                 *)
LEMMA TickKeepsWord ==
  ASSUME Queued, Recorded, Known, Tick
  PROVE  Queued' /\ Recorded' /\ Known'
<1>1. /\ UNCHANGED <<events, told, history, pc>>
      /\ states' = AgedStates(states)
  BY DEF Tick
<1>2. \A n \in Nat : \A last : Aged(n, last) \in Nat
  BY DEF Aged
<1>3. /\ DOMAIN states' = DOMAIN states
      /\ \A p \in DOMAIN states :
           /\ states'[p] \in [status : Status, since : Nat]
           /\ states'[p].status = states[p].status
  BY <1>1, <1>2 DEF AgedStates, Queued
<1>4. states' \in [DOMAIN states' -> [status : Status, since : Nat]]
  BY <1>1, <1>3 DEF AgedStates
<1>5. \A p : StateOf(p)'.status = StateOf(p).status
  BY <1>3 DEF StateOf
<1> QED BY <1>1, <1>4, <1>5, WordStays

(* A pair that is driven asks for a notification exactly when its being    *)
(* firing changes, and the notification says so.                           *)
LEMMA DriveSays ==
  ASSUME NEW s \in Status, NEW holds \in BOOLEAN, NEW long, NEW p \in Pairs
  PROVE  /\ Drive(s, holds, long).status \in Status
         /\ Drive(s, holds, long).notify =>
              LET e == Event(p, Drive(s, holds, long).status)
              IN  /\ e \in [pair : Pairs, action : Actions] /\ e.pair = p
                  /\ Drive(s, holds, long).status = "firing" <=> e.action = "firing"
         /\ ~Drive(s, holds, long).notify =>
              (Drive(s, holds, long).status = "firing" <=> s = "firing")
<1> DEFINE next == Drive(s, holds, long)
<1> USE DEF Status
<1>1. ASSUME NEW t \in Status
      PROVE  LET e == Event(p, t)
             IN  /\ e \in [pair : Pairs, action : Actions] /\ e.pair = p
                 /\ t \in {"firing", "resolved"} => (t = "firing" <=> e.action = "firing")
  BY DEF Event, Actions
<1>2. CASE s \in {"ok", "resolved"}
  <2>1. next.status = (IF holds THEN "pending" ELSE s) /\ next.notify = FALSE
    BY <1>2 DEF Drive, To
  <2> QED BY <1>2, <2>1
<1>3. CASE s = "pending" /\ ~holds
  <2>1. next.status = "ok" /\ next.notify = FALSE
    BY <1>3 DEF Drive, To
  <2> QED BY <1>3, <2>1
<1>4. CASE s = "pending" /\ holds
  <2>1. next.status = (IF long THEN "firing" ELSE "pending") /\ next.notify = long
    BY <1>4 DEF Drive, To
  <2>2. CASE long
    <3>1. next.status = "firing"
      BY <2>1, <2>2
    <3>2. next.notify
      BY <2>1, <2>2
    <3> QED BY <1>1, <3>1, <3>2
  <2>3. CASE ~long
    <3>1. next.status = "pending"
      BY <2>1, <2>3
    <3>2. ~next.notify
      BY <2>1, <2>3
    <3> QED BY <1>4, <3>1, <3>2
  <2> QED BY <2>2, <2>3
<1>5. CASE s = "firing" /\ holds
  <2>1. next.status = "firing" /\ next.notify = FALSE
    BY <1>5 DEF Drive, To
  <2> QED BY <1>5, <2>1
<1>6. CASE s = "firing" /\ ~holds
  <2>1. next.status = "resolved" /\ next.notify = TRUE
    BY <1>6 DEF Drive, To
  <2> QED BY <1>1, <1>6, <2>1
<1> QED BY <1>2, <1>3, <1>4, <1>5, <1>6

(* What an appended notification does to the last word of each pair. *)
LEMMA AppendedWord ==
  ASSUME Queued, NEW e \in [pair : Pairs, action : Actions],
         events' = Append(events, e), UNCHANGED told
  PROVE  /\ LastIs(e.pair, e.action)'
         /\ \A q \in Pairs : \A a : q # e.pair /\ LastIs(q, a) => LastIs(q, a)'
         /\ events' \in Seq([pair : Pairs, action : Actions]) /\ events' # << >>
<1>1. /\ Len(events) \in Nat
      /\ DOMAIN events = 1 .. Len(events) /\ DOMAIN events' = 1 .. Len(events) + 1
      /\ events'[Len(events) + 1] = e
      /\ \A i \in DOMAIN events : events'[i] = events[i]
      /\ events' \in Seq([pair : Pairs, action : Actions]) /\ events' # << >>
  BY SMTT(30) DEF Queued
<1>2. LastIs(e.pair, e.action)'
  <2>1. Len(events) + 1 \in DOMAIN events' /\ \A j \in DOMAIN events' : j <= Len(events) + 1
    BY <1>1
  <2>2. e.pair' = e.pair /\ e.action' = e.action
    OBVIOUS
  <2> QED BY <1>1, <2>1, <2>2 DEF LastIs
<1>3. ASSUME NEW q \in Pairs, NEW a, q # e.pair, LastIs(q, a) PROVE LastIs(q, a)'
  <2>1. CASE (\A i \in DOMAIN events : events[i].pair # q) /\ a = told[q]
    <3>1. \A i \in DOMAIN events' : events'[i].pair # q
      BY <1>1, <1>3, <2>1
    <3> QED BY <2>1, <3>1 DEF LastIs
  <2>2. CASE \E i \in DOMAIN events :
               /\ events[i].pair = q /\ events[i].action = a
               /\ \A j \in DOMAIN events : events[j].pair = q => j <= i
    <3>1. PICK i \in DOMAIN events :
            /\ events[i].pair = q /\ events[i].action = a
            /\ \A j \in DOMAIN events : events[j].pair = q => j <= i
      BY <2>2
    <3>2. i \in DOMAIN events' /\ events'[i].pair = q /\ events'[i].action = a
      BY <1>1, <3>1
    <3>3. \A j \in DOMAIN events' : events'[j].pair = q => j <= i
      BY <1>1, <1>3, <3>1
    <3> QED BY <3>2, <3>3 DEF LastIs
  <2> QED BY <1>3, <2>1, <2>2 DEF LastIs
<1> QED BY <1>1, <1>2, <1>3

(* A trace that is processed queues an event exactly if it has to.         *)
LEMMA ProcessKeepsWord ==
  ASSUME FaultKinds = {}, Kinds \subseteq Handled, Kinded, Queued, Recorded, Known,
         NEW seen \in [trace : Traces, met : BOOLEAN], Process(seen)
  PROVE  Queued' /\ Recorded' /\ Known'
<1>1. PICK p \in Pairs : p = <<rule.id, seen.trace>>
  BY DEF Process, Kinded, Pairs
<1>2. /\ pc = "traces" /\ rule.rule.kind \in Handled
      /\ UNCHANGED <<told, history, pc>>
  BY DEF Process, Kinded
<1>3. StateOf(p) \in [status : Status, since : Nat]
  BY DEF StateOf, Queued, Status
<1>4. PICK s, notify :
        /\ s \in Status
        /\ states' = Put(states, p, [StateOf(p) EXCEPT !.status = s])
        /\ \/ /\ ~notify /\ events' = events
              /\ s = "firing" <=> StateOf(p).status = "firing"
           \/ /\ notify
              /\ \E e \in [pair : Pairs, action : Actions] :
                    /\ events' = Append(events, e) /\ e.pair = p
                    /\ s = "firing" <=> e.action = "firing"
  <2>0. \A saved \in BOOLEAN : SaveFault(saved) => saved
    BY DEF SaveFault, Fault
  <2>1. PICK long \in Elapsed(StateOf(p).since, rule.rule.for) :
          LET next == Drive(StateOf(p).status, seen.met, long)
          IN  /\ states' = Put(states, p, [StateOf(p) EXCEPT !.status = next.status])
              /\ events' = IF next.notify THEN Append(events, Event(p, next.status))
                           ELSE events
    BY <1>1, <1>2, <2>0 DEF Process, UpsertAlertState
  <2> DEFINE next == Drive(StateOf(p).status, seen.met, long)
  <2>2. StateOf(p).status \in Status /\ seen.met \in BOOLEAN
    BY <1>3
  <2>3. /\ next.status \in Status
        /\ next.notify =>
              LET e == Event(p, next.status)
              IN  /\ e \in [pair : Pairs, action : Actions] /\ e.pair = p
                  /\ next.status = "firing" <=> e.action = "firing"
        /\ ~next.notify => (next.status = "firing" <=> StateOf(p).status = "firing")
    BY <2>2, DriveSays
  <2> HIDE DEF next
  <2>4. CASE next.notify
    <3>1. events' = Append(events, Event(p, next.status))
      BY <2>1, <2>4 DEF next
    <3>2. states' = Put(states, p, [StateOf(p) EXCEPT !.status = next.status])
      BY <2>1 DEF next
    <3> QED BY <2>3, <2>4, <3>1, <3>2
  <2>5. CASE ~next.notify
    <3>1. events' = events
      BY <2>1, <2>5 DEF next
    <3>2. states' = Put(states, p, [StateOf(p) EXCEPT !.status = next.status])
      BY <2>1 DEF next
    <3> QED BY <2>3, <2>5, <3>1, <3>2
  <2> QED BY <2>4, <2>5
<1>5. PICK new \in [status : Status, since : Nat] :
        new.status = s /\ new = [StateOf(p) EXCEPT !.status = s]
  BY <1>3, <1>4
<1>6. states' = [x \in DOMAIN states \cup {p} |-> IF x = p THEN new ELSE states[x]]
  BY <1>4, <1>5 DEF Put
<1>7. /\ states' \in [DOMAIN states' -> [status : Status, since : Nat]]
      /\ \A q \in Pairs : StateOf(q)' = IF q = p THEN new ELSE StateOf(q)
  BY <1>6 DEF StateOf, Queued
<1>8. CASE /\ events' = events
           /\ s = "firing" <=> StateOf(p).status = "firing"
  <2>1. \A q \in Pairs : StateOf(q)'.status = "firing" <=> StateOf(q).status = "firing"
    BY <1>5, <1>7, <1>8
  <2> QED BY <1>2, <1>7, <1>8, <2>1, WordStays
<1>9. CASE \E e \in [pair : Pairs, action : Actions] :
             /\ events' = Append(events, e) /\ e.pair = p
             /\ s = "firing" <=> e.action = "firing"
  <2>1. PICK e \in [pair : Pairs, action : Actions] :
          /\ events' = Append(events, e) /\ e.pair = p
          /\ s = "firing" <=> e.action = "firing"
    BY <1>9
  <2>2. /\ LastIs(p, e.action)'
        /\ \A q \in Pairs : \A a : q # p /\ LastIs(q, a) => LastIs(q, a)'
        /\ events' \in Seq([pair : Pairs, action : Actions]) /\ events' # << >>
    BY <1>2, <2>1, AppendedWord
  <2>3. Queued'
    BY <1>2, <1>7, <2>2 DEF Queued
  <2>4. Recorded'
    BY <1>2 DEF Recorded
  <2>5. ASSUME NEW q \in Pairs
        PROVE  \E a : LastIs(q, a)' /\ (StateOf(q)'.status = "firing" <=> a = "firing")
    <3>1. CASE q = p
      BY <1>5, <1>7, <2>1, <2>2, <3>1
    <3>2. CASE q # p
      <4>1. PICK a : LastIs(q, a) /\ (StateOf(q).status = "firing" <=> a = "firing")
        BY DEF Known
      <4> QED BY <1>7, <2>2, <3>2, <4>1
    <3> QED BY <3>1, <3>2
  <2> QED BY <2>3, <2>4, <2>5 DEF Known
<1> QED BY <1>4, <1>8, <1>9

(* What is sent next is a notification.                                    *)
LEMMA HeadIsQueued ==
  ASSUME events \in Seq([pair : Pairs, action : Actions]), events # << >>
  PROVE  Head(events) \in [pair : Pairs, action : Actions]
<1> DEFINE E == [pair : Pairs, action : Actions]
<1>1. events \in Seq(E)
  OBVIOUS
<1> HIDE DEF E
<1>2. Head(events) \in E
  BY <1>1, HeadTailProperties
<1> QED BY <1>2 DEF E

(* Sending the head of the queue makes it the last that was sent.          *)
LEMMA NotifyKeepsWord ==
  ASSUME Queued, Recorded, Known, Notify
  PROVE  Queued' /\ Recorded' /\ Known'
<1>1. PICK e \in [pair : Pairs, action : Actions] : e = Head(events)
  <2>1. events # << >>
    BY DEF Notify, Queued
  <2> QED BY <2>1, HeadIsQueued DEF Queued
<1>2. /\ pc = "notify" /\ pc' = "record"
      /\ told' = [told EXCEPT ![e.pair] = e.action]
      /\ UNCHANGED <<states, events, history>>
  BY <1>1 DEF Notify, storeVars, memory, asked
<1>3. /\ events # << >> /\ Head(events) = e /\ Head(events)' = e
      /\ Len(events) \in Nat \ {0} /\ DOMAIN events = 1 .. Len(events) /\ events[1] = e
  BY <1>1, <1>2 DEF Queued
<1>4. told' \in [Pairs -> Actions \cup {None}] /\ told'[e.pair] = e.action
  BY <1>2 DEF Queued
<1>5. Queued'
  BY <1>2, <1>3, <1>4 DEF Queued
<1>6. Recorded'
  BY <1>2, <1>3 DEF Recorded, Queued
<1>7. ASSUME NEW q \in Pairs, NEW a, LastIs(q, a) PROVE LastIs(q, a)'
  <2>1. CASE (\A i \in DOMAIN events : events[i].pair # q) /\ a = told[q]
    <3>1. q # e.pair
      BY <1>3, <2>1
    <3>2. told'[q] = told[q]
      BY <1>2, <3>1 DEF Queued
    <3> QED BY <1>2, <2>1, <3>2 DEF LastIs
  <2>2. CASE \E i \in DOMAIN events :
               /\ events[i].pair = q /\ events[i].action = a
               /\ \A j \in DOMAIN events : events[j].pair = q => j <= i
    BY <1>2, <2>2 DEF LastIs
  <2> QED BY <1>7, <2>1, <2>2 DEF LastIs
<1>8. Known'
  BY <1>2, <1>7 DEF Known, StateOf
<1> QED BY <1>5, <1>6, <1>8

(* Recording it takes it off the queue.                                    *)
LEMMA RecordKeepsWord ==
  ASSUME Queued, Recorded, Known, Record
  PROVE  Queued' /\ Recorded' /\ Known'
<1>1. PICK e \in [pair : Pairs, action : Actions] : e = Head(events)
  <2>1. events # << >>
    BY DEF Record, Queued
  <2> QED BY <2>1, HeadIsQueued DEF Queued
<1>2. /\ pc = "record" /\ pc' = (IF Len(events) = 1 THEN "wait" ELSE "notify")
      /\ history' = Put(history, e.pair, e.action) /\ events' = Tail(events)
      /\ UNCHANGED <<states, told>>
  BY <1>1 DEF Record, InsertNotification, observed
<1>3. /\ Len(events) \in Nat \ {0} /\ DOMAIN events = 1 .. Len(events) /\ events[1] = e
      /\ DOMAIN events' = 1 .. Len(events) - 1
      /\ \A i \in DOMAIN events' : events'[i] = events[i + 1]
      /\ events' \in Seq([pair : Pairs, action : Actions])
      /\ Len(events') = Len(events) - 1
      /\ told[e.pair] = e.action
  BY <1>1, <1>2 DEF Queued
<1>4. Queued'
  <2>1. CASE Len(events) = 1
    BY <1>2, <1>3, <2>1 DEF Queued
  <2>2. CASE Len(events) # 1
    <3>1. pc' = "notify"
      BY <1>2, <2>2
    <3>2. events' # << >>
      <4>1. Len(events') # 0
        BY <1>3, <2>2
      <4> QED BY <4>1
    <3> QED BY <1>2, <1>3, <3>1, <3>2 DEF Queued
  <2> QED BY <2>1, <2>2
<1>5. Recorded'
  BY <1>1, <1>2, <1>3 DEF Recorded, Put
<1>6. ASSUME NEW q \in Pairs, NEW a, LastIs(q, a) PROVE LastIs(q, a)'
  <2>1. CASE (\A i \in DOMAIN events : events[i].pair # q) /\ a = told[q]
    <3>1. \A i \in DOMAIN events' : events'[i].pair # q
      <4> TAKE i \in DOMAIN events'
      <4>1. i + 1 \in DOMAIN events /\ events'[i] = events[i + 1]
        BY <1>3
      <4> QED BY <2>1, <4>1
    <3> QED BY <1>2, <2>1, <3>1 DEF LastIs
  <2>2. CASE \E i \in DOMAIN events :
               /\ events[i].pair = q /\ events[i].action = a
               /\ \A j \in DOMAIN events : events[j].pair = q => j <= i
    <3>1. PICK i \in DOMAIN events :
            /\ events[i].pair = q /\ events[i].action = a
            /\ \A j \in DOMAIN events : events[j].pair = q => j <= i
      BY <2>2
    <3>2. CASE i = 1
      <4>1. q = e.pair /\ a = told'[q]
        BY <1>2, <1>3, <3>1, <3>2
      <4>2. \A j \in DOMAIN events' : events'[j].pair # q
        <5> TAKE j \in DOMAIN events'
        <5>1. j + 1 \in DOMAIN events /\ events'[j] = events[j + 1] /\ ~(j + 1 <= 1)
          BY <1>3
        <5> QED BY <3>1, <3>2, <5>1
      <4> QED BY <4>1, <4>2 DEF LastIs
    <3>3. CASE i # 1
      <4>1. /\ i - 1 \in DOMAIN events' /\ events'[i - 1].pair = q
            /\ events'[i - 1].action = a
        <5>1. i - 1 \in DOMAIN events' /\ (i - 1) + 1 = i
          BY <1>3, <3>1, <3>3
        <5> QED BY <1>3, <3>1, <5>1
      <4>2. \A j \in DOMAIN events' : events'[j].pair = q => j <= i - 1
        <5> SUFFICES ASSUME NEW j \in DOMAIN events', events'[j].pair = q
                     PROVE  j <= i - 1
          OBVIOUS
        <5>1. j + 1 \in DOMAIN events /\ events[j + 1].pair = q
          BY <1>3
        <5>2. j + 1 <= i /\ j \in Int /\ i \in Int
          BY <1>3, <3>1, <5>1
        <5> QED BY <5>2
      <4> QED BY <4>1, <4>2 DEF LastIs
    <3> QED BY <3>2, <3>3
  <2> QED BY <1>6, <2>1, <2>2 DEF LastIs
<1>7. Known'
  BY <1>2, <1>6 DEF Known, StateOf
<1> QED BY <1>4, <1>5, <1>7

(* Each step of the loop.                                                  *)
LEMMA LoopKeepsWord ==
  ASSUME FaultKinds = {}, Kinds \subseteq Handled, Kinded, Queued, Recorded, Known, Loop
  PROVE  Queued' /\ Recorded' /\ Known'
<1>1. CASE Evaluate \/ RuleDone \/ \E r \in Rules : Skip(r) \/ Fetch(r) \/ FetchFails(r)
  <2>1. /\ UNCHANGED <<states, events, told, history>>
        /\ pc # "record" /\ (pc' \notin {"notify", "record"} \/ pc' = pc)
    BY <1>1 DEF Evaluate, RuleDone, Skip, Fetch, FetchFails, storeVars, memory, asked, observed
  <2> QED BY <2>1, WordStays DEF Queued, StateOf
<1>2. CASE Evaluated
  <2>1. /\ UNCHANGED <<states, events, told, history>> /\ pc = "rules"
        /\ pc' = IF events = << >> THEN "wait" ELSE "notify"
    BY <1>2 DEF Evaluated, storeVars, memory, asked, observed
  <2>2. Queued'
    BY <2>1 DEF Queued
  <2>3. Recorded'
    BY <2>1 DEF Recorded
  <2>4. Known'
    BY <2>1, ZenonT(40) DEF Known, LastIs, StateOf
  <2> QED BY <2>2, <2>3, <2>4
<1> QED BY <1>1, <1>2, ProcessKeepsWord, NotifyKeepsWord, RecordKeepsWord DEF Loop

(* Each step of the system.                                                *)
LEMMA WordPreserved ==
  ASSUME FaultKinds = {}, Kinds \subseteq Handled, Up, Kinded, Queued, Recorded, Known,
         [Next]_vars
  PROVE  Queued' /\ Recorded' /\ Known'
<1>1. CASE Traffic \/ UNCHANGED vars
  <2>1. UNCHANGED <<states, events, told, history, pc>>
    BY <1>1 DEF Traffic, StoreTrace, DropTrace, ChangeTrace, vars, storeVars, memory, asked, observed
  <2> QED BY <2>1, WordStays DEF Queued, StateOf
<1>2. CASE Api
  <2>1. UNCHANGED <<states, events, told, history, pc>>
    BY <1>2 DEF Api, ApiRead, ApiWrite, CreateRule, PutRead, UpdateRule, DeleteRule,
       memory, observed
  <2> QED BY <2>1, WordStays DEF Queued, StateOf
<1> QED BY <1>1, <1>2, TickKeepsWord, LoopKeepsWord, UpStays DEF Next

(* The inductive invariant.                                                *)
LEMMA MatchedInvariant ==
  ASSUME FaultKinds = {}, Kinds \subseteq Handled, None # "firing"
  PROVE  Spec => []Matched
<1>1. Init => Matched
  <2> SUFFICES ASSUME Init PROVE Matched
    OBVIOUS
  <2>1. Up /\ Kinded
    BY DEF Init, StoreInit, Up, Kinded
  <2>2. Queued
    BY DEF Init, StoreInit, Queued
  <2>3. Recorded
    BY DEF Init, StoreInit, Recorded
  <2>4. Known
    BY DEF Init, StoreInit, Known, LastIs, StateOf
  <2> QED BY <2>1, <2>2, <2>3, <2>4 DEF Matched
<1>2. Matched /\ [Next]_vars => Matched'
  BY UpStays, KindsPreserved, WordPreserved DEF Matched
<1> QED BY <1>1, <1>2, PTL DEF Spec

(* Without faults, and if every type of notifier a rule may name is        *)
(* handled, users know of every alert what the engine knows, however many  *)
(* rules and traces there are and whatever users do to the rules.          *)
(* (Evaluate, driveStateMachine, RunPolling, onEvent in InitAlerting)      *)
THEOREM NotificationsMatchStates ==
  ASSUME FaultKinds = {}, Kinds \subseteq Handled, None # "firing"
  PROVE  Spec => []NotificationMatchesState
<1>1. Matched => NotificationMatchesState
  <2> SUFFICES ASSUME Matched, NEW p \in Pairs
               PROVE  StateOf(p).status = "firing" <=> LastWord(p) = "firing"
    BY DEF Matched, Recorded, NotificationMatchesState
  <2>1. PICK a : LastIs(p, a) /\ (StateOf(p).status = "firing" <=> a = "firing")
    BY DEF Matched, Known
  <2>2. LastWord(p) = a
    <3> DEFINE queued == {i \in DOMAIN events : events[i].pair = p}
    <3>1. LastWord(p) = IF queued = {} THEN told[p] ELSE events[Max(queued)].action
      BY DEF LastWord
    <3>2. CASE (\A i \in DOMAIN events : events[i].pair # p) /\ a = told[p]
      BY <3>1, <3>2
    <3>3. CASE \E i \in DOMAIN events :
                 /\ events[i].pair = p /\ events[i].action = a
                 /\ \A j \in DOMAIN events : events[j].pair = p => j <= i
      <4>1. PICK i \in DOMAIN events :
              /\ events[i].pair = p /\ events[i].action = a
              /\ \A j \in DOMAIN events : events[j].pair = p => j <= i
        BY <3>3
      <4>2. DOMAIN events \subseteq Int
        BY DEF Matched, Queued
      <4>3. Max(queued) = i
        BY <4>1, <4>2 DEF Max
      <4> QED BY <3>1, <4>1, <4>3
    <3> QED BY <2>1, <3>2, <3>3 DEF LastIs
  <2> QED BY <2>1, <2>2
<1> QED BY <1>1, MatchedInvariant, PTL
-----------------------------------------------------------------------------
(* A pair of the batch has yet to be seen by the evaluation under way.     *)
Waiting(p) == pc = "traces" /\ \E seen \in batch : p = <<rule.id, seen.trace>>

(* A pair was last seen not to hold no later than at the last evaluation   *)
(* of its rule; if it is pending, that evaluation or one after the sight   *)
(* saw it hold.  An evaluation under way finds that an interval longer     *)
(* ago.  Nothing is older than the horizon.                                *)
Gap(p) ==
  IF Waiting(p)
  THEN /\ unmetFor[p] >= Shortest
       /\ StateOf(p).status = "pending" => unmetFor[p] >= 2 * Shortest
  ELSE IF lastEval[p[1]] = None
  THEN unmetFor[p] = Horizon /\ StateOf(p).status # "pending"
  ELSE /\ unmetFor[p] = Horizon \/ unmetFor[p] >= lastEval[p[1]]
       /\ StateOf(p).status = "pending" =>
            unmetFor[p] = Horizon \/ unmetFor[p] >= lastEval[p[1]] + Shortest

Clocks ==
  /\ lastEval \in [Rules -> Nat \cup {None}]
  /\ unmetFor \in [Pairs -> 0 .. Horizon]
  /\ states \in [DOMAIN states -> [status : Status, since : Nat]]
  /\ pc = "traces" =>
       /\ rule.id \in Rules /\ lastEval[rule.id] = 0
       /\ \A a, b \in batch : a.trace = b.trace => a = b

Gaps == \A p \in Pairs : Gap(p)

(* The horizon lies beyond two intervals. *)
LEMMA HorizonIsFar ==
  ASSUME \E m \in Fors : \A n \in Fors : n <= m
  PROVE  /\ Horizon \in Nat /\ Horizon >= 2 * Shortest
         /\ Shortest \in Nat \ {0} /\ \A n \in Intervals : n >= Shortest
<1>1. PICK m \in Fors : \A n \in Fors : n <= m
  OBVIOUS
<1>2. Shortest \in Nat \ {0} /\ \A n \in Intervals : Shortest <= n
  <2>1. PICK n \in Intervals : \A i \in Intervals : n <= i
    BY IntervalsAssumption
  <2> QED BY <2>1, IntervalsAssumption DEF Shortest, Min
<1> DEFINE S == Fors \cup {2 * Shortest}
<1>3. S \subseteq Nat
  BY <1>2, ForsAssumption
<1>4. \E n \in S : \A i \in S : n >= i
  <2>1. CASE m >= 2 * Shortest
    BY <1>1, <1>3, <2>1
  <2>2. CASE m < 2 * Shortest
    BY <1>1, <1>3, <2>2
  <2> QED BY <1>1, <1>3, <2>1, <2>2
<1>5. Max(S) \in S /\ \A i \in S : Max(S) >= i
  BY <1>4 DEF Max
<1> QED BY <1>2, <1>3, <1>5 DEF Horizon

(* What an evaluation may do to a pair's being pending or firing. *)
LEMMA DriveSteps ==
  ASSUME NEW s \in Status, NEW holds \in BOOLEAN, NEW long
  PROVE  /\ Drive(s, holds, long).status \in Status
         /\ ~holds => Drive(s, holds, long).status # "pending"
         /\ Drive(s, holds, long).status = "firing" => s \in {"pending", "firing"}
<1> DEFINE next == Drive(s, holds, long)
<1> USE DEF Status
<1>1. CASE s \in {"ok", "resolved"}
  <2>1. next.status = (IF holds THEN "pending" ELSE s)
    BY <1>1 DEF Drive, To
  <2> QED BY <1>1, <2>1
<1>2. CASE s = "pending" /\ ~holds
  <2>1. next.status = "ok"
    BY <1>2 DEF Drive, To
  <2> QED BY <1>2, <2>1
<1>3. CASE s = "pending" /\ holds
  <2>1. next.status = (IF long THEN "firing" ELSE "pending")
    BY <1>3 DEF Drive, To
  <2> QED BY <1>3, <2>1
<1>4. CASE s = "firing"
  <2>1. next.status = (IF holds THEN "firing" ELSE "resolved")
    BY <1>4 DEF Drive, To
  <2> QED BY <1>4, <2>1
<1> QED BY <1>1, <1>2, <1>3, <1>4

(* A step that leaves the clocks and the states alone. *)
LEMMA GapsStay ==
  ASSUME Clocks, Gaps, UNCHANGED <<lastEval, unmetFor, states>>,
         \/ UNCHANGED <<pc, rule, batch>>
         \/ (pc # "traces" \/ batch = {}) /\ pc' # "traces"
  PROVE  Clocks' /\ Gaps'
<1>1. Clocks'
  BY DEF Clocks
<1>2. \A p : Waiting(p)' <=> Waiting(p)
  BY DEF Waiting
<1>3. \A p : StateOf(p)' = StateOf(p)
  BY DEF StateOf
<1>4. Gaps'
  BY <1>2, <1>3 DEF Gaps, Gap
<1> QED BY <1>1, <1>4

(* The clock ages both alike, up to the horizon. *)
LEMMA TickKeepsGaps ==
  ASSUME \E m \in Fors : \A n \in Fors : n <= m, None \notin Nat,
         Clocks, Gaps, Tick
  PROVE  Clocks' /\ Gaps' /\ \A p : StateOf(p)'.status = StateOf(p).status
<1>1. /\ pc # "traces" /\ pc' = pc
      /\ lastEval' = [r \in Rules |-> Aged(lastEval[r], Max(Intervals) + 1)]
      /\ unmetFor' = [p \in Pairs |-> Aged(unmetFor[p], Horizon)]
      /\ states' = AgedStates(states)
  BY DEF Tick
<1>2. Horizon \in Nat /\ Shortest \in Nat
  BY HorizonIsFar
<1>3. /\ \A n \in 0 .. Horizon : Aged(n, Horizon) = IF n = Horizon THEN n ELSE n + 1
      /\ \A last : Aged(None, last) = None
      /\ \A n \in Nat : \A last : Aged(n, last) \in {n, n + 1}
  BY <1>2 DEF Aged
<1>4. /\ DOMAIN states' = DOMAIN states
      /\ \A p \in DOMAIN states :
           /\ states'[p] \in [status : Status, since : Nat]
           /\ states'[p].status = states[p].status
  BY <1>1, <1>3 DEF AgedStates, Clocks
<1>5. states' \in [DOMAIN states' -> [status : Status, since : Nat]]
  BY <1>1, <1>4 DEF AgedStates
<1>6. \A p : StateOf(p)'.status = StateOf(p).status
  BY <1>4 DEF StateOf
<1>7. Clocks'
  <2>1. \A n \in 0 .. Horizon : Aged(n, Horizon) \in 0 .. Horizon
    BY <1>2, <1>3
  <2> QED BY <1>1, <1>3, <1>5, <2>1 DEF Clocks
<1>8. ASSUME NEW p \in Pairs PROVE Gap(p)'
  <2>1. ~Waiting(p) /\ ~Waiting(p)' /\ Gap(p) /\ p[1] \in Rules
    BY <1>1 DEF Waiting, Gaps, Pairs
  <2>2. /\ lastEval[p[1]] \in Nat \cup {None} /\ unmetFor[p] \in 0 .. Horizon
        /\ lastEval'[p[1]] = Aged(lastEval[p[1]], Max(Intervals) + 1)
        /\ unmetFor'[p] = Aged(unmetFor[p], Horizon)
    BY <1>1, <2>1 DEF Clocks
  <2>3. CASE lastEval[p[1]] = None
    <3>1. unmetFor[p] = Horizon /\ StateOf(p).status # "pending"
      BY <2>1, <2>3 DEF Gap
    <3> QED BY <1>2, <1>3, <1>6, <2>1, <2>2, <2>3, <3>1 DEF Gap
  <2>4. CASE lastEval[p[1]] # None
    <3>1. /\ unmetFor[p] = Horizon \/ unmetFor[p] >= lastEval[p[1]]
          /\ StateOf(p).status = "pending" =>
               unmetFor[p] = Horizon \/ unmetFor[p] >= lastEval[p[1]] + Shortest
      BY <2>1, <2>4 DEF Gap
    <3>2. /\ lastEval'[p[1]] # None
          /\ unmetFor'[p] = Horizon \/ unmetFor'[p] >= lastEval'[p[1]]
          /\ StateOf(p).status = "pending" =>
               unmetFor'[p] = Horizon \/ unmetFor'[p] >= lastEval'[p[1]] + Shortest
      BY <1>2, <1>3, <2>2, <2>4, <3>1
    <3> QED BY <1>6, <2>1, <2>4, <3>2 DEF Gap
  <2> QED BY <2>3, <2>4
<1> QED BY <1>6, <1>7, <1>8 DEF Gaps

(* An evaluation begins an interval after the last one, or is the first. *)
LEMMA FetchKeepsGaps ==
  ASSUME \E m \in Fors : \A n \in Fors : n <= m, None \notin Nat,
         Kinded, Clocks, Gaps, NEW r \in Rules, Fetch(r)
  PROVE  Clocks' /\ Gaps'
<1>1. /\ pc = "rules" /\ r \in DOMAIN list /\ TRUE \in Due(r)
      /\ lastEval' = [lastEval EXCEPT ![r] = 0] /\ rule'.id = r
      /\ \E S : batch' = {[trace |-> t, met |-> <<r, t>> \in met] : t \in S}
      /\ UNCHANGED <<unmetFor, states>>
  BY DEF Fetch, storeVars, memory, asked, observed
<1>2. Horizon \in Nat /\ Shortest \in Nat /\ Horizon >= 2 * Shortest
  BY HorizonIsFar
<1>3. lastEval[r] = None \/ (lastEval[r] \in Nat /\ lastEval[r] >= Shortest)
  <2>1. lastEval[r] \in Nat \cup {None}
    BY DEF Clocks
  <2>2. CASE lastEval[r] # None
    <3>1. Due(r) = Elapsed(lastEval[r], list[r].interval)
      BY <2>2, Zenon DEF Due
    <3>2. PICK i \in Intervals : i = list[r].interval /\ i \in Nat /\ i >= Shortest
      BY <1>1, HorizonIsFar, IntervalsAssumption DEF Kinded, Valid
    <3>3. TRUE \in Elapsed(lastEval[r], i)
      BY <1>1, <3>1, <3>2, Zenon
    <3>4. CASE lastEval[r] = i
      BY <1>2, <3>2, <3>4
    <3>5. CASE lastEval[r] # i
      <4>1. lastEval[r] > i
        BY <3>3, <3>5 DEF Elapsed
      <4> QED BY <1>2, <2>1, <2>2, <3>2, <4>1
    <3> QED BY <3>4, <3>5
  <2> QED BY <2>2
<1>4. Clocks'
  <2>1. \A a, b \in batch' : a.trace = b.trace => a = b
    <3>1. PICK S : batch' = {[trace |-> t, met |-> <<r, t>> \in met] : t \in S}
      BY <1>1
    <3> SUFFICES ASSUME NEW x \in batch', NEW y \in batch', x.trace = y.trace
                 PROVE  x = y
      OBVIOUS
    <3>2. PICK t \in S : x = [trace |-> t, met |-> <<r, t>> \in met]
      BY <3>1
    <3>3. PICK u \in S : y = [trace |-> u, met |-> <<r, u>> \in met]
      BY <3>1
    <3>4. t = u
      BY <3>2, <3>3
    <3> QED BY <3>2, <3>3, <3>4
  <2>2. lastEval' \in [Rules -> Nat \cup {None}] /\ lastEval'[r] = 0
    BY <1>1, <1>2 DEF Clocks
  <2> QED BY <1>1, <2>1, <2>2 DEF Clocks
<1>5. \A p : StateOf(p)' = StateOf(p)
  BY <1>1 DEF StateOf
<1>6. ASSUME NEW p \in Pairs PROVE Gap(p)'
  <2>1. /\ ~Waiting(p) /\ Gap(p) /\ p[1] \in Rules /\ unmetFor'[p] = unmetFor[p]
        /\ unmetFor[p] \in 0 .. Horizon /\ lastEval[p[1]] \in Nat \cup {None}
    BY <1>1 DEF Waiting, Gaps, Pairs, Clocks
  <2>2. CASE p[1] # r
    <3>1. ~Waiting(p)' /\ lastEval'[p[1]] = lastEval[p[1]]
      BY <1>1, <2>1, <2>2 DEF Waiting, Clocks
    <3> QED BY <1>5, <2>1, <3>1 DEF Gap
  <2>3. CASE p[1] = r
    <3>1. /\ unmetFor[p] >= Shortest
          /\ StateOf(p).status = "pending" => unmetFor[p] >= 2 * Shortest
      <4>1. CASE lastEval[r] = None
        BY <1>2, <2>1, <2>3, <4>1 DEF Gap
      <4>2. CASE lastEval[r] # None
        <5>1. /\ unmetFor[p] = Horizon \/ unmetFor[p] >= lastEval[r]
              /\ StateOf(p).status = "pending" =>
                   unmetFor[p] = Horizon \/ unmetFor[p] >= lastEval[r] + Shortest
          BY <2>1, <2>3, <4>2 DEF Gap
        <5> QED BY <1>2, <1>3, <2>1, <4>2, <5>1
      <4> QED BY <4>1, <4>2
    <3>2. lastEval'[p[1]] = 0 /\ 0 # None
      BY <1>1, <2>3 DEF Clocks
    <3>3. /\ unmetFor'[p] >= lastEval'[p[1]]
          /\ StateOf(p).status = "pending" => unmetFor'[p] >= lastEval'[p[1]] + Shortest
      BY <1>2, <2>1, <3>1, <3>2
    <3> QED BY <1>5, <2>1, <3>1, <3>2, <3>3 DEF Gap
  <2> QED BY <2>2, <2>3
<1> QED BY <1>4, <1>6 DEF Gaps

(* A pair that fires was pending, so it was last seen not to hold two      *)
(* intervals ago; one that becomes pending, an interval ago.               *)
LEMMA ProcessKeepsGaps ==
  ASSUME \E m \in Fors : \A n \in Fors : n <= m, None \notin Nat, FaultKinds = {},
         Clocks, Gaps, NEW seen \in [trace : Traces, met : BOOLEAN], Process(seen)
  PROVE  Clocks' /\ Gaps' /\ \A p \in DOMAIN states' : Fires(p) => unmetFor[p] >= 2 * Shortest
<1>1. /\ pc = "traces" /\ pc' = pc /\ seen \in batch /\ batch' = batch \ {seen}
      /\ UNCHANGED <<rule, lastEval>>
  BY DEF Process
<1>2. PICK p \in Pairs : p = <<rule.id, seen.trace>>
  BY <1>1 DEF Clocks, Pairs
<1>3. Shortest \in Nat \ {0} /\ Horizon \in Nat
  BY HorizonIsFar
<1>4. StateOf(p) \in [status : Status, since : Nat]
  BY DEF StateOf, Clocks, Status
<1>5. PICK s \in Status :
        /\ states' = Put(states, p, [StateOf(p) EXCEPT !.status = s])
        /\ ~seen.met => s # "pending"
        /\ s = "firing" => StateOf(p).status \in {"pending", "firing"}
  <2>1. PICK long \in Elapsed(StateOf(p).since, rule.rule.for) :
          states' = Put(states, p, [StateOf(p) EXCEPT
                                      !.status = Drive(StateOf(p).status, seen.met, long).status])
    BY <1>2 DEF Process, UpsertAlertState
  <2> QED BY <1>4, <2>1, DriveSteps
<1>6. unmetFor' = IF seen.met THEN unmetFor ELSE [unmetFor EXCEPT ![p] = 0]
  BY <1>2 DEF Process
<1>7. PICK new \in [status : Status, since : Nat] :
        new.status = s /\ new = [StateOf(p) EXCEPT !.status = s]
  BY <1>4
<1>8. states' = [x \in DOMAIN states \cup {p} |-> IF x = p THEN new ELSE states[x]]
  BY <1>5, <1>7 DEF Put
<1>9. /\ states' \in [DOMAIN states' -> [status : Status, since : Nat]]
      /\ \A q : StateOf(q)' = IF q = p THEN new ELSE StateOf(q)
      /\ \A q \in DOMAIN states' : states'[q] = IF q = p THEN new ELSE StateOf(q)
  BY <1>8 DEF StateOf, Clocks
<1>10. unmetFor' \in [Pairs -> 0 .. Horizon]
  BY <1>3, <1>6 DEF Clocks
<1>11. Clocks'
  BY <1>1, <1>9, <1>10 DEF Clocks
<1>12. Waiting(p) /\ ~Waiting(p)' /\ Gap(p)
  BY <1>1, <1>2 DEF Waiting, Clocks, Gaps
<1>13. /\ unmetFor[p] >= Shortest /\ unmetFor[p] \in Nat
       /\ StateOf(p).status = "pending" => unmetFor[p] >= 2 * Shortest
  BY <1>3, <1>12 DEF Gap, Clocks
<1>14. ASSUME NEW q \in Pairs PROVE Gap(q)'
  <2>1. CASE q = p
    <3>1. lastEval'[q[1]] = 0 /\ 0 # None
      BY <1>1, <1>2, <2>1 DEF Clocks
    <3>2. CASE seen.met
      <4>1. unmetFor'[q] = unmetFor[p]
        BY <1>6, <2>1, <3>2
      <4>2. unmetFor'[q] >= lastEval'[q[1]] /\ unmetFor'[q] >= lastEval'[q[1]] + Shortest
        BY <1>3, <1>13, <3>1, <4>1
      <4> QED BY <1>12, <2>1, <3>1, <4>2 DEF Gap
    <3>3. CASE ~seen.met
      <4>1. unmetFor'[q] = 0
        BY <1>6, <2>1, <3>3 DEF Clocks
      <4>2. StateOf(q)'.status # "pending"
        BY <1>5, <1>7, <1>9, <2>1, <3>3
      <4> QED BY <1>12, <2>1, <3>1, <4>1, <4>2 DEF Gap
    <3> QED BY <3>2, <3>3
  <2>2. CASE q # p
    <3>1. Waiting(q)' <=> Waiting(q)
      BY <1>1, <1>2, <2>2 DEF Waiting
    <3>2. unmetFor'[q] = unmetFor[q] /\ StateOf(q)' = StateOf(q)
      BY <1>6, <1>9, <2>2 DEF Clocks
    <3> QED BY <1>1, <3>1, <3>2 DEF Gap, Gaps
  <2> QED BY <2>1, <2>2
<1>15. ASSUME NEW q \in DOMAIN states', Fires(q) PROVE unmetFor[q] >= 2 * Shortest
  <2>1. q = p /\ s = "firing"
    BY <1>7, <1>9, <1>15 DEF Fires
  <2>2. StateOf(p).status = "pending"
    BY <1>5, <1>15, <2>1 DEF Fires
  <2> QED BY <1>13, <2>1, <2>2
<1> QED BY <1>11, <1>14, <1>15 DEF Gaps

(* Each step of the system, and what it says of the pairs that fire. *)
LEMMA GapsPreserved ==
  ASSUME \E m \in Fors : \A n \in Fors : n <= m, None \notin Nat, FaultKinds = {},
         Up, Kinded, Clocks, Gaps, [Next]_vars
  PROVE  Clocks' /\ Gaps' /\ \A p \in DOMAIN states' : Fires(p) => unmetFor[p] >= 2 * Shortest
<1>1. (\A p : StateOf(p)'.status = StateOf(p).status) => \A p \in DOMAIN states' : ~Fires(p)
  BY DEF Fires, StateOf
<1>2. CASE UNCHANGED <<lastEval, unmetFor, states>>
           /\ \/ UNCHANGED <<pc, rule, batch>>
              \/ (pc # "traces" \/ batch = {}) /\ pc' # "traces"
  <2>1. \A p : StateOf(p)'.status = StateOf(p).status
    BY <1>2 DEF StateOf
  <2> QED BY <1>1, <1>2, <2>1, GapsStay
<1> USE DEF storeVars, memory, engine, observed
<1>3. CASE Traffic \/ Api \/ UNCHANGED vars
  <2>1. UNCHANGED <<lastEval, unmetFor, states, pc, rule, batch>>
    BY <1>3 DEF Traffic, StoreTrace, DropTrace, ChangeTrace, Api, ApiRead, ApiWrite,
       CreateRule, PutRead, UpdateRule, DeleteRule, vars
  <2> QED BY <1>2, <2>1
<1>4. CASE Tick
  BY <1>1, <1>4, TickKeepsGaps
<1>5. CASE Loop
  <2>1. CASE Evaluate \/ RuleDone \/ Evaluated \/ Notify \/ Record
             \/ \E r \in Rules : Skip(r) \/ FetchFails(r)
    <3>1. UNCHANGED <<lastEval, unmetFor, states>>
      BY <2>1 DEF Evaluate, RuleDone, Evaluated, Notify, Record, Skip, FetchFails, Fault
    <3>2. (pc # "traces" \/ batch = {}) /\ pc' # "traces"
      BY <2>1 DEF Evaluate, RuleDone, Evaluated, Notify, Record, Skip, FetchFails
    <3> QED BY <1>2, <3>1, <3>2
  <2>2. CASE \E r \in Rules : Fetch(r)
    <3>1. UNCHANGED states
      BY <2>2 DEF Fetch
    <3>2. \A p : StateOf(p)'.status = StateOf(p).status
      BY <3>1 DEF StateOf
    <3> QED BY <1>1, <2>2, <3>2, FetchKeepsGaps
  <2> QED BY <1>5, <2>1, <2>2, ProcessKeepsGaps DEF Loop
<1> QED BY <1>3, <1>4, <1>5, UpStays DEF Next

(* Without faults, one bad sample does not page, for any rules, traces,    *)
(* intervals and durations: between the last time a pair was seen not to   *)
(* hold and the time it fires lie two intervals, with an evaluation that   *)
(* saw it hold between them.  (Evaluate's interval check,                  *)
(* driveStateMachine)                                                      *)
THEOREM OneSampleNeverFires ==
  ASSUME \E m \in Fors : \A n \in Fors : n <= m, None \notin Nat, FaultKinds = {}
  PROVE  Spec => FiringSeenTwice
<1> DEFINE I == Up /\ Kinded /\ Clocks /\ Gaps
<1> DEFINE A == \A p \in DOMAIN states' : Fires(p) => unmetFor[p] >= 2 * Shortest
<1>1. Init => I
  <2> SUFFICES ASSUME Init PROVE I
    OBVIOUS
  <2>1. Up /\ Kinded
    BY DEF Init, StoreInit, Up, Kinded
  <2>2. Clocks
    BY HorizonIsFar DEF Init, StoreInit, Clocks
  <2>3. Gaps
    BY DEF Init, StoreInit, Gaps, Gap, Waiting, StateOf, Pairs
  <2> QED BY <2>1, <2>2, <2>3
<1>2. I /\ [Next]_vars => I' /\ A
  BY UpStays, KindsPreserved, GapsPreserved
<1>3. I /\ [Next]_vars => [A]_vars
  BY <1>2
<1> QED BY <1>1, <1>2, <1>3, PTL DEF Spec, FiringSeenTwice

-----------------------------------------------------------------------------
(* Users are not told twice of the same alert. *)

(* The states are those the state machine knows, in the memory and in      *)
(* every copy of it.                                                       *)
Typed(ss) == ss \in [DOMAIN ss -> [status : Status, since : Nat]]
TypedStates ==
  /\ Typed(states)
  /\ copy # None => Typed(copy.states)
  /\ file \notin {Current, Empty, Torn} => Typed(file.copy.states)

(* In a cycle no pair is looked at twice, and what it asked for is sent    *)
(* before the next one begins.                                             *)
Cycle ==
  /\ events \in Seq([pair : Pairs, action : Actions])
  /\ pc \in {"wait", "gone"} => events = << >>
  /\ phase = "down" => pc = "wait"
  /\ pc \in {"notify", "record"} => events # << >>
  /\ pc \in {"wait", "rules", "traces", "notify", "record", "gone"}
  /\ pc = "traces" =>
       /\ rule.id \in Rules /\ rule.id \notin DOMAIN list
       /\ \A a, b \in batch : a.trace = b.trace => a = b
  /\ \A i \in DOMAIN events, p \in Pairs : events[i].pair = p =>
       /\ pc \in {"rules", "traces"} => p[1] \notin DOMAIN list
       /\ ~Waiting(p)

(* Whatever was sent as firing is firing; whatever is to be sent as firing *)
(* is, was not sent yet, and is not to be sent twice.                      *)
Sent ==
  /\ \A p \in alerted : StateOf(p).status = "firing"
  /\ \A i \in DOMAIN events, p \in Pairs :
       events[i].pair = p /\ events[i].action = "firing" =>
         /\ StateOf(p).status = "firing"
         /\ p \in alerted => pc = "record" /\ i = 1
         /\ \A j \in DOMAIN events :
              events[j].pair = p /\ events[j].action = "firing" => j = i

(* So are they after a save, whether it succeeds or fails. *)
LEMMA SavedTyped ==
  ASSUME TypedStates, Saves
  PROVE  file' \notin {Current, Empty, Torn} => Typed(file.copy.states)'
<1>1. Stale(Memory).copy.states = states
  BY DEF Stale, Memory
<1>2. file' \notin {Current, Empty, Torn} => Typed(file'.copy.states)
  BY <1>1 DEF Saves, Kept, TypedStates
<1> QED BY <1>2 DEF Typed

(* States that grow older are states. *)
LEMMA AgedTyped ==
  ASSUME NEW ss, Typed(ss)
  PROVE  /\ Typed(AgedStates(ss)) /\ DOMAIN AgedStates(ss) = DOMAIN ss
         /\ \A p \in DOMAIN ss : AgedStates(ss)[p].status = ss[p].status
<1>1. \A n \in Nat : \A last : Aged(n, last) \in Nat
  BY DEF Aged
<1>2. /\ DOMAIN AgedStates(ss) = DOMAIN ss
      /\ \A p \in DOMAIN ss :
           /\ AgedStates(ss)[p] \in [status : Status, since : Nat]
           /\ AgedStates(ss)[p].status = ss[p].status
  BY <1>1 DEF AgedStates, Typed
<1>3. AgedStates(ss) \in [DOMAIN AgedStates(ss) -> [status : Status, since : Nat]]
  BY <1>2 DEF AgedStates
<1> QED BY <1>2, <1>3 DEF Typed

(* When an alert is asked for, and what becomes of one that was.           *)
LEMMA DriveAlerts ==
  ASSUME NEW s \in Status, NEW holds \in BOOLEAN, NEW long
  PROVE  /\ Drive(s, holds, long).status \in Status
         /\ s = "firing" => Drive(s, holds, long).status \in {"firing", "resolved"}
         /\ Drive(s, holds, long).notify =>
              /\ Drive(s, holds, long).status \in {"firing", "resolved"}
              /\ Drive(s, holds, long).status = "firing" => s # "firing"
<1> DEFINE next == Drive(s, holds, long)
<1> USE DEF Status
<1>1. CASE s \in {"ok", "resolved"}
  <2>1. next.status = (IF holds THEN "pending" ELSE s) /\ next.notify = FALSE
    BY <1>1 DEF Drive, To
  <2> QED BY <1>1, <2>1
<1>2. CASE s = "pending" /\ ~holds
  <2>1. next.status = "ok" /\ next.notify = FALSE
    BY <1>2 DEF Drive, To
  <2> QED BY <1>2, <2>1
<1>3. CASE s = "pending" /\ holds
  <2>1. next.status = (IF long THEN "firing" ELSE "pending") /\ next.notify = long
    BY <1>3 DEF Drive, To
  <2>2. CASE long
    <3>1. next.status = "firing"
      BY <2>1, <2>2
    <3> QED BY <1>3, <3>1
  <2>3. CASE ~long
    <3>1. next.status = "pending"
      BY <2>1, <2>3
    <3>2. ~next.notify
      BY <2>1, <2>3
    <3> QED BY <1>3, <3>1, <3>2
  <2> QED BY <2>2, <2>3
<1>4. CASE s = "firing" /\ holds
  <2>1. next.status = "firing" /\ next.notify = FALSE
    BY <1>4 DEF Drive, To
  <2> QED BY <1>4, <2>1
<1>5. CASE s = "firing" /\ ~holds
  <2>1. next.status = "resolved" /\ next.notify = TRUE
    BY <1>5 DEF Drive, To
  <2> QED BY <1>5, <2>1
<1> QED BY <1>1, <1>2, <1>3, <1>4, <1>5

-----------------------------------------------------------------------------
(* A step that neither asks for anything nor sends anything. *)
LEMMA SentStays ==
  ASSUME Sent, UNCHANGED <<events, alerted>>, pc # "record" \/ pc' = pc,
         \A p : StateOf(p)'.status = StateOf(p).status
  PROVE  Sent'
  BY DEF Sent

(* A step that leaves the loop where it is.                                *)
LEMMA CycleStays ==
  ASSUME Cycle, UNCHANGED <<pc, rule, batch, list, events>>,
         phase' = phase \/ phase' # "down"
  PROVE  Cycle'
  BY DEF Cycle, Waiting

(* The state machine asks for an alert only where none was sent, and only  *)
(* once in a cycle.                                                        *)
LEMMA ProcessKeepsSent ==
  ASSUME Copies, TypedStates, Cycle, Sent,
         NEW seen \in [trace : Traces, met : BOOLEAN], Process(seen)
  PROVE  TypedStates' /\ Cycle' /\ Sent'
<1>1. /\ pc = "traces" /\ pc' = pc /\ seen \in batch /\ batch' = batch \ {seen}
      /\ UNCHANGED <<rule, list, phase, copy>> /\ Saves
  BY DEF Process, Saves, SaveLocked
<1>2. PICK p \in Pairs : p = <<rule.id, seen.trace>>
  BY <1>1 DEF Cycle, Pairs
<1>3. StateOf(p) \in [status : Status, since : Nat]
  BY DEF StateOf, TypedStates, Typed, Status
<1>4. PICK s \in Status :
        /\ states' = Put(states, p, [StateOf(p) EXCEPT !.status = s])
        /\ StateOf(p).status = "firing" => s \in {"firing", "resolved"}
        /\ alerted' = IF s = "resolved" THEN alerted \ {p} ELSE alerted
        /\ \/ events' = events
           \/ /\ s \in {"firing", "resolved"}
              /\ s = "firing" => StateOf(p).status # "firing"
              /\ events' = Append(events, Event(p, s))
  <2>1. PICK long \in Elapsed(StateOf(p).since, rule.rule.for) :
          LET next == Drive(StateOf(p).status, seen.met, long)
          IN  /\ states' = Put(states, p, [StateOf(p) EXCEPT !.status = next.status])
              /\ alerted' = IF next.status = "resolved" THEN alerted \ {p} ELSE alerted
              /\ \/ events' = events
                 \/ next.notify /\ events' = Append(events, Event(p, next.status))
    BY <1>2 DEF Process, UpsertAlertState
  <2> DEFINE next == Drive(StateOf(p).status, seen.met, long)
  <2>2. /\ next.status \in Status
        /\ StateOf(p).status = "firing" => next.status \in {"firing", "resolved"}
        /\ next.notify => /\ next.status \in {"firing", "resolved"}
                          /\ next.status = "firing" => StateOf(p).status # "firing"
    BY <1>3, DriveAlerts
  <2>3. /\ states' = Put(states, p, [StateOf(p) EXCEPT !.status = next.status])
        /\ alerted' = IF next.status = "resolved" THEN alerted \ {p} ELSE alerted
        /\ \/ events' = events
           \/ next.notify /\ events' = Append(events, Event(p, next.status))
    BY <2>1
  <2> HIDE DEF next
  <2> QED BY <2>2, <2>3
<1>5. PICK new \in [status : Status, since : Nat] :
        new.status = s /\ new = [StateOf(p) EXCEPT !.status = s]
  BY <1>3
<1>6. states' = [x \in DOMAIN states \cup {p} |-> IF x = p THEN new ELSE states[x]]
  BY <1>4, <1>5 DEF Put
<1>7. TypedStates' /\ \A q : StateOf(q)' = IF q = p THEN new ELSE StateOf(q)
  <2>1. file' \notin {Current, Empty, Torn} => Typed(file.copy.states)'
    BY <1>1, SavedTyped
  <2>2. Typed(states)' /\ (copy' # None => Typed(copy.states)')
    BY <1>1, <1>6 DEF TypedStates, Typed
  <2>3. \A q : StateOf(q)' = IF q = p THEN new ELSE StateOf(q)
    BY <1>6 DEF StateOf
  <2> QED BY <2>1, <2>2, <2>3 DEF TypedStates
<1>8. Waiting(p) /\ ~Waiting(p)' /\ \A q : ~Waiting(q) => ~Waiting(q)'
  BY <1>1, <1>2 DEF Waiting, Cycle
<1>9. \A i \in DOMAIN events : events[i].pair # p
  BY <1>8 DEF Cycle
<1>10. \A q \in alerted' : q \in alerted /\ StateOf(q)'.status = "firing"
  <2>1. \A q \in alerted : StateOf(q).status = "firing"
    BY DEF Sent
  <2> QED BY <1>4, <1>5, <1>7, <2>1
<1>11. ASSUME NEW i \in DOMAIN events, NEW q \in Pairs, events[i].pair = q
       PROVE  /\ q # p /\ q[1] \notin DOMAIN list /\ ~Waiting(q)'
              /\ events[i].action = "firing" =>
                   /\ StateOf(q)'.status = "firing" /\ q \notin alerted'
                   /\ \A j \in DOMAIN events :
                        events[j].pair = q /\ events[j].action = "firing" => j = i
  <2>1. q # p /\ q[1] \notin DOMAIN list /\ ~Waiting(q)'
    BY <1>1, <1>8, <1>9, <1>11 DEF Cycle
  <2>2. StateOf(q)' = StateOf(q)
    BY <1>7, <2>1
  <2>3. events[i].action = "firing" =>
          /\ StateOf(q).status = "firing" /\ q \notin alerted
          /\ \A j \in DOMAIN events :
               events[j].pair = q /\ events[j].action = "firing" => j = i
    BY <1>1, <1>11 DEF Sent
  <2> QED BY <1>10, <2>1, <2>2, <2>3
<1>12. CASE events' = events
  <2>1. Sent'
    BY <1>10, <1>11, <1>12 DEF Sent
  <2>2. Cycle'
    BY <1>1, <1>11, <1>12 DEF Cycle
  <2> QED BY <1>7, <2>1, <2>2
<1>13. CASE /\ s \in {"firing", "resolved"}
            /\ s = "firing" => StateOf(p).status # "firing"
            /\ events' = Append(events, Event(p, s))
  <2> DEFINE e == Event(p, s)
  <2>1. /\ e \in [pair : Pairs, action : Actions] /\ e.pair = p
        /\ e.action = "firing" <=> s = "firing"
    BY <1>13 DEF Event, Actions
  <2>2. p[1] \notin DOMAIN list
    BY <1>1, <1>2 DEF Cycle
  <2>3. s = "firing" => p \notin alerted' /\ StateOf(p)'.status = "firing"
    BY <1>4, <1>5, <1>7, <1>13 DEF Sent
  <2>4. events' = Append(events, e)
    BY <1>13
  <2> HIDE DEF e
  <2>5. /\ Len(events) \in Nat
        /\ DOMAIN events = 1 .. Len(events) /\ DOMAIN events' = 1 .. Len(events) + 1
        /\ events'[Len(events) + 1] = e
        /\ \A i \in DOMAIN events : events'[i] = events[i]
        /\ events' \in Seq([pair : Pairs, action : Actions])
    BY <2>1, <2>4 DEF Cycle
  <2>6. \A i \in DOMAIN events' :
          \/ i \in DOMAIN events /\ events'[i] = events[i]
          \/ i = Len(events) + 1 /\ events'[i] = e
    BY <2>5
  <2>7. ASSUME NEW i \in DOMAIN events', NEW q \in Pairs, events'[i].pair = q
        PROVE  q[1] \notin DOMAIN list' /\ ~Waiting(q)'
    BY <1>1, <1>8, <1>11, <2>1, <2>2, <2>6, <2>7
  <2>8. Cycle'
    <3>1. /\ pc' = "traces" /\ phase' # "down" /\ rule'.id \in Rules /\ rule'.id \notin DOMAIN list'
          /\ \A x, y \in batch' : x.trace = y.trace => x = y
      BY <1>1 DEF Cycle
    <3> QED BY <2>5, <2>7, <3>1 DEF Cycle
  <2>9. ASSUME NEW i \in DOMAIN events', NEW q \in Pairs,
               events'[i].pair = q, events'[i].action = "firing"
        PROVE  /\ StateOf(q)'.status = "firing" /\ q \notin alerted'
               /\ \A j \in DOMAIN events' :
                    events'[j].pair = q /\ events'[j].action = "firing" => j = i
    <3>1. CASE i \in DOMAIN events /\ events'[i] = events[i]
      <4>1. /\ q # p /\ StateOf(q)'.status = "firing" /\ q \notin alerted'
            /\ \A j \in DOMAIN events :
                 events[j].pair = q /\ events[j].action = "firing" => j = i
        BY <1>11, <2>9, <3>1
      <4> QED BY <2>1, <2>6, <4>1
    <3>2. CASE i = Len(events) + 1 /\ events'[i] = e
      <4>1. q = p /\ s = "firing"
        BY <2>1, <2>9, <3>2
      <4>2. \A j \in DOMAIN events' : events'[j].pair = q => j = i
        BY <1>9, <2>6, <3>2, <4>1
      <4> QED BY <2>3, <4>1, <4>2
    <3> QED BY <2>6, <3>1, <3>2
  <2>10. Sent'
    BY <1>10, <2>9 DEF Sent
  <2> QED BY <1>7, <2>8, <2>10
<1> QED BY <1>4, <1>12, <1>13
-----------------------------------------------------------------------------
(* The cycle goes on: from rule to rule, and then to its notifications.    *)
LEMMA WalkKeepsSent ==
  ASSUME Copies, TypedStates, Cycle, Sent,
         \/ Evaluate \/ RuleDone \/ Evaluated
         \/ \E r \in Rules : Skip(r) \/ Fetch(r) \/ FetchFails(r)
  PROVE  TypedStates' /\ Cycle' /\ Sent'
<1> USE DEF storeVars, memory, asked, engine, observed
<1>1. UNCHANGED <<states, file, copy, phase, events, alerted>> /\ pc # "record"
  BY DEF Evaluate, RuleDone, Evaluated, Skip, Fetch, FetchFails
<1>2. TypedStates'
  BY <1>1 DEF TypedStates
<1>3. Sent'
  BY <1>1, SentStays DEF StateOf
<1>4. CASE Evaluate
  <2>1. events = << >> /\ events' = << >> /\ pc' = "rules" /\ phase' # "down"
    BY <1>1, <1>4 DEF Evaluate, Cycle, Running
  <2> QED BY <1>2, <1>3, <2>1 DEF Cycle
<1>5. CASE RuleDone
  <2>1. pc = "traces" /\ pc' = "rules" /\ list' = list /\ phase' # "down"
    BY <1>1, <1>5 DEF RuleDone, Cycle
  <2> QED BY <1>2, <1>3, <1>1, <2>1 DEF Cycle, Waiting
<1>6. CASE Evaluated
  <2>1. pc = "rules" /\ pc' = (IF events = << >> THEN "wait" ELSE "notify")
        /\ phase' # "down"
    BY <1>1, <1>6 DEF Evaluated, Cycle
  <2> QED BY <1>2, <1>3, <1>1, <2>1 DEF Cycle, Waiting
<1>7. CASE \E r \in Rules : Skip(r) \/ FetchFails(r)
  <2>1. PICK r \in Rules : list' = Restrict(list, DOMAIN list \ {r})
    BY <1>7 DEF Skip, FetchFails
  <2>2. DOMAIN list' \subseteq DOMAIN list
    BY <2>1 DEF Restrict
  <2>3. pc = "rules" /\ pc' = pc /\ phase' # "down"
    BY <1>1, <1>7 DEF Skip, FetchFails, Cycle
  <2> QED BY <1>2, <1>3, <1>1, <2>2, <2>3 DEF Cycle, Waiting
<1>8. CASE \E r \in Rules : Fetch(r)
  <2>1. PICK r \in Rules : Fetch(r)
    BY <1>8
  <2>2. /\ pc = "rules" /\ r \in DOMAIN list /\ pc' = "traces"
        /\ list' = Restrict(list, DOMAIN list \ {r})
        /\ rule' = [id |-> r, rule |-> list[r]]
    BY <2>1 DEF Fetch
  <2>3. PICK S : batch' = {[trace |-> t, met |-> <<r, t>> \in met] : t \in S}
    BY <2>1 DEF Fetch
  <2>4. DOMAIN list' = DOMAIN list \ {r} /\ rule'.id = r
    BY <2>2 DEF Restrict
  <2>5. \A a, b \in batch' : a.trace = b.trace => a = b
    <3> SUFFICES ASSUME NEW a \in batch', NEW b \in batch', a.trace = b.trace
                 PROVE  a = b
      OBVIOUS
    <3>1. PICK t \in S : a = [trace |-> t, met |-> <<r, t>> \in met]
      BY <2>3
    <3>2. PICK u \in S : b = [trace |-> u, met |-> <<r, u>> \in met]
      BY <2>3
    <3>3. t = u
      BY <3>1, <3>2
    <3> QED BY <3>1, <3>2, <3>3
  <2>6. \A p \in Pairs : Waiting(p)' => p[1] = r
    BY <2>4 DEF Waiting
  <2>7. \A i \in DOMAIN events', p \in Pairs : events'[i].pair = p =>
          p[1] \notin DOMAIN list' /\ ~Waiting(p)'
    BY <1>1, <2>2, <2>4, <2>6 DEF Cycle
  <2>8. phase' # "down"
    BY <1>1, <2>2 DEF Cycle
  <2> QED BY <1>2, <1>3, <1>1, <2>2, <2>4, <2>5, <2>7, <2>8 DEF Cycle
<1> QED BY <1>2, <1>3, <1>4, <1>5, <1>6, <1>7, <1>8

(* The first event of the queue is sent, and it was not sent before.       *)
LEMMA NotifyKeepsSent ==
  ASSUME Copies, TypedStates, Cycle, Sent, Notify
  PROVE  TypedStates' /\ Cycle' /\ Sent'
<1> USE DEF storeVars, memory, asked, engine, observed
<1> DEFINE e == Head(events)
<1>1. /\ pc = "notify" /\ pc' = "record" /\ phase' # "down"
      /\ UNCHANGED <<states, file, copy, rule, batch, list, events>>
      /\ alerted' = IF e.action = "firing" THEN alerted \cup {e.pair} ELSE alerted
  BY DEF Notify, Running
<1>2. TypedStates'
  BY <1>1 DEF TypedStates
<1>3. Cycle'
  BY <1>1 DEF Cycle, Waiting
<1>4. e = events[1] /\ 1 \in DOMAIN events /\ e.pair \in Pairs
  <2>1. events # << >> /\ events \in Seq([pair : Pairs, action : Actions])
    BY <1>1 DEF Cycle
  <2>2. e \in [pair : Pairs, action : Actions]
    BY <2>1, HeadIsQueued
  <2>3. e = events[1] /\ 1 \in DOMAIN events
    BY <2>1
  <2> QED BY <2>2, <2>3
<1> HIDE DEF e
<1>5. \A p : StateOf(p)' = StateOf(p)
  BY <1>1 DEF StateOf
<1>6. \A p \in alerted' : StateOf(p)'.status = "firing"
  <2>1. e.action = "firing" => StateOf(e.pair).status = "firing"
    BY <1>4 DEF Sent
  <2>2. \A p \in alerted : StateOf(p).status = "firing"
    BY DEF Sent
  <2> QED BY <1>1, <1>5, <2>1, <2>2
<1>7. ASSUME NEW i \in DOMAIN events, NEW p \in Pairs,
             events[i].pair = p, events[i].action = "firing"
      PROVE  /\ StateOf(p)'.status = "firing"
             /\ p \in alerted' => i = 1
             /\ \A j \in DOMAIN events :
                  events[j].pair = p /\ events[j].action = "firing" => j = i
  <2>1. /\ StateOf(p).status = "firing" /\ p \notin alerted
        /\ \A j \in DOMAIN events :
             events[j].pair = p /\ events[j].action = "firing" => j = i
    BY <1>1, <1>7 DEF Sent
  <2>2. p \in alerted' => i = 1
    BY <1>1, <1>4, <2>1
  <2> QED BY <1>5, <2>1, <2>2
<1>8. Sent'
  BY <1>1, <1>6, <1>7 DEF Sent
<1> QED BY <1>2, <1>3, <1>8

(* What was sent leaves the queue.                                         *)
LEMMA RecordKeepsSent ==
  ASSUME Copies, TypedStates, Cycle, Sent, Record
  PROVE  TypedStates' /\ Cycle' /\ Sent'
<1> USE DEF storeVars, memory, asked, engine, observed
<1> DEFINE E == [pair : Pairs, action : Actions]
<1>1. /\ pc = "record" /\ phase' # "down" /\ Saves
      /\ UNCHANGED <<states, copy, alerted>>
      /\ events' = Tail(events) /\ pc' = IF Len(events) = 1 THEN "wait" ELSE "notify"
  BY DEF Record, Running, Saves, SaveLocked
<1>2. TypedStates'
  BY <1>1, SavedTyped DEF TypedStates, Typed
<1>3. events \in Seq(E) /\ events # << >>
  BY <1>1 DEF Cycle
<1> HIDE DEF E
<1>4. /\ Len(events) \in Nat /\ Len(events) > 0 /\ DOMAIN events = 1 .. Len(events)
      /\ events' \in Seq(E) /\ Len(events') = Len(events) - 1
      /\ \A i \in 1 .. Len(events) - 1 : events'[i] = events[i + 1]
      /\ DOMAIN events' = 1 .. Len(events) - 1
  <2>1. Len(events) \in Nat /\ Len(events) > 0 /\ DOMAIN events = 1 .. Len(events)
    BY <1>3, EmptySeq
  <2>2. Tail(events) \in Seq(E) /\ Len(Tail(events)) = Len(events) - 1
    BY <1>3, HeadTailProperties
  <2>3. \A i \in 1 .. Len(events) - 1 : Tail(events)[i] = events[i + 1]
    BY <1>3, HeadTailProperties
  <2>4. DOMAIN Tail(events) = 1 .. Len(events) - 1
    BY <2>2
  <2> QED BY <1>1, <2>1, <2>2, <2>3, <2>4
<1>5. Cycle'
  <2>1. Len(events) = 1 => events' = << >>
    BY <1>3, <1>4, EmptySeq
  <2>2. Len(events) # 1 => events' # << >>
    <3>1. SUFFICES ASSUME Len(events) # 1 PROVE Len(events') # 0
      BY <1>4
    <3> QED BY <1>4, <3>1
  <2>3. pc' \in {"wait", "notify"}
    BY <1>1
  <2> QED BY <1>1, <1>4, <2>1, <2>2, <2>3 DEF Cycle, Waiting, E
<1>6. ASSUME NEW i \in DOMAIN events', NEW p \in Pairs,
             events'[i].pair = p, events'[i].action = "firing"
      PROVE  /\ StateOf(p).status = "firing" /\ p \notin alerted
             /\ \A j \in DOMAIN events' :
                  events'[j].pair = p /\ events'[j].action = "firing" => j = i
  <2>1. /\ i \in Nat /\ i + 1 \in DOMAIN events /\ i + 1 # 1
        /\ events[i + 1] = events'[i]
    BY <1>4
  <2>2. /\ StateOf(p).status = "firing" /\ p \notin alerted
        /\ \A j \in DOMAIN events :
             events[j].pair = p /\ events[j].action = "firing" => j = i + 1
    BY <1>6, <2>1 DEF Sent
  <2>3. ASSUME NEW j \in DOMAIN events',
               events'[j].pair = p, events'[j].action = "firing"
        PROVE  j = i
    <3>1. j \in Nat /\ j + 1 \in DOMAIN events /\ events[j + 1] = events'[j]
      BY <1>4
    <3>2. j + 1 = i + 1
      BY <2>2, <2>3, <3>1
    <3> QED BY <2>1, <3>1, <3>2
  <2> QED BY <2>2, <2>3
<1>7. Sent'
  <2>1. \A p : StateOf(p)' = StateOf(p)
    BY <1>1 DEF StateOf
  <2>2. \A p \in alerted' : StateOf(p)'.status = "firing"
    BY <1>1, <2>1 DEF Sent
  <2> QED BY <1>1, <1>6, <2>1, <2>2 DEF Sent
<1> QED BY <1>2, <1>5, <1>7

(* The clock ages the states and their copies, and nothing else.           *)
LEMMA TickKeepsSent ==
  ASSUME Copies, TypedStates, Cycle, Sent, Tick
  PROVE  TypedStates' /\ Cycle' /\ Sent'
<1>1. /\ pc # "record" /\ file' = AgedFile /\ states' = AgedStates(states)
      /\ copy' = IF copy = None THEN None ELSE AgedMemory(copy)
      /\ UNCHANGED <<pc, rule, batch, list, events, phase, alerted>>
  BY DEF Tick, engine
<1>2. Typed(states)' /\ \A p : StateOf(p)'.status = StateOf(p).status
  <2>1. /\ Typed(AgedStates(states)) /\ DOMAIN AgedStates(states) = DOMAIN states
        /\ \A p \in DOMAIN states : AgedStates(states)[p].status = states[p].status
    BY AgedTyped DEF TypedStates
  <2> QED BY <1>1, <2>1 DEF StateOf, Typed
<1>3. copy' # None => Typed(copy.states)'
  <2>1. SUFFICES ASSUME copy' # None PROVE Typed(copy.states)'
    OBVIOUS
  <2>2. copy # None /\ copy' = AgedMemory(copy)
    BY <1>1, <2>1
  <2>3. PICK ru, s, h : copy = [rules |-> ru, states |-> s, history |-> h]
    BY <2>2 DEF Copies, IsCopy
  <2>4. Typed(s)
    BY <2>2, <2>3 DEF TypedStates
  <2>5. copy'.states = AgedStates(s)
    BY <2>2, <2>3 DEF AgedMemory
  <2>6. Typed(AgedStates(s))
    BY <2>4, AgedTyped
  <2> QED BY <2>5, <2>6 DEF Typed
<1>4. file' \notin {Current, Empty, Torn} => Typed(file.copy.states)'
  <2>1. CASE file \in {Current, Empty, Torn}
    <3>1. /\ Current.holds = "the memory" /\ Empty.holds = "nothing"
          /\ Torn.holds = "half a write"
      BY DEF Current, Empty, Torn
    <3>2. file.holds \in {"the memory", "nothing", "half a write"}
      BY <2>1, <3>1
    <3>3. file' = file
      BY <1>1, <3>2 DEF AgedFile
    <3> QED BY <2>1, <3>3 DEF Current, Empty, Torn
  <2>2. CASE file \notin {Current, Empty, Torn}
    <3>1. PICK ru, s, h :
            file = Stale([rules |-> ru, states |-> s, history |-> h])
      BY <2>2 DEF Copies, FileIsCopy, IsCopy
    <3>2. Typed(s)
      BY <2>2, <3>1 DEF TypedStates, Stale
    <3>3. file' = Stale([rules |-> ru, states |-> AgedStates(s), history |-> h])
      BY <1>1, <3>1 DEF AgedFile, AgedMemory, Stale
    <3>4. file'.copy.states = AgedStates(s)
      BY <3>3 DEF Stale
    <3>5. Typed(AgedStates(s))
      BY <3>2, AgedTyped
    <3> QED BY <3>4, <3>5 DEF Typed
  <2> QED BY <2>1, <2>2
<1>5. TypedStates'
  BY <1>2, <1>3, <1>4 DEF TypedStates
<1>6. Cycle'
  BY <1>1, CycleStays
<1>7. Sent'
  BY <1>1, <1>2, SentStays
<1> QED BY <1>5, <1>6, <1>7

(* Users and traces change neither the states nor what is sent.            *)
LEMMA OthersKeepSent ==
  ASSUME Copies, TypedStates, Cycle, Sent, Traffic \/ Api \/ UNCHANGED vars
  PROVE  TypedStates' /\ Cycle' /\ Sent'
<1>1. UNCHANGED <<states, copy>> /\ Saves
  <2>1. CASE Traffic \/ UNCHANGED vars
    BY <2>1 DEF Traffic, StoreTrace, DropTrace, ChangeTrace, vars, storeVars, memory, Saves
  <2>2. CASE ApiRead
    BY <2>2 DEF ApiRead, PutRead, memory, Saves
  <2>3. ASSUME NEW saved, ApiWrite(saved) PROVE UNCHANGED <<states, copy>> /\ Saves
    BY <2>3 DEF ApiWrite, CreateRule, UpdateRule, DeleteRule, Saves, SaveLocked
  <2> QED BY <2>1, <2>2, <2>3 DEF Api
<1>2. UNCHANGED <<pc, rule, batch, list, events, phase, alerted>>
  BY DEF Traffic, StoreTrace, DropTrace, ChangeTrace, vars, engine, observed, Api
<1>3. TypedStates'
  BY <1>1, SavedTyped DEF TypedStates, Typed
<1>4. Cycle'
  BY <1>2, CycleStays
<1>5. Sent'
  BY <1>1, <1>2, SentStays DEF StateOf
<1> QED BY <1>3, <1>4, <1>5

(* A process that ends forgets what it had to send.  One that starts from  *)
(* what the memory was knows all that was sent; from anything else it      *)
(* begins anew.                                                            *)
LEMMA LifecycleKeepsSent ==
  ASSUME Copies, TypedStates, Cycle, Sent, Lifecycle
  PROVE  TypedStates' /\ Cycle' /\ Sent'
<1> USE DEF storeVars, memory, asked, engine, observed
<1>1. CASE Shutdown \/ LoopReturns \/ CloseReads \/ CloseWrites
  <2>1. UNCHANGED <<states, rule, batch, list, events, alerted>> /\ phase' # "down"
    BY <1>1 DEF Shutdown, LoopReturns, CloseReads, CloseWrites
  <2>2. pc' = pc \/ (pc = "wait" /\ pc' = "gone")
    BY <1>1 DEF Shutdown, LoopReturns, CloseReads, CloseWrites
  <2>3. Cycle'
    BY <2>1, <2>2 DEF Cycle, Waiting
  <2>4. Sent'
    BY <2>1, <2>2, SentStays DEF StateOf
  <2>5. CASE Shutdown \/ LoopReturns
    BY <2>1, <2>3, <2>4, <2>5 DEF Shutdown, LoopReturns, TypedStates, Typed
  <2>6. CASE CloseReads
    <3>1. copy' = Memory /\ file' = file /\ Memory.states = states
      BY <2>6 DEF CloseReads, Memory
    <3> QED BY <2>1, <2>3, <2>4, <3>1 DEF TypedStates, Typed
  <2>7. CASE CloseWrites
    <3>1. copy # None /\ copy' = None /\ file' \in {file, Current, Stale(copy), Empty, Torn}
      BY <2>7 DEF CloseWrites, Overwritten
    <3>2. Stale(copy).copy = copy
      BY DEF Stale
    <3> QED BY <2>1, <2>3, <2>4, <3>1, <3>2 DEF TypedStates, Typed
  <2> QED BY <1>1, <2>3, <2>4, <2>5, <2>6, <2>7
<1>2. CASE Exit
  <2>1. /\ UNCHANGED <<states, alerted>> /\ pc' = "wait" /\ events' = << >>
        /\ copy' = None /\ file' \in {file, Empty, Torn}
    BY <1>2 DEF Exit, End
  <2>2. TypedStates'
    BY <2>1 DEF TypedStates
  <2>3. Cycle'
    BY <2>1 DEF Cycle
  <2>4. Sent'
    <3>1. \A p : StateOf(p)' = StateOf(p)
      BY <2>1 DEF StateOf
    <3> QED BY <2>1, <3>1 DEF Sent
  <2> QED BY <2>2, <2>3, <2>4
<1>3. CASE Start
  <2>1. /\ pc = "wait" /\ events = << >> /\ phase' # "down"
        /\ UNCHANGED <<pc, rule, batch, list, events, copy>>
    BY <1>3 DEF Start, Cycle
  <2>2. Cycle'
    BY <2>1, CycleStays
  <2>3. CASE ~Loadable
    <3>1. UNCHANGED <<states, file, alerted>>
      BY <1>3, <2>3 DEF Start
    <3>2. TypedStates'
      BY <2>1, <3>1 DEF TypedStates
    <3>3. Sent'
      BY <2>1, <3>1, SentStays DEF StateOf
    <3> QED BY <2>2, <3>2, <3>3
  <2>4. CASE Loadable
    <3>1. /\ states' = Loaded.states /\ file' = Current
          /\ alerted' = IF file = Current THEN alerted ELSE {}
      BY <1>3, <2>4 DEF Start
    <3>2. file = Current => Loaded.states = states
      <4>1. file = Current => Loaded = Memory
        <5>1. Current.holds # Empty.holds
          BY DEF Current, Empty
        <5>2. Current # Empty
          BY <5>1
        <5> QED BY <5>2 DEF Loaded
      <4>2. Memory.states = states
        BY DEF Memory
      <4> QED BY <4>1, <4>2
    <3>3. Typed(Loaded.states)
      <4>1. CASE file = Current
        BY <3>2, <4>1 DEF TypedStates
      <4>2. CASE file = Empty
        <5>1. Loaded.states = << >>
          BY <4>2 DEF Loaded, Empty, Current
        <5> QED BY <5>1 DEF Typed
      <4>3. CASE file \notin {Current, Empty, Torn}
        <5>1. Loaded = file.copy
          BY <4>3 DEF Loaded
        <5> QED BY <4>3, <5>1 DEF TypedStates
      <4> QED BY <2>4, <4>1, <4>2, <4>3 DEF Loadable
    <3>4. TypedStates'
      <4>1. Typed(states')
        BY <3>1, <3>3
      <4>2. copy' # None => Typed(copy.states)'
        BY <2>1 DEF TypedStates, Typed
      <4> QED BY <3>1, <4>1, <4>2 DEF TypedStates, Typed
    <3>5. Sent'
      <4>1. file = Current => states' = states
        BY <3>1, <3>2
      <4>2. \A p \in alerted' : StateOf(p)'.status = "firing"
        BY <3>1, <4>1 DEF Sent, StateOf
      <4> QED BY <2>1, <4>2 DEF Sent
    <3> QED BY <2>2, <3>4, <3>5
  <2> QED BY <2>3, <2>4
<1> QED BY <1>1, <1>2, <1>3 DEF Lifecycle

(* What is sent as firing is firing, and was not sent yet.                 *)
LEMMA SentInvariant == Spec => [](TypedStates /\ Cycle /\ Sent)
<1>1. Init => TypedStates /\ Cycle /\ Sent
  BY DEF Init, StoreInit, TypedStates, Typed, Cycle, Sent
<1>2. Copies /\ TypedStates /\ Cycle /\ Sent /\ [Next]_vars
        => (TypedStates /\ Cycle /\ Sent)'
  <2> SUFFICES ASSUME Copies, TypedStates, Cycle, Sent, [Next]_vars
               PROVE  TypedStates' /\ Cycle' /\ Sent'
    OBVIOUS
  <2>1. CASE Loop
    BY <2>1, WalkKeepsSent, ProcessKeepsSent, NotifyKeepsSent, RecordKeepsSent DEF Loop
  <2> QED
    BY <2>1, OthersKeepSent, TickKeepsSent, LifecycleKeepsSent DEF Next
<1> QED BY <1>1, <1>2, CopiesInvariant, PTL DEF Spec

(* Nobody is told twice that the same alert fires, without its condition   *)
(* having cleared in between, whatever fails and wherever the process is   *)
(* killed; a start from an older or empty file begins anew.                *)
(* (driveStateMachine, UpsertAlertState, onEvent in InitAlerting)          *)
THEOREM AlertsFireOnce == Spec => FiringDoesNotRefire
<1> DEFINE Anew == pc = "notify" /\ pc' = "record" /\ Head(events).action = "firing" =>
                     Head(events).pair \notin alerted
<1>1. Cycle /\ Sent => Anew
  <2> SUFFICES ASSUME Cycle, Sent, pc = "notify", Head(events).action = "firing"
               PROVE  Head(events).pair \notin alerted
    OBVIOUS
  <2>1. events \in Seq([pair : Pairs, action : Actions]) /\ events # << >>
    BY DEF Cycle
  <2>2. Head(events).pair \in Pairs
    BY <2>1, HeadIsQueued
  <2>3. 1 \in DOMAIN events /\ Head(events) = events[1]
    BY <2>1
  <2> QED BY <2>2, <2>3 DEF Sent
<1>2. Cycle /\ Sent => [Anew]_vars
  BY <1>1
<1> QED BY <1>2, SentInvariant, PTL DEF Spec, FiringDoesNotRefire
=============================================================================
