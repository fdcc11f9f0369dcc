----------------------------- MODULE Dashboards -----------------------------
(***************************************************************************)
(* internal/api/dashboard_handler.go: dashboards are the entries of one    *)
(* file, index.json, and their panels are files of a directory each.  The  *)
(* handler has no lock and no memory: every request reads the index,       *)
(* changes its copy and writes it back, while others do the same.          *)
(*                                                                         *)
(* os.WriteFile first empties the file and then writes at offset 0, so     *)
(* between the two steps others find it empty, and what is written over    *)
(* something longer leaves the end of that behind.                         *)
(***************************************************************************)
EXTENDS Naturals, Sequences, SequencesExt, FiniteSets, Sublists

CONSTANTS
  Handlers,   (* requests that may be served at the same time             *)
  Ids,        (* dashboard ids uuid.NewString may return                  *)
  Panels,     (* panel ids                                                *)
  Names,
  Inputs,     (* panels a client may post: records of their fields, "" if *)
              (* absent                                                   *)
  Empty,      (* the file between the two steps of a write                *)
  Broken,     (* a file that was cut off or overwritten in part           *)
  MaxFaults   (* bound: failed writes and ends of the process             *)

ASSUME FileAssumption ==
  /\ Empty # Broken
  /\ {Empty, Broken} \cap Seq([id : Ids, name : Names]) = {}

VARIABLES
  index,     (* index.json: its entries, << >> as long as it is missing   *)
  panels,    (* panel files: per <<dashboard, panel>> a config or Broken  *)
  req,       (* per handler: the request it serves and where it is        *)
  used,      (* the ids, of either kind, NewString has returned           *)
  outcomes,  (* history: what a list may show, by the answers given; none *)
             (* once changes have overlapped                              *)
  stray,     (* history: panels saved while their dashboard was not there *)
             (* or left by a RemoveAll that failed                        *)
  alone,     (* history: no two changes overlapped, no write was cut off  *)
  faults

vars == <<index, panels, req, used, outcomes, stray, alone, faults>>
files == <<index, panels>>
history == <<outcomes, stray>>

Idle == [at |-> "idle"]
Entry(i, n) == [id |-> i, name |-> n]
IdsOf(s) == {s[k].id : k \in DOMAIN s}
Parses == index \notin {Empty, Broken}
Listed == IF Parses THEN IdsOf(index) ELSE {}
Without(s, i) == Picked(s, {k \in DOMAIN s : s[k].id # i})
Renamed(s, i, n) ==
  LET k == Min({j \in DOMAIN s : s[j].id = i}) IN [s EXCEPT ![k].name = n]
In(f, d) == {k \in DOMAIN f : k[1] = d}
Drop(f, K) == [k \in DOMAIN f \ K |-> f[k]]
With(f, k, v) == [x \in DOMAIN f \cup {k} |-> IF x = k THEN v ELSE f[x]]

(* A request that finds another one under way. *)
Overlap(h) == \E o \in Handlers \ {h} : req[o] # Idle
Begin(h, r) ==
  /\ req[h] = Idle
  /\ req' = [req EXCEPT ![h] = r]
  /\ alone' = (alone /\ ~Overlap(h))
  /\ outcomes' = IF alone' THEN outcomes ELSE {}
Goto(h, at) == req' = [req EXCEPT ![h].at = at] /\ UNCHANGED alone

-----------------------------------------------------------------------------
(* The fields of a panel.  Empty ones get their default. *)
Default(v, d) == IF v = "" THEN d ELSE v
Defaulted(pc) ==
  [pc EXCEPT !.expressionType = Default(@, "single"),
             !.func = Default(@, "none"),
             !.aggregation = Default(@, "none")]
ASSUME ConfigAssumption == \A pc \in Inputs : Defaulted(pc) # Broken
Valid(pc) ==
  LET d == Defaulted(pc)
  IN  /\ d.title # "" /\ d.metric # ""
      /\ d.expressionType \in {"single", "ratio"}
      /\ d.expressionType = "ratio" => d.numeratorMetric # ""
      /\ d.func \in {"none", "rate", "increase"}
      /\ d.aggregation \in {"none", "sum", "avg", "max", "min"}
      /\ d.chartType \in {"line", "bar", "stat"}

Init ==
  /\ index = << >> /\ panels = << >>
  /\ req = [h \in Handlers |-> Idle]
  /\ used = {} /\ stray = {} /\ alone = TRUE /\ faults = 0
  /\ outcomes = {[index |-> << >>, panels |-> << >>]}

-----------------------------------------------------------------------------
(* listDashboards: the entries, and the panels of each that parse. *)
Shown(s, f) ==
  [k \in {x \in DOMAIN f : x[1] \in IdsOf(s) /\ f[x] # Broken} |-> f[k]]
ListDashboards == [index |-> index, panels |-> Shown(index, panels)]

(* What a change that is made makes of a list. *)
Made(o, r) ==
  CASE r.change = "create" -> [o EXCEPT !.index = Append(@, Entry(r.id, r.name))]
    [] r.change = "rename" -> [o EXCEPT !.index = Renamed(@, r.id, r.name)]
    [] r.change = "delete" -> [index |-> Without(o.index, r.id),
                               panels |-> Drop(o.panels, In(o.panels, r.id))]
    [] r.change = "post" /\ r.key[1] \in IdsOf(o.index) ->
         [o EXCEPT !.panels = With(@, r.key, r.config)]
    [] r.change = "remove" -> [o EXCEPT !.panels = Drop(@, {r.key})]
    [] OTHER -> o

(* What one that fails or is cut off may make of it besides: a delete has *)
(* removed some panels, a panel that was half written no longer parses.   *)
Touches(o, r) ==
  CASE r.change = "delete" -> In(o.panels, r.id)
    [] r.change = "post" -> {r.key}
    [] OTHER -> {}
CutOff(o, r) == {[o EXCEPT !.panels = Drop(@, K)] : K \in SUBSET Touches(o, r)}

(* What a list may show after r was acknowledged, which says that the     *)
(* dashboard was there, and after it was not.                             *)
Acknowledged(r) ==
  {Made(o, r) : o \in {x \in outcomes :
                         r.change \in {"rename", "delete"} => r.id \in IdsOf(x.index)}}
InDoubt(r) == Acknowledged(r) \cup UNION {CutOff(o, r) : o \in outcomes}

-----------------------------------------------------------------------------
(* loadIndex and what the handler does to its copy.  A file that does not *)
(* parse, or an unknown id, is answered at once.                          *)
Save(copy, change, i, n) ==
  [at |-> "truncate", copy |-> copy, change |-> change, id |-> i, name |-> n]

(* Mutant of CreateDashboard: the id is any one that is not listed. *)
CreateDashboardReuses(h) ==
  /\ Parses
  /\ \E i \in Ids \ Listed, n \in Names :
       /\ Begin(h, Save(Append(index, Entry(i, n)), "create", i, n))
       /\ used' = used \cup {i}
  /\ UNCHANGED <<files, stray, faults>>

CreateDashboard(h) ==
  /\ Parses
  /\ \E i \in Ids \ used, n \in Names :
       /\ Begin(h, Save(Append(index, Entry(i, n)), "create", i, n))
       /\ used' = used \cup {i}
  /\ UNCHANGED <<files, stray, faults>>

(* Mutant of UpdateDashboard: the renamed entry is moved to the end. *)
UpdateDashboardAppends(h) ==
  /\ \E i \in Listed, n \in Names :
       Begin(h, Save(Append(index, Entry(i, n)), "rename", i, n))
  /\ UNCHANGED <<files, used, stray, faults>>

UpdateDashboard(h) ==
  /\ \E i \in Listed, n \in Names :
       Begin(h, Save(Renamed(index, i, n), "rename", i, n))
  /\ UNCHANGED <<files, used, stray, faults>>

DeleteDashboard(h) ==
  /\ \E i \in Listed, n \in Names :
       Begin(h, [Save(Without(index, i), "delete", i, n) EXCEPT !.at = "rmdir"])
  /\ UNCHANGED <<files, used, stray, faults>>

(* Mutant of RemoveDir: the directory is left where it is. *)
RemoveDirForgotten(h) ==
  /\ req[h].at = "rmdir"
  /\ Goto(h, "truncate")
  /\ UNCHANGED <<files, used, history, faults>>

(* RemoveAll, before the index is saved. *)
RemoveDir(h) ==
  /\ req[h].at = "rmdir"
  /\ Goto(h, "truncate")
  /\ panels' = Drop(panels, In(panels, req[h].id))
  /\ UNCHANGED <<index, used, history, faults>>

(* os.WriteFile of saveIndex, in two steps. *)
Truncate(h) ==
  /\ req[h].at = "truncate"
  /\ Goto(h, "write")
  /\ index' = Empty
  /\ UNCHANGED <<panels, used, history, faults>>

(* What may be in the file after s was written at its start: if another  *)
(* request has written since it was emptied, the rest of that, if longer. *)
Written(s) == IF index \in {Empty, s} THEN {s} ELSE {s, Broken}
Write(h) ==
  /\ req[h].at = "write"
  /\ Goto(h, "reply")
  /\ index' \in Written(req[h].copy)
  /\ UNCHANGED <<panels, used, history, faults>>

-----------------------------------------------------------------------------
(* createPanel does not look whether the dashboard is there; updatePanel  *)
(* and deletePanel look for the panel's file in a step of their own.      *)
Post(d, p, pc) ==
  [at |-> "savePanel", change |-> "post", key |-> <<d, p>>, config |-> Defaulted(pc)]

CreatePanel(h) ==
  /\ \E d \in used \cap Ids, p \in Panels \ used, pc \in {x \in Inputs : Valid(x)} :
       /\ Begin(h, Post(d, p, pc))
       /\ used' = used \cup {p}
  /\ UNCHANGED <<files, stray, faults>>

UpdatePanel(h) ==
  /\ \E k \in DOMAIN panels, pc \in {x \in Inputs : Valid(x)} :
       Begin(h, Post(k[1], k[2], pc))
  /\ UNCHANGED <<files, used, stray, faults>>

(* The panels of H, saved while their dashboard is not listed. *)
Strays(H) == {req[h].key : h \in {x \in H : req[x].at = "savePanel"
                                              /\ req[x].key[1] \notin Listed}}

SavePanel(h) ==
  /\ req[h].at = "savePanel"
  /\ Goto(h, "reply")
  /\ panels' = With(panels, req[h].key, req[h].config)
  /\ stray' = stray \cup Strays({h})
  /\ UNCHANGED <<index, used, outcomes, faults>>

DeletePanel(h) ==
  /\ \E k \in DOMAIN panels :
       Begin(h, [at |-> "removePanel", change |-> "remove", key |-> k])
  /\ UNCHANGED <<files, used, stray, faults>>

RemovePanel(h) ==
  /\ req[h].at = "removePanel"
  /\ Goto(h, "reply")
  /\ panels' = Drop(panels, {req[h].key})
  /\ UNCHANGED <<index, used, history, faults>>

(* The answer that all went well, after the last step. *)
Reply(h) ==
  /\ req[h].at = "reply"
  /\ req' = [req EXCEPT ![h] = Idle]
  /\ outcomes' = Acknowledged(req[h])
  /\ UNCHANGED <<files, used, stray, alone, faults>>

-----------------------------------------------------------------------------
(* What the step the requests H are at may have done when it fails or is  *)
(* cut off: part of the index or of a panel is written, part of a         *)
(* directory is removed, or nothing of it.                                *)
Fault == faults < MaxFaults /\ faults' = faults + 1
AtStep(H, at) == {h \in H : req[h].at = at}
Partly(H) ==
  /\ index' \in IF AtStep(H, "write") = {} THEN {index} ELSE {index, Broken}
  /\ \E S \in SUBSET {req[h].key : h \in AtStep(H, "savePanel")},
        R \in SUBSET UNION {In(panels, req[h].id) : h \in AtStep(H, "rmdir")} :
       panels' = [k \in (DOMAIN panels \ R) \cup S |->
                    IF k \in S THEN Broken ELSE panels[k]]

(* A step that fails is answered with an error. *)
SaveFails(h) ==
  /\ Fault
  /\ req[h].at \in {"truncate", "write", "savePanel", "removePanel"}
  /\ req' = [req EXCEPT ![h] = Idle]
  /\ Partly({h})
  /\ stray' = stray \cup Strays({h})
  /\ outcomes' = InDoubt(req[h])
  /\ alone' = (alone /\ req[h].at # "write")
  /\ UNCHANGED used

(* The error of RemoveAll is only logged: the index is saved without the  *)
(* dashboard all the same.                                                *)
RemoveDirFails(h) ==
  /\ Fault
  /\ req[h].at = "rmdir"
  /\ Goto(h, "truncate")
  /\ Partly({h})
  /\ stray' = stray \cup In(panels', req[h].id)
  /\ UNCHANGED <<used, outcomes>>

(* The process ends and is started again: the files are all there is. *)
Restart ==
  /\ Fault
  /\ req' = [h \in Handlers |-> Idle]
  /\ Partly(Handlers)
  /\ stray' = stray \cup Strays(Handlers)
  /\ outcomes' = outcomes \cup UNION {InDoubt(req[h]) : h \in {x \in Handlers : req[x] # Idle}}
  /\ alone' = (alone /\ AtStep(Handlers, "write") = {})
  /\ UNCHANGED used

Serve(h) ==
  \/ CreateDashboard(h) \/ UpdateDashboard(h) \/ DeleteDashboard(h)
  \/ RemoveDir(h) \/ RemoveDirFails(h) \/ Truncate(h) \/ Write(h)
  \/ CreatePanel(h) \/ UpdatePanel(h) \/ SavePanel(h)
  \/ DeletePanel(h) \/ RemovePanel(h) \/ Reply(h) \/ SaveFails(h)
Next == Restart \/ \E h \in Handlers : Serve(h)
Spec == Init /\ [][Next]_vars

-----------------------------------------------------------------------------
(* As long as no two changes overlap, what a list shows between them is   *)
(* what the answers say: every change that was acknowledged has been made *)
(* and in that order, and of one that was answered with an error or lost  *)
(* its process nothing, all, or for a delete and a panel's write the part *)
(* CutOff names.  (every handler's read, change, write and answer)        *)
LoneChangesApply ==
  alone /\ (\A h \in Handlers : req[h] = Idle) => ListDashboards \in outcomes

(* As long as no two changes overlap, a panel's file whose dashboard is   *)
(* not listed was posted to one that was not there, or left by a          *)
(* RemoveAll that reported an error: a delete takes the panels first, so  *)
(* one that is cut off, even within RemoveAll, leaves none behind.        *)
(* (deleteDashboard, createPanel)                                         *)
NoOrphanPanels ==
  alone /\ (\A h \in Handlers : req[h].at # "write") =>
    \A k \in DOMAIN panels : k[1] \in Listed \/ k \in stray

(* Whatever overlaps, no id is listed twice, and an id that is neither in *)
(* the index nor in the copy of any request never comes back: a delete    *)
(* can be undone only by a request that had read the index before it.     *)
(* (createDashboard, updateDashboard, deleteDashboard)                    *)
Held == Listed \cup UNION {IdsOf(req[h].copy) :
                             h \in {x \in Handlers : req[x].at \in {"rmdir", "truncate", "write"}}}
GoneForGood ==
  [][/\ used \ Held \subseteq used' \ Held'
     /\ Parses' => Cardinality(Listed') = Len(index')]_vars
=============================================================================
