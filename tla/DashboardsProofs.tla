--------------------------- MODULE DashboardsProofs ---------------------------
(***************************************************************************)
(* Proofs about Dashboards, for any handlers, ids, panels and faults; and  *)
(* about Metrics, which their panels show, for any requests, any number of *)
(* restarts and any lookback.                                              *)
(***************************************************************************)
EXTENDS Dashboards, Metrics, FoldLemmas, TLAPS

Entries == [id : Ids, name : Names]

(* No id is listed twice. *)
Unique(s) == \A j, k \in DOMAIN s : s[j].id = s[k].id => j = k

-----------------------------------------------------------------------------
(* A new entry adds its id; it is listed once if it was not there. *)
LEMMA AppendIds ==
  ASSUME NEW s \in Seq(Entries), NEW e \in Entries
  PROVE  /\ Append(s, e) \in Seq(Entries)
         /\ IdsOf(Append(s, e)) = IdsOf(s) \cup {e.id}
         /\ Unique(s) /\ e.id \notin IdsOf(s) => Unique(Append(s, e))
<1> DEFINE t == Append(s, e)
<1>1. /\ t \in Seq(Entries) /\ Len(s) \in Nat
      /\ DOMAIN s = 1 .. Len(s) /\ DOMAIN t = 1 .. Len(s) + 1
      /\ \A k \in 1 .. Len(s) : t[k] = s[k]
      /\ t[Len(s) + 1] = e
  OBVIOUS
<1> HIDE DEF t
<1>2. IdsOf(t) = IdsOf(s) \cup {e.id}
  <2>1. 1 .. Len(s) + 1 = (1 .. Len(s)) \cup {Len(s) + 1}
    BY <1>1
  <2> QED BY <1>1, <2>1 DEF IdsOf
<1>3. ASSUME Unique(s), e.id \notin IdsOf(s) PROVE Unique(t)
  <2> SUFFICES ASSUME NEW j \in DOMAIN t, NEW k \in DOMAIN t, t[j].id = t[k].id
               PROVE  j = k
    BY DEF Unique
  <2>1. (j \in DOMAIN s \/ j = Len(s) + 1) /\ (k \in DOMAIN s \/ k = Len(s) + 1)
    BY <1>1
  <2>2. \A m \in DOMAIN s : t[m].id \in IdsOf(s)
    BY <1>1 DEF IdsOf
  <2> QED BY <1>1, <1>3, <2>1, <2>2 DEF Unique
<1> QED BY <1>1, <1>2, <1>3 DEF t

-----------------------------------------------------------------------------
(* What is left of a list without an id: its other entries, in order and   *)
(* none of them twice if none was.                                         *)
LEMMA WithoutIs ==
  ASSUME NEW s \in Seq(Entries), NEW i
  PROVE  /\ Without(s, i) \in Seq(Entries)
         /\ IdsOf(Without(s, i)) = IdsOf(s) \ {i}
         /\ Unique(s) => Unique(Without(s, i))
<1> DEFINE K == {k \in DOMAIN s : s[k].id # i}
           p == Picked(s, K)
<1>1. K \in SUBSET DOMAIN s
  OBVIOUS
<1>2. p \in Seq(Entries) /\ \E h : Lists(h, s, K, p)
  <2> HIDE DEF K
  <2> QED BY <1>1, PickedIs
<1>3. PICK h : Lists(h, s, K, p)
  BY <1>2
<1>4. DOMAIN p \subseteq Nat
  <2> HIDE DEF p
  <2> QED BY <1>2
<1> HIDE DEF p
<1>5. IdsOf(p) = IdsOf(s) \ {i}
  BY <1>3 DEF Lists, IdsOf
<1>6. ASSUME Unique(s) PROVE Unique(p)
  <2> SUFFICES ASSUME NEW j \in DOMAIN p, NEW k \in DOMAIN p, p[j].id = p[k].id
               PROVE  j = k
    BY DEF Unique
  <2>1. h[j] = h[k] /\ h[j] \in Nat
    BY <1>3, <1>6 DEF Lists, Unique
  <2>2. j \in Nat /\ k \in Nat /\ (j < k => h[j] < h[k]) /\ (k < j => h[k] < h[j])
    BY <1>3, <1>4 DEF Lists
  <2> QED BY <2>1, <2>2
<1> QED BY <1>2, <1>5, <1>6 DEF p, Without

(* A renamed entry keeps its place and its id. *)
LEMMA RenamedIs ==
  ASSUME NEW s \in Seq(Entries), NEW i \in IdsOf(s), NEW n \in Names
  PROVE  /\ Renamed(s, i, n) \in Seq(Entries)
         /\ IdsOf(Renamed(s, i, n)) = IdsOf(s)
         /\ Unique(s) => Unique(Renamed(s, i, n))
<1> DEFINE At == {j \in DOMAIN s : s[j].id = i}
           k == Min(At)
           t == [s EXCEPT ![k].name = n]
<1>0. Len(s) \in Nat /\ DOMAIN s = 1 .. Len(s) /\ \A j \in DOMAIN s : s[j] \in Entries
  OBVIOUS
<1>1. k \in At
  <2>1. At \in SUBSET Nat /\ At # {}
    BY <1>0 DEF IdsOf
  <2> HIDE DEF At
  <2> QED BY <2>1, MinInSet
<1>2. k \in DOMAIN s
  BY <1>1
<1>3. Renamed(s, i, n) = t
  BY DEF Renamed
<1> HIDE DEF k, At
<1>4. /\ DOMAIN t = DOMAIN s
      /\ \A j \in DOMAIN s : t[j] = IF j = k THEN [s[k] EXCEPT !.name = n] ELSE s[j]
  OBVIOUS
<1>5. \A j \in DOMAIN s : t[j] \in Entries /\ t[j].id = s[j].id
  BY <1>0, <1>2, <1>4 DEF Entries
<1>6. t \in Seq(Entries)
  <2>1. t = [j \in 1 .. Len(s) |-> t[j]]
    BY <1>0
  <2> HIDE DEF t
  <2>2. t \in [1 .. Len(s) -> Entries]
    BY <1>0, <1>5, <2>1
  <2> QED BY <1>0, <2>2
<1> HIDE DEF t
<1>7. IdsOf(t) = IdsOf(s) /\ (Unique(s) => Unique(t))
  BY <1>4, <1>5 DEF IdsOf, Unique
<1> QED BY <1>3, <1>6, <1>7

-----------------------------------------------------------------------------
(* A request that changes the index, with its copy. *)
Saves ==
  [at : {"rmdir", "truncate", "write", "reply"}, copy : Seq(Entries),
   change : {"create", "rename", "delete"}, id : Ids, name : Names]
Holds(r) == r \in Saves /\ r.at # "reply"

(* And those that change a panel. *)
PanelKeys == Ids \X Panels
Configs == {Defaulted(pc) : pc \in Inputs}
Posts == [at : {"savePanel", "reply"}, change : {"post"}, key : PanelKeys, config : Configs]
Removes == [at : {"removePanel", "reply"}, change : {"remove"}, key : PanelKeys]
OnPanels(r) == r \in Posts \/ r \in Removes

(* A function is known by what it makes of its domain. *)
IsFun(f) == f = [k \in DOMAIN f |-> f[k]]

TypeOK ==
  /\ index \in Seq(Entries) \cup {Empty, Broken}
  /\ IsFun(panels) /\ DOMAIN panels \subseteq PanelKeys
  /\ req = [h \in Handlers |-> req[h]]
  /\ \A h \in Handlers : req[h] = Idle \/ req[h] \in Saves \/ OnPanels(req[h])

(* What the change r makes of a list. *)
Changed(s, r) ==
  CASE r.change = "create" -> Append(s, Entry(r.id, r.name))
    [] r.change = "rename" -> Renamed(s, r.id, r.name)
    [] OTHER -> Without(s, r.id)

(* A change begins: the index parsed, and the copy is what the change      *)
(* makes of it; a new id was never returned before.                        *)
BeginSave(h, r) ==
  /\ req[h] = Idle /\ r \in Saves
  /\ req' = [req EXCEPT ![h] = r]
  /\ index \in Seq(Entries) /\ r.copy = Changed(index, r)
  /\ r.change = "create" => r.id \notin used /\ r.id \in used'
  /\ r.change # "create" => r.id \in IdsOf(index)
  /\ r.at = IF r.change = "delete" THEN "rmdir" ELSE "truncate"
  /\ used \subseteq used'
  /\ alone' => alone /\ ~Overlap(h) /\ outcomes' = outcomes
  /\ UNCHANGED <<files, stray, faults>>

(* The look of a request for a panel. *)
BeginPanel(h, r) ==
  /\ req[h] = Idle /\ OnPanels(r) /\ r.at # "reply"
  /\ r \in Posts => r.key[1] \in used \/ r.key \in DOMAIN panels
  /\ req' = [req EXCEPT ![h] = r]
  /\ used \subseteq used'
  /\ alone' => alone /\ ~Overlap(h) /\ outcomes' = outcomes
  /\ UNCHANGED <<files, stray, faults>>

(* What parses is a list of entries. *)
LEMMA ParsedIndex == TypeOK => (Parses <=> index \in Seq(Entries))
BY FileAssumption DEF TypeOK, Parses, Entries

(* The requests that begin a change of the index. *)
LEMMA SaveBegins ==
  ASSUME TypeOK, NEW h \in Handlers,
         CreateDashboard(h) \/ UpdateDashboard(h) \/ DeleteDashboard(h)
  PROVE  \E r : BeginSave(h, r)
<1>1. CASE CreateDashboard(h)
  <2>1. PICK i \in Ids \ used, n \in Names :
          /\ Begin(h, Save(Append(index, Entry(i, n)), "create", i, n))
          /\ used' = used \cup {i}
    BY <1>1 DEF CreateDashboard
  <2> DEFINE r == Save(Append(index, Entry(i, n)), "create", i, n)
  <2>2. index \in Seq(Entries)
    BY <1>1, ParsedIndex DEF CreateDashboard
  <2>3. Entry(i, n) \in Entries
    BY DEF Entry, Entries
  <2>4. Append(index, Entry(i, n)) \in Seq(Entries)
    BY <2>2, <2>3
  <2>5. /\ r \in Saves /\ r.copy = Append(index, Entry(i, n)) /\ r.change = "create"
        /\ r.id = i /\ r.name = n /\ r.at = "truncate"
    BY <2>4 DEF Save, Saves
  <2> HIDE DEF r
  <2>6. BeginSave(h, r)
    BY <1>1, <2>1, <2>2, <2>5 DEF CreateDashboard, Begin, BeginSave, Changed, r
  <2> QED BY <2>6
<1>2. CASE UpdateDashboard(h)
  <2>1. PICK i \in Listed, n \in Names :
          Begin(h, Save(Renamed(index, i, n), "rename", i, n))
    BY <1>2 DEF UpdateDashboard
  <2> DEFINE r == Save(Renamed(index, i, n), "rename", i, n)
  <2>2. index \in Seq(Entries) /\ i \in IdsOf(index)
    BY ParsedIndex DEF Listed
  <2>3. Renamed(index, i, n) \in Seq(Entries)
    BY <2>2, RenamedIs
  <2>4. i \in Ids
    <3>1. PICK k \in DOMAIN index : index[k].id = i
      BY <2>2 DEF IdsOf
    <3>2. index[k] \in Entries
      BY <2>2
    <3> QED BY <3>1, <3>2 DEF Entries
  <2>5. /\ r \in Saves /\ r.copy = Renamed(index, i, n) /\ r.change = "rename"
        /\ r.id = i /\ r.name = n /\ r.at = "truncate"
    BY <2>3, <2>4 DEF Save, Saves
  <2> HIDE DEF r
  <2>6. BeginSave(h, r)
    BY <1>2, <2>1, <2>2, <2>5 DEF UpdateDashboard, Begin, BeginSave, Changed, r
  <2> QED BY <2>6
<1>3. CASE DeleteDashboard(h)
  <2>1. PICK i \in Listed, n \in Names :
          Begin(h, [Save(Without(index, i), "delete", i, n) EXCEPT !.at = "rmdir"])
    BY <1>3 DEF DeleteDashboard
  <2> DEFINE r == [Save(Without(index, i), "delete", i, n) EXCEPT !.at = "rmdir"]
  <2>2. index \in Seq(Entries) /\ i \in IdsOf(index)
    BY ParsedIndex DEF Listed
  <2>3. Without(index, i) \in Seq(Entries)
    BY <2>2, WithoutIs
  <2>4. i \in Ids
    <3>1. PICK k \in DOMAIN index : index[k].id = i
      BY <2>2 DEF IdsOf
    <3>2. index[k] \in Entries
      BY <2>2
    <3> QED BY <3>1, <3>2 DEF Entries
  <2>5. /\ r \in Saves /\ r.copy = Without(index, i) /\ r.change = "delete"
        /\ r.id = i /\ r.name = n /\ r.at = "rmdir"
    BY <2>3, <2>4 DEF Save, Saves
  <2> HIDE DEF r
  <2>6. BeginSave(h, r)
    BY <1>3, <2>1, <2>2, <2>5 DEF DeleteDashboard, Begin, BeginSave, Changed, r
  <2> QED BY <2>6
<1> QED BY <1>1, <1>2, <1>3

(* The requests for a panel begin. *)
LEMMA PanelBegins ==
  ASSUME TypeOK, NEW h \in Handlers, CreatePanel(h) \/ UpdatePanel(h) \/ DeletePanel(h)
  PROVE  \E r : BeginPanel(h, r)
<1>1. ASSUME NEW d \in Ids, NEW p \in Panels, NEW pc \in Inputs
      PROVE  LET r == Post(d, p, pc)
             IN  r \in Posts /\ r.at = "savePanel" /\ r.key = <<d, p>>
  BY DEF Posts, Post, PanelKeys, Configs
<1>2. CASE CreatePanel(h)
  <2>1. PICK d \in used \cap Ids, p \in Panels \ used, pc \in Inputs :
          Begin(h, Post(d, p, pc)) /\ used' = used \cup {p}
    BY <1>2 DEF CreatePanel
  <2>2. /\ Post(d, p, pc) \in Posts /\ Post(d, p, pc).at = "savePanel"
        /\ Post(d, p, pc).key[1] = d
    BY <1>1
  <2>3. BeginPanel(h, Post(d, p, pc))
    BY <1>2, <2>1, <2>2 DEF CreatePanel, Begin, BeginPanel, OnPanels
  <2> QED BY <2>3
<1>3. CASE UpdatePanel(h)
  <2>1. PICK k \in DOMAIN panels, pc \in Inputs : Begin(h, Post(k[1], k[2], pc))
    BY <1>3 DEF UpdatePanel
  <2>2. k[1] \in Ids /\ k[2] \in Panels /\ k = <<k[1], k[2]>>
    BY DEF TypeOK, PanelKeys
  <2> DEFINE r == Post(k[1], k[2], pc)
  <2>3. r \in Posts /\ r.at = "savePanel" /\ r.key \in DOMAIN panels
    BY <1>1, <2>2
  <2> HIDE DEF r
  <2>4. BeginPanel(h, r)
    BY <1>3, <2>1, <2>3 DEF UpdatePanel, Begin, BeginPanel, OnPanels, r
  <2> QED BY <2>4
<1>4. CASE DeletePanel(h)
  <2>1. PICK k \in DOMAIN panels :
          Begin(h, [at |-> "removePanel", change |-> "remove", key |-> k])
    BY <1>4 DEF DeletePanel
  <2> DEFINE r == [at |-> "removePanel", change |-> "remove", key |-> k]
  <2>2. r \in Removes /\ r \notin Posts /\ r.at = "removePanel"
    BY DEF TypeOK, Removes, Posts
  <2> HIDE DEF r
  <2>3. BeginPanel(h, r)
    BY <1>4, <2>1, <2>2 DEF DeletePanel, Begin, BeginPanel, OnPanels, r
  <2> QED BY <2>3
<1> QED BY <1>2, <1>3, <1>4

-----------------------------------------------------------------------------
(* What h does to its request goes on with. *)
Moves(h) ==
  \/ RemoveDir(h) \/ RemoveDirFails(h) \/ Truncate(h) \/ Write(h)
  \/ SavePanel(h) \/ RemovePanel(h)

(* The steps of a request: it begins, goes on, ends, fails or is cut off. *)
LEMMA Steps ==
  ASSUME TypeOK, [Next]_vars
  PROVE  \/ \E h \in Handlers : \E r : BeginSave(h, r) \/ BeginPanel(h, r)
         \/ \E h \in Handlers : Moves(h) \/ Reply(h) \/ SaveFails(h)
         \/ Restart \/ UNCHANGED vars
<1>1. ASSUME NEW h \in Handlers, CreateDashboard(h) \/ UpdateDashboard(h) \/ DeleteDashboard(h)
      PROVE  \E r : BeginSave(h, r)
  BY <1>1, SaveBegins
<1>2. ASSUME NEW h \in Handlers, CreatePanel(h) \/ UpdatePanel(h) \/ DeletePanel(h)
      PROVE  \E r : BeginPanel(h, r)
  BY <1>2, PanelBegins
<1> QED BY <1>1, <1>2 DEF Next, Serve, Moves

(* One request changes, the others stay. *)
LEMMA Went ==
  ASSUME TypeOK, NEW h \in Handlers, NEW r, req' = [req EXCEPT ![h] = r]
  PROVE  /\ req'[h] = r /\ \A o \in Handlers \ {h} : req'[o] = req[o]
         /\ req' = [o \in Handlers |-> req'[o]]
BY DEF TypeOK

(* Where a request is says what it is. *)
LEMMA AtSave ==
  ASSUME TypeOK, NEW h \in Handlers
  PROVE  /\ req[h].at \in {"rmdir", "truncate", "write"} <=> Holds(req[h])
         /\ req[h] # Idle <=> req[h] \in Saves \/ OnPanels(req[h])
         /\ req[h].at = "savePanel" => req[h] \in Posts
         /\ req[h].at = "removePanel" => req[h] \in Removes
         /\ req[h] # Idle <=> req[h].at # "idle"
         /\ ~Holds(Idle) /\ Idle.at = "idle"
<1>1. Idle.at = "idle" /\ Idle \notin Saves /\ ~OnPanels(Idle)
  BY DEF Idle, Saves, OnPanels, Posts, Removes
<1>2. /\ \A r \in Saves : r.at \in {"rmdir", "truncate", "write", "reply"}
      /\ \A r \in Posts : r.at \in {"savePanel", "reply"}
      /\ \A r \in Removes : r.at \in {"removePanel", "reply"}
  BY DEF Saves, Posts, Removes
<1> QED BY <1>1, <1>2 DEF TypeOK, OnPanels, Holds

(* The next stage of a request is one of the same kind. *)
LEMMA GoesOn ==
  ASSUME TypeOK, NEW h \in Handlers, NEW at, req[h] # Idle, Goto(h, at),
         at \in IF req[h] \in Saves THEN {"truncate", "write", "reply"} ELSE {"reply"}
  PROVE  /\ req' = [req EXCEPT ![h] = req'[h]] /\ req'[h].at = at
         /\ req[h] \in Saves => /\ req'[h] \in Saves /\ req'[h].copy = req[h].copy
                                /\ req'[h].id = req[h].id /\ req'[h].name = req[h].name
         /\ req[h] \in Posts => /\ req'[h] \in Posts /\ req'[h].key = req[h].key
                                /\ req'[h].config = req[h].config
         /\ req[h] \in Removes => req'[h] \in Removes /\ req'[h].key = req[h].key
         /\ req'[h].change = req[h].change
<1> DEFINE r == req[h]
           s == [r EXCEPT !.at = at]
<1>1. req' = [req EXCEPT ![h] = s] /\ req'[h] = s
  BY DEF Goto, TypeOK
<1>2. r \in Saves => /\ s \in Saves /\ s.at = at /\ s.copy = r.copy /\ s.id = r.id
                      /\ s.name = r.name /\ s.change = r.change
  BY DEF Saves
<1>3. r \in Posts => /\ s \in Posts /\ s.at = at /\ s.key = r.key /\ s.config = r.config
                      /\ s.change = r.change
  BY DEF Posts, Saves
<1>4. r \in Removes => s \in Removes /\ s.at = at /\ s.key = r.key /\ s.change = r.change
  BY DEF Removes, Saves
<1>5. r \in Saves \/ r \in Posts \/ r \in Removes
  BY AtSave DEF OnPanels
<1> HIDE DEF s
<1> QED BY <1>1, <1>2, <1>3, <1>4, <1>5

(* What part of a step may have done. *)
LEMMA PartlyIs ==
  ASSUME TypeOK, NEW H \in SUBSET Handlers, Partly(H)
  PROVE  /\ index' \in {index, Broken}
         /\ AtStep(H, "write") = {} => index' = index
         /\ IsFun(panels') /\ DOMAIN panels' \subseteq PanelKeys
<1>1. PICK S \in SUBSET {req[h].key : h \in AtStep(H, "savePanel")},
           R \in SUBSET UNION {In(panels, req[h].id) : h \in AtStep(H, "rmdir")} :
        panels' = [k \in (DOMAIN panels \ R) \cup S |->
                     IF k \in S THEN Broken ELSE panels[k]]
  BY DEF Partly
<1>2. S \subseteq PanelKeys
  BY AtSave DEF AtStep, Posts
<1>3. DOMAIN panels' = (DOMAIN panels \ R) \cup S /\ IsFun(panels')
  BY <1>1 DEF IsFun
<1> QED BY <1>2, <1>3 DEF Partly, TypeOK

(* The files and requests keep their form in every step. *)
LEMMA StepType == TypeOK /\ [Next]_vars => TypeOK'
<1> SUFFICES ASSUME TypeOK, [Next]_vars PROVE TypeOK'
  OBVIOUS
<1>1. ASSUME NEW h \in Handlers, NEW r, BeginSave(h, r) \/ BeginPanel(h, r) PROVE TypeOK'
  <2>1. /\ req' = [req EXCEPT ![h] = r] /\ (r \in Saves \/ OnPanels(r))
        /\ index' = index /\ panels' = panels
    BY <1>1 DEF BeginSave, BeginPanel, files
  <2> QED BY <2>1, Went DEF TypeOK, IsFun
<1>2. ASSUME NEW h \in Handlers, NEW r, req' = [req EXCEPT ![h] = r],
             r = Idle \/ r \in Saves \/ OnPanels(r),
             index' \in Seq(Entries) \cup {Empty, Broken},
             IsFun(panels)', DOMAIN panels' \subseteq PanelKeys
      PROVE  TypeOK'
  BY <1>2, Went DEF TypeOK
<1>3. ASSUME NEW h \in Handlers, Moves(h)
      PROVE  /\ index' \in Seq(Entries) \cup {Empty, Broken}
             /\ IsFun(panels)' /\ DOMAIN panels' \subseteq PanelKeys
             /\ \E r : req' = [req EXCEPT ![h] = r] /\ (r \in Saves \/ OnPanels(r))
  <2>1. ASSUME NEW at, Goto(h, at), Holds(req[h]), at \in {"truncate", "write", "reply"}
        PROVE  \E r : req' = [req EXCEPT ![h] = r] /\ (r \in Saves \/ OnPanels(r))
    BY <2>1, GoesOn, AtSave DEF Holds
  <2>2. ASSUME Goto(h, "reply"), req[h] # Idle
        PROVE  \E r : req' = [req EXCEPT ![h] = r] /\ (r \in Saves \/ OnPanels(r))
    BY <2>2, GoesOn, AtSave DEF OnPanels
  <2>3. CASE RemoveDir(h)
    <3>1. Goto(h, "truncate") /\ Holds(req[h]) /\ index' = index
          /\ panels' = Drop(panels, In(panels, req[h].id))
      BY <2>3, AtSave DEF RemoveDir
    <3>2. IsFun(panels)' /\ DOMAIN panels' \subseteq DOMAIN panels
      BY <3>1 DEF Drop, IsFun
    <3> QED BY <2>1, <3>1, <3>2 DEF TypeOK
  <2>4. CASE RemoveDirFails(h)
    <3>1. Goto(h, "truncate") /\ Holds(req[h]) /\ Partly({h})
      BY <2>4, AtSave DEF RemoveDirFails
    <3> QED BY <2>1, <3>1, PartlyIs DEF TypeOK, IsFun
  <2>5. CASE Truncate(h)
    <3>1. Goto(h, "write") /\ Holds(req[h]) /\ index' = Empty /\ panels' = panels
      BY <2>5, AtSave DEF Truncate
    <3> QED BY <2>1, <3>1 DEF TypeOK, IsFun
  <2>6. CASE Write(h)
    <3>1. /\ Goto(h, "reply") /\ Holds(req[h]) /\ index' \in {req[h].copy, Broken}
          /\ panels' = panels
      BY <2>6, AtSave DEF Write, Written
    <3> QED BY <2>1, <3>1 DEF TypeOK, Holds, Saves, IsFun
  <2>7. CASE SavePanel(h)
    <3>1. /\ Goto(h, "reply") /\ req[h] \in Posts /\ req[h] # Idle /\ index' = index
          /\ panels' = With(panels, req[h].key, req[h].config)
      BY <2>7, AtSave DEF SavePanel
    <3>2. IsFun(panels)' /\ DOMAIN panels' = DOMAIN panels \cup {req[h].key}
          /\ req[h].key \in PanelKeys
      BY <3>1 DEF With, IsFun, Posts
    <3> QED BY <2>2, <3>1, <3>2 DEF TypeOK
  <2>8. CASE RemovePanel(h)
    <3>1. /\ Goto(h, "reply") /\ req[h] # Idle /\ index' = index
          /\ panels' = Drop(panels, {req[h].key})
      BY <2>8, AtSave DEF RemovePanel
    <3>2. IsFun(panels)' /\ DOMAIN panels' \subseteq DOMAIN panels
      BY <3>1 DEF Drop, IsFun
    <3> QED BY <2>2, <3>1, <3>2 DEF TypeOK
  <2> QED BY <1>3, <2>3, <2>4, <2>5, <2>6, <2>7, <2>8 DEF Moves
<1>4. ASSUME NEW h \in Handlers, Moves(h) PROVE TypeOK'
  <2>1. PICK r : req' = [req EXCEPT ![h] = r] /\ (r \in Saves \/ OnPanels(r))
    BY <1>3, <1>4
  <2> QED BY <1>2, <1>3, <1>4, <2>1
<1>5. ASSUME NEW h \in Handlers, Reply(h) PROVE TypeOK'
  <2>1. req' = [req EXCEPT ![h] = Idle] /\ index' = index /\ panels' = panels
    BY <1>5 DEF Reply, files
  <2> QED BY <1>2, <2>1 DEF TypeOK, IsFun
<1>6. ASSUME NEW h \in Handlers, SaveFails(h) PROVE TypeOK'
  <2>1. req' = [req EXCEPT ![h] = Idle] /\ Partly({h})
    BY <1>6 DEF SaveFails
  <2> QED BY <1>2, <2>1, PartlyIs DEF TypeOK, IsFun
<1>7. CASE Restart
  <2>1. req' = [h \in Handlers |-> Idle] /\ Partly(Handlers)
    BY <1>7 DEF Restart
  <2>2. IsFun(panels') /\ DOMAIN panels' \subseteq PanelKeys /\ index' \in {index, Broken}
    BY <2>1, PartlyIs
  <2> QED BY <2>1, <2>2 DEF TypeOK, IsFun
<1>8. CASE UNCHANGED vars
  BY <1>8 DEF vars, TypeOK, IsFun
<1> QED BY <1>1, <1>4, <1>5, <1>6, <1>7, <1>8, Steps

(* The first state is typed. *)
LEMMA InitType == Init => TypeOK
<1> SUFFICES ASSUME Init PROVE TypeOK
  OBVIOUS
<1>1. << >> \in Seq(Entries) /\ DOMAIN << >> = {} /\ IsFun(<< >>)
  BY DEF IsFun
<1> QED BY <1>1 DEF Init, TypeOK

-----------------------------------------------------------------------------
(* The lists that may become the index: itself and the copies held. *)
InPlay(s) == s = index \/ \E h \in Handlers : Holds(req[h]) /\ s = req[h].copy

(* Each of them lists an id once, and only ids NewString has returned. *)
IdsInv ==
  \A s \in Seq(Entries) : InPlay(s) => Unique(s) /\ IdsOf(s) \subseteq used

(* What the change of a list lists: nothing new but the id it creates. *)
LEMMA ChangedIs ==
  ASSUME NEW s \in Seq(Entries), NEW r \in Saves,
         r.change # "create" => r.id \in IdsOf(s)
  PROVE  /\ Changed(s, r) \in Seq(Entries)
         /\ IdsOf(Changed(s, r)) = CASE r.change = "create" -> IdsOf(s) \cup {r.id}
                                     [] r.change = "rename" -> IdsOf(s)
                                     [] OTHER -> IdsOf(s) \ {r.id}
         /\ Unique(s) /\ (r.change = "create" => r.id \notin IdsOf(s)) => Unique(Changed(s, r))
<1>1. r.id \in Ids /\ r.name \in Names
  BY DEF Saves
<1>2. Entry(r.id, r.name) \in Entries /\ Entry(r.id, r.name).id = r.id
  BY <1>1 DEF Entry, Entries
<1>3. CASE r.change = "create"
  BY <1>2, <1>3, AppendIds DEF Changed
<1>4. CASE r.change = "rename"
  BY <1>1, <1>4, RenamedIs DEF Changed
<1>5. CASE r.change # "create" /\ r.change # "rename"
  BY <1>5, WithoutIs DEF Changed
<1> QED BY <1>3, <1>4, <1>5

(* Only a change that begins brings a new list into play. *)
LEMMA OldLists ==
  ASSUME TypeOK, [Next]_vars, NEW s \in Seq(Entries), InPlay(s)'
  PROVE  InPlay(s) \/ \E h \in Handlers : \E r : BeginSave(h, r) /\ s = r.copy
<1>1. ASSUME NEW h \in Handlers, NEW r, BeginSave(h, r) \/ BeginPanel(h, r)
      PROVE  InPlay(s) \/ (BeginSave(h, r) /\ s = r.copy)
  <2>1. /\ index' = index /\ req' = [req EXCEPT ![h] = r]
        /\ OnPanels(r) \/ BeginSave(h, r)
    BY <1>1 DEF BeginSave, BeginPanel, files
  <2>2. OnPanels(r) => ~Holds(r)
    BY DEF OnPanels, Holds, Saves, Posts, Removes
  <2> QED BY <2>1, <2>2, Went DEF InPlay
<1>2. ASSUME NEW h \in Handlers, NEW r, req' = [req EXCEPT ![h] = r],
             Holds(r) => Holds(req[h]) /\ r.copy = req[h].copy,
             s = index' => InPlay(s)
      PROVE  InPlay(s)
  BY <1>2, Went DEF InPlay
<1>3. s # Empty /\ s # Broken
  BY FileAssumption DEF Entries
<1>4. ASSUME NEW h \in Handlers, Moves(h) PROVE InPlay(s)
  <2>1. /\ s = index' => InPlay(s)
        /\ \E at : /\ Goto(h, at) /\ req[h] # Idle
                   /\ \/ Holds(req[h]) /\ at \in {"truncate", "write", "reply"}
                      \/ OnPanels(req[h]) /\ at = "reply"
    <3>1. CASE RemoveDir(h)
      BY <3>1, AtSave DEF RemoveDir, InPlay
    <3>2. CASE RemoveDirFails(h)
      BY <1>3, <3>2, AtSave, PartlyIs DEF RemoveDirFails, InPlay
    <3>3. CASE Truncate(h)
      BY <1>3, <3>3, AtSave DEF Truncate
    <3>4. CASE Write(h)
      BY <1>3, <3>4, AtSave DEF Write, Written, InPlay
    <3>5. CASE SavePanel(h)
      BY <3>5, AtSave DEF SavePanel, InPlay, OnPanels
    <3>6. CASE RemovePanel(h)
      BY <3>6, AtSave DEF RemovePanel, InPlay, OnPanels
    <3> QED BY <1>4, <3>1, <3>2, <3>3, <3>4, <3>5, <3>6 DEF Moves
  <2>2. PICK at : /\ Goto(h, at) /\ req[h] # Idle
                  /\ \/ Holds(req[h]) /\ at \in {"truncate", "write", "reply"}
                     \/ OnPanels(req[h]) /\ at = "reply"
    BY <2>1
  <2>3. req[h] \in Saves \/ at = "reply"
    BY <2>2 DEF Holds
  <2>4. /\ req' = [req EXCEPT ![h] = req'[h]] /\ req'[h].at = at
        /\ req[h] \in Saves => req'[h].copy = req[h].copy
    BY <2>2, <2>3, GoesOn
  <2>5. Holds(req'[h]) => Holds(req[h]) /\ req'[h].copy = req[h].copy
    BY <2>2, <2>4 DEF Holds
  <2> QED BY <1>2, <2>1, <2>4, <2>5
<1>5. ASSUME NEW h \in Handlers, Reply(h) \/ SaveFails(h) PROVE InPlay(s)
  <2>1. req' = [req EXCEPT ![h] = Idle] /\ index' \in {index, Broken}
    BY <1>5, PartlyIs DEF Reply, SaveFails, files
  <2> QED BY <1>2, <1>3, <2>1, AtSave DEF InPlay
<1>6. CASE Restart
  <2>1. index' \in {index, Broken} /\ \A h \in Handlers : req'[h] = Idle
    BY <1>6, PartlyIs DEF Restart
  <2>2. ~Holds(Idle)
    BY DEF Idle, Holds, Saves
  <2> QED BY <1>3, <2>1, <2>2 DEF InPlay
<1>7. CASE UNCHANGED vars
  BY <1>7 DEF vars, InPlay
<1> QED BY <1>1, <1>4, <1>5, <1>6, <1>7, Steps

(* Ids are only ever added to those returned. *)
LEMMA UsedGrows == TypeOK /\ [Next]_vars => used \subseteq used'
<1> SUFFICES ASSUME TypeOK, [Next]_vars PROVE used \subseteq used'
  OBVIOUS
<1> QED BY Steps DEF BeginSave, BeginPanel, Moves, RemoveDir, RemoveDirFails, Truncate, Write,
                     SavePanel, RemovePanel, Reply, SaveFails, Restart, vars

(* A list that comes into play lists what the index lists, and an id that  *)
(* was never returned before.                                              *)
LEMMA NewList ==
  ASSUME TypeOK, IdsInv, NEW h \in Handlers, NEW r, BeginSave(h, r)
  PROVE  /\ Unique(r.copy) /\ IdsOf(r.copy) \subseteq used'
         /\ InPlay(index) /\ IdsOf(r.copy) \cap used \subseteq IdsOf(index)
<1>1. /\ r \in Saves /\ index \in Seq(Entries) /\ r.copy = Changed(index, r)
      /\ r.change = "create" => r.id \notin used /\ r.id \in used'
      /\ r.change # "create" => r.id \in IdsOf(index)
      /\ used \subseteq used'
  BY DEF BeginSave
<1>2. InPlay(index) /\ Unique(index) /\ IdsOf(index) \subseteq used
  BY <1>1 DEF InPlay, IdsInv
<1> QED BY <1>1, <1>2, ChangedIs

(* The step of the invariant of ids, and what it says of gone ids. *)
LEMMA StepIds ==
  ASSUME TypeOK, IdsInv, [Next]_vars
  PROVE  /\ IdsInv'
         /\ \A s \in Seq(Entries) : InPlay(s)' =>
              \E t \in Seq(Entries) : InPlay(t) /\ IdsOf(s) \cap used \subseteq IdsOf(t)
<1> SUFFICES ASSUME NEW s \in Seq(Entries), InPlay(s)'
             PROVE  /\ Unique(s) /\ IdsOf(s) \subseteq used'
                    /\ \E t \in Seq(Entries) : InPlay(t) /\ IdsOf(s) \cap used \subseteq IdsOf(t)
  BY DEF IdsInv
<1>1. CASE InPlay(s)
  BY <1>1, UsedGrows DEF IdsInv
<1>2. ASSUME NEW h \in Handlers, NEW r, BeginSave(h, r), s = r.copy
      PROVE  /\ Unique(s) /\ IdsOf(s) \subseteq used'
             /\ \E t \in Seq(Entries) : InPlay(t) /\ IdsOf(s) \cap used \subseteq IdsOf(t)
  BY <1>2, NewList DEF BeginSave
<1> QED BY <1>1, <1>2, OldLists

HeldListed == \A i : i \in Held <=> \E s \in Seq(Entries) : InPlay(s) /\ i \in IdsOf(s)

(* The ids held are those of the lists in play. *)
LEMMA HeldIs == TypeOK => HeldListed
<1> SUFFICES ASSUME TypeOK PROVE HeldListed
  OBVIOUS
<1>1. ASSUME NEW i \in Held PROVE \E s \in Seq(Entries) : InPlay(s) /\ i \in IdsOf(s)
  <2>1. CASE i \in Listed
    BY <2>1, ParsedIndex DEF Listed, InPlay
  <2>2. CASE i \notin Listed
    <3>1. PICK h \in Handlers : req[h].at \in {"rmdir", "truncate", "write"}
                                /\ i \in IdsOf(req[h].copy)
      BY <1>1, <2>2 DEF Held
    <3>2. Holds(req[h]) /\ req[h].copy \in Seq(Entries)
      BY <3>1, AtSave DEF Holds, Saves
    <3> QED BY <3>1, <3>2 DEF InPlay
  <2> QED BY <2>1, <2>2
<1>2. ASSUME NEW i, NEW s \in Seq(Entries), InPlay(s), i \in IdsOf(s) PROVE i \in Held
  <2>1. CASE s = index
    BY <1>2, <2>1, ParsedIndex DEF Held, Listed
  <2>2. ASSUME NEW h \in Handlers, Holds(req[h]), s = req[h].copy PROVE i \in Held
    <3>1. req[h].at \in {"rmdir", "truncate", "write"}
      BY <2>2, AtSave
    <3> QED BY <1>2, <2>2, <3>1 DEF Held
  <2> QED BY <1>2, <2>1, <2>2 DEF InPlay
<1> QED BY <1>1, <1>2 DEF HeldListed

(* A list without repetitions is as long as the set of its ids. *)
LEMMA IdsCounted ==
  ASSUME NEW s \in Seq(Entries), Unique(s)
  PROVE  Cardinality(IdsOf(s)) = Len(s)
<1> DEFINE f == [k \in DOMAIN s |-> s[k].id]
<1>1. f \in Bijection(DOMAIN s, IdsOf(s))
  BY DEF Bijection, Injection, Surjection, IsInjective, IdsOf, Unique
<1>2. ExistsBijection(DOMAIN s, IdsOf(s))
  BY <1>1 DEF ExistsBijection
<1>3. Len(s) \in Nat /\ DOMAIN s = 1 .. Len(s)
  OBVIOUS
<1>4. IsFiniteSet(DOMAIN s) /\ Cardinality(DOMAIN s) = Len(s)
  BY <1>3, FS_Interval, SMTT(30)
<1> QED BY <1>2, <1>4, FS_Bijection

(* Whatever requests overlap, fail or are cut off, no id is listed twice,  *)
(* and one that is neither listed nor in a copy that some request holds    *)
(* never comes back: a deleted dashboard returns only with a request that  *)
(* had read the index before.                                              *)
THEOREM DeletedStaysGone == Spec => GoneForGood
<1> DEFINE Gone == /\ used \ Held \subseteq used' \ Held'
                   /\ Parses' => Cardinality(Listed') = Len(index')
<1>1. Init => TypeOK /\ IdsInv
  <2> SUFFICES ASSUME Init PROVE IdsInv
    BY InitType
  <2>1. /\ index = << >> /\ \A h \in Handlers : req[h] = Idle
        /\ Unique(<< >>) /\ IdsOf(<< >>) = {} /\ ~Holds(Idle)
    BY DEF Init, Unique, IdsOf, Idle, Holds, Saves
  <2> QED BY <2>1 DEF IdsInv, InPlay
<1>2. TypeOK /\ IdsInv /\ [Next]_vars => TypeOK' /\ IdsInv'
  BY StepType, StepIds
<1>3. TypeOK' => HeldListed'
  BY HeldIs, PTL
<1>4. TypeOK /\ IdsInv /\ [Next]_vars => Gone
  <2> SUFFICES ASSUME TypeOK, IdsInv, [Next]_vars PROVE Gone
    OBVIOUS
  <2>0. TypeOK' /\ IdsInv'
    BY <1>2
  <2>1. ASSUME NEW i \in used, i \in Held' PROVE i \in Held
    <3>1. \E s \in Seq(Entries) : InPlay(s)' /\ i \in IdsOf(s)
      BY <1>3, <2>0, <2>1 DEF HeldListed
    <3> QED BY <3>1, StepIds, HeldIs DEF HeldListed
  <2>2. ASSUME Parses' PROVE Cardinality(Listed') = Len(index')
    <3>1. index' \in Seq(Entries) /\ Listed' = IdsOf(index')
      BY <2>0, <2>2, FileAssumption DEF TypeOK, Parses, Entries, Listed
    <3>2. Unique(index')
      BY <2>0, <3>1 DEF IdsInv, InPlay
    <3> QED BY <3>1, <3>2, IdsCounted
  <2> QED BY <2>1, <2>2, UsedGrows
<1> QED BY <1>1, <1>2, <1>4, PTL DEF Spec, GoneForGood

-----------------------------------------------------------------------------
(* What a list shows of the panels. *)
LEMMA ShowsIs ==
  ASSUME NEW s, NEW f
  PROVE  LET g == Shown(s, f)
         IN  /\ IsFun(g)
             /\ DOMAIN g = {x \in DOMAIN f : x[1] \in IdsOf(s) /\ f[x] # Broken}
             /\ \A k \in DOMAIN g : g[k] = f[k]
BY DEF Shown, IsFun

LEMMA SameFun ==
  ASSUME NEW f, NEW g, IsFun(f), IsFun(g), DOMAIN f = DOMAIN g, \A k \in DOMAIN f : f[k] = g[k]
  PROVE  f = g
<1>1. [k \in DOMAIN f |-> f[k]] = [k \in DOMAIN g |-> g[k]]
  OBVIOUS
<1> QED BY <1>1 DEF IsFun

LEMMA DropIs ==
  ASSUME NEW f, NEW K
  PROVE  /\ IsFun(Drop(f, K)) /\ DOMAIN Drop(f, K) = DOMAIN f \ K
         /\ \A k \in DOMAIN f \ K : Drop(f, K)[k] = f[k]
BY DEF Drop, IsFun

(* What files removed, written and half written show. *)
LEMMA ShowsDropped ==
  ASSUME NEW s, NEW f, NEW K
  PROVE  Shown(s, Drop(f, K)) = Drop(Shown(s, f), K)
<1> DEFINE a == Shown(s, Drop(f, K))
           g == Shown(s, f)
           b == Drop(g, K)
<1>1. /\ IsFun(a) /\ \A k \in DOMAIN a : a[k] = f[k]
      /\ DOMAIN a = {x \in DOMAIN f \ K : x[1] \in IdsOf(s) /\ f[x] # Broken}
  BY DEF Shown, Drop, IsFun
<1>3. /\ DOMAIN g = {x \in DOMAIN f : x[1] \in IdsOf(s) /\ f[x] # Broken}
      /\ \A k \in DOMAIN g : g[k] = f[k]
  BY ShowsIs
<1> HIDE DEF g
<1>2. IsFun(b) /\ DOMAIN b = DOMAIN g \ K /\ \A k \in DOMAIN b : b[k] = g[k]
  BY DEF Drop, IsFun
<1> HIDE DEF a, b
<1>4. DOMAIN a = DOMAIN b /\ \A k \in DOMAIN a : a[k] = b[k]
  BY <1>1, <1>2, <1>3
<1>5. a = b
  BY <1>1, <1>2, <1>4, SameFun
<1> QED BY <1>5 DEF a, b, g

LEMMA ShowsWritten ==
  ASSUME NEW s, NEW f, NEW k, NEW v, v # Broken
  PROVE  Shown(s, With(f, k, v)) = IF k[1] \in IdsOf(s) THEN With(Shown(s, f), k, v)
                                                        ELSE Shown(s, Drop(f, {k}))
<1> DEFINE a == Shown(s, With(f, k, v))
           b == With(Shown(s, f), k, v)
           c == Shown(s, Drop(f, {k}))
<1>1. /\ IsFun(a) /\ \A x \in DOMAIN a : a[x] = With(f, k, v)[x]
      /\ DOMAIN a = {x \in DOMAIN f \cup {k} : x[1] \in IdsOf(s) /\ With(f, k, v)[x] # Broken}
  BY DEF Shown, With, IsFun
<1>2. With(f, k, v)[k] = v /\ \A x \in DOMAIN f \ {k} : With(f, k, v)[x] = f[x]
  BY DEF With
<1>3. /\ DOMAIN Shown(s, f) = {x \in DOMAIN f : x[1] \in IdsOf(s) /\ f[x] # Broken}
      /\ \A x \in DOMAIN Shown(s, f) : Shown(s, f)[x] = f[x]
  BY ShowsIs
<1>4. /\ IsFun(b) /\ DOMAIN b = DOMAIN Shown(s, f) \cup {k} /\ b[k] = v
      /\ \A x \in DOMAIN Shown(s, f) \ {k} : b[x] = Shown(s, f)[x]
  BY DEF With, IsFun
<1>5. /\ IsFun(c) /\ \A x \in DOMAIN c : c[x] = f[x]
      /\ DOMAIN c = {x \in DOMAIN f \ {k} : x[1] \in IdsOf(s) /\ f[x] # Broken}
  BY DEF Shown, Drop, IsFun
<1> HIDE DEF a, b, c
<1>6. CASE k[1] \in IdsOf(s)
  <2>1. DOMAIN a = DOMAIN b /\ \A x \in DOMAIN a : a[x] = b[x]
    BY <1>1, <1>2, <1>3, <1>4, <1>6
  <2>2. a = b
    BY <1>1, <1>4, <2>1, SameFun
  <2> QED BY <1>6, <2>2 DEF a, b
<1>7. CASE k[1] \notin IdsOf(s)
  <2>1. DOMAIN a = DOMAIN c /\ \A x \in DOMAIN a : a[x] = c[x]
    BY <1>1, <1>2, <1>5, <1>7
  <2>2. a = c
    BY <1>1, <1>5, <2>1, SameFun
  <2> QED BY <1>7, <2>2 DEF a, c
<1> QED BY <1>6, <1>7

(* What is shown depends on the ids listed only: a dashboard that goes     *)
(* takes its panels, one without panels adds none.                         *)
LEMMA ShowsOfIds ==
  ASSUME NEW s, NEW t, NEW f, IdsOf(s) = IdsOf(t)
  PROVE  Shown(s, f) = Shown(t, f)
BY DEF Shown

LEMMA ShowsWithout ==
  ASSUME NEW s, NEW t, NEW f, NEW i, IdsOf(t) = IdsOf(s) \ {i}
  PROVE  Shown(t, f) = Drop(Shown(s, f), In(Shown(s, f), i))
<1> DEFINE a == Shown(t, f)
           g == Shown(s, f)
           b == Drop(g, In(g, i))
<1>1. /\ IsFun(a) /\ \A x \in DOMAIN a : a[x] = f[x]
      /\ DOMAIN a = {x \in DOMAIN f : x[1] \in IdsOf(t) /\ f[x] # Broken}
  BY ShowsIs
<1>2. /\ DOMAIN g = {x \in DOMAIN f : x[1] \in IdsOf(s) /\ f[x] # Broken}
      /\ \A x \in DOMAIN g : g[x] = f[x]
  BY ShowsIs
<1>3. /\ IsFun(b) /\ DOMAIN b = DOMAIN g \ In(g, i) /\ \A x \in DOMAIN b : b[x] = g[x]
  BY DropIs
<1> HIDE DEF a, b, g
<1>4. DOMAIN a = DOMAIN b /\ \A x \in DOMAIN a : a[x] = b[x]
  BY <1>1, <1>2, <1>3 DEF In
<1>5. a = b
  BY <1>1, <1>3, <1>4, SameFun
<1> QED BY <1>5 DEF a, b, g

LEMMA ShowsNew ==
  ASSUME NEW s, NEW t, NEW f, NEW i, IdsOf(t) = IdsOf(s) \cup {i}, In(f, i) = {}
  PROVE  Shown(t, f) = Shown(s, f)
<1>1. {x \in DOMAIN f : x[1] \in IdsOf(t) /\ f[x] # Broken}
      = {x \in DOMAIN f : x[1] \in IdsOf(s) /\ f[x] # Broken}
  BY DEF In
<1> QED BY <1>1 DEF Shown

(* A file that does not parse is shown as one that is not there. *)
LessIn(p, f, K) ==
  /\ \A x \in DOMAIN p : p[x] # Broken => x \in DOMAIN f \ K /\ p[x] = f[x]
  /\ \A x \in DOMAIN f \ K : x \in DOMAIN p /\ p[x] = f[x]

LEMMA ShowsParts ==
  ASSUME NEW s, NEW f, NEW p, NEW K, LessIn(p, f, K)
  PROVE  Shown(s, p) = Drop(Shown(s, f), K)
<1> DEFINE a == Shown(s, p)
           g == Shown(s, f)
           b == Drop(g, K)
<1>1. /\ IsFun(a) /\ \A x \in DOMAIN a : a[x] = p[x]
      /\ DOMAIN a = {x \in DOMAIN p : x[1] \in IdsOf(s) /\ p[x] # Broken}
  BY ShowsIs
<1>3. /\ DOMAIN g = {x \in DOMAIN f : x[1] \in IdsOf(s) /\ f[x] # Broken}
      /\ \A x \in DOMAIN g : g[x] = f[x]
  BY ShowsIs
<1> HIDE DEF a, g
<1>4. IsFun(b) /\ DOMAIN b = DOMAIN g \ K /\ \A x \in DOMAIN b : b[x] = g[x]
  BY DEF Drop, IsFun
<1> HIDE DEF b
<1>5. DOMAIN a = DOMAIN b /\ \A x \in DOMAIN a : a[x] = b[x]
  BY <1>1, <1>3, <1>4 DEF LessIn
<1>6. a = b
  BY <1>1, <1>4, <1>5, SameFun
<1> QED BY <1>6 DEF a, b, g

(* What is dropped but not there makes no difference. *)
LEMMA DropThere ==
  ASSUME NEW f, NEW K, NEW L, K \cap DOMAIN f = L \cap DOMAIN f
  PROVE  Drop(f, K) = Drop(f, L)
<1>1. DOMAIN f \ K = DOMAIN f \ L
  OBVIOUS
<1> QED BY <1>1 DEF Drop

LEMMA DropNone == ASSUME NEW f, IsFun(f) PROVE Drop(f, {}) = f
<1>1. DOMAIN f \ {} = DOMAIN f
  OBVIOUS
<1> QED BY <1>1 DEF Drop, IsFun

LEMMA DropTwice == ASSUME NEW f, NEW K, NEW L PROVE Drop(Drop(f, K), L) = Drop(f, K \cup L)
BY DEF Drop

-----------------------------------------------------------------------------
(* A list with what it shows of the panels. *)
IsView(o) ==
  o = [index |-> o.index, panels |-> o.panels] /\ o.index \in Seq(Entries) /\ IsFun(o.panels)
Fits(r, o) == r.change \in {"rename", "delete"} => r.id \in IdsOf(o.index)

(* A changed list is one. *)
LEMMA ChangedSeq ==
  ASSUME NEW s \in Seq(Entries), NEW r \in Saves,
         r.change \in {"rename", "delete"} => r.id \in IdsOf(s)
  PROVE  Changed(s, r) \in Seq(Entries)
<1>1. r.change # "create" => r.id \in IdsOf(s)
  BY DEF Saves
<1> QED BY <1>1, ChangedIs

(* What a change makes of one. *)
LEMMA MadeIs ==
  ASSUME NEW o, IsView(o), NEW r, r \in Saves \/ OnPanels(r), Fits(r, o)
  PROVE  /\ IsView(Made(o, r))
         /\ r \in Saves => /\ Made(o, r).index = Changed(o.index, r)
                           /\ Made(o, r).panels = IF r.change = "delete"
                                THEN Drop(o.panels, In(o.panels, r.id)) ELSE o.panels
         /\ OnPanels(r) => Made(o, r).index = o.index
         /\ r \in Posts => Made(o, r).panels = IF r.key[1] \in IdsOf(o.index)
                             THEN With(o.panels, r.key, r.config) ELSE o.panels
         /\ r \in Removes => Made(o, r).panels = Drop(o.panels, {r.key})
<1>0. IsFun(Drop(o.panels, In(o.panels, r.id))) /\ IsFun(Drop(o.panels, {r.key}))
      /\ IsFun(With(o.panels, r.key, r.config))
  BY DEF Drop, With, IsFun
<1>1. CASE r \in Saves
  <2>1. Changed(o.index, r) \in Seq(Entries)
    BY <1>1, ChangedSeq DEF IsView, Fits, Saves
  <2>2. r.change \in {"create", "rename", "delete"}
    BY <1>1 DEF Saves
  <2>3. Made(o, r) = [index |-> Changed(o.index, r),
                      panels |-> IF r.change = "delete"
                                 THEN Drop(o.panels, In(o.panels, r.id)) ELSE o.panels]
    BY <2>2 DEF Made, Changed, IsView
  <2>4. ~OnPanels(r) /\ r \notin Posts /\ r \notin Removes
    BY <2>2 DEF OnPanels, Posts, Removes
  <2> QED BY <1>0, <2>1, <2>3, <2>4, <1>1 DEF IsView
<1>2. CASE r \in Posts
  <2>1. r.change = "post" /\ r \notin Removes /\ r \notin Saves
    BY <1>2 DEF Posts, Removes, Saves
  <2>2. Made(o, r) = [index |-> o.index,
                      panels |-> IF r.key[1] \in IdsOf(o.index)
                                 THEN With(o.panels, r.key, r.config) ELSE o.panels]
    BY <2>1 DEF Made, IsView
  <2> QED BY <1>0, <2>1, <2>2 DEF IsView
<1>3. CASE r \in Removes
  <2>1. r.change = "remove" /\ r \notin Posts /\ r \notin Saves
    BY <1>3 DEF Posts, Removes, Saves
  <2>2. Made(o, r) = [index |-> o.index, panels |-> Drop(o.panels, {r.key})]
    BY <2>1 DEF Made, IsView
  <2> QED BY <1>0, <2>1, <2>2 DEF IsView
<1> QED BY <1>1, <1>2, <1>3 DEF OnPanels

LEMMA PostIs ==
  ASSUME NEW o, IsView(o), NEW r \in Posts
  PROVE  Made(o, r).panels = IF r.key[1] \in IdsOf(o.index)
                             THEN With(o.panels, r.key, r.config) ELSE o.panels
<1>1. OnPanels(r) /\ Fits(r, o)
  BY DEF OnPanels, Fits, Posts
<1> QED BY <1>1, MadeIs

LEMMA RemoveIs ==
  ASSUME NEW o, IsView(o), NEW r \in Removes
  PROVE  Made(o, r).panels = Drop(o.panels, {r.key})
<1>1. OnPanels(r) /\ Fits(r, o)
  BY DEF OnPanels, Fits, Removes
<1> QED BY <1>1, MadeIs

-----------------------------------------------------------------------------
(* How much of the directory a delete may have removed so far. *)
Started(r, o) == IF r.change = "delete" /\ r.at # "rmdir" THEN In(o.panels, r.id) ELSE {}
Halfway(r, o) == \E K \in SUBSET Started(r, o) : Shown(o.index, panels) = Drop(o.panels, K)
NoOrphans(s) == \A k \in DOMAIN panels : k[1] \in IdsOf(s) \/ k \in stray

(* The request r is served alone, and the list was o when it began. *)
Serving(r, o) ==
  /\ o \in outcomes /\ Fits(r, o) /\ (r.at = "rmdir" => r.change = "delete")
  /\ r.at = "reply" => index \in Seq(Entries) /\ ListDashboards = Made(o, r)
  /\ r.at # "reply" =>
       /\ index = IF r.at = "write" THEN Empty ELSE o.index
       /\ Halfway(r, o)
       /\ r \in Saves => r.copy = Changed(o.index, r)
       /\ r.change = "create" => In(panels, r.id) = {}
       /\ r.change = "delete" /\ r.at # "rmdir" => In(panels, r.id) \subseteq stray
       /\ NoOrphans(o.index)

(* What holds while no two changes overlap: one request at most is served; *)
(* between two the list is one of the outcomes, during one it is on its    *)
(* way from one of them to what the change makes of it; and no panel has   *)
(* lost its dashboard, nor is one there before its dashboard is.           *)
AllIdle == \A h \in Handlers : req[h] = Idle
AloneInv ==
  alone =>
    /\ \A h, o \in Handlers : req[h] # Idle /\ req[o] # Idle => h = o
    /\ \A o \in outcomes : IsView(o)
    /\ AllIdle => ListDashboards \in outcomes
    /\ \A h \in Handlers : req[h] # Idle => \E o : Serving(req[h], o)
    /\ index \in Seq(Entries) => NoOrphans(index)
    /\ \A k \in DOMAIN panels : k[1] \in used
    /\ \A h \in Handlers : req[h] \in Posts => req[h].key[1] \in used

(* A request that is served alone: the others are idle. *)
LEMMA Others ==
  ASSUME TypeOK, AloneInv, alone, NEW h \in Handlers, req[h] # Idle
  PROVE  /\ \A o \in Handlers \ {h} : req[o] = Idle
         /\ \A at : at # "idle" /\ req[h].at # at => AtStep(Handlers, at) = {}
         /\ \A at : at # "idle" => AtStep(Handlers, at) \subseteq {h}
         /\ \E o : Serving(req[h], o) /\ IsView(o)
<1>1. \A o \in Handlers \ {h} : req[o] = Idle
  BY DEF AloneInv
<1> QED BY <1>1 DEF AloneInv, AtStep, Idle, Serving

(* One request is left, in state r. *)
LEMMA Settles ==
  ASSUME TypeOK, NEW h \in Handlers, NEW r, req' = [req EXCEPT ![h] = r],
         \A o \in Handlers \ {h} : req[o] = Idle
  PROVE  /\ \A o \in Handlers \ {h} : req'[o] = Idle
         /\ req'[h] = r
         /\ \A g, o \in Handlers : req'[g] # Idle /\ req'[o] # Idle => g = o
         /\ AllIdle' <=> r = Idle
         /\ r \notin Posts => \A o \in Handlers : req'[o] \notin Posts
<1>1. req'[h] = r /\ \A o \in Handlers \ {h} : req'[o] = Idle
  BY Went
<1>2. Idle \notin Posts
  BY DEF Idle, Posts
<1> QED BY <1>1, <1>2 DEF AllIdle

(* A request begins alone. *)
LEMMA AloneBegins ==
  ASSUME TypeOK, AloneInv, NEW h \in Handlers, NEW r, BeginSave(h, r) \/ BeginPanel(h, r)
  PROVE  AloneInv'
<1> SUFFICES ASSUME alone' PROVE AloneInv'
  BY DEF AloneInv
<1>1. /\ req' = [req EXCEPT ![h] = r] /\ req[h] = Idle /\ alone
      /\ \A o \in Handlers \ {h} : req[o] = Idle
      /\ UNCHANGED <<index, panels, outcomes, stray>> /\ used \subseteq used'
  BY DEF BeginSave, BeginPanel, Overlap, files
<1>2. AllIdle
  BY <1>1 DEF AllIdle
<1>3. PICK o \in outcomes : IsView(o) /\ o.index = index /\ o.panels = Shown(index, panels)
  BY <1>1, <1>2 DEF AloneInv, ListDashboards
<1>4. /\ index \in Seq(Entries) /\ NoOrphans(index)
      /\ \A k \in DOMAIN panels : k[1] \in used
  BY <1>1, <1>3 DEF AloneInv, IsView
<1>5. /\ r.at \notin {"reply", "write"} /\ Fits(r, o)
      /\ r \in Saves => r.copy = Changed(index, r)
      /\ r.change = "create" => r.id \notin used
      /\ r.change = "delete" <=> r.at = "rmdir"
      /\ r # Idle /\ (r \in Posts => r.key[1] \in used)
  <2>1. CASE BeginSave(h, r)
    BY <2>1, <1>3 DEF BeginSave, Fits, Saves, Posts, Idle
  <2>2. CASE BeginPanel(h, r)
    BY <2>2, <1>4 DEF BeginPanel, OnPanels, Posts, Removes, Saves, Fits, Idle
  <2> QED BY <2>1, <2>2
<1>6. Started(r, o) = {} /\ Shown(o.index, panels) = Drop(o.panels, {})
  <2>1. IsFun(o.panels)
    BY <1>3 DEF IsView
  <2>2. Drop(o.panels, {}) = o.panels
    BY <2>1, DropNone
  <2> QED BY <1>3, <1>5, <2>2 DEF Started
<1>7. r.change = "create" => In(panels, r.id) = {}
  BY <1>4, <1>5 DEF In
<1>8. Serving(r, o)
  BY <1>3, <1>4, <1>5, <1>6, <1>7 DEF Serving, Halfway
<1>9. Serving(r, o)'
  <2>1. UNCHANGED <<index, panels, outcomes, stray>>
    BY <1>1
  <2> QED BY <1>5, <1>8, <2>1 DEF Serving, Halfway, NoOrphans
<1>10. /\ \A g, x \in Handlers : req'[g] # Idle /\ req'[x] # Idle => g = x
       /\ req'[h] = r /\ ~AllIdle' /\ \A x \in Handlers \ {h} : req'[x] = Idle
  BY <1>1, <1>5, Settles
<1>11. Idle \notin Posts
  BY DEF Idle, Posts
<1>12. \A x \in outcomes' : IsView(x)
  BY <1>1 DEF AloneInv
<1>13. (index \in Seq(Entries) => NoOrphans(index))' /\ \A k \in DOMAIN panels' : k[1] \in used'
  BY <1>1, <1>4 DEF NoOrphans
<1> QED BY <1>1, <1>5, <1>9, <1>10, <1>11, <1>12, <1>13 DEF AloneInv

(* What a step of the only request that is served may have done. *)
Parts(S, R) == [k \in (DOMAIN panels \ R) \cup S |-> IF k \in S THEN Broken ELSE panels[k]]
LEMMA PartlyOne ==
  ASSUME NEW H \in SUBSET Handlers, NEW h \in H, Partly(H),
         \A at : at # "idle" => AtStep(H, at) \subseteq {h}
  PROVE  /\ req[h].at # "write" => index' = index
         /\ \E S \in SUBSET (IF req[h].at = "savePanel" THEN {req[h].key} ELSE {}),
               R \in SUBSET (IF req[h].at = "rmdir" THEN In(panels, req[h].id) ELSE {}) :
              panels' = Parts(S, R)
<1>1. PICK S \in SUBSET {req[x].key : x \in AtStep(H, "savePanel")},
           R \in SUBSET UNION {In(panels, req[x].id) : x \in AtStep(H, "rmdir")} :
        panels' = Parts(S, R)
  BY DEF Partly, Parts
<1>2. /\ AtStep(H, "savePanel") \subseteq {h} /\ AtStep(H, "rmdir") \subseteq {h}
      /\ AtStep(H, "write") \subseteq {h}
      /\ \A at : h \in AtStep(H, at) => req[h].at = at
  BY DEF AtStep
<1>3. S \subseteq (IF req[h].at = "savePanel" THEN {req[h].key} ELSE {})
  BY <1>2
<1>4. R \subseteq (IF req[h].at = "rmdir" THEN In(panels, req[h].id) ELSE {})
  <2>1. \A k \in R : \E x \in AtStep(H, "rmdir") : k \in In(panels, req[x].id)
    OBVIOUS
  <2> QED BY <1>2, <2>1
<1>5. req[h].at # "write" => AtStep(H, "write") = {}
  BY <1>2
<1> QED BY <1>1, <1>3, <1>4, <1>5 DEF Partly

(* A request that goes on leaves it as it should be. *)
LEMMA AloneGoesOn ==
  ASSUME TypeOK, AloneInv, alone, NEW h \in Handlers, req[h] # Idle,
         NEW s, s # Idle, req' = [req EXCEPT ![h] = s], NEW o, Serving(s, o)',
         outcomes' = outcomes, used' = used, (index \in Seq(Entries) => NoOrphans(index))',
         \A k \in DOMAIN panels' : k \in DOMAIN panels \/ k[1] \in used,
         s \in Posts => s.key[1] \in used
  PROVE  AloneInv'
<1>1. \A x \in Handlers \ {h} : req[x] = Idle
  BY Others
<1>2. /\ \A g, x \in Handlers : req'[g] # Idle /\ req'[x] # Idle => g = x
      /\ ~AllIdle' /\ req'[h] = s /\ \A x \in Handlers \ {h} : req'[x] = Idle
  BY <1>1, Settles
<1>3. Idle \notin Posts
  BY DEF Idle, Posts
<1>4. /\ \A x \in outcomes' : IsView(x)
      /\ \A k \in DOMAIN panels' : k[1] \in used'
  BY DEF AloneInv
<1>5. \A x \in Handlers : req'[x] \in Posts => req'[x].key[1] \in used'
  BY <1>2, <1>3
<1>6. \A x \in Handlers : req'[x] # Idle => \E y : Serving(req[x], y)'
  BY <1>2
<1> QED BY <1>2, <1>4, <1>5, <1>6 DEF AloneInv

(* What is left of the directory belongs to no list once it is saved. *)
LEMMA AloneRemoves ==
  ASSUME TypeOK, AloneInv, alone, NEW h \in Handlers, RemoveDir(h) \/ RemoveDirFails(h)
  PROVE  AloneInv'
<1> DEFINE r == req[h]
<1>1. /\ r.at = "rmdir" /\ r # Idle /\ r \in Saves /\ Goto(h, "truncate")
      /\ outcomes' = outcomes /\ used' = used
  BY AtSave DEF RemoveDir, RemoveDirFails, Holds, history
<1>2. PICK o : Serving(r, o) /\ IsView(o)
  BY <1>1, Others
<1>3. PICK K \in SUBSET In(panels, r.id) :
        /\ index' = index /\ panels' = Drop(panels, K)
        /\ stray \subseteq stray' /\ In(panels', r.id) \subseteq stray'
  <2>1. CASE RemoveDir(h)
    <3>1. In(Drop(panels, In(panels, r.id)), r.id) = {}
      BY DEF In, Drop
    <3> QED BY <2>1, <3>1 DEF RemoveDir, history
  <2>2. CASE RemoveDirFails(h)
    <3>1. \A at : AtStep({h}, at) \subseteq {h}
      BY DEF AtStep
    <3>2. PICK S \in SUBSET {}, R \in SUBSET In(panels, r.id) :
            index' = index /\ panels' = Parts(S, R)
      BY <1>1, <2>2, <3>1, PartlyOne DEF RemoveDirFails
    <3>3. panels' = Drop(panels, R)
      BY <3>2 DEF Drop, Parts
    <3> QED BY <2>2, <3>2, <3>3 DEF RemoveDirFails
  <2> QED BY <2>1, <2>2
<1>4. PICK s :
             /\ req' = [req EXCEPT ![h] = s] /\ s.at = "truncate" /\ s \in Saves
             /\ s.copy = r.copy /\ s.id = r.id /\ s.name = r.name /\ s.change = r.change
  BY <1>1, GoesOn
<1>5. /\ o \in outcomes /\ Fits(r, o) /\ index = o.index /\ r.change = "delete"
      /\ r.copy = Changed(o.index, r) /\ NoOrphans(o.index)
      /\ \E L \in SUBSET {} : Shown(o.index, panels) = Drop(o.panels, L)
  BY <1>1, <1>2 DEF Serving, Halfway, Started
<1>6. Shown(o.index, panels) = o.panels
  <2>1. Shown(o.index, panels) = Drop(o.panels, {})
    BY <1>5
  <2> QED BY <1>2, <2>1, DropNone DEF IsView
<1> DEFINE L == K \cap DOMAIN o.panels
<1>7. Shown(o.index, panels') = Drop(o.panels, L)
  BY <1>3, <1>6, ShowsDropped, DropThere
<1>8. L \in SUBSET In(o.panels, s.id)
  BY <1>3, <1>4 DEF In
<1>9. Changed(o.index, s) = Changed(o.index, r) /\ Fits(s, o)
  BY <1>4, <1>5 DEF Changed, Fits
<1>10. DOMAIN panels' \subseteq DOMAIN panels
  BY <1>3 DEF Drop
<1> HIDE DEF L
<1>11. NoOrphans(o.index)'
  BY <1>3, <1>5, <1>10 DEF NoOrphans
<1>12. Halfway(s, o)'
  <2>1. Started(s, o) = In(o.panels, s.id)
    BY <1>4, <1>5 DEF Started
  <2>2. L \in SUBSET Started(s, o)
    BY <1>8, <2>1
  <2> QED BY <1>3, <1>5, <1>7, <2>2 DEF Halfway
<1>13. Serving(s, o)'
  BY <1>1, <1>3, <1>4, <1>5, <1>9, <1>11, <1>12 DEF Serving
<1>14. s # Idle /\ s \notin Posts
  BY <1>4 DEF Saves, Idle, Posts
<1>15. (index \in Seq(Entries) => NoOrphans(index))'
  BY <1>3, <1>5, <1>11 DEF NoOrphans
<1> QED BY <1>1, <1>4, <1>10, <1>13, <1>14, <1>15, AloneGoesOn

(* The index is emptied. *)
LEMMA AloneEmpties ==
  ASSUME TypeOK, AloneInv, alone, NEW h \in Handlers, Truncate(h)
  PROVE  AloneInv'
<1> DEFINE r == req[h]
<1>1. /\ r.at = "truncate" /\ r # Idle /\ r \in Saves /\ Goto(h, "write")
      /\ outcomes' = outcomes /\ used' = used /\ stray' = stray
      /\ panels' = panels /\ index' = Empty
  BY AtSave DEF Truncate, Holds, history
<1>2. PICK o : Serving(r, o) /\ IsView(o)
  BY <1>1, Others
<1>3. PICK s :
             /\ req' = [req EXCEPT ![h] = s] /\ s.at = "write" /\ s \in Saves
             /\ s.copy = r.copy /\ s.id = r.id /\ s.name = r.name /\ s.change = r.change
  BY <1>1, GoesOn
<1>4. Changed(o.index, s) = Changed(o.index, r) /\ Fits(s, o) /\ Started(s, o) = Started(r, o)
  BY <1>1, <1>2, <1>3 DEF Changed, Fits, Serving, Started
<1>5. Serving(s, o)'
  BY <1>1, <1>2, <1>3, <1>4 DEF Serving, Halfway, NoOrphans
<1>6. s # Idle /\ s \notin Posts
  BY <1>3 DEF Saves, Idle, Posts
<1>7. Empty \notin Seq(Entries)
  BY FileAssumption DEF Entries
<1>8. \A k \in DOMAIN panels' : k \in DOMAIN panels
  BY <1>1
<1> QED BY <1>1, <1>3, <1>5, <1>6, <1>7, <1>8, AloneGoesOn

(* The index is written: it is what the change makes of it. *)
LEMMA AloneWrites ==
  ASSUME TypeOK, AloneInv, alone, NEW h \in Handlers, Write(h)
  PROVE  AloneInv'
<1> DEFINE r == req[h]
<1>1. /\ r.at = "write" /\ r # Idle /\ r \in Saves /\ Goto(h, "reply")
      /\ outcomes' = outcomes /\ used' = used /\ stray' = stray
      /\ panels' = panels /\ index' \in Written(r.copy)
  BY AtSave DEF Write, Holds, history
<1>2. PICK o : Serving(r, o) /\ IsView(o)
  BY <1>1, Others
<1>3. PICK s :
             /\ req' = [req EXCEPT ![h] = s] /\ s.at = "reply" /\ s \in Saves
             /\ s.id = r.id /\ s.name = r.name /\ s.change = r.change
  BY <1>1, GoesOn
<1>4. /\ o \in outcomes /\ Fits(r, o) /\ index = Empty
      /\ r.copy = Changed(o.index, r) /\ NoOrphans(o.index)
      /\ r.change = "create" => In(panels, r.id) = {}
      /\ r.change = "delete" => In(panels, r.id) \subseteq stray
      /\ o.index \in Seq(Entries) /\ IsFun(o.panels)
  BY <1>1, <1>2 DEF Serving, IsView
<1>5. PICK K \in SUBSET Started(r, o) : Shown(o.index, panels) = Drop(o.panels, K)
  BY <1>1, <1>2 DEF Serving, Halfway
<1>6. index' = r.copy
  BY <1>1, <1>4 DEF Written
<1>7. /\ r.change \in {"create", "rename", "delete"}
      /\ r.change # "create" => r.id \in IdsOf(o.index)
      /\ r.copy \in Seq(Entries)
  BY <1>1, <1>4 DEF Fits, Saves
<1>8. IdsOf(r.copy) = CASE r.change = "create" -> IdsOf(o.index) \cup {r.id}
                         [] r.change = "rename" -> IdsOf(o.index)
                         [] OTHER -> IdsOf(o.index) \ {r.id}
  BY <1>1, <1>4, <1>7, ChangedIs
<1>9. Shown(r.copy, panels) = IF r.change = "delete" THEN Drop(o.panels, In(o.panels, r.id))
                                                     ELSE o.panels
  <2>1. CASE r.change # "delete"
    <3>1. Shown(o.index, panels) = o.panels
      BY <1>4, <1>5, <2>1, DropNone DEF Started
    <3>2. CASE r.change = "create"
      <4>1. IdsOf(r.copy) = IdsOf(o.index) \cup {r.id} /\ In(panels, r.id) = {}
        BY <1>4, <1>8, <3>2
      <4>2. Shown(r.copy, panels) = Shown(o.index, panels)
        BY <4>1, ShowsNew
      <4> QED BY <2>1, <3>1, <4>2
    <3>3. CASE r.change = "rename"
      <4>1. IdsOf(r.copy) = IdsOf(o.index)
        BY <1>8, <3>3
      <4> QED BY <2>1, <3>1, <4>1, ShowsOfIds
    <3> QED BY <1>7, <2>1, <3>2, <3>3
  <2>2. CASE r.change = "delete"
    <3> DEFINE g == Shown(o.index, panels)
    <3>1. IdsOf(r.copy) = IdsOf(o.index) \ {r.id}
      BY <1>8, <2>2
    <3>2. Shown(r.copy, panels) = Drop(g, In(g, r.id))
      BY <3>1, ShowsWithout
    <3>3. g = Drop(o.panels, K) /\ K \subseteq In(o.panels, r.id)
      BY <1>1, <1>5, <2>2 DEF Started
    <3>4. DOMAIN g = DOMAIN o.panels \ K
      BY <3>3 DEF Drop
    <3> HIDE DEF g
    <3>5. K \cup In(g, r.id) = In(o.panels, r.id)
      BY <3>3, <3>4 DEF In
    <3>6. Drop(g, In(g, r.id)) = Drop(o.panels, K \cup In(g, r.id))
      BY <3>3, DropTwice
    <3> QED BY <2>2, <3>2, <3>5, <3>6
  <2> QED BY <2>1, <2>2
<1>10. Changed(o.index, s) = Changed(o.index, r) /\ Fits(s, o)
  BY <1>3, <1>4 DEF Changed, Fits
<1>11. /\ IsView(Made(o, s)) /\ Made(o, s).index = Changed(o.index, s)
       /\ Made(o, s).panels = IF s.change = "delete"
                              THEN Drop(o.panels, In(o.panels, s.id)) ELSE o.panels
  BY <1>2, <1>3, <1>10, MadeIs
<1>12. Made(o, s) = [index |-> r.copy, panels |-> Shown(r.copy, panels)]
  BY <1>3, <1>4, <1>9, <1>10, <1>11 DEF IsView
<1>13. ListDashboards' = Made(o, s)
  BY <1>1, <1>6, <1>12 DEF ListDashboards
<1>14. \A k \in DOMAIN panels : k[1] \in IdsOf(r.copy) \/ k \in stray
  <2>1. r.change = "delete" => \A k \in DOMAIN panels : k[1] = r.id => k \in stray
    BY <1>4 DEF In
  <2> QED BY <1>4, <1>7, <1>8, <2>1 DEF NoOrphans
<1>15. Serving(s, o)'
  BY <1>1, <1>3, <1>4, <1>6, <1>7, <1>10, <1>13 DEF Serving
<1>16. s # Idle /\ s \notin Posts
  BY <1>3 DEF Saves, Idle, Posts
<1>17. (index \in Seq(Entries) => NoOrphans(index))'
  BY <1>1, <1>6, <1>14 DEF NoOrphans
<1>18. \A k \in DOMAIN panels' : k \in DOMAIN panels
  BY <1>1
<1> QED BY <1>1, <1>3, <1>15, <1>16, <1>17, <1>18, AloneGoesOn

(* A panel is saved, or removed. *)
LEMMA AlonePanel ==
  ASSUME TypeOK, AloneInv, alone, NEW h \in Handlers, SavePanel(h) \/ RemovePanel(h)
  PROVE  AloneInv'
<1> DEFINE r == req[h]
<1>1. /\ r.at \in {"savePanel", "removePanel"} /\ r # Idle /\ OnPanels(r) /\ r \notin Saves
      /\ Goto(h, "reply") /\ outcomes' = outcomes /\ used' = used /\ index' = index
      /\ SavePanel(h) => r \in Posts
      /\ RemovePanel(h) => r \in Removes
  BY AtSave DEF SavePanel, RemovePanel, OnPanels, Saves, history
<1>2. PICK o : Serving(r, o) /\ IsView(o)
  BY <1>1, Others
<1>3. PICK s :
             /\ req' = [req EXCEPT ![h] = s] /\ s.at = "reply" /\ s.change = r.change
             /\ r \in Posts => s \in Posts /\ s.key = r.key /\ s.config = r.config
             /\ r \in Removes => s \in Removes /\ s.key = r.key
  BY <1>1, GoesOn
<1>4. r.change \in {"post", "remove"}
  BY <1>1 DEF OnPanels, Posts, Removes
<1>5. /\ o \in outcomes /\ index = o.index /\ NoOrphans(index)
      /\ Started(r, o) = {} /\ Shown(index, panels) = o.panels /\ index \in Seq(Entries)
  <2>1. /\ o \in outcomes /\ index = o.index /\ NoOrphans(index) /\ Halfway(r, o)
        /\ index \in Seq(Entries)
    BY <1>1, <1>2 DEF Serving, IsView
  <2>2. Started(r, o) = {}
    BY <1>4 DEF Started
  <2>3. Shown(index, panels) = Drop(o.panels, {})
    BY <2>1, <2>2 DEF Halfway
  <2> QED BY <1>2, <2>1, <2>2, <2>3, DropNone DEF IsView
<1>6. OnPanels(s) /\ Fits(s, o) /\ s # Idle
  BY <1>1, <1>3, <1>4 DEF OnPanels, Fits, Posts, Removes, Idle
<1>7. Made(o, s).index = index /\ IsView(Made(o, s))
  BY <1>2, <1>5, <1>6, MadeIs
<1>8. /\ Made(o, s).panels = Shown(index, panels') /\ NoOrphans(index)'
      /\ \A k \in DOMAIN panels' : k \in DOMAIN panels \/ k[1] \in used
  <2>1. CASE SavePanel(h)
    <3>1. /\ r \in Posts /\ r.key[1] \in used /\ r.at = "savePanel"
          /\ panels' = With(panels, r.key, r.config) /\ stray' = stray \cup Strays({h})
      BY <1>1, <2>1 DEF SavePanel, AloneInv
    <3>2. r.config # Broken
      BY <3>1, ConfigAssumption DEF Posts, Configs
    <3>3. Made(o, s).panels = IF r.key[1] \in IdsOf(index)
                              THEN With(o.panels, r.key, r.config) ELSE o.panels
      <4>1. s \in Posts /\ s.key = r.key /\ s.config = r.config
        BY <1>3, <3>1
      <4> QED BY <1>2, <1>5, <4>1, PostIs
    <3>4. ASSUME r.key[1] \notin IdsOf(index) PROVE Shown(index, Drop(panels, {r.key})) = o.panels
      <4>1. r.key \notin DOMAIN Shown(index, panels)
        BY <3>4, ShowsIs
      <4>2. Drop(o.panels, {r.key}) = Drop(o.panels, {})
        BY <1>5, <4>1, DropThere
      <4> QED BY <1>2, <1>5, <4>2, ShowsDropped, DropNone DEF IsView
    <3>5. Made(o, s).panels = Shown(index, panels')
      <4>1. Shown(index, panels') = IF r.key[1] \in IdsOf(index)
                                    THEN With(Shown(index, panels), r.key, r.config)
                                    ELSE Shown(index, Drop(panels, {r.key}))
        <5> DEFINE k == r.key
                   v == r.config
        <5>1. v # Broken /\ panels' = With(panels, k, v) /\ index' = index
          BY <1>1, <3>1, <3>2
        <5> HIDE DEF k, v
        <5>2. Shown(index, With(panels, k, v)) = IF k[1] \in IdsOf(index)
                THEN With(Shown(index, panels), k, v) ELSE Shown(index, Drop(panels, {k}))
          BY <5>1, ShowsWritten
        <5>3. Shown(index, panels') = IF k[1] \in IdsOf(index)
                THEN With(Shown(index, panels), k, v) ELSE Shown(index, Drop(panels, {k}))
          BY <5>1, <5>2
        <5> QED BY <5>3 DEF k, v
      <4> QED BY <1>5, <3>3, <3>4, <4>1
    <3>6. DOMAIN panels' = DOMAIN panels \cup {r.key}
      BY <3>1 DEF With
    <3>7. r.key[1] \notin IdsOf(index) => r.key \in stray'
      BY <1>5, <3>1, ParsedIndex DEF Strays, Listed
    <3>8. NoOrphans(index)'
      BY <1>1, <1>5, <3>1, <3>6, <3>7 DEF NoOrphans
    <3> QED BY <3>1, <3>5, <3>6, <3>8
  <2>2. CASE RemovePanel(h)
    <3>1. r \in Removes /\ panels' = Drop(panels, {r.key}) /\ stray' = stray
      BY <1>1, <2>2 DEF RemovePanel, history
    <3>2. Made(o, s).panels = Drop(o.panels, {r.key})
      <4>1. s \in Removes /\ s.key = r.key
        BY <1>3, <3>1
      <4> QED BY <1>2, <4>1, RemoveIs
    <3>3. Made(o, s).panels = Shown(index, panels')
      BY <1>5, <3>1, <3>2, ShowsDropped
    <3>4. \A k \in DOMAIN panels' : k \in DOMAIN panels
      BY <3>1 DEF Drop
    <3>5. NoOrphans(index)'
      BY <1>1, <1>5, <3>1, <3>4 DEF NoOrphans
    <3> QED BY <3>3, <3>4, <3>5
  <2> QED BY <2>1, <2>2
<1>9. ListDashboards' = Made(o, s)
  BY <1>1, <1>7, <1>8 DEF ListDashboards, IsView
<1>10. Serving(s, o)'
  BY <1>1, <1>3, <1>5, <1>6, <1>9 DEF Serving
<1>11. s \in Posts => s.key[1] \in used
  <2>1. s \in Posts => r \in Posts /\ s.key = r.key
    BY <1>1, <1>3 DEF OnPanels, Posts, Removes
  <2> QED BY <2>1 DEF AloneInv
<1> QED BY <1>1, <1>3, <1>6, <1>8, <1>10, <1>11, AloneGoesOn

-----------------------------------------------------------------------------
(* Every outcome is a list. *)
LEMMA DoubtIs ==
  ASSUME NEW r, r \in Saves \/ OnPanels(r), \A o \in outcomes : IsView(o)
  PROVE  /\ \A x \in InDoubt(r) : IsView(x)
         /\ \A x \in Acknowledged(r) : IsView(x)
<1>1. \A x \in Acknowledged(r) : \E o \in outcomes : IsView(o) /\ Fits(r, o) /\ x = Made(o, r)
  BY DEF Acknowledged, Fits
<1>2. ASSUME NEW x \in Acknowledged(r) PROVE IsView(x)
  <2>1. PICK o \in outcomes : IsView(o) /\ Fits(r, o) /\ x = Made(o, r)
    BY <1>1
  <2>2. IsView(Made(o, r))
    BY <2>1, MadeIs
  <2> QED BY <2>1, <2>2
<1>3. ASSUME NEW o \in outcomes, NEW x \in CutOff(o, r) PROVE IsView(x)
  <2>1. PICK K : x = [o EXCEPT !.panels = Drop(@, K)]
    BY DEF CutOff
  <2>2. x = [index |-> o.index, panels |-> Drop(o.panels, K)] /\ o.index \in Seq(Entries)
    BY <2>1 DEF IsView
  <2>3. IsFun(Drop(o.panels, K))
    BY DropIs
  <2> QED BY <2>2, <2>3 DEF IsView
<1>4. \A x \in InDoubt(r) : x \in Acknowledged(r) \/ \E o \in outcomes : x \in CutOff(o, r)
  BY DEF InDoubt
<1> QED BY <1>2, <1>3, <1>4

(* No request is left. *)
LEMMA AloneEnds ==
  ASSUME TypeOK, AloneInv, alone, \A h \in Handlers : req'[h] = Idle,
         \A x \in outcomes' : IsView(x), ListDashboards' \in outcomes',
         (index \in Seq(Entries) => NoOrphans(index))', used' = used,
         \A k \in DOMAIN panels' : k \in DOMAIN panels \/ k[1] \in used
  PROVE  AloneInv'
<1>1. Idle \notin Posts
  BY DEF Idle, Posts
<1>2. \A k \in DOMAIN panels' : k[1] \in used'
  BY DEF AloneInv
<1> QED BY <1>1, <1>2 DEF AloneInv

(* A step that fails or is cut off has left one of the doubtful outcomes.  *)
LEMMA PartsShow ==
  ASSUME TypeOK, AloneInv, alone, NEW h \in Handlers, req[h] # Idle, req[h].at # "write",
         index' = index, Strays({h}) \subseteq stray', stray \subseteq stray',
         NEW S \in SUBSET (IF req[h].at = "savePanel" THEN {req[h].key} ELSE {}),
         NEW R \in SUBSET (IF req[h].at = "rmdir" THEN In(panels, req[h].id) ELSE {}),
         panels' = Parts(S, R)
  PROVE  /\ ListDashboards' \in InDoubt(req[h])
         /\ (index \in Seq(Entries) => NoOrphans(index))'
         /\ \A k \in DOMAIN panels' : k \in DOMAIN panels \/ k[1] \in used
<1> DEFINE r == req[h]
<1>1. PICK o : Serving(r, o) /\ IsView(o)
  BY Others
<1>2. r \in Saves \/ r \in Posts \/ r \in Removes
  BY AtSave DEF OnPanels
<1>3. DOMAIN panels' = (DOMAIN panels \ R) \cup S
  BY DEF Parts
<1>4. r.at = "savePanel" => r \in Posts /\ r.key[1] \in used
  BY AtSave DEF AloneInv
<1>5. r.at = "savePanel" /\ r.key[1] \notin Listed => r.key \in stray'
  BY DEF Strays
<1>6. index \in Seq(Entries) => Listed = IdsOf(index)
  BY ParsedIndex DEF Listed
<1>7. (index \in Seq(Entries) => NoOrphans(index))'
  <2>1. \A k \in S : index \in Seq(Entries) => k[1] \in IdsOf(index) \/ k \in stray'
    BY <1>5, <1>6
  <2> QED BY <1>3, <2>1 DEF AloneInv, NoOrphans
<1>8. \A k \in DOMAIN panels' : k \in DOMAIN panels \/ k[1] \in used
  BY <1>3, <1>4
<1>9. CASE r.at = "reply"
  <2>1. panels' = panels
    <3>1. S = {} /\ R = {}
      BY <1>9
    <3>2. Parts({}, {}) = panels
      <4>1. (DOMAIN panels \ {}) \cup {} = DOMAIN panels
        OBVIOUS
      <4> QED BY <4>1 DEF Parts, TypeOK, IsFun
    <3> QED BY <3>1, <3>2
  <2>2. ListDashboards' = Made(o, r) /\ o \in outcomes /\ Fits(r, o)
    BY <1>1, <1>9, <2>1 DEF ListDashboards, Serving
  <2>3. Made(o, r) \in Acknowledged(r)
    BY <2>2 DEF Acknowledged, Fits
  <2> QED BY <1>7, <1>8, <2>2, <2>3 DEF InDoubt
<1>10. CASE r.at # "reply"
  <2>1. /\ o \in outcomes /\ index = o.index /\ Halfway(r, o)
        /\ (r.at = "rmdir" => r.change = "delete")
    BY <1>1, <1>10 DEF Serving
  <2>2. PICK K \in SUBSET Started(r, o) : Shown(o.index, panels) = Drop(o.panels, K)
    BY <2>1 DEF Halfway
  <2>3. Shown(index, panels') = Drop(Shown(index, panels), R \cup S)
    <3>1. /\ DOMAIN panels' = (DOMAIN panels \ R) \cup S
          /\ \A x \in DOMAIN panels' : panels'[x] = IF x \in S THEN Broken ELSE panels[x]
      BY DEF Parts
    <3> DEFINE p == panels'
               L == R \cup S
    <3>2. LessIn(p, panels, L)
      BY <3>1 DEF LessIn
    <3> HIDE DEF p, L
    <3>3. Shown(index, p) = Drop(Shown(index, panels), L)
      BY <3>2, ShowsParts
    <3> QED BY <3>3 DEF p, L
  <2> DEFINE M == K \cup (R \cup S)
             N == M \cap DOMAIN o.panels
  <2>4. Shown(index, panels') = Drop(o.panels, M)
    BY <2>1, <2>2, <2>3, DropTwice
  <2>5. M \in SUBSET Touches(o, r) \/ N \in SUBSET Touches(o, r)
    <3>1. CASE r.change = "delete"
      <4>1. Touches(o, r) = In(o.panels, r.id) /\ r \in Saves
        BY <1>2, <3>1 DEF Touches, Posts, Removes
      <4>2. S = {} /\ R \subseteq In(panels, r.id) /\ K \subseteq In(o.panels, r.id)
        BY <2>2, <4>1, <3>1 DEF Saves, Started
      <4> QED BY <4>1, <4>2 DEF In
    <3>2. CASE r.change = "post"
      <4>1. Touches(o, r) = {r.key} /\ R = {} /\ K = {}
        BY <2>1, <2>2, <3>2 DEF Touches, Started
      <4> QED BY <4>1
    <3>3. CASE r.change \notin {"delete", "post"}
      <4>1. r.at # "savePanel"
        BY <1>4, <3>3 DEF Posts
      <4> QED BY <2>1, <2>2, <3>3, <4>1 DEF Started
    <3> QED BY <3>1, <3>2, <3>3
  <2>6. Drop(o.panels, M) = Drop(o.panels, N)
    <3> HIDE DEF M
    <3> QED BY DropThere
  <2>7. PICK L \in SUBSET Touches(o, r) : Shown(index, panels') = Drop(o.panels, L)
    BY <2>4, <2>5, <2>6
  <2>8. ListDashboards' = [o EXCEPT !.panels = Drop(@, L)]
    BY <1>1, <2>1, <2>7 DEF ListDashboards, IsView
  <2>9. ListDashboards' \in CutOff(o, r)
    BY <2>8 DEF CutOff
  <2> QED BY <1>7, <1>8, <2>1, <2>9 DEF InDoubt
<1> QED BY <1>9, <1>10

(* A request is answered, or fails. *)
LEMMA AloneAnswers ==
  ASSUME TypeOK, AloneInv, alone', NEW h \in Handlers, Reply(h) \/ SaveFails(h)
  PROVE  AloneInv'
<1> DEFINE r == req[h]
<1>1. alone /\ r # Idle /\ req' = [req EXCEPT ![h] = Idle] /\ used' = used
  BY AtSave DEF Reply, SaveFails
<1>2. r \in Saves \/ OnPanels(r)
  BY <1>1, AtSave
<1>3. \A o \in Handlers \ {h} : req[o] = Idle
  BY <1>1, Others
<1>4. \A o \in Handlers : req'[o] = Idle
  BY <1>1, <1>3, Settles
<1>5. \A x \in InDoubt(r) \cup Acknowledged(r) : IsView(x)
  BY <1>1, <1>2, DoubtIs DEF AloneInv
<1>6. CASE Reply(h)
  <2>1. PICK o : Serving(r, o) /\ IsView(o)
    BY <1>1, Others
  <2>2. /\ ListDashboards' = Made(o, r) /\ o \in outcomes /\ Fits(r, o)
        /\ outcomes' = Acknowledged(r) /\ panels' = panels
        /\ index' = index /\ stray' = stray
    BY <1>6, <2>1 DEF Reply, Serving, ListDashboards, files
  <2>3. Made(o, r) \in Acknowledged(r)
    BY <2>2 DEF Acknowledged, Fits
  <2>4. (index \in Seq(Entries) => NoOrphans(index))'
    BY <1>1, <2>2 DEF AloneInv, NoOrphans
  <2>5. \A k \in DOMAIN panels' : k \in DOMAIN panels
    BY <2>2
  <2> QED BY <1>1, <1>4, <1>5, <2>2, <2>3, <2>4, <2>5, AloneEnds
<1>7. CASE SaveFails(h)
  <2>1. /\ r.at # "write" /\ Partly({h}) /\ stray' = stray \cup Strays({h})
        /\ outcomes' = InDoubt(r)
    BY <1>7 DEF SaveFails
  <2>2. \A at : AtStep({h}, at) \subseteq {h}
    BY DEF AtStep
  <2>3. /\ index' = index
        /\ \E S \in SUBSET (IF r.at = "savePanel" THEN {r.key} ELSE {}),
              R \in SUBSET (IF r.at = "rmdir" THEN In(panels, r.id) ELSE {}) :
             panels' = Parts(S, R)
    BY <2>1, <2>2, PartlyOne
  <2>4. /\ ListDashboards' \in InDoubt(r)
        /\ (index \in Seq(Entries) => NoOrphans(index))'
        /\ \A k \in DOMAIN panels' : k \in DOMAIN panels \/ k[1] \in used
    BY <1>1, <2>1, <2>3, PartsShow
  <2> QED BY <1>1, <1>4, <1>5, <2>1, <2>4, AloneEnds
<1> QED BY <1>6, <1>7

(* The process ends. *)
LEMMA AloneRestarts ==
  ASSUME TypeOK, AloneInv, alone', Restart
  PROVE  AloneInv'
<1>1. /\ alone /\ AtStep(Handlers, "write") = {} /\ Partly(Handlers) /\ used' = used
      /\ stray' = stray \cup Strays(Handlers) /\ \A h \in Handlers : req'[h] = Idle
      /\ outcomes' = outcomes \cup UNION {InDoubt(req[h]) : h \in {x \in Handlers : req[x] # Idle}}
  BY DEF Restart
<1>2. \A x \in outcomes : IsView(x)
  BY <1>1 DEF AloneInv
<1>3. \A h \in Handlers : req[h] # Idle => \A x \in InDoubt(req[h]) : IsView(x)
  BY <1>2, AtSave, DoubtIs
<1>4. \A x \in outcomes' : IsView(x)
  <2>1. \A x \in outcomes' :
          x \in outcomes \/ \E h \in Handlers : req[h] # Idle /\ x \in InDoubt(req[h])
    BY <1>1
  <2> QED BY <1>2, <1>3, <2>1
<1>5. CASE AllIdle
  <2>1. \A at : at # "idle" => AtStep(Handlers, at) = {}
    BY <1>5, AtSave DEF AllIdle, AtStep
  <2>2. index' = index /\ panels' = Parts({}, {})
    <3>1. AtStep(Handlers, "savePanel") = {} /\ AtStep(Handlers, "rmdir") = {}
      BY <2>1
    <3> QED BY <1>1, <3>1 DEF Partly, Parts
  <2>3. panels' = panels
    <3>1. (DOMAIN panels \ {}) \cup {} = DOMAIN panels
      OBVIOUS
    <3> QED BY <2>2, <3>1 DEF Parts, TypeOK, IsFun
  <2>4. ListDashboards' \in outcomes'
    BY <1>1, <1>5, <2>2, <2>3 DEF AloneInv, ListDashboards
  <2>5. (index \in Seq(Entries) => NoOrphans(index))'
    BY <1>1, <2>2, <2>3 DEF AloneInv, NoOrphans
  <2>6. \A k \in DOMAIN panels' : k \in DOMAIN panels
    BY <2>3
  <2> QED BY <1>1, <1>4, <2>4, <2>5, <2>6, AloneEnds
<1>6. ASSUME NEW h \in Handlers, req[h] # Idle PROVE AloneInv'
  <2>1. /\ \A at : at # "idle" => AtStep(Handlers, at) \subseteq {h}
        /\ req[h].at # "write"
    BY <1>1, <1>6, Others DEF AtStep
  <2>2. /\ index' = index
        /\ \E S \in SUBSET (IF req[h].at = "savePanel" THEN {req[h].key} ELSE {}),
              R \in SUBSET (IF req[h].at = "rmdir" THEN In(panels, req[h].id) ELSE {}) :
             panels' = Parts(S, R)
    BY <1>1, <2>1, PartlyOne
  <2>3. Strays({h}) \subseteq stray' /\ stray \subseteq stray'
    BY <1>1 DEF Strays
  <2>4. /\ ListDashboards' \in InDoubt(req[h])
        /\ (index \in Seq(Entries) => NoOrphans(index))'
        /\ \A k \in DOMAIN panels' : k \in DOMAIN panels \/ k[1] \in used
    BY <1>1, <1>6, <2>1, <2>2, <2>3, PartsShow
  <2>5. ListDashboards' \in outcomes'
    BY <1>1, <1>6, <2>4
  <2> QED BY <1>1, <1>4, <2>4, <2>5, AloneEnds
<1> QED BY <1>5, <1>6 DEF AllIdle

(* Any step keeps it. *)
LEMMA StepAlone == TypeOK /\ AloneInv /\ [Next]_vars => AloneInv'
<1> SUFFICES ASSUME TypeOK, AloneInv, [Next]_vars, alone' PROVE AloneInv'
  BY DEF AloneInv
<1>1. ASSUME NEW h \in Handlers, Moves(h) PROVE AloneInv'
  <2>1. alone
    BY <1>1 DEF Moves, RemoveDir, RemoveDirFails, Truncate, Write, SavePanel, RemovePanel, Goto
  <2> QED BY <1>1, <2>1, AloneRemoves, AloneEmpties, AloneWrites, AlonePanel DEF Moves
<1>2. CASE UNCHANGED vars
  <2>1. UNCHANGED <<index, panels, outcomes, stray, req, alone, used>>
    BY <1>2 DEF vars
  <2>2. AllIdle' = AllIdle /\ ListDashboards' = ListDashboards
        /\ (\A s : NoOrphans(s)' = NoOrphans(s)) /\ (\A r, o : Serving(r, o)' = Serving(r, o))
    BY <2>1 DEF AllIdle, ListDashboards, NoOrphans, Serving, Halfway
  <2> QED BY <2>1, <2>2 DEF AloneInv
<1> QED BY <1>1, <1>2, AloneBegins, AloneAnswers, AloneRestarts, Steps

(* One request at a time: in every reachable state. *)
LEMMA AloneInvariance == Spec => [](TypeOK /\ AloneInv)
<1>1. Init => TypeOK /\ AloneInv
  <2> SUFFICES ASSUME Init PROVE AloneInv
    BY InitType
  <2>1. /\ index = << >> /\ panels = << >> /\ DOMAIN panels = {} /\ AllIdle
        /\ outcomes = {[index |-> << >>, panels |-> << >>]}
        /\ \A h \in Handlers : req[h] = Idle
    BY DEF Init, AllIdle
  <2>2. Idle \notin Posts /\ << >> \in Seq(Entries)
    BY DEF Idle, Posts
  <2>3. Shown(<< >>, << >>) = << >>
    <3>1. DOMAIN << >> = {} /\ IsFun(<< >>)
      BY DEF IsFun
    <3>2. IsFun(Shown(<< >>, << >>)) /\ DOMAIN Shown(<< >>, << >>) = {}
      BY <3>1 DEF Shown, IsFun
    <3> QED BY <3>1, <3>2, SameFun
  <2>4. ListDashboards \in outcomes /\ \A o \in outcomes : IsView(o)
    BY <2>1, <2>2, <2>3 DEF ListDashboards, IsView, IsFun
  <2> QED BY <2>1, <2>2, <2>4 DEF AloneInv, NoOrphans
<1>2. TypeOK /\ AloneInv /\ [Next]_vars => (TypeOK /\ AloneInv)'
  BY StepType, StepAlone
<1> QED BY <1>1, <1>2, PTL DEF Spec

(* As long as no two changes overlap, the list a client reads between two  *)
(* is one that the answers given allow: the acknowledged changes, in their *)
(* order, and of one that was not acknowledged all, nothing or the part    *)
(* that CutOff names, however many steps failed and wherever the process   *)
(* ended.                                                                  *)
THEOREM LoneChangesAreKept == Spec => []LoneChangesApply
<1>1. TypeOK /\ AloneInv => LoneChangesApply
  BY DEF AloneInv, LoneChangesApply, AllIdle
<1> QED BY <1>1, AloneInvariance, PTL

(* Under the same condition a panel's file without a listed dashboard is   *)
(* one that was posted to none or that RemoveAll reported it could not     *)
(* remove: a delete that is cut off at any step, even halfway through the  *)
(* directory, leaves no other behind.                                      *)
THEOREM NoPanelLeftBehind == Spec => []NoOrphanPanels
<1>1. TypeOK /\ AloneInv => NoOrphanPanels
  <2> SUFFICES ASSUME TypeOK, AloneInv, alone, \A h \in Handlers : req[h].at # "write",
                      NEW k \in DOMAIN panels
               PROVE  k[1] \in Listed \/ k \in stray
    BY DEF NoOrphanPanels
  <2>1. index \in Seq(Entries)
    <3>1. CASE AllIdle
      BY <3>1 DEF AloneInv, ListDashboards, IsView
    <3>2. ASSUME NEW h \in Handlers, req[h] # Idle PROVE index \in Seq(Entries)
      BY <3>2, Others DEF Serving, IsView
    <3> QED BY <3>1, <3>2 DEF AllIdle
  <2>2. Listed = IdsOf(index) /\ NoOrphans(index)
    BY <2>1, ParsedIndex DEF Listed, AloneInv
  <2> QED BY <2>2 DEF NoOrphans
<1> QED BY <1>1, AloneInvariance, PTL

-----------------------------------------------------------------------------
(* Metrics.  The rows any request becomes.                                 *)
Measured == UNION {{TranslateMetrics(r)[i] : i \in DOMAIN TranslateMetrics(r)} : r \in Requests}
Points == [at : Int, value : {r.value : r \in Measured}]

(* What the index has to hold of a row that a query shall find. *)
Indexed(r) ==
  /\ r.labels \in Under(known, r.name)
  /\ \A e \in LabelPairs(r) : e[2] \in Under(names, e[1])

(* The index knows every row of the calls that completed, and the rows     *)
(* have what they stored: since is what lies between the two lists.        *)
MetricsInv ==
  /\ rows \in Seq(Measured)
  /\ pending \in Seq(Seq(Measured))
  /\ \A r \in since : r \in Range(rows) /\ Indexed(r)

LEMMA MeasuredIs == \A r \in Measured : r.at \in Int /\ r.name # NoName
BY RequestsAssumption DEF Measured

(* Entering pairs leaves out none and removes nothing. *)
LEMMA EnteredIs ==
  ASSUME NEW f, NEW pairs, NEW k
  PROVE  Under(Entered(f, pairs), k) = Under(f, k) \cup {e[2] : e \in {x \in pairs : x[1] = k}}
BY DEF Under, Entered

LEMMA InitMetrics == MetricsInit => MetricsInv
BY DEF MetricsInit, MetricsInv

(* The rows of a request are stored whole or not at all. *)
LEMMA RowsAreKept == MetricsInv /\ (\E r \in Requests : IngestOTLP(r)) => MetricsInv'
<1> SUFFICES ASSUME MetricsInv, NEW r \in Requests, IngestOTLP(r) PROVE MetricsInv'
  OBVIOUS
<1> DEFINE ps == TranslateMetrics(r)
<1>1. ps \in Seq(Measured)
  <2>1. ps \in Seq({ps[i] : i \in DOMAIN ps})
    BY RequestsAssumption
  <2>2. {ps[i] : i \in DOMAIN ps} \subseteq Measured
    BY DEF Measured
  <2> HIDE DEF ps
  <2> QED BY <2>1, <2>2
<1>2. /\ \/ rows' = rows \o ps /\ pending' = Append(pending, ps)
         \/ UNCHANGED <<rows, pending>>
      /\ UNCHANGED <<known, names, since>>
  BY DEF IngestOTLP, InsertRows, indexes
<1> HIDE DEF ps
<1>3. rows' \in Seq(Measured) /\ pending' \in Seq(Seq(Measured)) /\ Range(rows) \subseteq Range(rows')
  <2>1. CASE UNCHANGED <<rows, pending>>
    BY <2>1 DEF MetricsInv
  <2>2. CASE rows' = rows \o ps /\ pending' = Append(pending, ps)
    <3>1. rows \in Seq(Measured) /\ pending \in Seq(Seq(Measured))
      BY DEF MetricsInv
    <3>2. rows \o ps \in Seq(Measured) /\ \A i \in DOMAIN rows : i \in DOMAIN (rows \o ps) /\ (rows \o ps)[i] = rows[i]
      BY <1>1, <3>1
    <3>3. Append(pending, ps) \in Seq(Seq(Measured))
      BY <1>1, <3>1
    <3> QED BY <2>2, <3>2, <3>3 DEF Range
  <2> QED BY <1>2, <2>1, <2>2
<1> QED BY <1>2, <1>3 DEF MetricsInv, Indexed, Under

(* A call that updates the index enters its rows and removes no others. *)
LEMMA RowsAreIndexed == MetricsInv /\ (\E i \in DOMAIN pending : IndexPoints(i)) => MetricsInv'
<1> SUFFICES ASSUME MetricsInv, NEW i \in DOMAIN pending, IndexPoints(i) PROVE MetricsInv'
  OBVIOUS
<1> DEFINE ps == pending[i]
           sets == LabelSets(ps)
           pairs == UNION {LabelPairs(p) : p \in Range(ps)}
<1>1. /\ known' = Entered(known, sets) /\ names' = Entered(names, pairs)
      /\ since' = since \cup (Range(ps) \cap Range(rows))
      /\ pending' = RemoveAt(pending, i) /\ rows' = rows
  BY DEF IndexPoints
<1>2. pending' \in Seq(Seq(Measured))
  <2>1. pending \in Seq(Seq(Measured)) /\ i \in 1 .. Len(pending) /\ Len(pending) \in Nat
    BY DEF MetricsInv
  <2>2. SubSeq(pending, 1, i - 1) \in Seq(Seq(Measured))
    BY <2>1, SubSeqProperties
  <2>3. SubSeq(pending, i + 1, Len(pending)) \in Seq(Seq(Measured))
    BY <2>1, SubSeqProperties
  <2> QED BY <1>1, <2>2, <2>3, ConcatProperties DEF RemoveAt
<1>3. \A m : Under(known, m) \subseteq Under(known', m)
  BY <1>1, EnteredIs
<1>4. \A l : Under(names, l) \subseteq Under(names', l)
  BY <1>1, EnteredIs
<1>5. ASSUME NEW r \in Range(ps) PROVE Indexed(r)'
  <2>1. r.labels \in Under(known', r.name)
    <3>1. <<r.name, r.labels>> \in sets
      BY <1>5 DEF LabelSets
    <3> DEFINE e == <<r.name, r.labels>>
    <3>2. e[1] = r.name /\ e[2] = r.labels /\ e \in sets
      BY <3>1
    <3> HIDE DEF e, sets
    <3> QED BY <1>1, <3>2, EnteredIs
  <2>2. ASSUME NEW e \in LabelPairs(r) PROVE e[2] \in Under(names', e[1])
    <3>1. e \in pairs
      BY <1>5
    <3> HIDE DEF pairs
    <3> QED BY <1>1, <3>1, EnteredIs
  <2> QED BY <2>1, <2>2 DEF Indexed, LabelPairs
<1>6. ASSUME NEW r \in since PROVE Indexed(r)'
  BY <1>3, <1>4 DEF MetricsInv, Indexed, LabelPairs
<1> HIDE DEF ps, sets, pairs
<1>7. \A r \in since' : r \in Range(rows') /\ Indexed(r)'
  BY <1>1, <1>5, <1>6 DEF MetricsInv
<1> QED BY <1>1, <1>2, <1>7 DEF MetricsInv

(* Retention keeps what is not older, and the end of the process forgets   *)
(* the calls that completed with their index.                              *)
LEMMA RowsExpire == MetricsInv /\ (\E t : Expire(t)) => MetricsInv'
<1> SUFFICES ASSUME MetricsInv, NEW t, Expire(t) PROVE MetricsInv'
  OBVIOUS
<1> DEFINE K == {i \in DOMAIN rows : rows[i].at >= t}
           p == Picked(rows, K)
<1>1. /\ rows' = p /\ since' = {r \in since : r.at >= t}
      /\ UNCHANGED <<known, names, pending>>
  BY DEF Expire, indexes
<1>2. rows \in Seq(Measured) /\ K \in SUBSET DOMAIN rows
  BY DEF MetricsInv
<1> HIDE DEF K
<1>3. p \in Seq(Measured) /\ \E h : Lists(h, rows, K, p)
  BY <1>2, PickedIs
<1>4. PICK h : Lists(h, rows, K, p)
  BY <1>3
<1> HIDE DEF p
<1>5. ASSUME NEW r \in since' PROVE r \in Range(rows')
  <2>1. PICK i \in DOMAIN rows : rows[i] = r
    BY <1>1, <1>5 DEF MetricsInv, Range
  <2>2. i \in K
    BY <1>1, <1>5, <2>1 DEF K
  <2>3. PICK k \in DOMAIN p : h[k] = i
    BY <1>4, <2>2 DEF Lists
  <2>4. p[k] = r
    BY <1>4, <2>1, <2>3 DEF Lists
  <2> QED BY <1>1, <2>3, <2>4 DEF Range
<1> QED BY <1>1, <1>3, <1>5 DEF MetricsInv, Indexed, Under

LEMMA RowsAfterReopen == MetricsInv /\ Reopen => MetricsInv'
<1> SUFFICES ASSUME MetricsInv, Reopen PROVE MetricsInv'
  OBVIOUS
<1>1. PICK n \in 0 .. Len(rows) : rows' = SubSeq(rows, 1, n)
  <2>1. \E n \in IF Persistent THEN 0 .. Len(rows) ELSE {0} : rows' = SubSeq(rows, 1, n)
    BY DEF Reopen
  <2>2. Len(rows) \in Nat
    BY DEF MetricsInv
  <2> QED BY <2>1, <2>2
<1>2. rows' \in Seq(Measured)
  <2>1. \A k \in 1 .. n : rows[k] \in Measured
    BY DEF MetricsInv
  <2> QED BY <1>1, <2>1, SubSeqProperties
<1>3. pending' = << >> /\ since' = {}
  BY DEF Reopen
<1> QED BY <1>2, <1>3 DEF MetricsInv

LEMMA MetricsInvariance == MetricsSpec => []MetricsInv
<1>1. MetricsInv /\ UNCHANGED metricVars => MetricsInv'
  BY DEF metricVars, MetricsInv, Indexed, Under
<1>2. MetricsInv /\ [MetricsNext]_metricVars => MetricsInv'
  BY <1>1, RowsAreKept, RowsAreIndexed, RowsExpire, RowsAfterReopen DEF MetricsNext
<1> QED BY <1>2, InitMetrics, PTL DEF MetricsSpec

-----------------------------------------------------------------------------
(* How many of the rows I come before row i. *)
Rank(I, i) == Cardinality({j \in I : Before(j, i)})

(* Rows of the same time keep the order of their arrival, so every row has *)
(* a place of its own, and every place is taken.                           *)
LEMMA RankIsPlace ==
  ASSUME MetricsInv, NEW I \in SUBSET DOMAIN rows
  PROVE  /\ IsFiniteSet(I)
         /\ \A i, j \in I : Rank(I, i) = Rank(I, j) => i = j
         /\ \A i \in I : Rank(I, i) + 1 \in 1 .. Cardinality(I)
         /\ \A k \in 1 .. Cardinality(I) : \E i \in I : Rank(I, i) = k - 1
<1>0. /\ Len(rows) \in Nat /\ DOMAIN rows = 1 .. Len(rows)
      /\ \A i \in I : rows[i].at \in Int /\ i \in Nat
  <2>1. rows \in Seq(Measured)
    BY DEF MetricsInv
  <2>2. \A i \in I : rows[i] \in Measured /\ i \in Nat
    BY <2>1
  <2> QED BY <2>1, <2>2, MeasuredIs
<1>1. IsFiniteSet(I)
  <2>1. IsFiniteSet(1 .. Len(rows))
    BY <1>0, FS_Interval
  <2> QED BY <1>0, <2>1, FS_Subset
<1> DEFINE P == [i \in I |-> {j \in I : Before(j, i)}]
<1>2. Precedes(P, I)
  BY <1>0 DEF Before, Precedes
<1>3. Ranked(P, I)
  BY <1>1, <1>2, PlacesAreTaken
<1>4. \A i \in I : Cardinality(P[i]) = Rank(I, i)
  BY DEF Rank
<1> HIDE DEF P
<1> QED BY <1>1, <1>3, <1>4 DEF Ranked

(* Select with labels finds every row of them in the range. *)
LEMMA SelectedIs ==
  ASSUME MetricsInv, NEW m, NEW labels, NEW from, NEW to,
         Matching(m, labels, from, to) # {}
  PROVE  \E s \in SelectWithLabels(m, labels, from, to) :
           /\ s = [labels |-> labels, points |-> s.points]
           /\ s.points \in Seq(Points)
           /\ \A i \in Matching(m, labels, from, to) :
                \E k \in DOMAIN s.points : s.points[k] = Point(rows[i])
<1> DEFINE I == Matching(m, labels, from, to)
           InPlace(k) == CHOOSE i \in I : Cardinality({j \in I : Before(j, i)}) = k - 1
           s == [labels |-> labels, points |-> [k \in 1 .. Cardinality(I) |-> Point(rows[InPlace(k)])]]
<1>1. s \in SelectWithLabels(m, labels, from, to)
  BY DEF SelectWithLabels
<1>2. I \in SUBSET DOMAIN rows
  BY DEF Matching
<1> HIDE DEF I
<1>3. /\ IsFiniteSet(I) /\ Cardinality(I) \in Nat
      /\ \A i, j \in I : Rank(I, i) = Rank(I, j) => i = j
      /\ \A i \in I : Rank(I, i) + 1 \in 1 .. Cardinality(I)
      /\ \A k \in 1 .. Cardinality(I) : \E i \in I : Rank(I, i) = k - 1
  BY <1>2, RankIsPlace, FS_CardinalityType
<1>4. \A k \in 1 .. Cardinality(I) : InPlace(k) \in I /\ Rank(I, InPlace(k)) = k - 1
  BY <1>3 DEF Rank
<1>5. \A i \in I : Rank(I, i) \in Nat
  <2> SUFFICES ASSUME NEW i \in I PROVE Rank(I, i) \in Nat
    OBVIOUS
  <2> DEFINE A == {j \in I : Before(j, i)}
  <2>1. A \in SUBSET I
    OBVIOUS
  <2> HIDE DEF A
  <2>2. Cardinality(A) \in Nat
    BY <1>3, <2>1, FS_Subset, FS_CardinalityType
  <2> QED BY <2>2 DEF A, Rank
<1> HIDE DEF InPlace
<1> DEFINE ps == [k \in 1 .. Cardinality(I) |-> Point(rows[InPlace(k)])]
<1>6. \A i \in I : Point(rows[i]) \in Points
  <2>1. \A i \in I : rows[i] \in Measured
    BY <1>2 DEF MetricsInv
  <2> QED BY <2>1, MeasuredIs DEF Points, Point
<1>7. ps \in Seq(Points)
  BY <1>3, <1>4, <1>6
<1>8. ASSUME NEW i \in I PROVE \E k \in DOMAIN ps : ps[k] = Point(rows[i])
  <2> DEFINE k == Rank(I, i) + 1
  <2>1. k \in 1 .. Cardinality(I) /\ k - 1 = Rank(I, i)
    BY <1>3, <1>5
  <2> HIDE DEF k
  <2>2. InPlace(k) = i
    BY <1>3, <1>4, <2>1
  <2> QED BY <2>1, <2>2
<1> QED
  <2>1. s = [labels |-> labels, points |-> s.points] /\ s.points = ps
    OBVIOUS
  <2> HIDE DEF s, ps
  <2> QED BY <1>1, <1>7, <1>8, <2>1 DEF I

(* A series that has every row since the start of a label set in a range.  *)
HasAll(s, m, labels, from, to) ==
  /\ s = [labels |-> labels, points |-> s.points]
  /\ s.points \in Seq(Points)
  /\ \A r \in since : r.name = m /\ r.labels = labels /\ r.at \in from .. to =>
       \E k \in DOMAIN s.points : s.points[k] = Point(r)

(* Without labels Select goes through every label set of the index. *)
LEMMA SelectFinds ==
  ASSUME MetricsInv, NEW r \in since, NEW from \in Int, NEW to \in Int, r.at \in from .. to
  PROVE  \E s \in Select(r.name, << >>, from, to) : HasAll(s, r.name, r.labels, from, to)
<1>1. \A x \in since : x \in Range(rows) /\ Indexed(x)
  BY DEF MetricsInv
<1>2. ASSUME NEW x \in since, x.name = r.name, x.labels = r.labels, x.at \in from .. to
      PROVE  \E i \in Matching(r.name, r.labels, from, to) : rows[i] = x
  <2>1. PICK i \in DOMAIN rows : rows[i] = x
    BY <1>1 DEF Range
  <2>2. i \in Matching(r.name, r.labels, from, to)
    BY <1>2, <2>1 DEF Matching
  <2> QED BY <2>1, <2>2
<1>3. Matching(r.name, r.labels, from, to) # {}
  BY <1>2
<1>4. PICK s \in SelectWithLabels(r.name, r.labels, from, to) :
        /\ s = [labels |-> r.labels, points |-> s.points]
        /\ s.points \in Seq(Points)
        /\ \A i \in Matching(r.name, r.labels, from, to) :
             \E k \in DOMAIN s.points : s.points[k] = Point(rows[i])
  BY <1>3, SelectedIs
<1>5. r.labels \in Under(known, r.name)
  BY <1>1 DEF Indexed
<1>6. s \in Select(r.name, << >>, from, to)
  BY <1>4, <1>5 DEF Select, Under
<1> QED BY <1>2, <1>4, <1>6 DEF HasAll

(* The nearest point to a time at which there is one has that time. *)
LEMMA NearestIsThere ==
  ASSUME NEW ps \in Seq(Points), NEW j \in DOMAIN ps
  PROVE  ClosestPoint(ps, ps[j].at).at = ps[j].at
<1> DEFINE t == ps[j].at
           far(i) == Distance(ps[i].at, t)
           N == {i \in DOMAIN ps : \A k \in DOMAIN ps : far(i) <= far(k)}
<1>1. \A i \in DOMAIN ps : ps[i].at \in Int /\ i \in Nat
  <2>1. \A i \in DOMAIN ps : ps[i] \in Points /\ i \in Nat
    OBVIOUS
  <2> QED BY <2>1 DEF Points
<1>2. far(j) = 0 /\ \A i \in DOMAIN ps : far(i) \in Nat /\ (far(i) = 0 => ps[i].at = t)
  BY <1>1 DEF Distance
<1>3. j \in N /\ N \in SUBSET Nat
  BY <1>1, <1>2
<1>4. Min(N) \in N
  <2> HIDE DEF N
  <2> QED BY <1>3, MinInSet
<1>5. ps[Min(N)].at = t
  <2> DEFINE i == Min(N)
  <2>1. i \in DOMAIN ps /\ far(i) <= far(j)
    BY <1>4
  <2> HIDE DEF i, far
  <2>2. ps[i].at = t
    BY <1>2, <2>1
  <2> QED BY <2>2 DEF i
<1> QED BY <1>5 DEF ClosestPoint, Nearest

(* What a query without rate and without an aggregation reads. *)
LEMMA PlainIs ==
  ASSUME NEW m, m # NoName, NEW from, NEW to
  PROVE  /\ SeriesOf(Plain(m), from, to) = Select(m, << >>, from, to)
         /\ Back(Plain(m)) = 0
<1> DEFINE q == Plain(m)
<1>1. /\ q.name = m /\ q.labels = << >> /\ q.func = NoName /\ q.window = 0 /\ q.agg = NoName
      /\ DOMAIN q = {"name", "labels", "func", "window", "unit", "agg", "by"}
  BY DEF Plain, ParseSingleExpr
<1> HIDE DEF q
<1>2. "num" \notin DOMAIN q
  BY <1>1
<1>3. SeriesOf(q, from, to) = Select(m, << >>, from, to)
  BY <1>1, <1>2 DEF SeriesOf, Computed
<1>4. Back(q) = 0
  BY <1>1 DEF Back
<1> QED BY <1>3, <1>4 DEF q

(* A row of a call that completed since the start is found, whatever label *)
(* sets came in what order, and at its time it is the answer; the label    *)
(* API offers its labels and values.                                       *)
THEOREM CompletedIsFound == MetricsSpec => []IndexedIsFound
<1>1. MetricsInv => IndexedIsFound
  <2> SUFFICES ASSUME MetricsInv, NEW r \in since
               PROVE  /\ \E s \in Select(r.name, << >>, r.at, r.at) :
                           s.labels = r.labels /\ Point(r) \in Range(s.points)
                      /\ \E s \in InstantQuery(Plain(r.name), r.at) :
                           s.labels = r.labels /\ s.point.at = r.at
                      /\ r.name \in LabelValues("__name__")
                      /\ \A l \in DOMAIN r.labels :
                           l \in LabelNames /\ r.labels[l] \in LabelValues(l)
    BY DEF IndexedIsFound
  <2>1. r \in Measured /\ Indexed(r)
    BY DEF MetricsInv, Range
  <2>2. r.at \in Int /\ r.name # NoName
    BY <2>1, MeasuredIs
  <2>3. \E s \in Select(r.name, << >>, r.at, r.at) :
          s.labels = r.labels /\ Point(r) \in Range(s.points)
    <3>1. PICK s \in Select(r.name, << >>, r.at, r.at) :
            HasAll(s, r.name, r.labels, r.at, r.at)
      BY <2>2, SelectFinds
    <3>2. \E k \in DOMAIN s.points : s.points[k] = Point(r)
      BY <2>2, <3>1 DEF HasAll
    <3>3. s.labels = r.labels
      BY <3>1 DEF HasAll
    <3> QED BY <3>2, <3>3 DEF Range
  <2>4. \E s \in InstantQuery(Plain(r.name), r.at) : s.labels = r.labels /\ s.point.at = r.at
    <3> DEFINE from == r.at - Window - Back(Plain(r.name))
               to == r.at + Ahead
    <3>1. from \in Int /\ to \in Int /\ r.at \in from .. to
      <4>1. Back(Plain(r.name)) = 0
        BY <2>2, PlainIs
      <4> DEFINE back == Back(Plain(r.name))
      <4> HIDE DEF back
      <4>2. back = 0
        BY <4>1 DEF back
      <4> QED BY <2>2, <4>2, ReachAssumption DEF back
    <3>2. SeriesOf(Plain(r.name), from, to) = Select(r.name, << >>, from, to)
      BY <2>2, PlainIs
    <3>3. \A s \in SeriesOf(Plain(r.name), from, to) : s.points # << >> =>
            [labels |-> s.labels, point |-> ClosestPoint(s.points, r.at)]
              \in InstantQuery(Plain(r.name), r.at)
      BY DEF InstantQuery
    <3> HIDE DEF from, to
    <3>4. PICK s \in Select(r.name, << >>, from, to) : HasAll(s, r.name, r.labels, from, to)
      BY <3>1, SelectFinds
    <3>5. PICK k \in DOMAIN s.points : s.points[k] = Point(r)
      BY <3>1, <3>4 DEF HasAll
    <3>6. ClosestPoint(s.points, r.at).at = r.at
      <4>1. s.points[k].at = r.at
        BY <3>5 DEF Point
      <4> QED BY <3>4, <4>1, NearestIsThere DEF HasAll
    <3>7. s.points # << >>
      BY <3>5
    <3> DEFINE answer == [labels |-> s.labels, point |-> ClosestPoint(s.points, r.at)]
    <3>8. answer \in InstantQuery(Plain(r.name), r.at)
      BY <3>2, <3>3, <3>7
    <3>9. answer.labels = r.labels /\ answer.point.at = r.at
      BY <3>4, <3>6 DEF HasAll
    <3> HIDE DEF answer
    <3> QED BY <3>8, <3>9
  <2>5. /\ r.name \in LabelValues("__name__")
        /\ \A l \in DOMAIN r.labels : l \in LabelNames /\ r.labels[l] \in LabelValues(l)
    <3>1. ASSUME NEW l, NEW v, <<l, v>> \in LabelPairs(r)
          PROVE  l \in DOMAIN names /\ v \in Under(names, l)
      <4>1. \A e \in LabelPairs(r) : e[2] \in Under(names, e[1])
        BY <2>1 DEF Indexed
      <4>2. v \in Under(names, l)
        BY <3>1, <4>1
      <4> QED BY <4>2 DEF Under
    <3>2. <<"__name__", r.name>> \in LabelPairs(r)
          /\ \A l \in DOMAIN r.labels : <<l, r.labels[l]>> \in LabelPairs(r)
      BY DEF LabelPairs
    <3> QED BY <3>1, <3>2 DEF LabelValues, LabelNames
  <2> QED BY <2>3, <2>4, <2>5
<1> QED BY <1>1, MetricsInvariance, PTL

(* A series with a point at a time. *)
HasTime(ps, t) == \E i \in DOMAIN ps : ps[i].at = t

(* rate and increase keep every point that has one a window before it. *)
LEMMA DeltaIs ==
  ASSUME NEW ps \in Seq(Points), NEW w \in Int, NEW perSecond, NEW t,
         HasTime(ps, t), HasTime(ps, t - w)
  PROVE  IsList(Delta(ps, w, perSecond)) /\ HasTime(Delta(ps, w, perSecond), t)
<1>0. PICK j \in DOMAIN ps, k \in DOMAIN ps : ps[j].at = t /\ ps[k].at = ps[j].at - w
  BY DEF HasTime
<1> DEFINE K == {i \in DOMAIN ps : References(ps, ps[i].at - w) # {}}
           there == Picked(ps, K)
           grown == Delta(ps, w, perSecond)
<1>1. ps[k].at \in Int /\ ps[j].at \in Int
  <2>1. ps[k] \in Points /\ ps[j] \in Points
    OBVIOUS
  <2> QED BY <2>1 DEF Points
<1>2. j \in K
  <2>1. Distance(ps[k].at, ps[j].at - w) = 0
    BY <1>0, <1>1 DEF Distance
  <2>2. k \in References(ps, ps[j].at - w)
    BY <2>1, ReachAssumption DEF References
  <2> QED BY <2>2
<1>3. K \in SUBSET DOMAIN ps
  OBVIOUS
<1> HIDE DEF K
<1>4. there \in Seq(Points) /\ \E h : Lists(h, ps, K, there)
  BY <1>3, PickedIs
<1>5. DOMAIN grown = DOMAIN there /\ \A i \in DOMAIN there : grown[i].at = there[i].at
  BY DEF Delta, K
<1>6. \E i \in DOMAIN there : there[i] = ps[j]
  BY <1>2, <1>4 DEF Lists
<1>7. grown \in [DOMAIN there -> {grown[i] : i \in DOMAIN there}]
  <2>1. grown = [i \in DOMAIN there |-> grown[i]]
    BY DEF Delta, K
  <2> HIDE DEF grown
  <2> QED BY <2>1
<1> HIDE DEF there, grown
<1>8. grown \in Seq({grown[i] : i \in DOMAIN grown})
  <2>1. Len(there) \in Nat /\ DOMAIN there = 1 .. Len(there)
    BY <1>4
  <2> QED BY <1>5, <1>7, <2>1
<1>9. \E i \in DOMAIN grown : grown[i].at = t
  BY <1>0, <1>5, <1>6
<1> QED BY <1>8, <1>9 DEF grown, IsList, HasTime

(* A step near one of the points has a value. *)
LEMMA DownsampleIs ==
  ASSUME NEW ps, IsList(ps), NEW at, HasTime(ps, at),
         NEW from \in Int, NEW to \in Int, NEW step \in Nat \ {0},
         NEW k \in 0 .. (to - from) \div step,
         Distance(at, from + k * step) <= step \div 2
  PROVE  HasTime(Downsample(ps, from, to, step), from + k * step)
<1>0. PICK j \in DOMAIN ps : ps[j].at = at
  BY DEF HasTime
<1> DEFINE S == {ps[i] : i \in DOMAIN ps}
<1>00. ps \in Seq(S)
  BY DEF IsList
<1> HIDE DEF S
<1> DEFINE I(t) == {i \in DOMAIN ps : Distance(ps[i].at, t) <= step \div 2}
           Around(t) == Values(Picked(ps, I(t)))
           last == (to - from) \div step
           grid == [n \in 1 .. last + 1 |-> from + (n - 1) * step]
           K == {n \in DOMAIN grid : Around(grid[n]) # << >>}
           shown == Picked(grid, K)
           down == Downsample(ps, from, to, step)
<1>1. DOMAIN down = DOMAIN shown /\ \A i \in DOMAIN shown : down[i].at = shown[i]
  BY DEF Downsample
<1> DEFINE t == from + k * step
<1>2. Around(t) # << >>
  <2>1. j \in I(t) /\ I(t) \in SUBSET DOMAIN ps
    BY <1>0
  <2> HIDE DEF I, t
  <2> DEFINE p == Picked(ps, I(t))
  <2>2. \E h : Lists(h, ps, I(t), p)
    BY <1>00, <2>1, PickedIs
  <2>3. \E i \in DOMAIN p : TRUE
    BY <2>1, <2>2 DEF Lists
  <2> HIDE DEF p
  <2>4. DOMAIN Values(p) = DOMAIN p
    BY DEF Values
  <2>5. Values(p) # << >>
    BY <2>3, <2>4
  <2> QED BY <2>5 DEF p
<1>3. last \in Int /\ last >= 0 /\ k \in 0 .. last
  <2>1. last \in Int
    OBVIOUS
  <2> QED BY <2>1
<1>4. grid \in Seq(Int) /\ DOMAIN grid = 1 .. last + 1
  <2> HIDE DEF last
  <2> QED BY <1>3
<1>5. k + 1 \in DOMAIN grid /\ grid[k + 1] = t
  <2> HIDE DEF last
  <2> QED BY <1>3
<1> HIDE DEF grid, Around, t
<1>6. k + 1 \in K /\ K \in SUBSET DOMAIN grid
  BY <1>2, <1>5
<1> HIDE DEF K
<1>7. \E h : Lists(h, grid, K, shown)
  BY <1>4, <1>6, PickedIs
<1>8. \E i \in DOMAIN shown : shown[i] = t
  BY <1>5, <1>6, <1>7 DEF Lists
<1> HIDE DEF shown, down
<1> QED BY <1>1, <1>8 DEF down, t, HasTime

(* A query over the increase reads from before its range. *)
Grown(s, w) == [s EXCEPT !.points = Delta(s.points, w, FALSE)]
LEMMA IncreaseIs ==
  ASSUME NEW m, m # NoName, NEW w \in Int, w # 0
  PROVE  /\ \A from, to : \A s \in Select(m, << >>, from, to) :
              Grown(s, w) \in SeriesOf(Increase(m, w), from, to)
         /\ Back(Increase(m, w)) = Lookback
<1> DEFINE q == Increase(m, w)
<1>1. /\ q.name = m /\ q.labels = << >> /\ q.func = "increase" /\ q.window = w
      /\ q.agg = NoName
      /\ DOMAIN q = {"name", "labels", "func", "window", "unit", "agg", "by"}
  BY NoNameAssumption DEF Increase, Plain, ParseSingleExpr
<1> HIDE DEF q
<1>2. "num" \notin DOMAIN q
  BY <1>1
<1>3. \A from, to : SeriesOf(q, from, to) = Computed(q, Select(m, << >>, from, to))
  BY <1>1, <1>2 DEF SeriesOf
<1>4. \A series : \A s \in series : Grown(s, w) \in Computed(q, series)
  BY <1>1 DEF Computed, Grown
<1>5. Back(q) = Lookback
  BY <1>1, NoNameAssumption DEF Back
<1> QED BY <1>3, <1>4, <1>5 DEF q

(* A query over the increase since a row shows every later row of the same *)
(* labels that lies near one of its steps, if its range reaches back to    *)
(* the first of the two, the lookback included, and up to the second.      *)
LEMMA IncreaseIsShown ==
  ASSUME MetricsInv, NEW p \in since, NEW r \in since,
         r.name = p.name, r.labels = p.labels, r.at < p.at,
         NEW from \in Int, NEW to \in Int, from - Lookback <= r.at, p.at <= to,
         NEW step \in Nat \ {0}, Shows(p, from, to, step)
  PROVE  ShownIn(RangeQuery(Increase(p.name, p.at - r.at), from, to, step), p, step)
<1> DEFINE m == p.name
           w == p.at - r.at
           start == from - Lookback
<1>1. p.at \in Int /\ r.at \in Int /\ m # NoName
  <2>1. p \in Measured /\ r \in Measured
    BY DEF MetricsInv, Range
  <2> QED BY <2>1, MeasuredIs
<1>2. w \in Int /\ w # 0 /\ start \in Int /\ p.at \in start .. to /\ r.at \in start .. to
  BY <1>1, ReachAssumption
<1>3. PICK s \in Select(m, << >>, start, to) : HasAll(s, m, p.labels, start, to)
  BY <1>1, <1>2, SelectFinds
<1> DEFINE ps == s.points
           flag == FALSE
           grown == Delta(ps, w, flag)
<1>4. ps \in Seq(Points) /\ HasTime(ps, p.at) /\ HasTime(ps, p.at - w)
  <2>1. PICK j \in DOMAIN ps : ps[j] = Point(p)
    BY <1>2, <1>3 DEF HasAll
  <2>2. PICK k \in DOMAIN ps : ps[k] = Point(r)
    BY <1>2, <1>3 DEF HasAll
  <2>3. ps[j].at = p.at /\ ps[k].at = r.at
    BY <2>1, <2>2 DEF Point
  <2>4. p.at - w = r.at
    BY <1>1
  <2> QED BY <1>3, <2>3, <2>4 DEF HasAll, HasTime
<1> HIDE DEF w, flag
<1>5. IsList(grown) /\ HasTime(grown, p.at)
  <2> HIDE DEF ps
  <2> QED BY <1>2, <1>4, DeltaIs
<1> HIDE DEF grown
<1> DEFINE q == Increase(m, w)
           series == [s EXCEPT !.points = grown]
           shown == Downsample(grown, from, to, step)
<1>6. series \in SeriesOf(q, start, to) /\ start = from - Back(q)
  <2>1. Grown(s, w) \in SeriesOf(q, start, to) /\ Back(q) = Lookback
    BY <1>1, <1>2, <1>3, IncreaseIs
  <2> HIDE DEF q
  <2> QED BY <2>1 DEF Grown, grown, flag
<1>7. series.labels = p.labels /\ series.points = grown
  <2>1. s = [labels |-> p.labels, points |-> ps]
    BY <1>3 DEF HasAll
  <2> HIDE DEF ps
  <2> QED BY <2>1
<1>8. PICK n \in 0 .. (to - from) \div step : Distance(p.at, from + n * step) <= step \div 2
  BY DEF Shows
<1> HIDE DEF q, start, series
<1>9. HasTime(shown, from + n * step)
  BY <1>5, <1>8, DownsampleIs
<1>10. PICK l \in DOMAIN shown : shown[l].at = from + n * step
  BY <1>9 DEF HasTime
<1> DEFINE answer == [labels |-> series.labels, values |-> Downsample(series.points, from, to, step)]
<1>11. answer.labels = p.labels /\ answer.values = shown /\ l \in DOMAIN answer.values
  BY <1>7, <1>10
<1>12. answer.values # << >>
  <2> HIDE DEF answer
  <2> QED BY <1>11
<1>13. answer \in RangeQuery(q, from, to, step)
  BY <1>6, <1>12 DEF RangeQuery
<1> HIDE DEF answer, shown
<1>14. Distance(p.at, answer.values[l].at) <= step \div 2
  BY <1>8, <1>10, <1>11
<1>15. ShownIn(RangeQuery(q, from, to, step), p, step)
  BY <1>11, <1>13, <1>14 DEF ShownIn
<1> QED BY <1>15 DEF q, w

(* The increase is there at every point that has one to compare it with,   *)
(* the first of the range included.                                        *)
THEOREM IncreaseIsComplete == MetricsSpec => []RangeIsComplete
<1>1. MetricsInv => RangeIsComplete
  <2> SUFFICES ASSUME MetricsInv, NEW p \in since, NEW r \in since,
                      r.name = p.name, r.labels = p.labels, p.at - r.at \in 1 .. Lookback,
                      NEW from \in r.at .. p.at, NEW to \in p.at .. p.at + Ahead,
                      NEW step \in 1 .. 3, Shows(p, from, to, step)
               PROVE  ShownIn(RangeQuery(Increase(p.name, p.at - r.at), from, to, step), p, step)
    BY DEF RangeIsComplete
  <2>1. p.at \in Int /\ r.at \in Int
    <3>1. p \in Measured /\ r \in Measured
      BY DEF MetricsInv, Range
    <3> QED BY <3>1, MeasuredIs
  <2>2. /\ r.at < p.at /\ from \in Int /\ to \in Int /\ from - Lookback <= r.at /\ p.at <= to
        /\ step \in Nat \ {0}
    BY <2>1, ReachAssumption
  <2> QED BY <2>2, IncreaseIsShown
<1> QED BY <1>1, MetricsInvariance, PTL

-----------------------------------------------------------------------------
(* What is combined.  n is the sum, the largest or the least of f over I.  *)
Aggregates == {"sum", "max", "min"}
IntOn(f, I) == \A i \in I : f[i] \in Int
Largest(n, f, I) == (\E i \in I : f[i] = n) /\ \A i \in I : f[i] <= n
Smallest(n, f, I) == (\E i \in I : f[i] = n) /\ \A i \in I : n <= f[i]
Summary(agg, n, f, I) ==
  /\ n \in Int
  /\ agg = "sum" => n = SumFunctionOnSet(f, I)
  /\ agg = "max" => Largest(n, f, I)
  /\ agg = "min" => Smallest(n, f, I)

LEMMA OneSummary ==
  ASSUME NEW agg \in Aggregates, NEW f, NEW I, IntOn(f, I),
         NEW n, Summary(agg, n, f, I), NEW m, Summary(agg, m, f, I)
  PROVE  n = m
BY DEF Summary, Aggregates, Largest, Smallest, IntOn

(* Under other names. *)
LEMMA SummaryRenamed ==
  ASSUME NEW agg \in Aggregates, NEW S, IsFiniteSet(S), NEW f, NEW g, NEW h, NEW T,
         Renames(h, S, T), IntFollows(g, f, h, S), NEW n, Summary(agg, n, g, S)
  PROVE  Summary(agg, n, f, T)
<1>1. agg = "sum" => n = SumFunctionOnSet(f, T)
  <2>1. SumFunctionOnSet(g, S) = SumFunctionOnSet(f, T)
    BY IntSumRenamed
  <2> QED BY <2>1 DEF Summary
<1>2. agg = "max" => Largest(n, f, T)
  BY DEF Summary, Largest, Renames, IntFollows
<1>3. agg = "min" => Smallest(n, f, T)
  BY DEF Summary, Smallest, Renames, IntFollows
<1> QED BY <1>1, <1>2, <1>3 DEF Summary

(* The summary of the parts' is that of the whole. *)
SummariesOf(agg, g, K, f, S, key) ==
  \A k \in K : Summary(agg, g[k], f, {x \in S : key[x] = k})
LEMMA SummaryOfParts ==
  ASSUME NEW agg \in Aggregates, NEW S, IsFiniteSet(S), NEW f, IntOn(f, S),
         NEW key, NEW K, IsFiniteSet(K), \A x \in S : key[x] \in K,
         NEW g, SummariesOf(agg, g, K, f, S, key), NEW n, Summary(agg, n, g, K)
  PROVE  Summary(agg, n, f, S)
<1>1. ASSUME agg = "sum" PROVE n = SumFunctionOnSet(f, S)
  <2>1. Shares(g, K, f, S, key)
    BY <1>1 DEF SummariesOf, Summary, Shares
  <2>2. SumFunctionOnSet(g, K) = SumFunctionOnSet(f, {x \in S : key[x] \in K})
    BY <2>1, IntSumOfParts DEF IntOn
  <2>3. {x \in S : key[x] \in K} = S
    OBVIOUS
  <2> QED BY <1>1, <2>2, <2>3 DEF Summary
<1>2. ASSUME agg = "max" PROVE Largest(n, f, S)
  <2>1. \A k \in K : Largest(g[k], f, {x \in S : key[x] = k}) /\ g[k] \in Int
    BY <1>2 DEF SummariesOf, Summary
  <2>2. Largest(n, g, K) /\ n \in Int
    BY <1>2 DEF Summary
  <2> QED BY <2>1, <2>2 DEF Largest, IntOn
<1>3. ASSUME agg = "min" PROVE Smallest(n, f, S)
  <2>1. \A k \in K : Smallest(g[k], f, {x \in S : key[x] = k}) /\ g[k] \in Int
    BY <1>3 DEF SummariesOf, Summary
  <2>2. Smallest(n, g, K) /\ n \in Int
    BY <1>3 DEF Summary
  <2> QED BY <2>1, <2>2 DEF Smallest, IntOn
<1> QED BY <1>1, <1>2, <1>3 DEF Summary

(* Every finite set of integers that is not empty has a summary. *)
LEMMA SummaryExists ==
  ASSUME NEW agg \in Aggregates, NEW I, IsFiniteSet(I), I # {}, NEW f, IntOn(f, I)
  PROVE  \E n : Summary(agg, n, f, I)
<1>1. CASE agg = "sum"
  <2> DEFINE n == SumFunctionOnSet(f, I)
  <2>1. n \in Int
    BY IntSumType DEF IntOn
  <2> HIDE DEF n
  <2>2. Summary(agg, n, f, I)
    BY <1>1, <2>1 DEF Summary, n
  <2> QED BY <2>2
<1> DEFINE Good == {T \in SUBSET I : T # {} =>
                     (\E n \in Int : Largest(n, f, T)) /\ \E n \in Int : Smallest(n, f, T)}
<1>2. ASSUME NEW T \in SUBSET I, \A U \in SUBSET T : U # T => U \in Good
      PROVE  T \in Good
  <2> SUFFICES ASSUME NEW x \in T
               PROVE  (\E n \in Int : Largest(n, f, T)) /\ \E n \in Int : Smallest(n, f, T)
    OBVIOUS
  <2> DEFINE U == T \ {x}
  <2>1. U \in Good /\ f[x] \in Int /\ \A i \in T : i = x \/ i \in U
    BY <1>2 DEF IntOn
  <2>2. \A i \in U : i \in T /\ f[i] \in Int
    BY DEF IntOn
  <2>3. CASE U = {}
    <3> HIDE DEF U
    <3>1. Largest(f[x], f, T) /\ Smallest(f[x], f, T)
      BY <2>1, <2>3 DEF Largest, Smallest
    <3> QED BY <2>1, <3>1
  <2>4. CASE U # {}
    <3>1. PICK n \in Int, m \in Int : Largest(n, f, U) /\ Smallest(m, f, U)
      BY <2>1, <2>4
    <3> HIDE DEF U
    <3>2. \E a \in Int : Largest(a, f, T)
      <4>1. CASE n <= f[x]
        <5>1. Largest(f[x], f, T)
          BY <2>1, <2>2, <3>1, <4>1 DEF Largest
        <5> QED BY <2>1, <5>1
      <4>2. CASE ~(n <= f[x])
        <5>1. Largest(n, f, T)
          BY <2>1, <2>2, <3>1, <4>2 DEF Largest
        <5> QED BY <5>1
      <4> QED BY <4>1, <4>2
    <3>3. \E a \in Int : Smallest(a, f, T)
      <4>1. CASE f[x] <= m
        <5>1. Smallest(f[x], f, T)
          BY <2>1, <2>2, <3>1, <4>1 DEF Smallest
        <5> QED BY <2>1, <5>1
      <4>2. CASE ~(f[x] <= m)
        <5>1. Smallest(m, f, T)
          BY <2>1, <2>2, <3>1, <4>2 DEF Smallest
        <5> QED BY <5>1
      <4> QED BY <4>1, <4>2
    <3> QED BY <3>2, <3>3
  <2> QED BY <2>3, <2>4
<1> HIDE DEF Good
<1>3. I \in Good
  BY <1>2, SubsetInduction
<1>4. (\E n \in Int : Largest(n, f, I)) /\ \E n \in Int : Smallest(n, f, I)
  BY <1>3 DEF Good
<1> QED BY <1>1, <1>4 DEF Summary, Aggregates

-----------------------------------------------------------------------------
(* The recursion of the fold of SumOf, as an equation for g. *)
Numbers(vs) == [i \in DOMAIN vs |-> vs[i][1]]
AllWhole(vs) == \A i \in DOMAIN vs : IsWhole(vs[i])
PlusFold(vs, S, g) ==
  g = [T \in SUBSET S |-> IF T = {} THEN Whole(0) ELSE Plus(g[T \ {Max(T)}], vs[Max(T)])]

(* Whole numbers add up to a whole number. *)
LEMMA SumOfWholes ==
  ASSUME NEW D, NEW vs \in Seq(D), AllWhole(vs)
  PROVE  SumOf(vs) = Whole(SumFunctionOnSet(Numbers(vs), DOMAIN vs))
<1> DEFINE S == DOMAIN vs
           f == Numbers(vs)
           Total(T) == SumFunctionOnSet(f, T)
           k == [T \in SUBSET S |-> Whole(Total(T))]
<1>1. IsFiniteSet(S) /\ S \in SUBSET Nat
  <2>1. S = 1 .. Len(vs) /\ Len(vs) \in Nat
    OBVIOUS
  <2> HIDE DEF S
  <2> QED BY <2>1, FS_Interval
<1>2. \A i \in S : f[i] \in Int /\ vs[i] = Whole(f[i])
  BY DEF AllWhole, IsWhole, Numbers
<1> HIDE DEF f, S
<1>3. \A T \in SUBSET S : T # {} => Max(T) \in T /\ IsFiniteSet(T)
  <2> SUFFICES ASSUME NEW T \in SUBSET S, T # {} PROVE Max(T) \in T /\ IsFiniteSet(T)
    OBVIOUS
  <2>1. IsFiniteSet(T) /\ T \in SUBSET Nat
    BY <1>1, FS_Subset
  <2> QED BY <2>1, FiniteMax
<1>4. Total({}) = 0 /\ \A T \in SUBSET S : T # {} =>
        /\ Total(T) = f[Max(T)] + Total(T \ {Max(T)})
        /\ Total(T \ {Max(T)}) \in Int
  <2>1. Total({}) = 0
    BY SumEmpty
  <2>2. ASSUME NEW T \in SUBSET S, NEW x \in T, IsFiniteSet(T)
        PROVE  Total(T) = f[x] + Total(T \ {x}) /\ Total(T \ {x}) \in Int
    <3>1. \A i \in T : f[i] \in Int
      BY <1>2
    <3>2. Total(T) = f[x] + Total(T \ {x})
      BY <2>2, <3>1, IntSumWithout
    <3>3. IsFiniteSet(T \ {x}) /\ \A i \in T \ {x} : f[i] \in Int
      BY <2>2, <3>1, FS_Subset
    <3>4. Total(T \ {x}) \in Int
      BY <3>3, IntSumType
    <3> QED BY <3>2, <3>4
  <2> HIDE DEF Total
  <2> QED BY <1>3, <2>1, <2>2
<1> HIDE DEF Total
<1>5. PlusFold(vs, S, k)
  <2> DEFINE new(T) == IF T = {} THEN Whole(0) ELSE Plus(k[T \ {Max(T)}], vs[Max(T)])
  <2>1. ASSUME NEW T \in SUBSET S PROVE k[T] = new(T)
    <3>1. CASE T = {}
      BY <1>4, <3>1
    <3>2. CASE T # {}
      <4> DEFINE x == Max(T)
                 R == T \ {x}
      <4>1. x \in T /\ R \in SUBSET S /\ Total(T) = f[x] + Total(R) /\ Total(R) \in Int
        BY <1>3, <1>4, <3>2
      <4>2. k[R] = Whole(Total(R)) /\ k[T] = Whole(Total(T))
        BY <4>1
      <4> HIDE DEF x, R, k
      <4>3. Plus(k[R], vs[x]) = Whole(Total(T))
        <5>1. vs[x] = Whole(f[x]) /\ f[x] \in Int
          BY <1>2, <4>1
        <5> QED BY <4>1, <4>2, <5>1 DEF Plus, Whole
      <4> QED BY <3>2, <4>2, <4>3 DEF x, R
    <3> QED BY <3>1, <3>2
  <2>2. k = [T \in SUBSET S |-> k[T]]
    OBVIOUS
  <2> HIDE DEF k, new
  <2>3. k = [T \in SUBSET S |-> new(T)]
    BY <2>1, <2>2
  <2> QED BY <2>3 DEF PlusFold, new
<1> DEFINE g == CHOOSE e : PlusFold(vs, S, e)
<1>6. PlusFold(vs, S, g)
  BY <1>5
<1>7. SumOf(vs) = g[S]
  BY DEF SumOf, FoldLeft, MapThenFoldSet, PlusFold, S
<1> HIDE DEF g
<1>8. ASSUME NEW T \in SUBSET S
      PROVE  g[T] = IF T = {} THEN Whole(0) ELSE Plus(g[T \ {Max(T)}], vs[Max(T)])
  <2> DEFINE new(U) == IF U = {} THEN Whole(0) ELSE Plus(g[U \ {Max(U)}], vs[Max(U)])
  <2>1. g = [U \in SUBSET S |-> new(U)]
    BY <1>6 DEF PlusFold
  <2>2. g[T] = new(T)
    <3> HIDE DEF new
    <3> QED BY <2>1
  <2> QED BY <2>2
<1> DEFINE Good == {T \in SUBSET S : g[T] = Whole(Total(T))}
<1>9. ASSUME NEW T \in SUBSET S, \A U \in SUBSET T : U # T => U \in Good
      PROVE  T \in Good
  <2>1. CASE T = {}
    BY <1>4, <1>8, <2>1
  <2>2. CASE T # {}
    <3> DEFINE x == Max(T)
               R == T \ {x}
    <3>1. x \in T /\ R \in SUBSET S /\ Total(T) = f[x] + Total(R) /\ Total(R) \in Int
      BY <1>3, <1>4, <2>2
    <3>2. g[R] = Whole(Total(R))
      BY <1>9, <3>1
    <3>3. g[T] = Plus(g[R], vs[x])
      BY <1>8, <2>2
    <3>4. vs[x] = Whole(f[x]) /\ f[x] \in Int
      BY <1>2, <3>1
    <3> HIDE DEF x, R
    <3>5. g[T] = Whole(Total(T))
      BY <3>1, <3>2, <3>3, <3>4 DEF Plus, Whole
    <3> QED BY <3>5
  <2> QED BY <2>1, <2>2
<1>10. S \in Good
  <2> HIDE DEF Good
  <2> QED BY <1>1, <1>9, SubsetInduction
<1> QED BY <1>7, <1>10 DEF Total, f, S

(* What the values of one time are combined into. *)
LEMMA CombinedIs ==
  ASSUME NEW agg \in Aggregates, NEW D, NEW vs \in Seq(D), AllWhole(vs), vs # << >>
  PROVE  \E n : Combined(agg, vs) = Whole(n) /\ Summary(agg, n, Numbers(vs), DOMAIN vs)
<1> DEFINE I == DOMAIN vs
           f == Numbers(vs)
<1>1. IsFiniteSet(I) /\ I # {}
  <2>1. I = 1 .. Len(vs) /\ Len(vs) \in Nat /\ I # {}
    OBVIOUS
  <2> HIDE DEF I
  <2> QED BY <2>1, FS_Interval
<1>2. IntOn(f, I) /\ \A i \in I : vs[i] = Whole(f[i])
  BY DEF AllWhole, IsWhole, Numbers, IntOn
<1>3. SumOf(vs) = Whole(SumFunctionOnSet(f, I))
  BY SumOfWholes
<1> DEFINE MaxAt == CHOOSE i \in DOMAIN vs : \A j \in DOMAIN vs : ~Less(vs[i], vs[j])
           MinAt == CHOOSE i \in DOMAIN vs : \A j \in DOMAIN vs : ~Less(vs[j], vs[i])
<1>4. /\ agg = "sum" => Combined(agg, vs) = SumOf(vs)
      /\ agg = "max" => Combined(agg, vs) = vs[MaxAt]
      /\ agg = "min" => Combined(agg, vs) = vs[MinAt]
  BY DEF Combined, Aggregates
<1> HIDE DEF f
<1>5. \A i, j \in I : Less(vs[i], vs[j]) <=> f[i] < f[j]
  <2> SUFFICES ASSUME NEW i \in I, NEW j \in I PROVE Less(vs[i], vs[j]) <=> f[i] < f[j]
    OBVIOUS
  <2>1. vs[i] = Whole(f[i]) /\ vs[j] = Whole(f[j]) /\ f[i] \in Int /\ f[j] \in Int
    BY <1>2 DEF IntOn
  <2> HIDE DEF I
  <2> QED BY <2>1 DEF Less, Whole
<1>6. CASE agg = "sum"
  <2> DEFINE n == SumFunctionOnSet(f, I)
  <2>1. n \in Int
    BY <1>1, <1>2, IntSumType DEF IntOn
  <2> HIDE DEF n
  <2>2. Combined(agg, vs) = Whole(n) /\ Summary(agg, n, f, I)
    BY <1>3, <1>4, <1>6, <2>1 DEF Summary, n
  <2> QED BY <2>2 DEF f
<1>7. CASE agg = "max"
  <2>1. PICK n : Summary(agg, n, f, I)
    BY <1>1, <1>2, SummaryExists
  <2>2. Largest(n, f, I) /\ n \in Int
    BY <1>7, <2>1 DEF Summary
  <2>3. \E i \in I : \A j \in I : ~Less(vs[i], vs[j])
    <3>1. PICK i \in I : f[i] = n
      BY <2>2 DEF Largest
    <3>2. ASSUME NEW j \in I PROVE ~Less(vs[i], vs[j])
      <4>1. f[j] <= n /\ f[j] \in Int
        BY <1>2, <2>2 DEF Largest, IntOn
      <4> QED BY <1>5, <2>2, <3>1, <4>1
    <3> QED BY <3>2
  <2>4. MaxAt \in I /\ \A j \in I : ~Less(vs[MaxAt], vs[j])
    BY <2>3
  <2> HIDE DEF MaxAt, I
  <2>5. f[MaxAt] = n
    BY <1>2, <1>5, <2>2, <2>4 DEF Largest, IntOn
  <2>6. Combined(agg, vs) = Whole(n)
    BY <1>2, <1>4, <1>7, <2>4, <2>5
  <2> QED BY <2>1, <2>6 DEF f, I
<1>8. CASE agg = "min"
  <2>1. PICK n : Summary(agg, n, f, I)
    BY <1>1, <1>2, SummaryExists
  <2>2. Smallest(n, f, I) /\ n \in Int
    BY <1>8, <2>1 DEF Summary
  <2>3. \E i \in I : \A j \in I : ~Less(vs[j], vs[i])
    <3>1. PICK i \in I : f[i] = n
      BY <2>2 DEF Smallest
    <3>2. ASSUME NEW j \in I PROVE ~Less(vs[j], vs[i])
      <4>1. n <= f[j] /\ f[j] \in Int
        BY <1>2, <2>2 DEF Smallest, IntOn
      <4> QED BY <1>5, <2>2, <3>1, <4>1
    <3> QED BY <3>2
  <2>4. MinAt \in I /\ \A j \in I : ~Less(vs[j], vs[MinAt])
    BY <2>3
  <2> HIDE DEF MinAt, I
  <2>5. f[MinAt] = n
    BY <1>2, <1>5, <2>2, <2>4 DEF Smallest, IntOn
  <2>6. Combined(agg, vs) = Whole(n)
    BY <1>2, <1>4, <1>8, <2>4, <2>5
  <2> QED BY <2>1, <2>6 DEF f, I
<1> QED BY <1>6, <1>7, <1>8 DEF Aggregates

-----------------------------------------------------------------------------
(* Points of one time are merged into one. *)
WholePoints == [at : Int, value : {Whole(n) : n \in Int}]
AtTime(ps, t) == {i \in DOMAIN ps : ps[i].at = t}
Amounts(ps) == [i \in DOMAIN ps |-> ps[i].value[1]]
PointOf(t, n) == [at |-> t, value |-> Whole(n)]

LEMMA WholePointIs ==
  /\ \A p \in WholePoints : p.at \in Int /\ IsWhole(p.value) /\ p = PointOf(p.at, p.value[1])
  /\ \A t \in Int, n \in Int : PointOf(t, n) \in WholePoints
     /\ PointOf(t, n).at = t /\ PointOf(t, n).value[1] = n
BY DEF WholePoints, IsWhole, Whole, PointOf

LEMMA FewAtATime ==
  ASSUME NEW ps \in Seq(WholePoints), NEW t
  PROVE  IsFiniteSet(AtTime(ps, t))
<1> DEFINE n == Len(ps)
           I == 1 .. n
<1>1. n \in Nat /\ AtTime(ps, t) \subseteq I
  BY DEF AtTime
<1>2. IsFiniteSet(I)
  <2> HIDE DEF n
  <2> QED BY <1>1, FS_Interval
<1> HIDE DEF I
<1> QED BY <1>1, <1>2, FS_Subset

LEMMA AtTimeIs ==
  ASSUME NEW agg \in Aggregates, NEW ps \in Seq(WholePoints), NEW t, AtTime(ps, t) # {}
  PROVE  \E n : /\ Combined(agg, Values(Picked(ps, AtTime(ps, t)))) = Whole(n)
                /\ Summary(agg, n, Amounts(ps), AtTime(ps, t))
<1> DEFINE I == AtTime(ps, t)
           p == Picked(ps, I)
           vs == Values(p)
<1>1. I \in SUBSET DOMAIN ps
  BY DEF AtTime
<1> HIDE DEF I
<1>2. p \in Seq(WholePoints) /\ \E h : Lists(h, ps, I, p)
  BY <1>1, PickedIs
<1>3. PICK h : Lists(h, ps, I, p)
  BY <1>2
<1> HIDE DEF p
<1>4. DOMAIN vs = DOMAIN p /\ \A i \in DOMAIN p : vs[i] = p[i].value
  BY DEF Values
<1>5. vs \in Seq({Whole(n) : n \in Int})
  <2>1. \A i \in DOMAIN p : p[i].value \in {Whole(n) : n \in Int}
    <3>1. \A i \in DOMAIN p : p[i] \in WholePoints
      BY <1>2
    <3> QED BY <3>1 DEF WholePoints
  <2>2. Len(p) \in Nat /\ DOMAIN p = 1 .. Len(p)
    BY <1>2
  <2>3. vs = [i \in 1 .. Len(p) |-> p[i].value]
    BY <2>2 DEF Values
  <2> DEFINE W == {Whole(n) : n \in Int}
  <2> HIDE DEF W, vs
  <2>4. vs \in Seq(W)
    BY <2>1, <2>2, <2>3 DEF W
  <2> QED BY <2>4 DEF W
<1>6. AllWhole(vs)
  <2>1. \A i \in DOMAIN p : p[i] \in WholePoints
    BY <1>2
  <2> QED BY <1>4, <2>1, WholePointIs DEF AllWhole
<1>7. vs # << >>
  <2>1. PICK i \in I : TRUE
    BY DEF I
  <2>2. \E k \in DOMAIN p : h[k] = i
    BY <1>3 DEF Lists
  <2> HIDE DEF vs
  <2> QED BY <1>4, <2>2
<1>8. PICK n : Combined(agg, vs) = Whole(n) /\ Summary(agg, n, Numbers(vs), DOMAIN vs)
  <2> DEFINE W == {Whole(n) : n \in Int}
  <2>1. vs \in Seq(W)
    BY <1>5
  <2> HIDE DEF W, vs
  <2> QED BY <1>6, <1>7, <2>1, CombinedIs
<1> DEFINE S == DOMAIN p
           g == Numbers(vs)
           f == Amounts(ps)
<1>9. IsFiniteSet(S)
  <2>1. Len(p) \in Nat /\ S = 1 .. Len(p)
    BY <1>2
  <2> HIDE DEF S
  <2> QED BY <2>1, FS_Interval
<1>10. Renames(h, S, I)
  <2>1. \A k \in S : k \in Nat
    <3>1. Len(p) \in Nat /\ S = 1 .. Len(p)
      BY <1>2
    <3> HIDE DEF S
    <3> QED BY <3>1
  <2>5. /\ \A k \in S : h[k] \in I
        /\ \A i \in I : \E k \in S : h[k] = i
        /\ \A j, k \in S : j < k => h[j] < h[k]
    BY <1>3 DEF Lists
  <2>2. \A i \in I : i \in Nat
    BY <1>1
  <2>3. \A j, k \in S : h[j] = h[k] => j = k
    <3> HIDE DEF S
    <3> QED BY <2>1, <2>2, <2>5
  <2>4. I = {h[k] : k \in S}
    <3> HIDE DEF S
    <3> QED BY <2>5
  <2> QED BY <2>3, <2>4 DEF Renames
<1>11. IntFollows(g, f, h, S)
  <2> SUFFICES ASSUME NEW k \in S PROVE f[h[k]] \in Int /\ g[k] = f[h[k]]
    BY DEF IntFollows
  <2>1. h[k] \in DOMAIN ps /\ p[k] = ps[h[k]] /\ p[k] \in WholePoints
    BY <1>1, <1>2, <1>3 DEF Lists
  <2>2. g[k] = p[k].value[1]
    BY <1>4 DEF Numbers
  <2>3. f[h[k]] = p[k].value[1]
    BY <2>1 DEF Amounts
  <2> QED BY <2>1, <2>2, <2>3, WholePointIs DEF IsWhole
<1> HIDE DEF S, g, f, vs
<1>12. Summary(agg, n, g, S)
  BY <1>4, <1>8 DEF S, g
<1>13. Summary(agg, n, f, I)
  BY <1>9, <1>10, <1>11, <1>12, SummaryRenamed
<1> QED BY <1>8, <1>13 DEF vs, p, I, f

(* One point per time, in which what had that time is combined. *)
Merged(agg, ps, M) ==
  /\ M \in Seq(WholePoints)
  /\ \A k \in DOMAIN M : /\ AtTime(ps, M[k].at) # {}
                         /\ Summary(agg, M[k].value[1], Amounts(ps), AtTime(ps, M[k].at))
  /\ \A i \in DOMAIN ps : \E k \in DOMAIN M : M[k].at = ps[i].at
  /\ \A k, l \in DOMAIN M : M[k].at = M[l].at => k = l

LEMMA MergeIs ==
  ASSUME NEW agg \in Aggregates, NEW ps \in Seq(WholePoints)
  PROVE  Merged(agg, ps, MergeByTime(ps, agg))
<1> DEFINE times == {ps[i].at : i \in DOMAIN ps}
           n == Cardinality(times)
           P == [t \in times |-> {u \in times : u < t}]
           InPlace(k) == CHOOSE t \in times : Cardinality({u \in times : u < t}) = k - 1
           Value(t) == Combined(agg, Values(Picked(ps, AtTime(ps, t))))
           M == MergeByTime(ps, agg)
<1>1. M = [k \in 1 .. n |-> [at |-> InPlace(k), value |-> Value(InPlace(k))]]
  BY DEF MergeByTime, AtTime
<1>2. IsFiniteSet(times) /\ n \in Nat /\ \A t \in times : t \in Int
  <2>1. \A i \in DOMAIN ps : ps[i] \in WholePoints
    OBVIOUS
  <2> DEFINE f == [i \in DOMAIN ps |-> ps[i].at]
             J == DOMAIN ps
  <2>2. IsFiniteSet(J)
    <3>1. J = 1 .. Len(ps) /\ Len(ps) \in Nat
      OBVIOUS
    <3> HIDE DEF J
    <3> QED BY <3>1, FS_Interval
  <2>3. times = {f[i] : i \in J}
    OBVIOUS
  <2>4. IsFiniteSet(times)
    <3> HIDE DEF f, J, times
    <3> QED BY <2>2, <2>3, FiniteImage
  <2> QED BY <2>1, <2>4, WholePointIs, FS_CardinalityType
<1>3. \A t \in times : AtTime(ps, t) # {}
  BY DEF AtTime
<1>4. \A i \in DOMAIN ps : ps[i].at \in times
  OBVIOUS
<1> HIDE DEF times
<1>5. Ranked(P, times)
  <2>1. Precedes(P, times)
    BY <1>2 DEF Precedes
  <2> HIDE DEF P
  <2> QED BY <1>2, <2>1, PlacesAreTaken
<1>6. \A t \in times : P[t] = {u \in times : u < t}
  OBVIOUS
<1> HIDE DEF P
<1>7. ASSUME NEW k \in 1 .. n PROVE InPlace(k) \in times /\ Cardinality(P[InPlace(k)]) = k - 1
  <2>1. \E t \in times : Cardinality({u \in times : u < t}) = k - 1
    BY <1>5, <1>6 DEF Ranked
  <2> QED BY <1>6, <2>1
<1> HIDE DEF InPlace
<1>8. \A t \in times : \E k \in 1 .. n : InPlace(k) = t
  <2> SUFFICES ASSUME NEW t \in times PROVE \E k \in 1 .. n : InPlace(k) = t
    OBVIOUS
  <2> DEFINE k == Cardinality(P[t]) + 1
  <2>1. k \in 1 .. n /\ k - 1 = Cardinality(P[t])
    BY <1>5 DEF Ranked
  <2> HIDE DEF k
  <2>2. InPlace(k) = t
    BY <1>5, <1>7, <2>1 DEF Ranked
  <2> QED BY <2>1, <2>2
<1> DEFINE Is(t, v) == \E m : v = Whole(m) /\ Summary(agg, m, Amounts(ps), AtTime(ps, t))
<1>9. \A t \in times : Is(t, Value(t))
  BY <1>3, AtTimeIs
<1> HIDE DEF Value, n
<1>10. ASSUME NEW k \in 1 .. n
       PROVE  /\ M[k].at = InPlace(k) /\ M[k] \in WholePoints
              /\ Summary(agg, M[k].value[1], Amounts(ps), AtTime(ps, M[k].at))
  <2> DEFINE t == InPlace(k)
  <2>1. t \in times /\ t \in Int
    BY <1>2, <1>7
  <2> HIDE DEF t, M
  <2>2. PICK m : Value(t) = Whole(m) /\ Summary(agg, m, Amounts(ps), AtTime(ps, t))
    BY <1>9, <2>1
  <2>3. M[k] = PointOf(t, m)
    BY <1>1, <2>2 DEF t, PointOf
  <2>4. m \in Int
    BY <2>2 DEF Summary
  <2> HIDE DEF Is
  <2> QED BY <2>1, <2>2, <2>3, <2>4, WholePointIs DEF t
<1>11. M \in Seq(WholePoints) /\ DOMAIN M = 1 .. n
  <2>1. n \in Nat /\ DOMAIN M = 1 .. n /\ M = [k \in 1 .. n |-> M[k]]
    BY <1>1, <1>2 DEF n
  <2> HIDE DEF M
  <2> QED BY <1>10, <2>1
<1> HIDE DEF M
<1>12. \A k, l \in DOMAIN M : M[k].at = M[l].at => k = l
  <2> SUFFICES ASSUME NEW k \in 1 .. n, NEW l \in 1 .. n, M[k].at = M[l].at PROVE k = l
    BY <1>11
  <2>1. k - 1 = l - 1
    BY <1>7, <1>10
  <2> QED BY <2>1
<1>13. \A i \in DOMAIN ps : \E k \in DOMAIN M : M[k].at = ps[i].at
  BY <1>4, <1>8, <1>10, <1>11
<1>14. \A k \in DOMAIN M : AtTime(ps, M[k].at) # {}
  BY <1>3, <1>7, <1>10, <1>11
<1> QED BY <1>10, <1>11, <1>12, <1>13, <1>14 DEF Merged, M

-----------------------------------------------------------------------------
(* The points of a set of series, each with its series and its place: at a *)
(* time, and what they amount to.                                          *)
IsSeriesOf(s) == s = [labels |-> s.labels, points |-> s.points]
WholeSeries(S) ==
  IsFiniteSet(S) /\ \A s \in S : IsSeriesOf(s) /\ s.points \in Seq(WholePoints)
At(S, t) == {x \in S \X Nat : x[2] \in DOMAIN x[1].points /\ x[1].points[x[2]].at = t}
AmountsIn(U) == [x \in U \X Nat |-> x[1].points[x[2]].value[1]]

(* One after another. *)
Joined(S) == FlattenSeq([i \in DOMAIN SetToSeq(S) |-> SetToSeq(S)[i].points])

LEMMA JoinedIs ==
  ASSUME NEW U, WholeSeries(U), NEW S \in SUBSET U
  PROVE  /\ Joined(S) \in Seq(WholePoints)
         /\ \A t : \E h : /\ Renames(h, AtTime(Joined(S), t), At(S, t))
                          /\ IntFollows(Amounts(Joined(S)), AmountsIn(U), h, AtTime(Joined(S), t))
<1> DEFINE e == SetToSeq(S)
           n == Len(e)
           seqs == [i \in DOMAIN e |-> e[i].points]
           flat == Joined(S)
<1>1. IsFiniteSet(S) /\ \A s \in S : s.points \in Seq(WholePoints)
  BY FS_Subset DEF WholeSeries
<1>2. Enumerates(e, S)
  BY <1>1, SetToSeqIs
<1>3. flat = FlattenSeq(seqs)
  BY DEF Joined
<1> HIDE DEF e, flat
<1>4. /\ e \in Seq(S) /\ n \in Nat /\ DOMAIN e = 1 .. n
      /\ \A s \in S : \E i \in 1 .. n : e[i] = s
      /\ \A i, j \in 1 .. n : e[i] = e[j] => i = j
      /\ \A i \in 1 .. n : e[i] \in S
  BY <1>2 DEF Enumerates
<1> HIDE DEF n
<1>5. seqs \in Seq(Seq(WholePoints)) /\ Len(seqs) = n
  BY <1>1, <1>4
<1>6. \A i \in 1 .. n : seqs[i] = e[i].points /\ seqs[i] \in Seq(WholePoints)
  BY <1>1, <1>4
<1> HIDE DEF seqs
<1>7. flat \in Seq(WholePoints) /\ \E off : Flattens(seqs, flat, off)
  BY <1>3, <1>5, FlattenPlaces
<1>8. PICK off : Flattens(seqs, flat, off)
  BY <1>7
<1>9. /\ \A j \in 1 .. n : off[j] \in Nat /\ off[j] + Len(seqs[j]) <= Len(flat)
      /\ \A j \in 1 .. n : \A i \in 1 .. Len(seqs[j]) : flat[off[j] + i] = seqs[j][i]
      /\ \A k \in 1 .. Len(flat) : \E j \in 1 .. n : k - off[j] \in 1 .. Len(seqs[j])
      /\ \A j, l \in 1 .. n : j < l => off[j] + Len(seqs[j]) <= off[l]
  BY <1>5, <1>8 DEF Flattens, FlattensTo
<1>10. \A j \in 1 .. n : Len(seqs[j]) \in Nat /\ DOMAIN seqs[j] = 1 .. Len(seqs[j])
  BY <1>6
<1>11. Len(flat) \in Nat /\ DOMAIN flat = 1 .. Len(flat)
  BY <1>7
<1> DEFINE Within(k, j) == j \in 1 .. n /\ k - off[j] \in 1 .. Len(seqs[j])
           J(k) == CHOOSE j \in 1 .. n : Within(k, j)
<1>12. ASSUME NEW k \in 1 .. Len(flat), NEW j, NEW l, Within(k, j), Within(k, l) PROVE j = l
  <2>1. /\ off[j] \in Nat /\ off[l] \in Nat /\ Len(seqs[j]) \in Nat /\ Len(seqs[l]) \in Nat
        /\ j \in Nat /\ l \in Nat /\ k \in Nat
    BY <1>4, <1>9, <1>10, <1>12
  <2>2. (j < l => off[j] + Len(seqs[j]) <= off[l]) /\ (l < j => off[l] + Len(seqs[l]) <= off[j])
    BY <1>9, <1>12
  <2> DEFINE a == off[j]
             b == off[l]
             c == Len(seqs[j])
             d == Len(seqs[l])
  <2>3. k - a >= 1 /\ k - a <= c /\ k - b >= 1 /\ k - b <= d
    BY <1>12, <2>1
  <2>4. a \in Nat /\ b \in Nat /\ c \in Nat /\ d \in Nat /\ j \in Nat /\ l \in Nat /\ k \in Nat
    BY <2>1
  <2>5. (j < l => a + c <= b) /\ (l < j => b + d <= a)
    BY <2>2
  <2> HIDE DEF a, b, c, d
  <2> QED BY ONLY <2>3, <2>4, <2>5
<1>13. \A k \in 1 .. Len(flat) : Within(k, J(k))
  BY <1>9
<1> HIDE DEF J
<1>14. ASSUME NEW t
       PROVE  \E h : /\ Renames(h, AtTime(flat, t), At(S, t))
                     /\ IntFollows(Amounts(flat), AmountsIn(U), h, AtTime(flat, t))
  <2> DEFINE A == AtTime(flat, t)
             h == [k \in A |-> <<e[J(k)], k - off[J(k)]>>]
  <2>1. \A k \in A : k \in 1 .. Len(flat) /\ flat[k].at = t
    BY <1>11 DEF AtTime
  <2>2. \A k \in 1 .. Len(flat) : flat[k].at = t => k \in A
    BY <1>11 DEF AtTime
  <2> HIDE DEF A
  <2>3. ASSUME NEW k \in A
        PROVE  /\ h[k] \in S \X Nat /\ h[k][1] = e[J(k)] /\ h[k][2] = k - off[J(k)]
               /\ h[k][2] \in DOMAIN h[k][1].points /\ h[k][1].points[h[k][2]] = flat[k]
    <3> DEFINE j == J(k)
               i == k - off[j]
    <3>1. j \in 1 .. n /\ i \in 1 .. Len(seqs[j])
      BY <1>13, <2>1
    <3>2. k \in Nat /\ off[j] \in Nat /\ Len(seqs[j]) \in Nat
      BY <1>9, <1>10, <1>11, <2>1, <3>1
    <3>3. h[k] = <<e[j], i>>
      OBVIOUS
    <3> HIDE DEF j, h, i
    <3>4. flat[off[j] + i] = seqs[j][i]
      BY <1>9, <3>1
    <3>5. off[j] + i = k /\ i \in Nat
      BY <3>1, <3>2 DEF i
    <3>6. seqs[j] = e[j].points /\ e[j] \in S /\ DOMAIN seqs[j] = 1 .. Len(seqs[j])
      BY <1>4, <1>6, <1>10, <3>1
    <3> QED BY <3>1, <3>3, <3>4, <3>5, <3>6 DEF i, j
  <2> HIDE DEF h
  <2>4. \A k \in A : h[k] \in At(S, t)
    BY <2>1, <2>3 DEF At
  <2>5. ASSUME NEW x \in At(S, t) PROVE \E k \in A : h[k] = x
    <3>1. /\ x[1] \in S /\ x[2] \in Nat /\ x = <<x[1], x[2]>>
          /\ x[2] \in DOMAIN x[1].points /\ x[1].points[x[2]].at = t
      BY DEF At
    <3>2. PICK j \in 1 .. n : e[j] = x[1]
      BY <1>4, <3>1
    <3>3. x[2] \in 1 .. Len(seqs[j]) /\ off[j] \in Nat /\ Len(seqs[j]) \in Nat
      BY <1>6, <1>9, <1>10, <3>1, <3>2
    <3> DEFINE k == off[j] + x[2]
    <3>4. k \in Nat /\ k - off[j] = x[2] /\ k >= 1
      BY <3>1, <3>3
    <3>5. k <= Len(flat)
      <4>1. off[j] + Len(seqs[j]) <= Len(flat)
        BY <1>9
      <4> QED BY <1>11, <3>3, <4>1
    <3>6. flat[k] = x[1].points[x[2]]
      <4>1. seqs[j] = x[1].points
        BY <1>6, <3>2
      <4>2. flat[off[j] + x[2]] = seqs[j][x[2]]
        BY <1>9, <3>3
      <4> QED BY <4>1, <4>2
    <3> HIDE DEF k
    <3>7. k \in 1 .. Len(flat) /\ Within(k, j)
      BY <1>11, <3>3, <3>4, <3>5
    <3>8. k \in A /\ J(k) = j
      BY <1>12, <1>13, <2>2, <3>1, <3>6, <3>7
    <3>9. h[k] = <<e[j], k - off[j]>>
      BY <3>8 DEF h
    <3> QED BY <3>1, <3>2, <3>4, <3>8, <3>9
  <2>6. ASSUME NEW k \in A, NEW l \in A, h[k] = h[l] PROVE k = l
    <3>1. e[J(k)] = e[J(l)] /\ k - off[J(k)] = l - off[J(l)]
      BY <2>3, <2>6
    <3>2. J(k) \in 1 .. n /\ J(l) \in 1 .. n
      BY <1>13, <2>1
    <3>3. J(k) = J(l)
      BY <1>4, <3>1, <3>2
    <3>4. k - off[J(k)] = l - off[J(k)] /\ off[J(k)] \in Nat
      BY <1>9, <3>1, <3>2, <3>3
    <3> HIDE DEF Within
    <3>5. k \in Nat /\ l \in Nat
      BY <1>11, <2>1
    <3> QED BY <3>4, <3>5
  <2>7. Renames(h, A, At(S, t))
    <3>1. At(S, t) = {h[k] : k \in A}
      BY <2>4, <2>5
    <3> QED BY <2>6, <3>1 DEF Renames
  <2>8. IntFollows(Amounts(flat), AmountsIn(U), h, A)
    <3> SUFFICES ASSUME NEW k \in A
                 PROVE  AmountsIn(U)[h[k]] \in Int /\ Amounts(flat)[k] = AmountsIn(U)[h[k]]
      BY DEF IntFollows
    <3>1. h[k] \in U \X Nat /\ h[k][1].points[h[k][2]] = flat[k]
      BY <2>3
    <3>2. AmountsIn(U)[h[k]] = flat[k].value[1]
      BY <3>1 DEF AmountsIn
    <3>3. flat[k] \in WholePoints /\ k \in DOMAIN flat
      BY <1>7, <1>11, <2>1
    <3>4. Amounts(flat)[k] = flat[k].value[1]
      BY <3>3 DEF Amounts
    <3> QED BY <3>2, <3>3, <3>4, WholePointIs DEF IsWhole
  <2> QED BY <2>7, <2>8 DEF A
<1> QED BY <1>7, <1>14 DEF flat

(* A group has one point per time: what its members have then, combined.   *)
Members(S, by, k) == {s \in S : GroupKey(s, by) = k}
Keys(S, by) == {GroupKey(s, by) : s \in S}
Group(S, agg, by, k) ==
  [labels |-> IF by = NoName THEN << >> ELSE [l \in {by} |-> k],
   points |-> MergeByTime(Joined(Members(S, by, k)), agg)]
Combines(M, agg, U, S) ==
  /\ M \in Seq(WholePoints)
  /\ \A i \in DOMAIN M : /\ At(S, M[i].at) # {}
                         /\ Summary(agg, M[i].value[1], AmountsIn(U), At(S, M[i].at))
  /\ \A t : At(S, t) # {} => \E i \in DOMAIN M : M[i].at = t
  /\ \A i, j \in DOMAIN M : M[i].at = M[j].at => i = j

LEMMA AggregationIs ==
  ASSUME NEW S, NEW agg, NEW by
  PROVE  Aggregation(S, agg, by) = {Group(S, agg, by, k) : k \in Keys(S, by)}
BY DEF Aggregation, Group, Keys, Joined, Members

LEMMA CombinesIs ==
  ASSUME NEW agg \in Aggregates, NEW U, WholeSeries(U), NEW S \in SUBSET U
  PROVE  Combines(MergeByTime(Joined(S), agg), agg, U, S)
<1> DEFINE ps == Joined(S)
           M == MergeByTime(ps, agg)
<1>1. /\ ps \in Seq(WholePoints)
      /\ \A t : \E h : /\ Renames(h, AtTime(ps, t), At(S, t))
                       /\ IntFollows(Amounts(ps), AmountsIn(U), h, AtTime(ps, t))
  BY JoinedIs
<1> HIDE DEF ps
<1>2. Merged(agg, ps, M)
  BY <1>1, MergeIs
<1> HIDE DEF M
<1>3. \A t : AtTime(ps, t) # {} <=> At(S, t) # {}
  <2> SUFFICES ASSUME NEW t PROVE AtTime(ps, t) # {} <=> At(S, t) # {}
    OBVIOUS
  <2> DEFINE A == AtTime(ps, t)
             T == At(S, t)
  <2>1. \E h : Renames(h, A, T)
    BY <1>1
  <2> HIDE DEF A, T
  <2>2. A # {} <=> T # {}
    BY <2>1 DEF Renames
  <2> QED BY <2>2 DEF A, T
<1>4. \A t : IsFiniteSet(AtTime(ps, t))
  BY <1>1, FewAtATime
<1>5. ASSUME NEW i \in DOMAIN M
      PROVE  Summary(agg, M[i].value[1], AmountsIn(U), At(S, M[i].at))
  <2> DEFINE t == M[i].at
             n == M[i].value[1]
  <2>1. Summary(agg, n, Amounts(ps), AtTime(ps, t))
    BY <1>2 DEF Merged
  <2> HIDE DEF t, n
  <2>2. PICK h : /\ Renames(h, AtTime(ps, t), At(S, t))
                 /\ IntFollows(Amounts(ps), AmountsIn(U), h, AtTime(ps, t))
    BY <1>1
  <2>3. Summary(agg, n, AmountsIn(U), At(S, t))
    BY <1>4, <2>1, <2>2, SummaryRenamed
  <2> QED BY <2>3 DEF t, n
<1>6. ASSUME NEW t, At(S, t) # {} PROVE \E i \in DOMAIN M : M[i].at = t
  <2>1. PICK k \in DOMAIN ps : ps[k].at = t
    BY <1>3, <1>6 DEF AtTime
  <2> QED BY <1>2, <2>1 DEF Merged
<1>7. /\ M \in Seq(WholePoints) /\ \A i \in DOMAIN M : AtTime(ps, M[i].at) # {}
      /\ \A i, j \in DOMAIN M : M[i].at = M[j].at => i = j
  BY <1>2 DEF Merged
<1>8. \A i \in DOMAIN M : At(S, M[i].at) # {}
  BY <1>3, <1>7
<1> QED BY <1>5, <1>6, <1>7, <1>8 DEF Combines, M, ps

LEMMA GroupIs ==
  ASSUME NEW agg \in Aggregates, NEW by, NEW S, WholeSeries(S), NEW k \in Keys(S, by)
  PROVE  /\ GroupKey(Group(S, agg, by, k), by) = k
         /\ Combines(Group(S, agg, by, k).points, agg, S, Members(S, by, k))
<1>1. GroupKey(Group(S, agg, by, k), by) = k
  BY DEF GroupKey, Group, Keys
<1>2. Members(S, by, k) \in SUBSET S
  BY DEF Members
<1>3. Group(S, agg, by, k).points = MergeByTime(Joined(Members(S, by, k)), agg)
  BY DEF Group
<1> QED BY <1>1, <1>2, <1>3, CombinesIs

(* What is at a time, and which summary it has. *)
AddsUpTo(agg, S, t, n) == At(S, t) # {} /\ Summary(agg, n, AmountsIn(S), At(S, t))

LEMMA FinitelyMany ==
  ASSUME NEW S, WholeSeries(S), NEW t
  PROVE  IsFiniteSet(At(S, t)) /\ IntOn(AmountsIn(S), At(S, t))
<1> DEFINE A == AtTime(Joined(S), t)
           T == At(S, t)
<1>1. Joined(S) \in Seq(WholePoints) /\ \E h : Renames(h, A, T)
  BY JoinedIs
<1>2. IsFiniteSet(A)
  BY <1>1, FewAtATime
<1>3. IsFiniteSet(T)
  <2> HIDE DEF A, T
  <2> PICK h : Renames(h, A, T)
    BY <1>1
  <2>1. T = {h[x] : x \in A}
    BY DEF Renames
  <2> QED BY <1>2, <2>1, FiniteImage
<1>4. ASSUME NEW x \in T PROVE AmountsIn(S)[x] \in Int
  <2>1. x \in S \X Nat /\ x[1] \in S /\ x[2] \in DOMAIN x[1].points
    BY DEF At
  <2>2. x[1].points[x[2]] \in WholePoints
    BY <2>1 DEF WholeSeries
  <2> QED BY <2>1, <2>2, WholePointIs DEF AmountsIn, IsWhole
<1> QED BY <1>3, <1>4 DEF IntOn

(* Without a label there is one group, of everything. *)
LEMMA TotalIs ==
  ASSUME NEW agg \in Aggregates, NEW S, WholeSeries(S)
  PROVE  PointsIn(Aggregation(S, agg, NoName))
           = {p \in WholePoints : AddsUpTo(agg, S, p.at, p.value[1])}
<1> DEFINE M == MergeByTime(Joined(S), agg)
           Right == {p \in WholePoints : AddsUpTo(agg, S, p.at, p.value[1])}
<1>1. CASE S = {}
  <2>1. Aggregation(S, agg, NoName) = {}
    BY <1>1, AggregationIs DEF Keys
  <2>2. \A t : At(S, t) = {}
    BY <1>1 DEF At
  <2> QED BY <2>1, <2>2 DEF PointsIn, AddsUpTo
<1>2. CASE S # {}
  <2>1. Keys(S, NoName) = {NoName} /\ Members(S, NoName, NoName) = S
    BY <1>2 DEF Keys, Members, GroupKey
  <2>2. Aggregation(S, agg, NoName) = {Group(S, agg, NoName, NoName)}
    BY <2>1, AggregationIs
  <2>3. Group(S, agg, NoName, NoName).points = M
    BY <2>1 DEF Group
  <2>4. PointsIn(Aggregation(S, agg, NoName)) = Range(M)
    BY <2>2, <2>3 DEF PointsIn
  <2>5. Combines(M, agg, S, S)
    BY CombinesIs
  <2> HIDE DEF M
  <2>6. ASSUME NEW p \in Range(M) PROVE p \in Right
    <3>1. PICK i \in DOMAIN M : M[i] = p
      BY DEF Range
    <3> QED BY <2>5, <3>1 DEF Combines, AddsUpTo
  <2>7. ASSUME NEW p \in Right PROVE p \in Range(M)
    <3>1. PICK i \in DOMAIN M : M[i].at = p.at
      BY <2>5 DEF Combines, AddsUpTo
    <3>2. Summary(agg, M[i].value[1], AmountsIn(S), At(S, p.at)) /\ M[i] \in WholePoints
      BY <2>5, <3>1 DEF Combines
    <3>3. Summary(agg, p.value[1], AmountsIn(S), At(S, p.at))
      BY DEF AddsUpTo
    <3>4. M[i].value[1] = p.value[1]
      <4> DEFINE n == M[i].value[1]
                 m == p.value[1]
                 I == At(S, p.at)
      <4>1. Summary(agg, n, AmountsIn(S), I) /\ Summary(agg, m, AmountsIn(S), I)
            /\ IntOn(AmountsIn(S), I)
        BY <3>2, <3>3, FinitelyMany
      <4> HIDE DEF n, m, I
      <4>2. n = m
        BY <4>1, OneSummary
      <4> QED BY <4>2 DEF n, m
    <3>5. M[i] = p
      BY <3>1, <3>2, <3>4, WholePointIs
    <3> QED BY <3>5 DEF Range
  <2> QED BY <2>4, <2>6, <2>7
<1> QED BY <1>1, <1>2

(* The groups of S and S itself have their points at the same times, and   *)
(* these have the same summary: what is in a group is what has its key.    *)
LEMMA GroupsAreWhole ==
  ASSUME NEW agg \in Aggregates, NEW by, NEW S, WholeSeries(S)
  PROVE  WholeSeries(Aggregation(S, agg, by))
<1> DEFINE K == Keys(S, by)
           f == [k \in K |-> Group(S, agg, by, k)]
           key == [s \in S |-> GroupKey(s, by)]
<1>1. Aggregation(S, agg, by) = {f[k] : k \in K}
  BY AggregationIs
<1>2. IsFiniteSet(K)
  <2>1. K = {key[s] : s \in S} /\ IsFiniteSet(S)
    BY DEF Keys, WholeSeries
  <2> HIDE DEF K, key
  <2> QED BY <2>1, FiniteImage
<1>3. \A k \in K : f[k].points \in Seq(WholePoints)
  BY GroupIs DEF Combines
<1>5. \A k \in K : IsSeriesOf(f[k])
  BY DEF Group, IsSeriesOf
<1> HIDE DEF f, K
<1>4. IsFiniteSet({f[k] : k \in K})
  BY <1>2, FiniteImage
<1> QED BY <1>1, <1>3, <1>4, <1>5 DEF WholeSeries

LEMMA GroupsTogether ==
  ASSUME NEW agg \in Aggregates, NEW by, NEW S, WholeSeries(S), NEW t, NEW n
  PROVE  /\ At(Aggregation(S, agg, by), t) # {} <=> At(S, t) # {}
         /\ AddsUpTo(agg, Aggregation(S, agg, by), t, n) => AddsUpTo(agg, S, t, n)
<1> DEFINE G == Aggregation(S, agg, by)
           I == At(S, t)
           K == At(G, t)
           f == AmountsIn(S)
           g == AmountsIn(G)
           Of(y) == {x \in I : GroupKey(x[1], by) = GroupKey(y[1], by)}
           key == [x \in I |-> CHOOSE y \in K : GroupKey(x[1], by) = GroupKey(y[1], by)]
<1>1. /\ \A a \in G : \E k \in Keys(S, by) : a = Group(S, agg, by, k)
      /\ \A k \in Keys(S, by) : Group(S, agg, by, k) \in G
  BY AggregationIs
<1> HIDE DEF G
<1>2. ASSUME NEW a \in G
      PROVE  /\ a = Group(S, agg, by, GroupKey(a, by))
             /\ Combines(a.points, agg, S, Members(S, by, GroupKey(a, by)))
  BY <1>1, GroupIs
<1>3. \A x \in I : x[1] \in S /\ x[2] \in Nat /\ x[2] \in DOMAIN x[1].points
                   /\ x[1].points[x[2]].at = t /\ x = <<x[1], x[2]>>
  BY DEF At
<1>4. ASSUME NEW y \in K
      PROVE  /\ y[1] \in G /\ y[2] \in DOMAIN y[1].points /\ y[1].points[y[2]].at = t
             /\ y = <<y[1], y[2]>> /\ g[y] = y[1].points[y[2]].value[1]
  BY DEF At, AmountsIn
<1>5. \A k : At(Members(S, by, k), t) = {x \in I : GroupKey(x[1], by) = k}
  BY DEF At, Members
<1>6. ASSUME NEW x \in I PROVE \E y \in K : GroupKey(x[1], by) = GroupKey(y[1], by)
  <2> DEFINE k == GroupKey(x[1], by)
             a == Group(S, agg, by, k)
  <2>1. k \in Keys(S, by) /\ a \in G /\ GroupKey(a, by) = k
    BY <1>1, <1>3, GroupIs DEF Keys
  <2>2. x \in At(Members(S, by, k), t)
    BY <1>5
  <2> HIDE DEF k, a
  <2>3. PICK i \in DOMAIN a.points : a.points[i].at = t
    BY <1>2, <2>1, <2>2 DEF Combines
  <2>4. i \in Nat
    BY <1>2, <2>1 DEF Combines
  <2> DEFINE y == <<a, i>>
  <2>5. y[1] = a /\ y[2] = i /\ y \in G \X Nat
    BY <2>1, <2>4
  <2> HIDE DEF y
  <2>6. y \in K
    BY <2>3, <2>5 DEF At
  <2> QED BY <2>1, <2>5, <2>6 DEF k
<1>7. ASSUME NEW y \in K, NEW z \in K, GroupKey(y[1], by) = GroupKey(z[1], by) PROVE y = z
  <2>1. y[1] = z[1]
    BY <1>2, <1>4, <1>7
  <2>2. y[2] = z[2]
    BY <1>2, <1>4, <2>1 DEF Combines
  <2> QED BY <1>4, <2>1, <2>2
<1>8. ASSUME NEW y \in K PROVE Of(y) # {} /\ Summary(agg, g[y], f, Of(y))
  <2> DEFINE k == GroupKey(y[1], by)
  <2>1. At(Members(S, by, k), t) = Of(y)
    BY <1>5
  <2>2. Combines(y[1].points, agg, S, Members(S, by, k))
    BY <1>2, <1>4
  <2> HIDE DEF k, Of
  <2>3. /\ At(Members(S, by, k), t) # {}
        /\ Summary(agg, y[1].points[y[2]].value[1], AmountsIn(S), At(Members(S, by, k), t))
    BY <1>4, <2>2 DEF Combines
  <2> QED BY <1>4, <2>1, <2>3
<1>9. K # {} <=> I # {}
  BY <1>6, <1>8
<1>10. ASSUME AddsUpTo(agg, G, t, n) PROVE AddsUpTo(agg, S, t, n)
  <2>1. K # {} /\ Summary(agg, n, g, K)
    BY <1>10 DEF AddsUpTo
  <2>2. IsFiniteSet(I) /\ IntOn(f, I)
    BY FinitelyMany
  <2>3. IsFiniteSet(K)
    BY FinitelyMany, GroupsAreWhole DEF G
  <2>4. \A x \in I : key[x] \in K /\ GroupKey(x[1], by) = GroupKey(key[x][1], by)
    BY <1>6
  <2> HIDE DEF key
  <2>5. \A y \in K : {x \in I : key[x] = y} = Of(y)
    BY <1>7, <2>4
  <2>6. SummariesOf(agg, g, K, f, I, key)
    BY <1>8, <2>5 DEF SummariesOf
  <2> HIDE DEF I, K, f, g
  <2>7. Summary(agg, n, f, I)
    BY <2>1, <2>2, <2>3, <2>4, <2>6, SummaryOfParts
  <2> QED BY <1>9, <2>1, <2>7 DEF AddsUpTo, I, f
<1> QED BY <1>9, <1>10 DEF G

LEMMA GroupsOfGroups ==
  ASSUME NEW agg \in Aggregates, NEW by, NEW S, WholeSeries(S)
  PROVE  PointsIn(Aggregation(Aggregation(S, agg, by), agg, NoName))
           = PointsIn(Aggregation(S, agg, NoName))
<1> DEFINE G == Aggregation(S, agg, by)
<1>1. WholeSeries(G)
  BY GroupsAreWhole
<1>2. ASSUME NEW t, NEW n PROVE AddsUpTo(agg, G, t, n) <=> AddsUpTo(agg, S, t, n)
  <2>1. AddsUpTo(agg, G, t, n) => AddsUpTo(agg, S, t, n)
    BY GroupsTogether
  <2>2. ASSUME AddsUpTo(agg, S, t, n) PROVE AddsUpTo(agg, G, t, n)
    <3> DEFINE I == At(G, t)
               g == AmountsIn(G)
    <3>1. I # {}
      BY <2>2, GroupsTogether DEF AddsUpTo
    <3>2. IsFiniteSet(I) /\ IntOn(g, I)
      BY <1>1, FinitelyMany
    <3> HIDE DEF I, g
    <3>3. PICK m : Summary(agg, m, g, I)
      BY <3>1, <3>2, SummaryExists
    <3>4. AddsUpTo(agg, G, t, m)
      BY <3>1, <3>3 DEF AddsUpTo, I, g
    <3>5. AddsUpTo(agg, S, t, m)
      BY <3>4, GroupsTogether
    <3>6. m = n
      <4> DEFINE J == At(S, t)
                 f == AmountsIn(S)
      <4>1. Summary(agg, m, f, J) /\ Summary(agg, n, f, J) /\ IntOn(f, J)
        BY <2>2, <3>5, FinitelyMany DEF AddsUpTo
      <4> HIDE DEF J, f
      <4> QED BY <4>1, OneSummary
    <3> QED BY <3>4, <3>6
  <2> QED BY <2>1, <2>2
<1> HIDE DEF G
<1>3. PointsIn(Aggregation(G, agg, NoName))
        = {p \in WholePoints : AddsUpTo(agg, G, p.at, p.value[1])}
  BY <1>1, TotalIs
<1>4. PointsIn(Aggregation(S, agg, NoName))
        = {p \in WholePoints : AddsUpTo(agg, S, p.at, p.value[1])}
  BY TotalIs
<1> QED BY <1>2, <1>3, <1>4 DEF G

-----------------------------------------------------------------------------
(* What is read is whole, and stays whole in rate and increase.            *)
LEMMA PointsAreWhole == Points \subseteq WholePoints
<1> SUFFICES ASSUME NEW p \in Points PROVE p \in WholePoints
  OBVIOUS
<1>1. p.at \in Int /\ p = [at |-> p.at, value |-> p.value] /\ \E r \in Measured : r.value = p.value
  BY DEF Points
<1>2. IsWhole(p.value)
  BY <1>1, ValuesAssumption DEF Measured
<1> QED BY <1>1, <1>2 DEF WholePoints, IsWhole

LEMMA SelectedAre ==
  ASSUME MetricsInv, NEW m, NEW labels, NEW from, NEW to,
         NEW s \in SelectWithLabels(m, labels, from, to)
  PROVE  /\ s = [labels |-> labels, points |-> s.points]
         /\ s.points \in Seq(Points)
         /\ \E i \in DOMAIN rows : rows[i].labels = labels
<1>1. Matching(m, labels, from, to) # {}
  BY DEF SelectWithLabels
<1>2. \A a, b \in SelectWithLabels(m, labels, from, to) : a = b
  BY <1>1 DEF SelectWithLabels
<1>3. \E a \in SelectWithLabels(m, labels, from, to) :
        a = [labels |-> labels, points |-> a.points] /\ a.points \in Seq(Points)
  BY <1>1, SelectedIs
<1>4. \E i \in DOMAIN rows : rows[i].labels = labels
  BY <1>1 DEF Matching
<1> QED BY <1>2, <1>3, <1>4

LEMMA SelectIsWhole ==
  ASSUME MetricsInv, NEW m, NEW labels, NEW from, NEW to
  PROVE  WholeSeries(Select(m, labels, from, to))
<1> DEFINE S == Select(m, labels, from, to)
           L == [i \in DOMAIN rows |-> rows[i].labels]
           T == {L[i] : i \in DOMAIN rows}
           f == [ls \in T |-> CHOOSE s : s \in SelectWithLabels(m, ls, from, to)]
           W == {f[ls] : ls \in T}
<1>1. \A s \in S : \E ls : s \in SelectWithLabels(m, ls, from, to)
  BY DEF Select
<1> HIDE DEF S
<1>2. IsFiniteSet(T)
  <2> DEFINE D == DOMAIN rows
  <2>1. IsFiniteSet(D)
    <3> DEFINE n == Len(rows)
    <3>1. D = 1 .. n /\ n \in Nat
      BY DEF MetricsInv
    <3> HIDE DEF D, n
    <3> QED BY <3>1, FS_Interval
  <2> HIDE DEF D, L
  <2> QED BY <2>1, FiniteImage DEF D
<1>3. IsFiniteSet(W)
  <2> HIDE DEF T, f
  <2> QED BY <1>2, FiniteImage
<1>4. ASSUME NEW s \in S PROVE s \in W /\ s.points \in Seq(WholePoints) /\ IsSeriesOf(s)
  <2>1. PICK ls : s \in SelectWithLabels(m, ls, from, to)
    BY <1>1
  <2>2. s.points \in Seq(Points) /\ ls \in T
    BY <2>1, SelectedAre
  <2>8. IsSeriesOf(s)
    BY <2>1, SelectedAre DEF IsSeriesOf
  <2>3. f[ls] \in SelectWithLabels(m, ls, from, to)
    BY <2>1, <2>2
  <2> HIDE DEF T, f
  <2>4. f[ls] = s
    BY <2>1, <2>3 DEF SelectWithLabels
  <2>5. s \in W
    BY <2>2, <2>4
  <2> DEFINE ps == s.points
  <2> HIDE DEF ps, W
  <2>6. ps \in Seq(Points)
    BY <2>2 DEF ps
  <2>7. ps \in Seq(WholePoints)
    BY <2>6, PointsAreWhole
  <2> QED BY <2>5, <2>7, <2>8 DEF ps
<1> HIDE DEF W
<1>5. IsFiniteSet(S)
  BY <1>3, <1>4, FS_Subset
<1> QED BY <1>4, <1>5 DEF WholeSeries, S

(* Of points there is a nearest one. *)
LEMMA ClosestIs ==
  ASSUME NEW ps \in Seq(WholePoints), ps # << >>, NEW t \in Int
  PROVE  ClosestPoint(ps, t) \in WholePoints
<1> DEFINE far == [i \in DOMAIN ps |-> Distance(ps[i].at, t)]
           F == {far[i] : i \in DOMAIN ps}
           N == {i \in DOMAIN ps :
                   \A j \in DOMAIN ps : Distance(ps[i].at, t) <= Distance(ps[j].at, t)}
<1>1. \A i \in DOMAIN ps : far[i] \in Nat /\ i \in Nat
  <2> SUFFICES ASSUME NEW i \in DOMAIN ps PROVE far[i] \in Nat /\ i \in Nat
    OBVIOUS
  <2>1. ps[i] \in WholePoints /\ i \in Nat
    OBVIOUS
  <2>2. ps[i].at \in Int
    BY <2>1, WholePointIs
  <2> QED BY <2>1, <2>2 DEF Distance
<1>2. F # {} /\ F \in SUBSET Nat
  BY <1>1
<1>3. Min(F) \in F /\ \A x \in F : Min(F) <= x
  <2> HIDE DEF F
  <2> QED BY <1>2, MinInSet
<1>4. \A i \in DOMAIN ps : far[i] = Distance(ps[i].at, t)
  OBVIOUS
<1>5. N # {} /\ N \in SUBSET Nat /\ N \in SUBSET DOMAIN ps
  <2> PICK i \in DOMAIN ps : far[i] = Min(F)
    BY <1>3
  <2>1. \A j \in DOMAIN ps : far[i] <= far[j]
    BY <1>3
  <2> HIDE DEF far
  <2>2. i \in N
    BY <1>4, <2>1
  <2> QED BY <1>1, <2>2
<1> HIDE DEF N
<1>6. Min(N) \in DOMAIN ps
  BY <1>5, MinInSet
<1> QED BY <1>6 DEF ClosestPoint, Nearest, N

LEMMA DeltaIsWhole ==
  ASSUME NEW ps \in Seq(WholePoints), NEW w \in Int
  PROVE  Delta(ps, w, FALSE) \in Seq(WholePoints)
<1> DEFINE K == {i \in DOMAIN ps : References(ps, ps[i].at - w) # {}}
           there == Picked(ps, K)
           Value(p) == Growth(p, ClosestPoint(ps, p.at - w))
           D == Delta(ps, w, FALSE)
<1>1. D = [i \in DOMAIN there |-> [at |-> there[i].at, value |-> Value(there[i])]]
  BY DEF Delta
<1>2. K \in SUBSET DOMAIN ps
  OBVIOUS
<1> HIDE DEF K, D
<1>3. there \in Seq(WholePoints) /\ \E h : Lists(h, ps, K, there)
  BY <1>2, PickedIs
<1>4. Len(there) \in Nat /\ DOMAIN there = 1 .. Len(there)
  BY <1>3
<1>5. there # << >> => ps # << >>
  <2>1. ps = << >> => K = {}
    BY <1>2
  <2>2. \A h : Lists(h, ps, K, there) => \A i \in DOMAIN there : h[i] \in K
    BY DEF Lists
  <2> HIDE DEF there
  <2> QED BY <1>3, <2>1, <2>2
<1> HIDE DEF there
<1>6. ASSUME NEW i \in DOMAIN there PROVE D[i] \in WholePoints
  <2> DEFINE p == there[i]
             q == ClosestPoint(ps, p.at - w)
  <2>1. p \in WholePoints /\ ps # << >>
    BY <1>3, <1>5
  <2>2. p.at \in Int
    BY <2>1, WholePointIs
  <2>3. q \in WholePoints
    <3> DEFINE t == p.at - w
    <3>1. t \in Int
      BY <2>2
    <3> HIDE DEF t
    <3>2. ClosestPoint(ps, t) \in WholePoints
      BY <2>1, <3>1, ClosestIs
    <3> QED BY <3>2 DEF t
  <2>4. D[i] = [at |-> p.at, value |-> Growth(p, q)]
    BY <1>1
  <2> HIDE DEF p, q
  <2>5. PICK a \in Int, b \in Int : p.value = Whole(a) /\ q.value = Whole(b)
    BY <2>1, <2>3 DEF WholePoints
  <2>6. Growth(p, q) = Whole(0) \/ Growth(p, q) = Whole(a - b)
    BY <2>5 DEF Growth, Less, Minus, Whole
  <2>7. a - b \in Int /\ 0 \in Int
    OBVIOUS
  <2> QED BY <2>2, <2>4, <2>6, <2>7 DEF WholePoints
<1>7. D \in Seq(WholePoints)
  <2>1. D = [i \in 1 .. Len(there) |-> D[i]]
    BY <1>1, <1>4
  <2> QED BY <1>4, <1>6, <2>1
<1> QED BY <1>7 DEF D

(* What a query in increase or not, aggregated, reads.                     *)
GrownBy(func, window, S) ==
  IF func = NoName THEN S ELSE {[s EXCEPT !.points = Delta(@, window, FALSE)] : s \in S}

LEMMA GrownIsWhole ==
  ASSUME NEW S, WholeSeries(S), NEW func, NEW window \in Int
  PROVE  WholeSeries(GrownBy(func, window, S))
<1> DEFINE f == [s \in S |-> [s EXCEPT !.points = Delta(@, window, FALSE)]]
           T == {f[s] : s \in S}
<1>1. CASE func = NoName
  BY <1>1 DEF GrownBy
<1>2. CASE func # NoName
  <2>1. GrownBy(func, window, S) = T
    BY <1>2 DEF GrownBy
  <2>2. IsFiniteSet(T)
    <3> HIDE DEF f
    <3> QED BY FiniteImage DEF WholeSeries
  <2>3. ASSUME NEW s \in S PROVE IsSeriesOf(f[s]) /\ f[s].points \in Seq(WholePoints)
    <3> DEFINE ps == s.points
               D == Delta(ps, window, FALSE)
    <3>1. ps \in Seq(WholePoints) /\ s = [labels |-> s.labels, points |-> ps]
      BY DEF WholeSeries, IsSeriesOf
    <3>2. f[s] = [s EXCEPT !.points = D]
      OBVIOUS
    <3> HIDE DEF ps, f
    <3>3. D \in Seq(WholePoints)
      BY <3>1, DeltaIsWhole
    <3> HIDE DEF D
    <3>4. f[s] = [labels |-> s.labels, points |-> D]
      BY <3>1, <3>2
    <3> QED BY <3>3, <3>4 DEF IsSeriesOf
  <2> HIDE DEF f
  <2>4. \A a \in T : IsSeriesOf(a) /\ a.points \in Seq(WholePoints)
    BY <2>3
  <2> QED BY <2>1, <2>2, <2>4 DEF WholeSeries
<1> QED BY <1>1, <1>2

AnswerOf(m, agg, by, S) ==
  IF m = NoName THEN {} ELSE IF agg = NoName THEN S ELSE Aggregation(S, agg, by)
ReadBy(m, func, window, from, to) == GrownBy(func, window, Select(m, << >>, from, to))

LEMMA AskedIs ==
  ASSUME NEW m, NEW func \in {NoName, "increase"}, NEW window \in Int, func = NoName \/ window # 0,
         NEW agg, NEW by, NEW from, NEW to
  PROVE  SeriesOf(Asked(m, func, window, agg, by), from, to)
           = AnswerOf(m, agg, by, ReadBy(m, func, window, from, to))
<1> DEFINE q == Asked(m, func, window, agg, by)
           R == Select(m, << >>, from, to)
<1>1. /\ q.name = m /\ q.labels = << >> /\ q.func = func /\ q.agg = agg /\ q.by = by
      /\ q.window = IF func = NoName THEN 0 ELSE window
      /\ DOMAIN q = {"name", "labels", "func", "window", "unit", "agg", "by"}
  BY NoNameAssumption DEF Asked, Plain, ParseSingleExpr
<1> HIDE DEF q, R
<1>2. "num" \notin DOMAIN q
  BY <1>1
<1>3. SeriesOf(q, from, to) = IF m = NoName THEN {} ELSE Computed(q, R)
  BY <1>1, <1>2 DEF SeriesOf, R
<1> DEFINE S == IF q.window = 0 THEN R
                ELSE {[s EXCEPT !.points = Delta(@, q.window, q.func = "rate")] : s \in R}
<1>4. S = GrownBy(func, window, R)
  <2>1. CASE func = NoName
    BY <1>1, <2>1 DEF GrownBy
  <2>2. CASE func # NoName
    <3>1. q.window = window /\ q.window # 0 /\ (q.func = "rate") = FALSE
      BY <1>1, <2>2
    <3> QED BY <2>2, <3>1 DEF GrownBy
  <2> QED BY <2>1, <2>2
<1>5. Computed(q, R) = IF agg = NoName THEN S ELSE Aggregation(S, agg, by)
  BY <1>1 DEF Computed
<1> HIDE DEF S
<1> QED BY <1>3, <1>4, <1>5 DEF q, R, AnswerOf, ReadBy

LEMMA GroupsAlwaysCombine ==
  ASSUME MetricsInv, NEW m, NEW func \in {NoName, "increase"}, NEW agg \in Aggregates, NEW by,
         NEW from, NEW to
  PROVE  GroupsCombine(m, func, 2, agg, by, from, to)
<1> DEFINE w == 2
           S == ReadBy(m, func, w, from, to)
           Total == SeriesOf(Asked(m, func, w, agg, NoName), from, to)
           Groups == SeriesOf(Asked(m, func, w, agg, by), from, to)
<1>0. w \in Int /\ w # 0 /\ agg # NoName
  BY NoNameAssumption DEF Aggregates
<1> HIDE DEF w
<1>1. WholeSeries(S)
  BY <1>0, SelectIsWhole, GrownIsWhole DEF ReadBy
<1>5. \A b : SeriesOf(Asked(m, func, w, agg, b), from, to) = AnswerOf(m, agg, b, S)
  BY <1>0, AskedIs
<1>2. Groups = IF m = NoName THEN {} ELSE Aggregation(S, agg, by)
  BY <1>0, <1>5 DEF AnswerOf
<1>3. Total = IF m = NoName THEN {} ELSE Aggregation(S, agg, NoName)
  BY <1>0, <1>5 DEF AnswerOf
<1> HIDE DEF S, Total, Groups
<1>4. PointsIn(Aggregation(Groups, agg, NoName)) = PointsIn(Total)
  <2>1. CASE m = NoName
    <3>1. Aggregation({}, agg, NoName) = {}
      BY AggregationIs DEF Keys
    <3> QED BY <1>2, <1>3, <2>1, <3>1
  <2>2. CASE m # NoName
    BY <1>1, <1>2, <1>3, <2>2, GroupsOfGroups
  <2> QED BY <2>1, <2>2
<1> QED BY <1>4 DEF GroupsCombine, Total, Groups, w

-----------------------------------------------------------------------------
(* Ratios.  A fraction of whole numbers, times the lower, is the upper.    *)
LEMMA OverIs ==
  ASSUME NEW a \in Int, NEW b \in Int, b # 0
  PROVE  LET q == Over(Whole(a), Whole(b)) IN Same(Whole(a), <<q[1] * b, q[2] * 1>>)
<1>1. CASE b < 0
  <2>1. Over(Whole(a), Whole(b)) = <<-a, -b>>
    BY <1>1 DEF Over, Whole
  <2>2. a * (-b) = (-a) * b
    OBVIOUS
  <2> QED BY <2>1, <2>2 DEF Same, Whole
<1>2. CASE ~(b < 0)
  <2>1. Over(Whole(a), Whole(b)) = <<a, b>>
    BY <1>2 DEF Over, Whole
  <2> QED BY <2>1 DEF Same, Whole
<1> QED BY <1>1, <1>2

(* A quotient has what is above at a time that is below too. *)
TimesBelow(r, n, d, p) ==
  \E x \in Range(n.points), y \in Range(d.points) :
    /\ x.at = p.at /\ y.at = p.at
    /\ Same(x.value, <<p.value[1] * y.value[1], p.value[2] * y.value[2]>>)

LEMMA QuotientIs ==
  ASSUME NEW n, NEW d, n.points \in Seq(WholePoints), d.points \in Seq(WholePoints),
         NEW p \in Range(Quotient(n, d).points)
  PROVE  TimesBelow(Quotient(n, d), n, d, p)
<1> DEFINE ps == n.points
           ds == d.points
           Below(t) == ds[Max(AtTime(ds, t))].value
           K == {i \in DOMAIN ps : AtTime(ds, ps[i].at) # {} /\ Below(ps[i].at)[1] # 0}
           there == Picked(ps, K)
           r == [i \in DOMAIN there |->
                   [at |-> there[i].at, value |-> Over(there[i].value, Below(there[i].at))]]
<1>1. Quotient(n, d).points = r
  BY Zenon DEF Quotient, AtTime
<1>2. K \in SUBSET DOMAIN ps /\ ps \in Seq(WholePoints) /\ ds \in Seq(WholePoints)
  OBVIOUS
<1> HIDE DEF there
<1>4. PICK i \in DOMAIN there :
        p = [at |-> there[i].at, value |-> Over(there[i].value, Below(there[i].at))]
  <2>1. p \in Range(r)
    BY <1>1
  <2> HIDE DEF Below
  <2> QED BY <2>1 DEF Range
<1> HIDE DEF ps, ds
<1>3. \A j \in K : AtTime(ds, ps[j].at) # {} /\ Below(ps[j].at)[1] # 0
  <2> HIDE DEF Below
  <2> QED OBVIOUS
<1> HIDE DEF K
<1>5. \E h : Lists(h, ps, K, there)
  BY <1>2, PickedIs DEF there
<1>6. PICK k \in K : there[i] = ps[k]
  BY <1>5 DEF Lists
<1> DEFINE x == ps[k]
           I == AtTime(ds, x.at)
           y == ds[Max(I)]
<1>7. x \in WholePoints /\ x \in Range(ps)
  BY <1>2 DEF Range
<1>8. I # {} /\ y.value[1] # 0
  BY <1>3
<1>9. I \in SUBSET DOMAIN ds /\ IsFiniteSet(I) /\ \A j \in I : ds[j].at = x.at
  BY <1>2, FewAtATime DEF AtTime
<1> HIDE DEF I
<1>10. Max(I) \in I
  <2>1. I \in SUBSET Nat
    BY <1>2, <1>9
  <2> QED BY <1>8, <1>9, <2>1, FiniteMax
<1>11. y \in WholePoints /\ y \in Range(ds) /\ y.at = x.at
  BY <1>2, <1>9, <1>10 DEF Range
<1>12. p = [at |-> x.at, value |-> Over(x.value, y.value)]
  BY <1>4, <1>6 DEF I
<1> HIDE DEF x, y
<1>13. PICK a \in Int, b \in Int : x.value = Whole(a) /\ y.value = Whole(b)
  BY <1>7, <1>11 DEF WholePoints
<1>14. y.value[1] = b /\ y.value[2] = 1 /\ b # 0
  BY <1>8, <1>13 DEF Whole
<1>15. Same(x.value, <<p.value[1] * y.value[1], p.value[2] * y.value[2]>>)
  <2> DEFINE q == Over(Whole(a), Whole(b))
  <2>1. Same(Whole(a), <<q[1] * b, q[2] * 1>>)
    BY <1>14, OverIs
  <2>2. p.value = q
    BY <1>12, <1>13
  <2> HIDE DEF q
  <2> QED BY <1>13, <1>14, <2>1, <2>2
<1>16. x.at = p.at /\ y.at = p.at
  BY <1>11, <1>12
<1> DEFINE n0 == Quotient(n, d)
<1> HIDE DEF n0
<1>17. TimesBelow(n0, n, d, p)
  BY ONLY <1>7, <1>11, <1>15, <1>16 DEF TimesBelow, ps, ds
<1> QED BY <1>17 DEF n0

LEMMA RatioIs ==
  ASSUME NEW A, WholeSeries(A), NEW B, WholeSeries(B), NEW r \in Ratio(A, B),
         NEW p \in Range(r.points)
  PROVE  \E n \in A, m \in B : n.labels = r.labels /\ m.labels = r.labels /\ TimesBelow(r, n, m, p)
<1>1. PICK nd \in A \X B : nd[1].labels = nd[2].labels /\ r = Quotient(nd[1], nd[2])
  BY Zenon DEF Ratio
<1> DEFINE n == nd[1]
           m == nd[2]
<1>2. n \in A /\ m \in B /\ n.points \in Seq(WholePoints) /\ m.points \in Seq(WholePoints)
  BY DEF WholeSeries
<1>3. r.labels = n.labels
  BY Zenon, <1>1 DEF Quotient
<1> HIDE DEF n, m
<1>4. r = Quotient(n, m) /\ n.labels = m.labels
  BY <1>1 DEF n, m
<1>5. TimesBelow(r, n, m, p)
  BY <1>2, <1>4, QuotientIs
<1> QED BY <1>2, <1>3, <1>4, <1>5

LEMMA RatioReads ==
  ASSUME NEW n, NEW d, NEW agg, NEW by, NEW from, NEW to
  PROVE  SeriesOf(ParseRatio(Asked(n, NoName, 0, agg, by), Asked(d, NoName, 0, agg, by)), from, to)
           = Ratio(SeriesOf(Asked(n, NoName, 0, agg, by), from, to),
                   SeriesOf(Asked(d, NoName, 0, agg, by), from, to))
<1> DEFINE Q(m) == Asked(m, NoName, 0, agg, by)
           q == ParseRatio(Q(n), Q(d))
           Reads(m) == AnswerOf(m, agg, by, Select(m, << >>, from, to))
<1>1. \A m : SeriesOf(Q(m), from, to) = Reads(m)
  <2> SUFFICES ASSUME NEW m PROVE SeriesOf(Q(m), from, to) = Reads(m)
    OBVIOUS
  <2> DEFINE w == 0
  <2>0. w \in Int
    OBVIOUS
  <2> HIDE DEF w
  <2>1. SeriesOf(Asked(m, NoName, w, agg, by), from, to)
          = AnswerOf(m, agg, by, ReadBy(m, NoName, w, from, to))
    BY <2>0, AskedIs
  <2>2. ReadBy(m, NoName, w, from, to) = Select(m, << >>, from, to)
    BY DEF ReadBy, GrownBy
  <2> QED BY <2>1, <2>2 DEF w
<1>2. \A m : /\ Q(m).name = m /\ Q(m).labels = << >> /\ Q(m).func = NoName
             /\ Q(m).agg = agg /\ Q(m).by = by /\ Q(m).window = 0
             /\ DOMAIN Q(m) = {"name", "labels", "func", "window", "unit", "agg", "by"}
  BY DEF Asked, Plain, ParseSingleExpr
<1> HIDE DEF Q
<1>3. /\ q.name = d /\ q.labels = << >> /\ q.num = n /\ q.numLabels = << >>
      /\ q.window = 0 /\ q.agg = agg /\ q.by = by /\ "num" \in DOMAIN q
  <2> DEFINE num == ParseSingleExpr(Q(n))
             den == ParseSingleExpr(Q(d))
  <2>1. /\ num.name = n /\ num.labels = << >> /\ num.agg = agg /\ num.by = by /\ num.window = 0
        /\ den.name = d /\ den.labels = << >>
    BY <1>2 DEF ParseSingleExpr
  <2>2. q = [name |-> den.name, labels |-> den.labels, func |-> num.func, window |-> num.window,
             unit |-> num.unit, agg |-> num.agg, by |-> num.by,
             num |-> num.name, numLabels |-> num.labels]
    BY DEF ParseRatio
  <2> HIDE DEF q, num, den
  <2> QED BY <2>1, <2>2
<1> HIDE DEF q
<1>4. \A S : Computed(q, S) = IF agg = NoName THEN S ELSE Aggregation(S, agg, by)
  BY <1>3 DEF Computed
<1>5. SeriesOf(q, from, to) = Ratio(Reads(n), Reads(d))
  BY <1>3, <1>4 DEF SeriesOf, AnswerOf
<1> QED BY <1>1, <1>5 DEF q, Q

LEMMA RatiosAlwaysMultiplyBack ==
  ASSUME MetricsInv, NEW n, NEW d, NEW agg \in {NoName, "sum"}, NEW by, NEW from, NEW to
  PROVE  RatiosMultiplyBack(Asked(n, NoName, 0, agg, by), Asked(d, NoName, 0, agg, by), from, to)
<1> DEFINE w == 0
           above == Asked(n, NoName, w, agg, by)
           below == Asked(d, NoName, w, agg, by)
           A == SeriesOf(above, from, to)
           B == SeriesOf(below, from, to)
<1>1. \A m : WholeSeries(SeriesOf(Asked(m, NoName, w, agg, by), from, to))
  <2> SUFFICES ASSUME NEW m
               PROVE  WholeSeries(SeriesOf(Asked(m, NoName, w, agg, by), from, to))
    OBVIOUS
  <2> DEFINE S == ReadBy(m, NoName, w, from, to)
  <2>0. w \in Int
    OBVIOUS
  <2> HIDE DEF w
  <2>1. SeriesOf(Asked(m, NoName, w, agg, by), from, to) = AnswerOf(m, agg, by, S)
    BY <2>0, AskedIs
  <2>2. WholeSeries(S)
    BY <2>0, SelectIsWhole, GrownIsWhole DEF ReadBy
  <2> HIDE DEF S
  <2>3. WholeSeries({})
    <3>1. IsFiniteSet({})
      BY FS_EmptySet
    <3> QED BY <3>1 DEF WholeSeries
  <2>4. agg # NoName => WholeSeries(Aggregation(S, agg, by))
    BY <2>2, GroupsAreWhole DEF Aggregates
  <2> QED BY <2>1, <2>2, <2>3, <2>4 DEF AnswerOf
<1>2. SeriesOf(ParseRatio(above, below), from, to) = Ratio(A, B)
  BY RatioReads
<1>3. \A r \in Ratio(A, B) : \A p \in Range(r.points) :
        \E x \in A, y \in B : x.labels = r.labels /\ y.labels = r.labels /\ TimesBelow(r, x, y, p)
  <2>1. WholeSeries(A) /\ WholeSeries(B)
    BY <1>1
  <2> HIDE DEF A, B
  <2> QED BY <2>1, RatioIs
<1> HIDE DEF above, below
<1>4. RatiosMultiplyBack(above, below, from, to)
  BY <1>2, <1>3 DEF RatiosMultiplyBack, TimesBelow
<1> QED BY <1>4 DEF above, below

-----------------------------------------------------------------------------
(* Histograms.  A row that counts comes after the bucket that holds all.   *)
IsBucketOf(b, r) ==
  /\ b.name = <<r.name[1], "_bucket">> /\ b.labels = Labelled("le", Inf, r.labels)
  /\ b.at = r.at /\ b.value = r.value
CountsAll(r) == r.name[2] = "_count" /\ OnlyHistograms(r.name[1])
HasBucket(s, r) == \E j \in DOMAIN s : IsBucketOf(s[j], r)
Bucketed(s) ==
  \A i \in DOMAIN s : CountsAll(s[i]) => \E j \in DOMAIN s : j < i /\ IsBucketOf(s[j], s[i])

(* What two lists are together. *)
Appends(a, b, s) ==
  /\ IsList(s)
  /\ \A i \in DOMAIN s : \/ i \in DOMAIN a /\ s[i] = a[i]
                         \/ i - Len(a) \in DOMAIN b /\ s[i] = b[i - Len(a)]
  /\ \A i \in DOMAIN a : i \in DOMAIN s /\ s[i] = a[i]
  /\ \A i \in DOMAIN b : Len(a) + i \in DOMAIN s /\ s[Len(a) + i] = b[i]

LEMMA ListIs ==
  ASSUME NEW s, IsList(s)
  PROVE  Len(s) \in Nat /\ DOMAIN s = 1 .. Len(s)
<1> DEFINE D == {s[i] : i \in DOMAIN s}
<1>1. s \in Seq(D)
  BY DEF IsList
<1> HIDE DEF D
<1> QED BY <1>1

LEMMA SeqIsList ==
  ASSUME NEW D, NEW s \in Seq(D)
  PROVE  IsList(s)
<1> DEFINE T == {s[i] : i \in DOMAIN s}
<1>1. \A i \in DOMAIN s : s[i] \in T
  OBVIOUS
<1>2. s = [i \in 1 .. Len(s) |-> s[i]] /\ Len(s) \in Nat /\ DOMAIN s = 1 .. Len(s)
  OBVIOUS
<1> HIDE DEF T
<1>3. s \in Seq(T)
  BY <1>1, <1>2
<1> QED BY <1>3 DEF IsList, T

LEMMA AppendsIs ==
  ASSUME NEW a, IsList(a), NEW b, IsList(b)
  PROVE  Appends(a, b, a \o b)
<1> DEFINE D == {a[i] : i \in DOMAIN a} \cup {b[i] : i \in DOMAIN b}
           s == a \o b
<1>1. a \in Seq(D) /\ b \in Seq(D)
  <2>1. /\ \A i \in DOMAIN a : a[i] \in D
        /\ \A i \in DOMAIN b : b[i] \in D
    OBVIOUS
  <2>2. a = [i \in 1 .. Len(a) |-> a[i]] /\ b = [i \in 1 .. Len(b) |-> b[i]]
    BY DEF IsList
  <2>3. Len(a) \in Nat /\ DOMAIN a = 1 .. Len(a) /\ Len(b) \in Nat /\ DOMAIN b = 1 .. Len(b)
    BY ListIs
  <2> HIDE DEF D
  <2> QED BY <2>1, <2>2, <2>3
<1> HIDE DEF D
<1>2. s \in Seq(D)
  BY <1>1
<1>3. IsList(s)
  BY <1>2, SeqIsList
<1>4. /\ Len(a) \in Nat /\ DOMAIN a = 1 .. Len(a) /\ Len(b) \in Nat /\ DOMAIN b = 1 .. Len(b)
      /\ DOMAIN s = 1 .. Len(a) + Len(b)
      /\ \A i \in 1 .. Len(a) : s[i] = a[i]
      /\ \A i \in Len(a) + 1 .. Len(a) + Len(b) : s[i] = b[i - Len(a)]
  BY <1>1
<1> HIDE DEF s
<1>5. ASSUME NEW i \in DOMAIN s
      PROVE  \/ i \in DOMAIN a /\ s[i] = a[i]
             \/ i - Len(a) \in DOMAIN b /\ s[i] = b[i - Len(a)]
  <2>1. CASE i <= Len(a)
    BY <1>4, <2>1
  <2>2. CASE ~(i <= Len(a))
    BY <1>4, <2>2
  <2> QED BY <2>1, <2>2
<1>6. \A i \in DOMAIN a : i \in DOMAIN s /\ s[i] = a[i]
  BY <1>4
<1>7. ASSUME NEW i \in DOMAIN b PROVE Len(a) + i \in DOMAIN s /\ s[Len(a) + i] = b[i]
  <2>1. i \in 1 .. Len(b)
    BY <1>4
  <2> DEFINE k == Len(a) + i
  <2>2. k \in Len(a) + 1 .. Len(a) + Len(b) /\ k - Len(a) = i /\ k \in 1 .. Len(a) + Len(b)
    BY <1>4, <2>1
  <2> HIDE DEF k
  <2>3. k \in DOMAIN s /\ s[k] = b[i]
    BY <1>4, <2>2
  <2> QED BY <2>3 DEF k
<1> QED BY <1>3, <1>5, <1>6, <1>7 DEF Appends, s

LEMMA AppendsBuckets ==
  ASSUME NEW a, IsList(a), Bucketed(a), NEW b, IsList(b), Bucketed(b)
  PROVE  Bucketed(a \o b)
<1> DEFINE s == a \o b
<1>1. Appends(a, b, s)
  BY AppendsIs
<1> HIDE DEF s
<1>2. ASSUME NEW i \in DOMAIN s, CountsAll(s[i])
      PROVE  \E j \in DOMAIN s : j < i /\ IsBucketOf(s[j], s[i])
  <2>1. CASE i \in DOMAIN a /\ s[i] = a[i]
    <3>1. PICK j \in DOMAIN a : j < i /\ IsBucketOf(a[j], a[i])
      BY <1>2, <2>1 DEF Bucketed
    <3> QED BY <1>1, <2>1, <3>1 DEF Appends
  <2>2. CASE i - Len(a) \in DOMAIN b /\ s[i] = b[i - Len(a)]
    <3>1. PICK j \in DOMAIN b : j < i - Len(a) /\ IsBucketOf(b[j], b[i - Len(a)])
      BY <1>2, <2>2 DEF Bucketed
    <3>2. Len(a) + j \in DOMAIN s /\ s[Len(a) + j] = b[j]
      BY <1>1 DEF Appends
    <3>3. Len(a) \in Nat /\ j \in Nat /\ i \in Nat
      <4>1. IsList(s)
        BY <1>1 DEF Appends
      <4>2. DOMAIN s = 1 .. Len(s) /\ DOMAIN b = 1 .. Len(b) /\ Len(a) \in Nat
        BY <4>1, ListIs
      <4> QED BY <4>2
    <3>4. Len(a) + j < i
      BY <3>1, <3>3
    <3> QED BY <2>2, <3>1, <3>2, <3>4
  <2> QED BY <1>1, <2>1, <2>2 DEF Appends
<1> QED BY <1>2 DEF Bucketed, s

LEMMA FlattenBuckets ==
  ASSUME NEW seqs, IsList(seqs), \A i \in DOMAIN seqs : IsList(seqs[i]) /\ Bucketed(seqs[i])
  PROVE  IsList(FlattenSeq(seqs)) /\ Bucketed(FlattenSeq(seqs))
<1> DEFINE D == UNION {{seqs[i][k] : k \in DOMAIN seqs[i]} : i \in DOMAIN seqs}
           flat == FlattenSeq(seqs)
           n == Len(seqs)
<1>1. n \in Nat /\ DOMAIN seqs = 1 .. n /\ seqs = [i \in 1 .. n |-> seqs[i]]
  BY ListIs DEF IsList
<1>2. ASSUME NEW i \in 1 .. n PROVE seqs[i] \in Seq(D)
  <2> DEFINE s == seqs[i]
  <2>1. IsList(s) /\ \A k \in DOMAIN s : s[k] \in D
    BY <1>1
  <2> HIDE DEF s, D
  <2>2. Len(s) \in Nat /\ DOMAIN s = 1 .. Len(s) /\ s = [k \in 1 .. Len(s) |-> s[k]]
    BY <2>1, ListIs DEF IsList
  <2>3. s \in Seq(D)
    BY <2>1, <2>2
  <2> QED BY <2>3 DEF s
<1> HIDE DEF D, n, flat
<1>3. seqs \in Seq(Seq(D))
  <2> DEFINE E == Seq(D)
  <2>1. \A i \in 1 .. n : seqs[i] \in E
    BY <1>2
  <2> HIDE DEF E
  <2>2. seqs \in Seq(E)
    BY <1>1, <2>1
  <2> QED BY <2>2 DEF E
<1>4. flat \in Seq(D) /\ \E off : Flattens(seqs, flat, off)
  BY <1>3, FlattenPlaces DEF flat
<1>5. PICK off : Flattens(seqs, flat, off)
  BY <1>4
<1>6. /\ \A j \in 1 .. n : off[j] \in Nat /\ off[j] + Len(seqs[j]) <= Len(flat)
      /\ \A j \in 1 .. n : \A i \in 1 .. Len(seqs[j]) : flat[off[j] + i] = seqs[j][i]
      /\ \A k \in 1 .. Len(flat) : \E j \in 1 .. n : k - off[j] \in 1 .. Len(seqs[j])
  BY <1>5 DEF Flattens, FlattensTo, n
<1>7. IsList(flat) /\ Len(flat) \in Nat /\ DOMAIN flat = 1 .. Len(flat)
  BY <1>4, SeqIsList
<1>8. ASSUME NEW k \in DOMAIN flat, CountsAll(flat[k])
      PROVE  \E l \in DOMAIN flat : l < k /\ IsBucketOf(flat[l], flat[k])
  <2>1. PICK j \in 1 .. n : k - off[j] \in 1 .. Len(seqs[j])
    BY <1>6, <1>7
  <2> DEFINE s == seqs[j]
             i == k - off[j]
             o == off[j]
  <2>2. Bucketed(s) /\ Len(s) \in Nat /\ DOMAIN s = 1 .. Len(s)
    BY <1>1, ListIs
  <2>3. o \in Nat /\ o + Len(s) <= Len(flat) /\ \A m \in 1 .. Len(s) : flat[o + m] = s[m]
    BY <1>6
  <2>4. k \in Nat /\ i \in DOMAIN s /\ o + i = k
    BY <1>7, <2>1, <2>2, <2>3
  <2> HIDE DEF s, i, o
  <2>5. flat[k] = s[i]
    BY <2>2, <2>3, <2>4
  <2>6. PICK m \in DOMAIN s : m < i /\ IsBucketOf(s[m], s[i])
    BY <1>8, <2>2, <2>4, <2>5 DEF Bucketed
  <2>7. o + m \in DOMAIN flat /\ o + m < k /\ flat[o + m] = s[m]
    BY <1>7, <2>2, <2>3, <2>4, <2>6
  <2> QED BY <2>5, <2>6, <2>7
<1>9. Bucketed(flat)
  BY <1>8 DEF Bucketed
<1> QED BY <1>7, <1>9 DEF flat

(* No row of a list counts. *)
NoCounts(s) == \A i \in DOMAIN s : ~CountsAll(s[i])

LEMMA FunctionIsList ==
  ASSUME NEW n \in Nat, NEW f, f = [i \in 1 .. n |-> f[i]]
  PROVE  IsList(f)
<1> DEFINE T == {f[i] : i \in 1 .. n}
<1>1. f \in [1 .. n -> T]
  <2>1. \A i \in 1 .. n : f[i] \in T
    OBVIOUS
  <2> HIDE DEF T
  <2> QED BY <2>1
<1> HIDE DEF T
<1>2. f \in Seq(T)
  BY <1>1
<1> QED BY <1>2, SeqIsList

LEMMA OneIsList ==
  ASSUME NEW r
  PROVE  IsList(<<r>>) /\ IsList(<< >>) /\ DOMAIN <<r>> = {1} /\ DOMAIN << >> = {}
<1>1. <<r>> \in Seq({r}) /\ << >> \in Seq({r}) /\ DOMAIN <<r>> = {1} /\ DOMAIN << >> = {}
  OBVIOUS
<1> DEFINE s == <<r>>
           e == << >>
           D == {r}
<1>2. s \in Seq(D) /\ e \in Seq(D)
  BY <1>1
<1> HIDE DEF s, e, D
<1>3. IsList(s) /\ IsList(e)
  BY <1>2, SeqIsList
<1> QED BY <1>1, <1>3 DEF s, e

LEMMA NoCountsTogether ==
  ASSUME NEW a, IsList(a), NoCounts(a), NEW b, IsList(b), NoCounts(b)
  PROVE  IsList(a \o b) /\ NoCounts(a \o b)
<1> DEFINE s == a \o b
<1>1. Appends(a, b, s)
  BY AppendsIs
<1> HIDE DEF s
<1> QED BY <1>1 DEF Appends, NoCounts, s

(* What a point of a histogram becomes. *)
LEMMA HistogramIs ==
  ASSUME NEW n, NEW ls, NEW dp, IsList(dp.bounds), IsList(dp.counts)
  PROVE  /\ IsList(HistogramToPoints(n, ls, dp))
         /\ (OnlyHistograms(n) => AddsUp(dp)) => Bucketed(HistogramToPoints(n, ls, dp))
<1> DEFINE upTo(i) == CountOf(SubSeq(dp.counts, 1, i))
           bounded == Min({Len(dp.bounds), Len(dp.counts)})
           Bucket(le, i) == WithName(n, "_bucket", Labelled("le", le, ls), dp.at, upTo(i))
           row == WithName(n, "_count", ls, dp.at, dp.count)
           last == Bucket(Inf, Len(dp.bounds) + 1)
           a == [i \in 1 .. bounded |-> Bucket(dp.bounds[i], i)]
           b == IF Len(dp.counts) > Len(dp.bounds) THEN <<last>> ELSE << >>
           total == WithName(n, "_sum", ls, dp.at, dp.sum)
           c == IF dp.sum # NoName THEN <<total>> ELSE << >>
           d == <<row>>
<1>1. HistogramToPoints(n, ls, dp) = a \o b \o c \o d
  BY DEF HistogramToPoints
<1>2. Len(dp.bounds) \in Nat /\ Len(dp.counts) \in Nat
  BY ListIs
<1>3. bounded \in Nat
  <2> DEFINE S == {Len(dp.bounds), Len(dp.counts)}
  <2>1. S \in SUBSET Nat /\ S # {}
    BY <1>2
  <2> HIDE DEF S
  <2>2. Min(S) \in S
    BY <2>1, MinInSet
  <2> QED BY <2>1, <2>2 DEF S
<1>4. \A le, i : ~CountsAll(Bucket(le, i))
  BY DEF WithName, CountsAll
<1>5. ~CountsAll(total) /\ row.name = <<n, "_count">> /\ row.labels = ls /\ row.at = dp.at
      /\ row.value = dp.count
  BY DEF WithName, CountsAll
<1>6. AddsUp(dp) => IsBucketOf(last, row) /\ b = <<last>>
  <2> SUFFICES ASSUME AddsUp(dp) PROVE IsBucketOf(last, row) /\ b = <<last>>
    OBVIOUS
  <2>1. Len(dp.counts) = Len(dp.bounds) + 1 /\ dp.count = CountOf(dp.counts)
    BY DEF AddsUp
  <2>2. SubSeq(dp.counts, 1, Len(dp.bounds) + 1) = dp.counts
    <3> DEFINE k == dp.counts
               D == {k[i] : i \in DOMAIN k}
    <3>1. k \in Seq(D)
      BY DEF IsList
    <3> HIDE DEF k, D
    <3>2. SubSeq(k, 1, Len(k)) = k
      BY <3>1
    <3> QED BY <2>1, <3>2 DEF k
  <2>3. last = WithName(n, "_bucket", Labelled("le", Inf, ls), dp.at, dp.count)
    BY <2>1, <2>2
  <2> HIDE DEF last
  <2>4. b = <<last>>
    BY <1>2, <2>1
  <2>5. IsBucketOf(last, row)
    BY <1>5, <2>3 DEF IsBucketOf, WithName
  <2> QED BY <2>4, <2>5
<1> HIDE DEF row, last, total
<1>7. IsList(a) /\ NoCounts(a)
  <2>1. a = [i \in 1 .. bounded |-> a[i]] /\ DOMAIN a = 1 .. bounded
    OBVIOUS
  <2>2. \A i \in 1 .. bounded : a[i] = Bucket(dp.bounds[i], i)
    OBVIOUS
  <2> HIDE DEF a, bounded, Bucket
  <2>3. IsList(a)
    BY <1>3, <2>1, FunctionIsList
  <2> QED BY <1>4, <2>1, <2>2, <2>3 DEF NoCounts
<1>8. IsList(b) /\ NoCounts(b)
  <2>1. ~CountsAll(last)
    BY <1>4 DEF last
  <2> QED BY <2>1, OneIsList DEF NoCounts
<1>9. IsList(c) /\ NoCounts(c)
  BY <1>5, OneIsList DEF NoCounts
<1>10. IsList(d) /\ DOMAIN d = {1} /\ d[1] = row
  BY OneIsList
<1>11. b = <<last>> => 1 \in DOMAIN b /\ b[1] = last
  OBVIOUS
<1> DEFINE ab == a \o b
           abc == ab \o c
           s == abc \o d
<1> HIDE DEF a, b, c, d
<1>12. Appends(a, b, ab) /\ IsList(ab) /\ NoCounts(ab)
  BY <1>7, <1>8, AppendsIs, NoCountsTogether
<1> HIDE DEF ab
<1>13. Appends(ab, c, abc) /\ IsList(abc) /\ NoCounts(abc)
  BY <1>9, <1>12, AppendsIs, NoCountsTogether
<1> HIDE DEF abc
<1>14. Appends(abc, d, s) /\ IsList(s)
  <2>1. Appends(abc, d, s)
    BY <1>10, <1>13, AppendsIs
  <2> HIDE DEF s
  <2> QED BY <2>1 DEF Appends
<1> HIDE DEF s
<1>15. ASSUME OnlyHistograms(n) => AddsUp(dp), NEW i \in DOMAIN s, CountsAll(s[i])
       PROVE  \E j \in DOMAIN s : j < i /\ IsBucketOf(s[j], s[i])
  <2>1. ~(i \in DOMAIN abc /\ s[i] = abc[i])
    BY <1>13, <1>15 DEF NoCounts
  <2>2. i - Len(abc) = 1 /\ s[i] = row
    BY <1>10, <1>14, <2>1 DEF Appends
  <2>3. AddsUp(dp)
    <3>1. OnlyHistograms(n)
      BY <1>5, <1>15, <2>2 DEF CountsAll
    <3> QED BY <1>15, <3>1
  <2>4. IsBucketOf(last, row) /\ 1 \in DOMAIN b /\ b[1] = last
    BY <1>6, <1>11, <2>3
  <2>5. PICK j \in DOMAIN ab : ab[j] = last
    BY <1>12, <2>4 DEF Appends
  <2>6. j \in DOMAIN abc /\ abc[j] = last
    BY <1>13, <2>5 DEF Appends
  <2>7. j \in DOMAIN s /\ s[j] = last
    BY <1>14, <2>6 DEF Appends
  <2>8. j < i
    <3>1. Len(abc) \in Nat /\ DOMAIN abc = 1 .. Len(abc) /\ DOMAIN s = 1 .. Len(s)
      BY <1>13, <1>14, ListIs
    <3> QED BY <2>2, <2>6, <3>1
  <2> QED BY <2>2, <2>4, <2>7, <2>8
<1>16. (OnlyHistograms(n) => AddsUp(dp)) => Bucketed(s)
  BY <1>15 DEF Bucketed
<1> QED BY <1>1, <1>14, <1>16 DEF s, abc, ab

(* Neither a number nor a summary has rows of a histogram.                 *)
LEMMA OthersAre ==
  ASSUME NEW n, ~OnlyHistograms(n), NEW ls, NEW dp
  PROVE  /\ IsList(NumberToPoints(n, ls, dp)) /\ Bucketed(NumberToPoints(n, ls, dp))
         /\ IsList(dp.quantiles) =>
              IsList(SummaryToPoints(n, ls, dp)) /\ Bucketed(SummaryToPoints(n, ls, dp))
<1>1. \A s, l, t, v : ~CountsAll(WithName(n, s, l, t, v))
  BY DEF WithName, CountsAll
<1>2. IsList(NumberToPoints(n, ls, dp)) /\ Bucketed(NumberToPoints(n, ls, dp))
  <2> DEFINE r == WithName(n, "", ls, dp.at, dp.value)
             s == <<r>>
  <2>1. ~CountsAll(r) /\ NumberToPoints(n, ls, dp) = s
    BY <1>1 DEF NumberToPoints
  <2> HIDE DEF r
  <2>2. IsList(s) /\ DOMAIN s = {1} /\ s[1] = r
    BY OneIsList
  <2> HIDE DEF s
  <2> QED BY <2>1, <2>2 DEF Bucketed
<1>3. ASSUME IsList(dp.quantiles)
      PROVE  IsList(SummaryToPoints(n, ls, dp)) /\ Bucketed(SummaryToPoints(n, ls, dp))
  <2> DEFINE x == WithName(n, "_sum", ls, dp.at, dp.sum)
             y == WithName(n, "_count", ls, dp.at, dp.count)
             a == <<x, y>>
             q == dp.quantiles
             Of(i) == WithName(n, "", Labelled("quantile", q[i].quantile, ls), dp.at, q[i].value)
             b == [i \in DOMAIN q |-> Of(i)]
             s == a \o b
  <2>1. SummaryToPoints(n, ls, dp) = s
    BY DEF SummaryToPoints
  <2>2. ~CountsAll(x) /\ ~CountsAll(y) /\ \A i : ~CountsAll(Of(i))
    BY <1>1
  <2>3. Len(q) \in Nat /\ DOMAIN q = 1 .. Len(q)
    BY <1>3, ListIs
  <2> HIDE DEF x, y, Of, q
  <2>4. IsList(a) /\ NoCounts(a)
    <3> DEFINE D == {x, y}
    <3>1. a \in Seq(D) /\ DOMAIN a = {1, 2} /\ a[1] = x /\ a[2] = y
      OBVIOUS
    <3> HIDE DEF a, D
    <3> QED BY <2>2, <3>1, SeqIsList DEF NoCounts
  <2>5. IsList(b) /\ NoCounts(b)
    <3> DEFINE m == Len(q)
    <3>1. m \in Nat /\ b = [i \in 1 .. m |-> b[i]] /\ DOMAIN b = 1 .. m
      BY <2>3
    <3>2. \A i \in DOMAIN b : b[i] = Of(i)
      OBVIOUS
    <3> HIDE DEF b, m
    <3>3. IsList(b)
      BY <3>1, FunctionIsList
    <3> QED BY <2>2, <3>2, <3>3 DEF NoCounts
  <2> HIDE DEF a, b
  <2>6. IsList(s) /\ NoCounts(s)
    BY <2>4, <2>5, NoCountsTogether
  <2> HIDE DEF s
  <2> QED BY <2>1, <2>6 DEF NoCounts, Bucketed
<1> QED BY <1>2, <1>3

LEMMA NothingIsBucketed == IsList(<< >>) /\ Bucketed(<< >>)
BY OneIsList DEF Bucketed

(* What a metric of a request becomes. *)
LEMMA DataIs ==
  ASSUME NEW rq \in Requests, NEW k \in DOMAIN rq, NEW i \in DOMAIN rq[k].metrics
  PROVE  /\ IsList(DataToPoints(rq[k], rq[k].metrics[i]))
         /\ Bucketed(DataToPoints(rq[k], rq[k].metrics[i]))
<1> DEFINE r == rq[k]
           m == r.metrics[i]
           ps == m.points
           To(dp) ==
             CASE m.kind \in {"gauge", "sum"} -> NumberToPoints(m.name, AllLabels(r, dp), dp)
               [] m.kind = "histogram" -> HistogramToPoints(m.name, AllLabels(r, dp), dp)
               [] m.kind = "summary" -> SummaryToPoints(m.name, AllLabels(r, dp), dp)
               [] OTHER -> << >>
           seqs == [j \in DOMAIN ps |-> To(ps[j])]
<1>1. DataToPoints(r, m) = FlattenSeq(seqs)
  BY DEF DataToPoints
<1>2. /\ IsList(ps)
      /\ \A j \in DOMAIN ps :
           /\ m.kind = "histogram" => IsList(ps[j].bounds) /\ IsList(ps[j].counts)
           /\ m.kind = "summary" => IsList(ps[j].quantiles)
  BY ListsAssumption
<1>3. OnlyHistograms(m.name) => m.kind = "histogram" /\ \A j \in DOMAIN ps : AddsUp(ps[j])
  BY DEF OnlyHistograms
<1> HIDE DEF m, r, ps
<1>4. ASSUME NEW j \in DOMAIN ps PROVE IsList(To(ps[j])) /\ Bucketed(To(ps[j]))
  <2> DEFINE dp == ps[j]
             n == m.name
             ls == AllLabels(r, dp)
  <2> HIDE DEF dp, n, ls
  <2>1. CASE m.kind \in {"gauge", "sum"}
    <3>1. ~OnlyHistograms(n)
      BY <1>3, <2>1 DEF n
    <3>2. IsList(NumberToPoints(n, ls, dp)) /\ Bucketed(NumberToPoints(n, ls, dp))
      BY <3>1, OthersAre
    <3> QED BY <2>1, <3>2 DEF n, ls, dp
  <2>2. CASE m.kind = "histogram"
    <3>1. IsList(dp.bounds) /\ IsList(dp.counts) /\ (OnlyHistograms(n) => AddsUp(dp))
      BY <1>2, <1>3, <2>2 DEF n, dp
    <3>2. IsList(HistogramToPoints(n, ls, dp)) /\ Bucketed(HistogramToPoints(n, ls, dp))
      BY <3>1, HistogramIs
    <3>3. To(ps[j]) = HistogramToPoints(n, ls, dp)
      BY <2>2 DEF n, ls, dp
    <3> HIDE DEF To
    <3> QED BY <3>2, <3>3
  <2>3. CASE m.kind = "summary"
    <3>1. ~OnlyHistograms(n) /\ IsList(dp.quantiles)
      BY <1>2, <1>3, <2>3 DEF n, dp
    <3>2. IsList(SummaryToPoints(n, ls, dp)) /\ Bucketed(SummaryToPoints(n, ls, dp))
      BY <3>1, OthersAre
    <3>3. To(ps[j]) = SummaryToPoints(n, ls, dp)
      BY <2>3 DEF n, ls, dp
    <3> HIDE DEF To
    <3> QED BY <3>2, <3>3
  <2>4. CASE m.kind \notin {"gauge", "sum", "histogram", "summary"}
    <3>1. To(ps[j]) = << >>
      BY <2>4
    <3> HIDE DEF To
    <3> QED BY <3>1, NothingIsBucketed
  <2> QED BY <2>1, <2>2, <2>3, <2>4
<1>5. IsList(seqs) /\ DOMAIN seqs = DOMAIN ps
  <2> DEFINE n == Len(ps)
  <2>1. n \in Nat /\ DOMAIN ps = 1 .. n
    BY <1>2, ListIs
  <2> HIDE DEF n, To
  <2>2. seqs = [j \in 1 .. n |-> seqs[j]]
    BY <2>1
  <2> HIDE DEF seqs
  <2>3. IsList(seqs)
    BY <2>1, <2>2, FunctionIsList
  <2> QED BY <2>3 DEF seqs
<1>6. \A j \in DOMAIN ps : seqs[j] = To(ps[j])
  OBVIOUS
<1> HIDE DEF seqs, To
<1>7. IsList(FlattenSeq(seqs)) /\ Bucketed(FlattenSeq(seqs))
  BY <1>4, <1>5, <1>6, FlattenBuckets
<1> QED BY <1>1, <1>7 DEF r, m

LEMMA RequestIs ==
  ASSUME NEW rq \in Requests
  PROVE  IsList(TranslateMetrics(rq)) /\ Bucketed(TranslateMetrics(rq))
<1> DEFINE Of(k) == [i \in DOMAIN rq[k].metrics |-> DataToPoints(rq[k], rq[k].metrics[i])]
           seqs == [k \in DOMAIN rq |-> FlattenSeq(Of(k))]
<1>1. TranslateMetrics(rq) = FlattenSeq(seqs)
  BY DEF TranslateMetrics
<1>2. IsList(rq) /\ \A k \in DOMAIN rq : IsList(rq[k].metrics)
  BY ListsAssumption
<1>3. ASSUME NEW k \in DOMAIN rq PROVE IsList(FlattenSeq(Of(k))) /\ Bucketed(FlattenSeq(Of(k)))
  <2> DEFINE s == Of(k)
             ms == rq[k].metrics
             n == Len(ms)
  <2>1. n \in Nat /\ DOMAIN ms = 1 .. n
    BY <1>2, ListIs
  <2>2. s = [i \in 1 .. n |-> s[i]] /\ DOMAIN s = DOMAIN ms
    BY <2>1
  <2>3. \A i \in DOMAIN ms : IsList(s[i]) /\ Bucketed(s[i])
    BY DataIs
  <2> HIDE DEF s, ms, n
  <2>4. IsList(s)
    BY <2>1, <2>2, FunctionIsList
  <2>5. IsList(FlattenSeq(s)) /\ Bucketed(FlattenSeq(s))
    BY <2>2, <2>3, <2>4, FlattenBuckets
  <2> QED BY <2>5 DEF s
<1> DEFINE n == Len(rq)
<1>4. n \in Nat /\ DOMAIN rq = 1 .. n
  BY <1>2, ListIs
<1> HIDE DEF n, Of
<1>5. seqs = [k \in 1 .. n |-> seqs[k]] /\ DOMAIN seqs = DOMAIN rq
  BY <1>4
<1>6. \A k \in DOMAIN rq : seqs[k] = FlattenSeq(Of(k))
  OBVIOUS
<1> HIDE DEF seqs
<1>7. IsList(seqs)
  BY <1>4, <1>5, FunctionIsList
<1>8. IsList(FlattenSeq(seqs)) /\ Bucketed(FlattenSeq(seqs))
  BY <1>3, <1>5, <1>6, <1>7, FlattenBuckets
<1> QED BY <1>1, <1>8

(* The rows keep their buckets, whatever is dropped at either end.         *)
LEMMA PrefixBuckets ==
  ASSUME NEW D, NEW s \in Seq(D), Bucketed(s), NEW n \in 0 .. Len(s)
  PROVE  Bucketed(SubSeq(s, 1, n))
<1> DEFINE p == SubSeq(s, 1, n)
<1>1. DOMAIN p = 1 .. n /\ (\A i \in 1 .. n : p[i] = s[i]) /\ DOMAIN s = 1 .. Len(s)
      /\ Len(s) \in Nat /\ n \in Nat /\ n <= Len(s)
  OBVIOUS
<1> HIDE DEF p
<1>2. ASSUME NEW i \in 1 .. n, CountsAll(p[i])
      PROVE  \E j \in 1 .. n : j < i /\ IsBucketOf(p[j], p[i])
  <2>1. i \in DOMAIN s /\ p[i] = s[i]
    BY <1>1
  <2>2. PICK j \in DOMAIN s : j < i /\ IsBucketOf(s[j], s[i])
    BY <1>2, <2>1 DEF Bucketed
  <2>3. j \in 1 .. n
    BY <1>1, <2>2
  <2> QED BY <1>1, <2>1, <2>2, <2>3
<1>3. Bucketed(p)
  BY <1>1, <1>2 DEF Bucketed
<1> QED BY <1>3 DEF p

LEMMA LaterBuckets ==
  ASSUME NEW D, NEW s \in Seq(D), Bucketed(s), NEW I \in SUBSET DOMAIN s,
         \A i \in I, j \in DOMAIN s : s[i].at = s[j].at => j \in I
  PROVE  Bucketed(Picked(s, I))
<1> DEFINE p == Picked(s, I)
<1>1. p \in Seq(D) /\ \E h : Lists(h, s, I, p)
  BY PickedIs
<1> HIDE DEF p
<1>2. PICK h : Lists(h, s, I, p)
  BY <1>1
<1>3. DOMAIN p = 1 .. Len(p) /\ Len(p) \in Nat /\ \A i \in DOMAIN s : i \in Nat
  BY <1>1
<1>4. ASSUME NEW k \in DOMAIN p, CountsAll(p[k])
      PROVE  \E l \in DOMAIN p : l < k /\ IsBucketOf(p[l], p[k])
  <2> DEFINE i == h[k]
  <2>1. i \in I /\ p[k] = s[i]
    BY <1>2 DEF Lists
  <2> HIDE DEF i
  <2>2. PICK j \in DOMAIN s : j < i /\ IsBucketOf(s[j], s[i])
    BY <1>4, <2>1 DEF Bucketed
  <2>3. j \in I
    BY <2>1, <2>2 DEF IsBucketOf
  <2>4. PICK l \in DOMAIN p : h[l] = j
    BY <1>2, <2>3 DEF Lists
  <2>5. p[l] = s[j]
    BY <1>2, <2>4 DEF Lists
  <2>6. l < k
    <3>1. k < l => h[k] < h[l]
      BY <1>2 DEF Lists
    <3>2. ~(k < l) /\ k # l
      <4>1. i \in Nat /\ j \in Nat
        BY <1>3, <2>1, <2>2
      <4> QED BY <2>2, <2>4, <3>1, <4>1 DEF i
    <3>3. k \in Nat /\ l \in Nat
      BY <1>3
    <3> QED BY <3>2, <3>3
  <2> QED BY <2>1, <2>2, <2>5, <2>6
<1>5. Bucketed(p)
  BY <1>4 DEF Bucketed
<1> QED BY <1>5 DEF p

LEMMA RowsStayBucketed ==
  MetricsInv /\ Bucketed(rows) /\ [MetricsNext]_metricVars => Bucketed(rows')
<1> SUFFICES ASSUME MetricsInv, Bucketed(rows), [MetricsNext]_metricVars PROVE Bucketed(rows')
  OBVIOUS
<1>0. rows \in Seq(Measured)
  BY DEF MetricsInv
<1>1. ASSUME NEW rq \in Requests, IngestOTLP(rq) PROVE Bucketed(rows')
  <2> DEFINE ps == TranslateMetrics(rq)
  <2>1. rows' = rows \o ps \/ rows' = rows
    BY <1>1 DEF IngestOTLP, InsertRows
  <2>2. IsList(ps) /\ Bucketed(ps)
    BY RequestIs
  <2> HIDE DEF ps
  <2>3. IsList(rows)
    BY <1>0, SeqIsList
  <2> QED BY <2>1, <2>2, <2>3, AppendsBuckets
<1>2. ASSUME NEW i \in DOMAIN pending, IndexPoints(i) PROVE Bucketed(rows')
  BY <1>2 DEF IndexPoints
<1>3. ASSUME NEW t, Expire(t) PROVE Bucketed(rows')
  <2> DEFINE I == {i \in DOMAIN rows : rows[i].at >= t}
  <2>1. rows' = Picked(rows, I)
    BY <1>3 DEF Expire
  <2>2. /\ I \in SUBSET DOMAIN rows
        /\ \A i \in I, j \in DOMAIN rows : rows[i].at = rows[j].at => j \in I
    OBVIOUS
  <2> HIDE DEF I
  <2>3. Bucketed(Picked(rows, I))
    BY <1>0, <2>2, LaterBuckets
  <2> QED BY <2>1, <2>3
<1>4. ASSUME Reopen PROVE Bucketed(rows')
  <2>1. PICK n \in IF Persistent THEN 0 .. Len(rows) ELSE {0} : rows' = SubSeq(rows, 1, n)
    BY <1>4 DEF Reopen
  <2>2. n \in 0 .. Len(rows)
    <3>1. Len(rows) \in Nat
      BY <1>0
    <3> QED BY <3>1
  <2>3. Bucketed(SubSeq(rows, 1, n))
    BY <1>0, <2>2, PrefixBuckets
  <2> QED BY <2>1, <2>3
<1>5. ASSUME UNCHANGED metricVars PROVE Bucketed(rows')
  BY <1>5 DEF metricVars
<1> QED BY <1>1, <1>2, <1>3, <1>4, <1>5 DEF MetricsNext

BucketInv == Bucketed(rows)
LEMMA BucketsAreThere == MetricsSpec => [](MetricsInv /\ BucketInv)
<1>1. MetricsInit => BucketInv
  BY NothingIsBucketed DEF MetricsInit, BucketInv
<1>2. MetricsInv /\ BucketInv /\ [MetricsNext]_metricVars => BucketInv'
  BY RowsStayBucketed DEF BucketInv, Bucketed
<1> QED BY <1>1, <1>2, MetricsInvariance, PTL DEF MetricsSpec

(* Its bucket is found with it. *)
LEMMA BucketIsSelected ==
  ASSUME MetricsInv, Bucketed(rows), NEW i \in DOMAIN rows, CountsAll(rows[i])
  PROVE  CountHasBucket(rows[i])
<1> DEFINE r == rows[i]
           m == <<r.name[1], "_bucket">>
           ls == Labelled("le", Inf, r.labels)
           I == Matching(m, ls, r.at, r.at)
<1>1. PICK j \in DOMAIN rows : IsBucketOf(rows[j], r)
  BY DEF Bucketed
<1>2. r.at \in Int
  BY MeasuredIs DEF MetricsInv
<1>3. ls # << >>
  <2>1. "le" \in DOMAIN ls
    BY DEF Labelled
  <2> HIDE DEF ls
  <2>2. DOMAIN << >> = {}
    OBVIOUS
  <2> QED BY <2>1, <2>2
<1>4. Select(m, ls, r.at, r.at) = SelectWithLabels(m, ls, r.at, r.at)
  <2> HIDE DEF m, ls, r
  <2>1. Select(m, ls, r.at, r.at) = UNION {SelectWithLabels(m, l, r.at, r.at) : l \in {ls}}
    BY <1>3 DEF Select
  <2> QED BY <2>1
<1> HIDE DEF r
<1>5. j \in I
  BY <1>1, <1>2 DEF Matching, IsBucketOf
<1>6. Point(rows[j]) = Point(r)
  BY <1>1 DEF Point, IsBucketOf
<1> HIDE DEF m, ls
<1>7. I # {}
  BY <1>5
<1> HIDE DEF I
<1>8. PICK s \in SelectWithLabels(m, ls, r.at, r.at) :
        \A k \in I : \E l \in DOMAIN s.points : s.points[l] = Point(rows[k])
  BY <1>7, SelectedIs DEF I
<1>9. Point(r) \in Range(s.points)
  <2>1. PICK l \in DOMAIN s.points : s.points[l] = Point(r)
    BY <1>5, <1>6, <1>8
  <2> QED BY <2>1 DEF Range
<1>10. \E a \in Select(m, ls, r.at, r.at) : Point(r) \in Range(a.points)
  BY <1>4, <1>8, <1>9
<1> QED BY <1>10 DEF CountHasBucket, m, ls, r

(* Groups add up to the whole, ratios multiply back and a count has its    *)
(* last bucket, for any requests: nothing is lost between what is stored   *)
(* and what is shown together.                                             *)
THEOREM NothingIsLost == MetricsSpec => []GroupsAddUp
<1>1. MetricsInv /\ BucketInv => GroupsAddUp
  <2> SUFFICES ASSUME MetricsInv, Bucketed(rows) PROVE GroupsAddUp
    BY DEF BucketInv
  <2>1. \A i \in DOMAIN rows : CountsAll(rows[i]) => CountHasBucket(rows[i])
    BY BucketIsSelected
  <2>2. \A m, by, from, to : \A agg \in Aggregates, func \in {NoName, "increase"} :
          GroupsCombine(m, func, 2, agg, by, from, to)
    BY GroupsAlwaysCombine
  <2>3. \A n, d, by, from, to : \A agg \in {NoName, "sum"} :
          RatiosMultiplyBack(Asked(n, NoName, 0, agg, by), Asked(d, NoName, 0, agg, by), from, to)
    BY RatiosAlwaysMultiplyBack
  <2> QED BY <2>1, <2>2, <2>3 DEF GroupsAddUp, CountsAll, Aggregates
<1> QED BY <1>1, BucketsAreThere, PTL
=============================================================================
