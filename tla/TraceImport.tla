---------------------------- MODULE TraceImport ----------------------------
(***************************************************************************)
(* Export, deletion and import of traces (internal/api/trace_handler.go)   *)
(* over a store that other requests write too.  An import looks up each    *)
(* new trace of a batch on its own, and stores the batch when it has seen  *)
(* all of it.                                                              *)
(*                                                                         *)
(* A store keeps the set of spans of a trace; a file is a sequence of      *)
(* batches, a batch a sequence of spans, a span [trace, id].               *)
(***************************************************************************)
EXTENDS Naturals, Sequences, SequencesExt

CONSTANTS
  Content,       (* the spans of each trace, in the order of their start   *)
  AbsentIsError, (* GetTrace of a trace that is not stored: an error, or   *)
                 (* nil                                                   *)
  NoFile,
  MaxChanges     (* bound: ingests, exports and deletions                  *)

Traces == DOMAIN Content

VARIABLES
  stored,    (* the spans that are stored                                  *)
  file,      (* what was exported last                                     *)
  import,    (* "idle", "check" or the status of the answer                *)
  batches,   (* the batches of the file still to be looked at              *)
  todo,      (* the spans of the batch still to be looked at               *)
  newSpans,  (* those of them to be stored                                 *)
  seen, skip, imported, skipped,
  touched,   (* history: the traces others changed since the import began  *)
  changes

batchVars == <<todo, newSpans, seen, skip>>
counters == <<imported, skipped>>
vars == <<stored, file, import, batches, batchVars, counters, touched, changes>>

SpansOf(t) == {sp \in stored : sp.trace = t}
Exists(t) == SpansOf(t) # {}
AllOf(t) == [i \in DOMAIN Content[t] |-> [trace |-> t, id |-> Content[t][i]]]

Init ==
  /\ stored = {} /\ file = NoFile /\ import = "idle" /\ batches = << >>
  /\ todo = << >> /\ newSpans = << >> /\ seen = {} /\ skip = {}
  /\ imported = 0 /\ skipped = 0 /\ touched = {} /\ changes = 0

-----------------------------------------------------------------------------
(* Other requests. *)
Change(t) ==
  /\ changes < MaxChanges
  /\ changes' = changes + 1
  /\ touched' = touched \cup {t}
  /\ UNCHANGED <<file, import, batches, batchVars, counters>>

Ingest(t) == Change(t) /\ stored' = stored \cup Range(AllOf(t))

DeleteTraces(t) == Change(t) /\ Exists(t) /\ stored' = stored \ SpansOf(t)

(* Every trace is one batch; one that is not stored is left out, or is an *)
(* error and there is no file.                                            *)
ExportTraces(ts) ==
  /\ changes < MaxChanges /\ import = "idle"
  /\ changes' = changes + 1
  /\ LET there == SelectSeq(ts, Exists)
         Stored(t) == SelectSeq(AllOf(t), LAMBDA sp : sp \in stored)
     IN  /\ AbsentIsError => there = ts
         /\ file' = [i \in DOMAIN there |-> Stored(there[i])]
  /\ UNCHANGED <<stored, import, batches, batchVars, counters, touched>>

-----------------------------------------------------------------------------
(* ImportTraces. *)
ImportTraces ==
  /\ import # "check" /\ file # NoFile
  /\ import' = "check" /\ batches' = file
  /\ todo' = << >> /\ newSpans' = << >> /\ seen' = {} /\ skip' = {}
  /\ imported' = 0 /\ skipped' = 0
  /\ touched' = {}
  /\ UNCHANGED <<stored, file, changes>>

NextBatch ==
  /\ import = "check" /\ todo = << >> /\ newSpans = << >> /\ batches # << >>
  /\ todo' = Head(batches) /\ batches' = Tail(batches)
  /\ seen' = {} /\ skip' = {}
  /\ UNCHANGED <<stored, file, import, newSpans, counters, touched, changes>>

(* err != nil || existing != nil *)
Skipped(t) == AbsentIsError \/ Exists(t)

CheckSpan ==
  /\ import = "check" /\ todo # << >>
  /\ LET sp == Head(todo)
         known == sp.trace \in seen \cup skip
         no == IF known THEN sp.trace \in skip ELSE Skipped(sp.trace)
     IN  /\ seen' = seen \cup {sp.trace}
         /\ skip' = IF no THEN skip \cup {sp.trace} ELSE skip
         /\ newSpans' = IF no THEN newSpans ELSE Append(newSpans, sp)
         /\ imported' = IF known \/ no THEN imported ELSE imported + 1
         /\ skipped' = IF ~known /\ no THEN skipped + 1 ELSE skipped
  /\ todo' = Tail(todo)
  /\ UNCHANGED <<stored, file, import, batches, touched, changes>>

StoreBatch ==
  /\ import = "check" /\ todo = << >> /\ newSpans # << >>
  /\ \/ stored' = stored \cup Range(newSpans) /\ UNCHANGED <<import, batches>>
     \/ import' = "500" /\ batches' = << >> /\ UNCHANGED stored
  /\ newSpans' = << >>
  /\ UNCHANGED <<file, todo, seen, skip, counters, touched, changes>>

Answer ==
  /\ import = "check" /\ todo = << >> /\ newSpans = << >> /\ batches = << >>
  /\ import' = "200"
  /\ UNCHANGED <<stored, file, batches, batchVars, counters, touched, changes>>

Import == ImportTraces \/ NextBatch \/ CheckSpan \/ StoreBatch \/ Answer
Next ==
  \/ \E t \in Traces : Ingest(t) \/ DeleteTraces(t)
  \/ \E T \in SUBSET Traces \ {{}} : \E ts \in SetToSeqs(T) : ExportTraces(ts)
  \/ Import
Spec == Init /\ [][Next]_vars

-----------------------------------------------------------------------------
(* When an import has answered with success, every trace of its file that  *)
(* nobody else touched since is stored: it was, or it is imported.         *)
(* (ImportTraces: "ingests new traces via the storage pipeline")           *)
NewTracesAreImported ==
  import = "200" =>
    \A i \in DOMAIN file : \A sp \in Range(file[i]) :
      sp.trace \notin touched => sp \in stored
=============================================================================
