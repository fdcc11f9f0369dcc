----------------------------- MODULE DeliveryLog -----------------------------
(***************************************************************************)
(* What the ingest pipeline promises its callers and the store, with its   *)
(* buffers, locks and goroutines left out: batches are accepted into a     *)
(* log; the store is handed every accepted batch once, in the order of     *)
(* acceptance; the pipeline may stop only when the whole log was handed    *)
(* over, and accepts nothing after that.                                   *)
(***************************************************************************)
EXTENDS Naturals, Sequences

CONSTANT Batches  (* every batch a caller may ever offer *)

VARIABLES
  log,        (* the accepted batches, in the order of acceptance      *)
  delivered,  (* how many of them the store has been handed            *)
  stopped     (* whether Shutdown has returned                         *)

vars == <<log, delivered, stopped>>

Init ==
  /\ log = << >>
  /\ delivered = 0
  /\ stopped = FALSE

(* Ingest returned nil for a batch that was not accepted before. *)
Accept(b) ==
  /\ ~stopped
  /\ \A i \in 1 .. Len(log) : log[i] # b
  /\ log' = Append(log, b)
  /\ UNCHANGED <<delivered, stopped>>

(* The store is handed the oldest batch it has not seen. *)
Deliver ==
  /\ delivered < Len(log)
  /\ delivered' = delivered + 1
  /\ UNCHANGED <<log, stopped>>

(* Shutdown returns: nothing accepted is left behind. *)
Stop ==
  /\ delivered = Len(log)
  /\ stopped' = TRUE
  /\ UNCHANGED <<log, delivered>>

Next ==
  \/ \E b \in Batches : Accept(b)
  \/ Deliver
  \/ Stop

Spec == Init /\ [][Next]_vars

(* Whatever was accepted is handed over in the end. *)
FairSpec == Spec /\ WF_vars(Deliver)
=============================================================================
