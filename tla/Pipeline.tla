------------------------------ MODULE Pipeline ------------------------------
(***************************************************************************)
(* internal/pipeline: the asynchronous buffer between the OTLP handlers    *)
(* and the store.  Any number of callers run Ingest concurrently, one      *)
(* worker goroutine drains the channel and flushes on a ticker, and main   *)
(* calls Shutdown once.                                                    *)
(*                                                                         *)
(* A batch is the *Batch pointer a caller allocates for one call of        *)
(* Ingest, so no batch is offered twice (`offered`); a request that is     *)
(* sent again carries new batches.  `accepted`, `written` and `failed` are *)
(* history variables: what Ingest took, what InsertSpans was called with,  *)
(* and the calls of InsertSpans that returned an error.                    *)
(***************************************************************************)
EXTENDS Naturals, Sequences, FiniteSets

CONSTANTS
  Callers,   (* goroutines that call Ingest                              *)
  Batches,   (* the batches they may offer, one per call                 *)
  BufSize,   (* capacity of the channel (--buffer-size, 1000 by default) *)
  NoBatch    (* the argument of a caller that never called Ingest        *)

(* main.go passes a positive --buffer-size; 0 would make the channel a   *)
(* rendezvous and is not modelled.                                       *)
ASSUME BufSizeAssumption == BufSize \in Nat \ {0}
ASSUME NoBatchAssumption == NoBatch \notin Batches

VARIABLES
  closed,    (* Pipeline.closed, guarded by mu                           *)
  chanOpen,  (* FALSE once close(p.buf) ran                              *)
  buf,       (* the channel's queue                                      *)
  pending,   (* the worker's local slice, or what is left of it in flush *)
  worker,    (* where the worker goroutine is                            *)
  caller,    (* per caller: where its last Ingest is or how it returned  *)
  main,      (* where main's call of Shutdown is                         *)
  offered, accepted, written, failed

shutdownVars == <<closed, chanOpen, main>>
workerVars == <<worker, pending, written, failed>>
callerVars == <<caller, offered, accepted>>
vars == <<closed, chanOpen, buf, pending, worker, caller, main,
          offered, accepted, written, failed>>

CallState == {"none", "checked", "ok", "full", "closed", "panic"}
WorkerState == {"select", "flush", "final", "done"}
MainState == {"running", "marked", "waiting", "returned"}

Elements(s) == {s[i] : i \in 1 .. Len(s)}

-----------------------------------------------------------------------------
Init ==
  /\ closed = FALSE
  /\ chanOpen = TRUE
  /\ buf = << >>
  /\ pending = << >>
  /\ worker = "select"
  /\ caller = [c \in Callers |-> [st |-> "none", batch |-> NoBatch]]
  /\ main = "running"
  /\ offered = {}
  /\ accepted = << >>
  /\ written = << >>
  /\ failed = {}

(* The first half of Ingest: the closed flag is read under the mutex and *)
(* the mutex is released before the batch is sent.                       *)
IngestCheck(c, b) ==
  /\ caller[c].st # "checked"
  /\ b \notin offered
  /\ offered' = offered \cup {b}
  /\ caller' = [caller EXCEPT ![c] =
                  [st |-> IF closed THEN "closed" ELSE "checked", batch |-> b]]
  /\ UNCHANGED <<shutdownVars, buf, workerVars, accepted>>

(* The second half: the non-blocking send.  A send on a closed channel   *)
(* panics, in a select with a default too.                               *)
IngestSend(c) ==
  /\ caller[c].st = "checked"
  /\ \/ /\ ~chanOpen
        /\ caller' = [caller EXCEPT ![c].st = "panic"]
        /\ UNCHANGED <<buf, accepted>>
     \/ /\ chanOpen
        /\ Len(buf) < BufSize
        /\ buf' = Append(buf, caller[c].batch)
        /\ accepted' = Append(accepted, caller[c].batch)
        /\ caller' = [caller EXCEPT ![c].st = "ok"]
     \/ /\ chanOpen
        /\ Len(buf) >= BufSize
        /\ caller' = [caller EXCEPT ![c].st = "full"]
        /\ UNCHANGED <<buf, accepted>>
  /\ UNCHANGED <<shutdownVars, workerVars, offered>>

-----------------------------------------------------------------------------
(* select: case batch, ok := <-p.buf with a batch in the queue; a closed *)
(* channel still yields what it holds.                                   *)
Receive ==
  /\ worker = "select"
  /\ buf # << >>
  /\ pending' = Append(pending, Head(buf))
  /\ buf' = Tail(buf)
  /\ UNCHANGED <<shutdownVars, callerVars, worker, written, failed>>

(* Mutant of ReceiveClosed: the worker returns without the last flush. *)
ReceiveClosedNoFlush ==
  /\ worker = "select"
  /\ buf = << >>
  /\ ~chanOpen
  /\ worker' = "done"
  /\ UNCHANGED <<shutdownVars, callerVars, buf, pending, written, failed>>

(* select: the same case on a channel that is closed and empty. *)
ReceiveClosed ==
  /\ worker = "select"
  /\ buf = << >>
  /\ ~chanOpen
  /\ worker' = "final"
  /\ UNCHANGED <<shutdownVars, callerVars, buf, pending, written, failed>>

(* select: case <-ticker.C, taken even while batches wait in the channel. *)
Tick ==
  /\ worker = "select"
  /\ pending # << >>
  /\ worker' = "flush"
  /\ UNCHANGED <<shutdownVars, callerVars, buf, pending, written, failed>>

(* Mutant of FlushOne: an error leaves the loop and the rest is dropped. *)
FlushOneStopsAtError ==
  /\ worker \in {"flush", "final"}
  /\ pending # << >>
  /\ written' = Append(written, Head(pending))
  /\ \/ pending' = Tail(pending) /\ failed' = failed
     \/ pending' = << >> /\ failed' = failed \cup {Head(pending)}
  /\ UNCHANGED <<shutdownVars, callerVars, buf, worker>>

(* One round of the loop of flush: InsertSpans returns nil, or an error  *)
(* that is printed.  Either way the loop goes on with the next batch.    *)
FlushOne ==
  /\ worker \in {"flush", "final"}
  /\ pending # << >>
  /\ written' = Append(written, Head(pending))
  /\ pending' = Tail(pending)
  /\ failed' \in {failed, failed \cup {Head(pending)}}
  /\ UNCHANGED <<shutdownVars, callerVars, buf, worker>>

(* flush returns: back to the select, or out of the worker (wg.Done). *)
FlushEnd ==
  /\ worker \in {"flush", "final"}
  /\ pending = << >>
  /\ worker' = IF worker = "flush" THEN "select" ELSE "done"
  /\ UNCHANGED <<shutdownVars, callerVars, buf, pending, written, failed>>

-----------------------------------------------------------------------------
(* Mutant of ShutdownMark: the closed flag is forgotten. *)
ShutdownMarkForgotten ==
  /\ main = "running"
  /\ main' = "marked"
  /\ UNCHANGED <<closed, chanOpen, buf, callerVars, workerVars>>

(* Mutant of ShutdownReturn: Shutdown does not wait for the worker. *)
ShutdownReturnEarly ==
  /\ main = "waiting"
  /\ main' = "returned"
  /\ UNCHANGED <<closed, chanOpen, buf, callerVars, workerVars>>

(* Shutdown, in its three steps: closed is set under the mutex, the      *)
(* channel is closed, and wg.Wait returns when the worker has; the       *)
(* context is not looked at.                                             *)
ShutdownMark ==
  /\ main = "running"
  /\ main' = "marked"
  /\ closed' = TRUE
  /\ UNCHANGED <<chanOpen, buf, callerVars, workerVars>>

ShutdownCloseBuf ==
  /\ main = "marked"
  /\ main' = "waiting"
  /\ chanOpen' = FALSE
  /\ UNCHANGED <<closed, buf, callerVars, workerVars>>

ShutdownReturn ==
  /\ main = "waiting"
  /\ worker = "done"
  /\ main' = "returned"
  /\ UNCHANGED <<closed, chanOpen, buf, callerVars, workerVars>>

Worker == Receive \/ ReceiveClosed \/ Tick \/ FlushOne \/ FlushEnd
Shutdown == ShutdownMark \/ ShutdownCloseBuf \/ ShutdownReturn

Next ==
  \/ \E c \in Callers : \E b \in Batches : IngestCheck(c, b)
  \/ \E c \in Callers : IngestSend(c)
  \/ Worker
  \/ Shutdown

Spec == Init /\ [][Next]_vars

(* The worker is a goroutine of its own and InsertSpans returns; the     *)
(* ticker keeps firing, and a select whose ticker and channel are both   *)
(* ready picks either with equal chance, so neither case is passed over  *)
(* for ever.  A Shutdown that began runs to its end.  Nothing makes a    *)
(* caller call Ingest or main call Shutdown.                             *)
Fairness ==
  /\ WF_vars(Receive)
  /\ WF_vars(ReceiveClosed)
  /\ WF_vars(Tick)
  /\ WF_vars(FlushOne \/ FlushEnd)
  /\ WF_vars(ShutdownCloseBuf \/ ShutdownReturn)

FairSpec == Spec /\ Fairness
-----------------------------------------------------------------------------
(* Types, and the channel never holds more than its capacity. *)
TypeOK ==
  /\ closed \in BOOLEAN
  /\ chanOpen \in BOOLEAN
  /\ buf \in Seq(Batches) /\ Len(buf) <= BufSize
  /\ pending \in Seq(Batches)
  /\ worker \in WorkerState
  /\ caller \in [Callers -> [st : CallState, batch : Batches \cup {NoBatch}]]
  /\ main \in MainState
  /\ offered \subseteq Batches
  /\ accepted \in Seq(Batches)
  /\ written \in Seq(Batches)
  /\ failed \subseteq Batches

(* Whatever callers, worker, ticker and Shutdown do in whatever order, a   *)
(* batch that Ingest accepted is in exactly one of three places, in the    *)
(* order of acceptance: handed to InsertSpans, in the worker's slice, or   *)
(* in the channel.  An error of InsertSpans does not disturb the others.   *)
InOrderOnce == accepted = written \o pending \o buf

(* Shutdown "gracefully stops the pipeline, flushing pending batches": by  *)
(* the time it returns every accepted batch was handed to the store, those *)
(* accepted between the mark and the close of the channel included.        *)
ShutdownDrains == main = "returned" => written = accepted /\ chanOpen = FALSE

(* A call of Ingest that begins after Shutdown set the flag returns        *)
(* "pipeline closed"; it is neither accepted nor does it panic.            *)
LateCallsRefused ==
  [][\A c \in Callers :
       main # "running" /\ caller[c].st # "checked"
         => caller'[c].st \in {caller[c].st, "closed"}]_vars

(* The pipeline delivers what DeliveryLog promises, in order, once, and in *)
(* the end.                                                                *)
Log == INSTANCE DeliveryLog WITH
         log <- accepted, delivered <- Len(written), stopped <- (main = "returned")

ImplementsDeliveryLog == Log!FairSpec
=============================================================================
