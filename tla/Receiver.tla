------------------------------ MODULE Receiver ------------------------------
(***************************************************************************)
(* internal/receiver in front of the pipeline, and the order in which      *)
(* cmd/labubu stops them.                                                  *)
(*                                                                         *)
(* A request is one OTLP export of traces, over gRPC or HTTP.  Its handler *)
(* walks the request's (resource, scope) groups in order and calls Ingest  *)
(* once for each group that holds spans; Size[r] counts those groups, what *)
(* the spans say does not matter here.  The exporter that sent the request *)
(* is not part of src/: it waits for the answer and sends the whole        *)
(* request again after an answer OTLP calls retryable.                     *)
(***************************************************************************)
EXTENDS Naturals, Sequences, FiniteSets

CONSTANTS
  Requests,   (* export requests                                           *)
  Proto,      (* [Requests -> {"grpc", "http"}]                            *)
  Size,       (* [Requests -> Nat]: groups with spans in the request       *)
  MaxTries,   (* how often an exporter sends a request, retries included   *)
  BufSize,    (* capacity of the pipeline's channel                        *)
  NoBatch

ASSUME ProtoAssumption == Proto \in [Requests -> {"grpc", "http"}]
ASSUME SizeAssumption == Size \in [Requests -> Nat]
ASSUME MaxTriesAssumption == MaxTries \in Nat \ {0}

VARIABLES
  closed, chanOpen, buf, pending, worker, caller, main,   (* of Pipeline *)
  offered, accepted, written, failed,
  handler,    (* per request: where its handler is                         *)
  group,      (* per request: groups offered to Ingest in this attempt     *)
  tries,      (* per request: attempts so far                              *)
  reply,      (* per request: the answer to its last attempt               *)
  phase,      (* how far the process's shutdown is                         *)
  timedOut    (* recv.Shutdown gave up on HTTP handlers that still ran     *)

(* One *Batch per attempt and group. *)
BatchesOf(r) == {[req |-> r, try |-> k, group |-> g] : k \in 1 .. MaxTries,
                                                       g \in 1 .. Size[r]}
AllBatches == UNION {BatchesOf(r) : r \in Requests}

ASSUME BufSizeAssumption == BufSize \in Nat \ {0}
ASSUME NoBatchAssumption == NoBatch \notin AllBatches

P == INSTANCE Pipeline WITH Callers <- Requests, Batches <- AllBatches

pipelineVars == <<closed, chanOpen, buf, pending, worker, caller, main,
                  offered, accepted, written, failed>>
requestVars == <<handler, group, tries, reply>>
processVars == <<phase, timedOut>>
vars == <<pipelineVars, requestVars, processVars>>

Running == phase # "exited"
Busy(proto) == {r \in Requests : Proto[r] = proto /\ handler[r] # "idle"}

-----------------------------------------------------------------------------
Init ==
  /\ P!Init
  /\ handler = [r \in Requests |-> "idle"]
  /\ group = [r \in Requests |-> 0]
  /\ tries = [r \in Requests |-> 0]
  /\ reply = [r \in Requests |-> "none"]
  /\ phase = "serving"
  /\ timedOut = FALSE

(* GracefulStop refuses new calls at once; the HTTP server keeps taking  *)
(* them until its own Shutdown begins.                                   *)
Accepting(proto) ==
  IF proto = "grpc" THEN phase = "serving"
                    ELSE phase \in {"serving", "grpcStopping"}

(* The head of a request arrives: of a new one, or of one sent again     *)
(* after a 503 or a connection that broke.  From here on it has a        *)
(* handler, of grpc-go's for a message that is still to come.            *)
Arrive(r) ==
  /\ Accepting(Proto[r])
  /\ handler[r] = "idle"
  /\ reply[r] \in {"none", "unavailable", "aborted"}
  /\ tries[r] < MaxTries
  /\ handler' = [handler EXCEPT ![r] = "reading"]
  /\ group' = [group EXCEPT ![r] = 0]
  /\ tries' = [tries EXCEPT ![r] = @ + 1]
  /\ reply' = [reply EXCEPT ![r] = "none"]
  /\ UNCHANGED <<pipelineVars, processVars>>

(* The answer ends the handler. *)
Answer(r, a) ==
  /\ reply' = [reply EXCEPT ![r] = a]
  /\ handler' = [handler EXCEPT ![r] = "idle"]
  /\ UNCHANGED <<pipelineVars, group, tries, processVars>>

(* The body, or the message of a call, is read and decoded, or it is not *)
(* and the client gets an error it does not retry.  Nothing bounds how   *)
(* long a client may take to send it, over either protocol.              *)
ReadBody(r) ==
  /\ Running
  /\ handler[r] = "reading"
  /\ \/ /\ handler' = [handler EXCEPT ![r] = "looping"]
        /\ UNCHANGED <<pipelineVars, group, tries, reply, processVars>>
     \/ Answer(r, "badRequest")

(* Mutant of IngestGroup: a refused group is skipped and the loop goes on. *)
IngestGroupSkipsRefused(r) ==
  /\ Running
  /\ handler[r] = "looping"
  /\ group[r] = 0 \/ caller[r].st \in {"ok", "full", "closed"}
  /\ group[r] < Size[r]
  /\ P!IngestCheck(r, [req |-> r, try |-> tries[r], group |-> group[r] + 1])
  /\ group' = [group EXCEPT ![r] = @ + 1]
  /\ UNCHANGED <<handler, tries, reply, processVars>>

(* The loop goes on to the next group: Ingest is entered ...             *)
IngestGroup(r) ==
  /\ Running
  /\ handler[r] = "looping"
  /\ group[r] = 0 \/ caller[r].st = "ok"
  /\ group[r] < Size[r]
  /\ P!IngestCheck(r, [req |-> r, try |-> tries[r], group |-> group[r] + 1])
  /\ group' = [group EXCEPT ![r] = @ + 1]
  /\ UNCHANGED <<handler, tries, reply, processVars>>

(* ... and sends the batch.                                              *)
EnqueueGroup(r) ==
  /\ Running
  /\ handler[r] = "looping"
  /\ P!IngestSend(r)
  /\ UNCHANGED <<requestVars, processVars>>

(* Ingest refused the group: the handler answers at once, PartialSuccess *)
(* over gRPC (for a full buffer and a closed pipeline alike) and 503     *)
(* over HTTP.  The groups before this one stay accepted, those after it  *)
(* are never offered.                                                    *)
Refuse(r) ==
  /\ Running
  /\ handler[r] = "looping"
  /\ group[r] > 0
  /\ caller[r].st \in {"full", "closed"}
  /\ Answer(r, IF Proto[r] = "grpc" THEN "partial" ELSE "unavailable")

(* Ingest panicked.  net/http recovers the panic of a handler and closes *)
(* the connection; grpc-go does not, a gRPC handler would end the        *)
(* process.                                                              *)
Panic(r) ==
  /\ Running
  /\ handler[r] = "looping"
  /\ group[r] > 0
  /\ caller[r].st = "panic"
  /\ Answer(r, "aborted")

(* Every group was accepted. *)
Succeed(r) ==
  /\ Running
  /\ handler[r] = "looping"
  /\ group[r] = Size[r]
  /\ group[r] = 0 \/ caller[r].st = "ok"
  /\ Answer(r, "success")

-----------------------------------------------------------------------------
(* The worker goroutine runs beside the handlers until the process ends. *)
WorkerStep ==
  /\ Running
  /\ P!Worker
  /\ UNCHANGED <<requestVars, processVars>>

(* SIGINT or SIGTERM: main's deferred calls run, last registered first.  *)
(* recv.Shutdown begins with grpcSrv.GracefulStop ...                    *)
Signal ==
  /\ phase = "serving"
  /\ phase' = "grpcStopping"
  /\ UNCHANGED <<pipelineVars, requestVars, timedOut>>

(* ... which returns when no RPC runs: it has no deadline, so one whose   *)
(* message never ends keeps it for good.  Then httpSrv.Shutdown begins,  *)
GRPCStopped ==
  /\ phase = "grpcStopping"
  /\ Busy("grpc") = {}
  /\ phase' = "httpStopping"
  /\ UNCHANGED <<pipelineVars, requestVars, timedOut>>

(* which returns when no handler runs                                    *)
HTTPStopped ==
  /\ phase = "httpStopping"
  /\ Busy("http") = {}
  /\ phase' = "stopped"
  /\ UNCHANGED <<pipelineVars, requestVars, timedOut>>

(* Mutant of HTTPTimeout: recv.Shutdown waits without a deadline. *)
HTTPTimeoutNever ==
  /\ phase = "httpStopping"
  /\ FALSE
  /\ UNCHANGED vars

(* or when the context's five seconds, counted from before GracefulStop, *)
(* are over; the handlers run on.                                        *)
HTTPTimeout ==
  /\ phase = "httpStopping"
  /\ Busy("http") # {}
  /\ phase' = "stopped"
  /\ timedOut' = TRUE
  /\ UNCHANGED <<pipelineVars, requestVars>>

(* Mutant of PipelineShutdown: the pipeline is stopped first. *)
PipelineShutdownFirst ==
  /\ phase # "serving" /\ Running
  /\ P!Shutdown
  /\ UNCHANGED <<requestVars, processVars>>

(* The next deferred call: pipe.Shutdown, step by step. *)
PipelineShutdown ==
  /\ phase = "stopped"
  /\ P!Shutdown
  /\ UNCHANGED <<requestVars, processVars>>

(* Mutant of Exit: main does not wait for pipe.Shutdown. *)
ExitEarly ==
  /\ phase = "stopped"
  /\ phase' = "exited"
  /\ UNCHANGED <<pipelineVars, requestVars, timedOut>>

(* The stores are closed and main returns; goroutines still running die  *)
(* with the process.                                                     *)
Exit ==
  /\ phase = "stopped"
  /\ main = "returned"
  /\ phase' = "exited"
  /\ UNCHANGED <<pipelineVars, requestVars, timedOut>>

LoopStep(r) ==
  IngestGroup(r) \/ EnqueueGroup(r) \/ Refuse(r) \/ Panic(r) \/ Succeed(r)
ProcessStep == GRPCStopped \/ HTTPStopped \/ HTTPTimeout \/ PipelineShutdown \/ Exit

Next ==
  \/ \E r \in Requests : Arrive(r) \/ ReadBody(r) \/ LoopStep(r)
  \/ WorkerStep
  \/ Signal
  \/ ProcessStep

Spec == Init /\ [][Next]_vars

(* Handlers, worker and main are goroutines that run; the ticker of the  *)
(* worker fires.  No client is obliged to send a request or the rest of  *)
(* its body, and no one is obliged to send the signal.                   *)
Fairness ==
  /\ \A r \in Requests : WF_vars(LoopStep(r))
  /\ WF_vars(WorkerStep)
  /\ WF_vars(ProcessStep)

FairSpec == Spec /\ Fairness

-----------------------------------------------------------------------------
Taken(r, k) == {g \in 1 .. Size[r] :
                  [req |-> r, try |-> k, group |-> g] \in P!Elements(accepted)}

(* What an answer tells the exporter is true of the pipeline: after       *)
(* "success" every group of the attempt was accepted; of one that was     *)
(* refused exactly the groups before the refused one, whatever happened   *)
(* concurrently: this is what is ingested twice when it is sent again.    *)
(* (traceService.Export and handleHTTPTraces)                             *)
AnswersAreTrue ==
  \A r \in Requests :
    /\ reply[r] = "success" => Taken(r, tries[r]) = 1 .. Size[r]
    /\ reply[r] \in {"partial", "unavailable", "aborted"}
         => Taken(r, tries[r]) = 1 .. (group[r] - 1)

(* main stops the receiver before the pipeline, so a send on the closed  *)
(* channel takes an HTTP handler that outlived recv.Shutdown's deadline. *)
(* A gRPC handler, whose panic nobody recovers, never meets it.          *)
PanicOnlyAfterTimeout ==
  \A r \in Requests :
    caller[r].st = "panic" => timedOut /\ Proto[r] = "http"

(* When the process ends after a signal, every group of every request    *)
(* that was answered with success has been handed to the store, and      *)
(* unless the deadline passed every request that was taken was answered. *)
(* (the deferred calls of runServe)                                      *)
SuccessReachesStore ==
  phase = "exited" =>
    /\ \A r \in Requests : reply[r] = "success" =>
         \A g \in 1 .. Size[r] :
           [req |-> r, try |-> tries[r], group |-> g] \in P!Elements(written)
    /\ ~timedOut =>
         \A r \in Requests : handler[r] = "idle" /\ (tries[r] > 0 => reply[r] # "none")

(* Once it is stopping and no gRPC client still owes the rest of its      *)
(* message, the process ends, whatever HTTP clients do with theirs; and a *)
(* handler that has its request answers it, unless the process ends.      *)
(* (Receiver.Shutdown, Pipeline.Shutdown and the handlers)                *)
Owing(proto) == {r \in Requests : Proto[r] = proto /\ handler[r] = "reading"}
NothingHangs ==
  /\ phase = "grpcStopping" /\ Owing("grpc") = {} ~> phase = "exited"
  /\ \A r \in Requests :
       handler[r] = "looping" ~> (handler[r] = "idle" \/ phase = "exited")
=============================================================================
