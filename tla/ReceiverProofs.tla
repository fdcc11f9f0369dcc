--------------------------- MODULE ReceiverProofs ---------------------------
(***************************************************************************)
(* Proofs about Receiver, for any requests, sizes, retries and channel:    *)
(* what the pipeline proves of itself holds with the handlers in front of  *)
(* it and main behind it, and with that what the handlers answer is true.  *)
(***************************************************************************)
EXTENDS Receiver, TLAPS

PP == INSTANCE PipelineProofs WITH Callers <- Requests, Batches <- AllBatches

-----------------------------------------------------------------------------
(* The counters of the requests, and what has been answered. *)
Counted ==
  /\ handler \in [Requests -> {"idle", "reading", "looping"}]
  /\ group \in [Requests -> Nat]
  /\ tries \in [Requests -> 0 .. MaxTries]
  /\ reply \in [Requests -> {"none", "success", "partial", "unavailable",
                             "aborted", "badRequest"}]
  /\ \A r \in Requests :
       /\ handler[r] # "idle" => tries[r] > 0 /\ reply[r] = "none"
       /\ handler[r] = "idle" /\ tries[r] > 0 => reply[r] # "none"
       /\ handler[r] = "reading" => group[r] = 0
       /\ group[r] <= Size[r]

(* What each stage of the shutdown has left behind it. *)
Stops ==
  /\ phase \in {"serving", "grpcStopping", "httpStopping", "stopped", "exited"}
  /\ timedOut \in BOOLEAN
  /\ main # "running" => phase \in {"stopped", "exited"}
  /\ ~chanOpen => main # "running"
  /\ phase \in {"httpStopping", "stopped", "exited"} => Busy("grpc") = {}
  /\ phase \in {"stopped", "exited"} /\ ~timedOut => Busy("http") = {}
  /\ phase = "exited" => main = "returned"

(* The groups of an attempt that are among the batches in E. *)
TakenOf(E, r, k) == {g \in 1 .. Size[r] : [req |-> r, try |-> k, group |-> g] \in E}

(* A handler's last call of Ingest, and what came of its attempt so far:   *)
(* the groups before the last are accepted, the last one if Ingest said so.*)
Attempt(r) ==
  /\ caller[r].st = "checked" =>
       /\ handler[r] = "looping" /\ group[r] > 0
       /\ caller[r].batch = [req |-> r, try |-> tries[r], group |-> group[r]]
  /\ caller[r].st = "panic" => timedOut /\ Proto[r] = "http"
  /\ reply[r] = "success" =>
       group[r] = Size[r] /\ (group[r] = 0 \/ caller[r].st = "ok")
  /\ reply[r] \in {"partial", "unavailable", "aborted"} =>
       group[r] > 0 /\ caller[r].st \in {"full", "closed", "panic"}
  /\ TakenOf(P!Elements(accepted), r, tries[r])
       = 1 .. (IF caller[r].st = "ok" THEN group[r] ELSE group[r] - 1)
Attempts == \A r \in Requests : Attempt(r)

(* No batch of an attempt that has not begun. *)
NothingAhead == \A b \in P!Elements(accepted) : b.try <= tries[b.req]

-----------------------------------------------------------------------------
(* Steps that touch no request leave the counters as they are. *)
LEMMA CountedStays ==
  ASSUME Counted, UNCHANGED requestVars
  PROVE  Counted'
  BY DEF Counted, requestVars

(* The counters of the requests are in range in every state. *)
LEMMA CountedInvariant == Spec => []Counted
<1> USE SizeAssumption, MaxTriesAssumption
<1>1. Init => Counted
  BY DEF Init, Counted
<1>2. Counted /\ [Next]_vars => Counted'
  <2> SUFFICES ASSUME Counted, [Next]_vars PROVE Counted'
    OBVIOUS
  <2> USE DEF requestVars
  <2>1. ASSUME NEW r \in Requests, Arrive(r) PROVE Counted'
    BY <2>1 DEF Counted, Arrive
  <2>2. ASSUME NEW r \in Requests, ReadBody(r) PROVE Counted'
    BY <2>2 DEF Counted, ReadBody, Answer
  <2>3. ASSUME NEW r \in Requests, IngestGroup(r) PROVE Counted'
    <3>1. group' = [group EXCEPT ![r] = @ + 1] /\ group[r] < Size[r]
          /\ UNCHANGED <<handler, tries, reply>> /\ handler[r] = "looping"
      BY <2>3 DEF IngestGroup
    <3> QED BY <3>1 DEF Counted
  <2>4. ASSUME NEW r \in Requests, EnqueueGroup(r) PROVE Counted'
    BY <2>4, CountedStays DEF EnqueueGroup
  <2>5. ASSUME NEW r \in Requests, Refuse(r) \/ Panic(r) \/ Succeed(r) PROVE Counted'
    <3>1. PICK a \in {"partial", "unavailable", "aborted", "success"} :
            Answer(r, a) /\ handler[r] = "looping"
      BY <2>5 DEF Refuse, Panic, Succeed
    <3> QED BY <3>1 DEF Counted, Answer
  <2>6. CASE WorkerStep
    BY <2>6, CountedStays DEF WorkerStep
  <2>7. CASE Signal
    BY <2>7, CountedStays DEF Signal
  <2>8. CASE ProcessStep
    BY <2>8, CountedStays
       DEF ProcessStep, GRPCStopped, HTTPStopped, HTTPTimeout, PipelineShutdown, Exit
  <2>9. CASE UNCHANGED vars
    BY <2>9, CountedStays DEF vars
  <2> QED
    BY <2>1, <2>2, <2>3, <2>4, <2>5, <2>6, <2>7, <2>8, <2>9 DEF Next, LoopStep
<1> QED BY <1>1, <1>2, PTL DEF Spec

-----------------------------------------------------------------------------
(* Behind the handlers and in front of main, the pipeline does what it     *)
(* does with any callers: every step of the receiver is a step of the      *)
(* pipeline, with the batches of the requests, or leaves it alone.         *)
(* (traceService.Export, handleHTTPTraces and runServe around Pipeline)    *)
THEOREM ReceiverImplementsPipeline == Spec => PP!Spec
<1>1. Init => PP!Init
  BY DEF Init, P!Init, PP!Init
<1>2. Counted /\ [Next]_vars => [PP!Next]_(PP!vars)
  <2> SUFFICES ASSUME Counted, [Next]_vars PROVE [PP!Next]_(PP!vars)
    OBVIOUS
  <2>0. UNCHANGED pipelineVars => UNCHANGED PP!vars
    BY DEF pipelineVars, PP!vars
  <2>1. ASSUME NEW r \in Requests, Arrive(r) \/ ReadBody(r) PROVE UNCHANGED PP!vars
    BY <2>0, <2>1 DEF Arrive, ReadBody, Answer
  <2>2. ASSUME NEW r \in Requests, IngestGroup(r) PROVE PP!Next
    <3> DEFINE b == [req |-> r, try |-> tries[r], group |-> group[r] + 1]
    <3>1. tries[r] \in 1 .. MaxTries /\ group[r] + 1 \in 1 .. Size[r]
      <4>1. handler[r] = "looping" /\ group[r] < Size[r]
        BY <2>2 DEF IngestGroup
      <4> QED BY <4>1, SizeAssumption, MaxTriesAssumption DEF Counted
    <3>2. b \in AllBatches
      BY <3>1 DEF AllBatches, BatchesOf
    <3>3. PP!IngestCheck(r, b)
      BY <2>2 DEF IngestGroup, P!IngestCheck, PP!IngestCheck, P!shutdownVars,
         PP!shutdownVars, P!workerVars, PP!workerVars
    <3> QED BY <3>2, <3>3 DEF PP!Next
  <2>3. ASSUME NEW r \in Requests, EnqueueGroup(r) PROVE PP!Next
    <3>1. PP!IngestSend(r)
      BY <2>3 DEF EnqueueGroup, P!IngestSend, PP!IngestSend, P!shutdownVars,
         PP!shutdownVars, P!workerVars, PP!workerVars
    <3> QED BY <3>1 DEF PP!Next
  <2>4. ASSUME NEW r \in Requests, Refuse(r) \/ Panic(r) \/ Succeed(r)
        PROVE  UNCHANGED PP!vars
    BY <2>0, <2>4 DEF Refuse, Panic, Succeed, Answer
  <2>5. CASE WorkerStep
    <3>1. PP!Worker
      BY <2>5 DEF WorkerStep, P!Worker, PP!Worker, P!Receive, PP!Receive,
         P!ReceiveClosed, PP!ReceiveClosed, P!Tick, PP!Tick, P!FlushOne, PP!FlushOne,
         P!FlushEnd, PP!FlushEnd, P!shutdownVars, PP!shutdownVars, P!callerVars,
         PP!callerVars
    <3> QED BY <3>1 DEF PP!Next
  <2>6. CASE PipelineShutdown
    <3>1. PP!Shutdown
      BY <2>6 DEF PipelineShutdown, P!Shutdown, PP!Shutdown, P!ShutdownMark,
         PP!ShutdownMark, P!ShutdownCloseBuf, PP!ShutdownCloseBuf, P!ShutdownReturn,
         PP!ShutdownReturn, P!callerVars, PP!callerVars, P!workerVars, PP!workerVars
    <3> QED BY <3>1 DEF PP!Next
  <2>7. CASE Signal \/ GRPCStopped \/ HTTPStopped \/ HTTPTimeout \/ Exit
    BY <2>0, <2>7 DEF Signal, GRPCStopped, HTTPStopped, HTTPTimeout, Exit
  <2>8. CASE UNCHANGED vars
    BY <2>0, <2>8 DEF vars
  <2> QED
    BY <2>1, <2>2, <2>3, <2>4, <2>5, <2>6, <2>7, <2>8 DEF Next, LoopStep, ProcessStep
<1> QED BY <1>1, <1>2, CountedInvariant, PTL DEF Spec, PP!Spec

(* So the pipeline's own theorems hold of it here. *)
LEMMA PipelineInvariants == Spec => [](PP!TypeOK /\ PP!ShutdownDrains)
<1> USE BufSizeAssumption, NoBatchAssumption
    DEF PP!BufSizeAssumption, PP!NoBatchAssumption
<1>1. PP!Spec => []PP!TypeOK
  BY PP!TypeCorrect
<1>2. PP!Spec => []PP!ShutdownDrains
  BY PP!ShutdownLosesNothing
<1> QED BY <1>1, <1>2, ReceiverImplementsPipeline, PTL
-----------------------------------------------------------------------------
(* A step of requests that arrive at no handler, and leave main alone. *)
LEMMA StopsStays ==
  ASSUME Stops, UNCHANGED <<main, chanOpen, phase, timedOut>>,
         \A r \in Requests : handler'[r] # "idle" => handler[r] # "idle"
  PROVE  Stops'
<1>1. \A proto : Busy(proto)' \subseteq Busy(proto)
  BY DEF Busy
<1> QED BY <1>1 DEF Stops

(* Any step keeps what the stages of the shutdown have left behind. *)
LEMMA StopsPreserved == Counted /\ Stops /\ [Next]_vars => Stops'
<1> SUFFICES ASSUME Counted, Stops, [Next]_vars PROVE Stops'
  OBVIOUS
<1> USE DEF pipelineVars, requestVars, processVars
<1>1. ASSUME NEW r \in Requests, Arrive(r) PROVE Stops'
  <2>1. /\ UNCHANGED <<main, chanOpen, phase, timedOut>>
        /\ \E h : handler' = [handler EXCEPT ![r] = h]
        /\ Accepting(Proto[r])
    BY <1>1 DEF Arrive
  <2>2. CASE phase \in {"serving", "grpcStopping"}
    BY <2>1, <2>2 DEF Stops
  <2>3. CASE phase \in {"httpStopping", "stopped", "exited"}
    BY <2>1, <2>3 DEF Accepting
  <2> QED BY <2>2, <2>3 DEF Stops
<1>2. ASSUME NEW r \in Requests, ReadBody(r) PROVE Stops'
  BY <1>2, StopsStays DEF ReadBody, Answer, Counted
<1>3. ASSUME NEW r \in Requests, IngestGroup(r) PROVE Stops'
  BY <1>3, StopsStays DEF IngestGroup, P!IngestCheck, P!shutdownVars
<1>4. ASSUME NEW r \in Requests, EnqueueGroup(r) PROVE Stops'
  BY <1>4, StopsStays DEF EnqueueGroup, P!IngestSend, P!shutdownVars
<1>5. ASSUME NEW r \in Requests, Refuse(r) \/ Panic(r) \/ Succeed(r) PROVE Stops'
  BY <1>5, StopsStays DEF Refuse, Panic, Succeed, Answer, Counted
<1>6. CASE WorkerStep
  <2>1. UNCHANGED <<main, chanOpen>>
    BY <1>6 DEF WorkerStep, P!Worker, P!Receive, P!ReceiveClosed, P!Tick, P!FlushOne,
       P!FlushEnd, P!shutdownVars
  <2> QED BY <1>6, <2>1, StopsStays DEF WorkerStep
<1>7. CASE Signal \/ GRPCStopped \/ HTTPStopped \/ HTTPTimeout
  <2>1. \A proto : Busy(proto)' = Busy(proto)
    BY <1>7 DEF Busy, Signal, GRPCStopped, HTTPStopped, HTTPTimeout
  <2> QED BY <1>7, <2>1 DEF Stops, Signal, GRPCStopped, HTTPStopped, HTTPTimeout
<1>8. CASE PipelineShutdown
  <2>1. phase = "stopped" /\ UNCHANGED <<handler, phase, timedOut>> /\ main' # "running"
    BY <1>8 DEF PipelineShutdown, P!Shutdown, P!ShutdownMark, P!ShutdownCloseBuf,
       P!ShutdownReturn
  <2> QED BY <2>1 DEF Stops, Busy
<1>9. CASE Exit
  BY <1>9 DEF Exit, Stops, Busy
<1>10. CASE UNCHANGED vars
  BY <1>10, StopsStays DEF vars
<1> QED
  BY <1>1, <1>2, <1>3, <1>4, <1>5, <1>6, <1>7, <1>8, <1>9, <1>10
     DEF Next, LoopStep, ProcessStep

-----------------------------------------------------------------------------
(* What is accepted changes only with `accepted`, ... *)
LEMMA AcceptedStays ==
  ASSUME UNCHANGED accepted
  PROVE  P!Elements(accepted)' = P!Elements(accepted)
  BY DEF P!Elements

(* ... and then by the batch that is added. *)
LEMMA AcceptedGrows ==
  ASSUME PP!TypeOK, NEW b \in AllBatches, accepted' = Append(accepted, b)
  PROVE  P!Elements(accepted)' = P!Elements(accepted) \cup {b}
<1>1. accepted \in Seq(AllBatches)
  BY DEF PP!TypeOK
<1>2. PP!Elements(Append(accepted, b)) = PP!Elements(accepted) \cup {b}
  BY <1>1, PP!ElementsAppend, BufSizeAssumption, NoBatchAssumption
     DEF PP!BufSizeAssumption, PP!NoBatchAssumption
<1> QED BY <1>2 DEF P!Elements, PP!Elements

(* Any step keeps later attempts out of what is accepted. *)
LEMMA AheadPreserved ==
  ASSUME Counted, PP!TypeOK, Attempts, NothingAhead, [Next]_vars
  PROVE  NothingAhead'
<1>1. \A b \in P!Elements(accepted) : b \in AllBatches /\ b.req \in Requests
  <2>1. \A b \in AllBatches : b.req \in Requests
    BY DEF AllBatches, BatchesOf
  <2> QED BY <2>1 DEF P!Elements, PP!TypeOK
<1>2. CASE UNCHANGED <<accepted, tries>>
  BY <1>2 DEF NothingAhead, P!Elements
<1>3. ASSUME NEW r \in Requests, Arrive(r) PROVE NothingAhead'
  <2>1. accepted' = accepted /\ tries' = [tries EXCEPT ![r] = @ + 1]
    BY <1>3 DEF Arrive, pipelineVars
  <2>2. \A q \in Requests : tries[q] \in Nat /\ tries'[q] \in {tries[q], tries[q] + 1}
    BY <2>1, MaxTriesAssumption DEF Counted
  <2>3. \A b \in AllBatches : b.try \in Nat
    BY MaxTriesAssumption DEF AllBatches, BatchesOf
  <2> QED BY <1>1, <2>1, <2>2, <2>3 DEF NothingAhead, P!Elements
<1>4. ASSUME NEW r \in Requests, EnqueueGroup(r) PROVE NothingAhead'
  <2>1. caller[r].st = "checked" /\ UNCHANGED tries
    BY <1>4 DEF EnqueueGroup, P!IngestSend, requestVars
  <2>2. \/ accepted' = accepted
        \/ accepted' = Append(accepted, caller[r].batch)
    BY <1>4 DEF EnqueueGroup, P!IngestSend
  <2>3. CASE accepted' = accepted
    BY <1>2, <2>1, <2>3
  <2>4. CASE accepted' = Append(accepted, caller[r].batch)
    <3>1. caller[r].batch = [req |-> r, try |-> tries[r], group |-> group[r]]
      BY <2>1 DEF Attempts, Attempt
    <3>2. caller[r].batch \in AllBatches
      <4>1. group[r] > 0 /\ handler[r] = "looping"
        BY <2>1 DEF Attempts, Attempt
      <4>2. tries[r] \in 1 .. MaxTries /\ group[r] \in 1 .. Size[r]
        BY <4>1, SizeAssumption, MaxTriesAssumption DEF Counted
      <4> QED BY <3>1, <4>2 DEF AllBatches, BatchesOf
    <3>3. P!Elements(accepted)' = P!Elements(accepted) \cup {caller[r].batch}
      BY <2>4, <3>2, AcceptedGrows
    <3>4. tries[r] <= tries[r]
      BY MaxTriesAssumption DEF Counted
    <3> QED BY <2>1, <3>1, <3>3, <3>4 DEF NothingAhead
  <2> QED BY <2>2, <2>3, <2>4
<1>5. CASE ~ \E r \in Requests : Arrive(r) \/ EnqueueGroup(r)
  <2>1. UNCHANGED <<accepted, tries>>
    BY <1>5 DEF Next, LoopStep, ReadBody, Answer, IngestGroup, P!IngestCheck, Refuse,
       Panic, Succeed, WorkerStep, P!Worker, P!Receive, P!ReceiveClosed, P!Tick,
       P!FlushOne, P!FlushEnd, Signal, ProcessStep, GRPCStopped, HTTPStopped,
       HTTPTimeout, PipelineShutdown, P!Shutdown, P!ShutdownMark, P!ShutdownCloseBuf,
       P!ShutdownReturn, Exit, vars, pipelineVars, requestVars, P!callerVars
  <2> QED BY <1>2, <2>1
<1> QED BY <1>3, <1>4, <1>5
-----------------------------------------------------------------------------
(* A request nothing happens to. *)
LEMMA AttemptStays ==
  ASSUME NEW q \in Requests, Attempt(q),
         UNCHANGED <<caller[q], handler[q], group[q], tries[q], reply[q]>>,
         timedOut => timedOut',
         TakenOf(P!Elements(accepted), q, tries[q])'
           = TakenOf(P!Elements(accepted), q, tries[q])
  PROVE  Attempt(q)'
  BY DEF Attempt

(* A new attempt begins with nothing accepted of it. *)
LEMMA ArriveAttempts ==
  ASSUME Counted, PP!TypeOK, Attempts, NothingAhead, NEW r \in Requests, Arrive(r)
  PROVE  Attempts'
<1>1. /\ UNCHANGED <<caller, accepted, timedOut>>
      /\ group' = [group EXCEPT ![r] = 0] /\ tries' = [tries EXCEPT ![r] = @ + 1]
      /\ reply' = [reply EXCEPT ![r] = "none"] /\ handler[r] = "idle"
      /\ \E h : handler' = [handler EXCEPT ![r] = h]
  BY DEF Arrive, pipelineVars, processVars
<1>2. P!Elements(accepted)' = P!Elements(accepted)
  BY <1>1, AcceptedStays
<1>3. ASSUME NEW q \in Requests \ {r} PROVE Attempt(q)'
  <2>1. UNCHANGED <<caller[q], handler[q], group[q], tries[q], reply[q]>>
    BY <1>1, <1>3 DEF Counted
  <2>2. TakenOf(P!Elements(accepted), q, tries[q])'
          = TakenOf(P!Elements(accepted), q, tries[q])
    BY <1>2, <2>1 DEF TakenOf
  <2> QED BY <1>1, <2>1, <2>2, AttemptStays DEF Attempts
<1>4. Attempt(r)'
  <2>1. caller[r].st # "checked"
    BY <1>1 DEF Attempts, Attempt
  <2>2. tries[r] \in Nat /\ tries'[r] = tries[r] + 1
    BY <1>1, MaxTriesAssumption DEF Counted
  <2>3. \A g : [req |-> r, try |-> tries'[r], group |-> g] \notin P!Elements(accepted)
    BY <2>2 DEF NothingAhead
  <2>4. TakenOf(P!Elements(accepted), r, tries[r])' = {}
    BY <1>2, <2>3 DEF TakenOf
  <2>5. group'[r] = 0 /\ reply'[r] = "none" /\ caller' = caller /\ timedOut' = timedOut
    BY <1>1 DEF Counted
  <2>6. 1 .. 0 = {} /\ 1 .. (0 - 1) = {}
    OBVIOUS
  <2> QED BY <2>1, <2>4, <2>5, <2>6 DEF Attempts, Attempt
<1> QED BY <1>3, <1>4 DEF Attempts

(* Reading the body, and answering after a refusal, a panic or the last    *)
(* group.                                                                  *)
LEMMA AnswerAttempts ==
  ASSUME Counted, PP!TypeOK, Attempts, NEW r \in Requests,
         ReadBody(r) \/ Refuse(r) \/ Panic(r) \/ Succeed(r)
  PROVE  Attempts'
<1>1. /\ UNCHANGED <<caller, accepted, timedOut, group, tries>>
      /\ \E h : handler' = [handler EXCEPT ![r] = h]
      /\ \E a : reply' = [reply EXCEPT ![r] = a] \/ reply' = reply
  BY DEF ReadBody, Refuse, Panic, Succeed, Answer, pipelineVars, processVars
<1>2. \A q \in Requests : TakenOf(P!Elements(accepted), q, tries[q])'
                             = TakenOf(P!Elements(accepted), q, tries[q])
  BY <1>1, AcceptedStays DEF TakenOf
<1>3. ASSUME NEW q \in Requests \ {r} PROVE Attempt(q)'
  <2>1. UNCHANGED <<caller[q], handler[q], group[q], tries[q], reply[q]>>
    BY <1>1, <1>3 DEF Counted
  <2> QED BY <1>1, <1>2, <2>1, AttemptStays DEF Attempts
<1>4. caller[r].st # "checked"
  <2>1. \/ handler[r] = "reading" \/ group[r] = 0
        \/ caller[r].st \in {"full", "closed", "panic", "ok"}
    BY DEF ReadBody, Refuse, Panic, Succeed
  <2>2. caller[r].st = "checked" => handler[r] = "looping" /\ group[r] > 0
    BY DEF Attempts, Attempt
  <2>3. ~(0 > 0)
    OBVIOUS
  <2> QED BY <2>1, <2>2, <2>3
<1>5. CASE ReadBody(r)
  <2>1. reply'[r] \in {"none", "badRequest"}
    BY <1>5 DEF ReadBody, Answer, Counted, requestVars
  <2> QED BY <1>1, <1>2, <1>3, <1>4, <2>1 DEF Attempts, Attempt
<1>6. CASE Refuse(r) \/ Panic(r)
  <2>1. reply'[r] # "success" /\ group[r] > 0 /\ caller[r].st \in {"full", "closed", "panic"}
    BY <1>6 DEF Refuse, Panic, Answer, Counted
  <2> QED BY <1>1, <1>2, <1>3, <1>4, <2>1 DEF Attempts, Attempt
<1>7. CASE Succeed(r)
  <2>1. reply'[r] = "success" /\ group[r] = Size[r] /\ (group[r] = 0 \/ caller[r].st = "ok")
    BY <1>7 DEF Succeed, Answer, Counted
  <2> QED BY <1>1, <1>2, <1>3, <1>4, <2>1 DEF Attempts, Attempt
<1> QED BY <1>5, <1>6, <1>7

(* The loop offers the next group. *)
LEMMA OfferAttempts ==
  ASSUME Counted, PP!TypeOK, Attempts, NEW r \in Requests, IngestGroup(r)
  PROVE  Attempts'
<1> DEFINE b == [req |-> r, try |-> tries[r], group |-> group[r] + 1]
<1>1. /\ UNCHANGED <<accepted, timedOut, handler, tries, reply>>
      /\ group' = [group EXCEPT ![r] = @ + 1]
      /\ handler[r] = "looping"
      /\ group[r] = 0 \/ caller[r].st = "ok"
  BY DEF IngestGroup, P!IngestCheck, processVars
<1>2. caller' = [caller EXCEPT ![r] = [st |-> IF closed THEN "closed" ELSE "checked",
                                        batch |-> b]]
  BY DEF IngestGroup, P!IngestCheck
<1>3. \A q \in Requests : TakenOf(P!Elements(accepted), q, tries[q])'
                             = TakenOf(P!Elements(accepted), q, tries[q])
  BY <1>1, AcceptedStays DEF TakenOf
<1>4. ASSUME NEW q \in Requests \ {r} PROVE Attempt(q)'
  <2>1. UNCHANGED <<caller[q], handler[q], group[q], tries[q], reply[q]>>
    BY <1>1, <1>2, <1>4 DEF Counted, PP!TypeOK
  <2> QED BY <1>1, <1>3, <2>1, AttemptStays DEF Attempts
<1>5. Attempt(r)'
  <2>1. group'[r] = group[r] + 1 /\ group[r] \in Nat /\ reply'[r] = "none"
    BY <1>1 DEF Counted
  <2>2. caller'[r].st \in {"closed", "checked"} /\ caller'[r].batch = b
    BY <1>2 DEF PP!TypeOK
  <2>3. TakenOf(P!Elements(accepted), r, tries[r]) = 1 .. group[r]
    <3>1. 1 .. 0 = {} /\ 1 .. (0 - 1) = {}
      OBVIOUS
    <3> QED BY <1>1, <3>1 DEF Attempts, Attempt
  <2>4. 1 .. (group'[r] - 1) = 1 .. group[r] /\ group'[r] > 0
    BY <2>1
  <2> QED BY <1>1, <1>3, <2>1, <2>2, <2>3, <2>4 DEF Attempt
<1> QED BY <1>4, <1>5 DEF Attempts

(* Ingest sends the batch, or refuses it, or panics. *)
LEMMA SendAttempts ==
  ASSUME Counted, Stops, PP!TypeOK, Attempts, NEW r \in Requests, EnqueueGroup(r)
  PROVE  Attempts'
<1>1. /\ UNCHANGED <<timedOut, handler, group, tries, reply>>
      /\ caller[r].st = "checked" /\ handler[r] = "looping" /\ phase # "exited"
  BY DEF EnqueueGroup, P!IngestSend, requestVars, processVars, Running
<1>2. /\ group[r] > 0 /\ reply[r] = "none"
      /\ caller[r].batch = [req |-> r, try |-> tries[r], group |-> group[r]]
  BY <1>1 DEF Attempts, Attempt, Counted
<1>3. group[r] \in 1 .. Size[r] /\ tries[r] \in 1 .. MaxTries
  BY <1>1, <1>2, SizeAssumption, MaxTriesAssumption DEF Counted
<1>4. caller[r].batch \in AllBatches
  BY <1>2, <1>3 DEF AllBatches, BatchesOf
<1>5. CASE ~chanOpen /\ caller' = [caller EXCEPT ![r].st = "panic"] /\ UNCHANGED accepted
  <2>1. phase = "stopped"
    BY <1>1, <1>5 DEF Stops
  <2>2. Proto[r] = "http" /\ timedOut
    BY <1>1, <2>1, ProtoAssumption DEF Stops, Busy
  <2>3. \A q \in Requests : TakenOf(P!Elements(accepted), q, tries[q])'
                               = TakenOf(P!Elements(accepted), q, tries[q])
    BY <1>1, <1>5, AcceptedStays DEF TakenOf
  <2>4. ASSUME NEW q \in Requests \ {r} PROVE Attempt(q)'
    <3>1. UNCHANGED <<caller[q], handler[q], group[q], tries[q], reply[q]>>
      BY <1>1, <1>5, <2>4 DEF PP!TypeOK
    <3> QED BY <1>1, <2>3, <3>1, AttemptStays DEF Attempts
  <2>5. Attempt(r)'
    <3>1. caller'[r].st = "panic"
      BY <1>5 DEF PP!TypeOK
    <3> QED BY <1>1, <1>2, <2>2, <2>3, <3>1 DEF Attempts, Attempt
  <2> QED BY <2>4, <2>5 DEF Attempts
<1>6. CASE caller' = [caller EXCEPT ![r].st = "full"] /\ UNCHANGED accepted
  <2>3. \A q \in Requests : TakenOf(P!Elements(accepted), q, tries[q])'
                               = TakenOf(P!Elements(accepted), q, tries[q])
    BY <1>1, <1>6, AcceptedStays DEF TakenOf
  <2>4. ASSUME NEW q \in Requests \ {r} PROVE Attempt(q)'
    <3>1. UNCHANGED <<caller[q], handler[q], group[q], tries[q], reply[q]>>
      BY <1>1, <1>6, <2>4 DEF PP!TypeOK
    <3> QED BY <1>1, <2>3, <3>1, AttemptStays DEF Attempts
  <2>5. Attempt(r)'
    <3>1. caller'[r].st = "full"
      BY <1>6 DEF PP!TypeOK
    <3> QED BY <1>1, <1>2, <2>3, <3>1 DEF Attempts, Attempt
  <2> QED BY <2>4, <2>5 DEF Attempts
<1>7. CASE /\ accepted' = Append(accepted, caller[r].batch)
           /\ caller' = [caller EXCEPT ![r].st = "ok"]
  <2>1. P!Elements(accepted)' = P!Elements(accepted) \cup {caller[r].batch}
    BY <1>4, <1>7, AcceptedGrows
  <2>2. ASSUME NEW q \in Requests \ {r} PROVE Attempt(q)'
    <3>1. UNCHANGED <<caller[q], handler[q], group[q], tries[q], reply[q]>>
      BY <1>1, <1>7, <2>2 DEF PP!TypeOK
    <3>2. \A g : [req |-> q, try |-> tries[q], group |-> g] # caller[r].batch
      BY <1>2, <2>2
    <3>3. TakenOf(P!Elements(accepted), q, tries[q])'
            = TakenOf(P!Elements(accepted), q, tries[q])
      BY <1>1, <2>1, <3>2 DEF TakenOf
    <3> QED BY <1>1, <3>1, <3>3, AttemptStays DEF Attempts
  <2>3. Attempt(r)'
    <3>1. caller'[r].st = "ok"
      BY <1>7 DEF PP!TypeOK
    <3>2. TakenOf(P!Elements(accepted), r, tries[r]) = 1 .. (group[r] - 1)
      BY <1>1 DEF Attempts, Attempt
    <3>3. \A g : [req |-> r, try |-> tries[r], group |-> g] = caller[r].batch <=> g = group[r]
      BY <1>2
    <3>4. TakenOf(P!Elements(accepted), r, tries[r])' = 1 .. (group[r] - 1) \cup {group[r]}
      BY <1>1, <1>3, <2>1, <3>2, <3>3 DEF TakenOf
    <3>5. 1 .. (group[r] - 1) \cup {group[r]} = 1 .. group[r]
      BY <1>3, SizeAssumption
    <3> QED BY <1>1, <1>2, <3>1, <3>4, <3>5 DEF Attempt
  <2> QED BY <2>2, <2>3 DEF Attempts
<1> QED BY <1>5, <1>6, <1>7 DEF EnqueueGroup, P!IngestSend

(* Any step keeps what a call of Ingest says of its attempt. *)
LEMMA AttemptsPreserved ==
  ASSUME Counted, Stops, PP!TypeOK, Attempts, NothingAhead, [Next]_vars
  PROVE  Attempts'
<1>1. CASE /\ UNCHANGED <<caller, accepted, requestVars>>
           /\ timedOut => timedOut'
  <2> SUFFICES ASSUME NEW q \in Requests PROVE Attempt(q)'
    BY DEF Attempts
  <2>1. TakenOf(P!Elements(accepted), q, tries[q])'
          = TakenOf(P!Elements(accepted), q, tries[q])
    BY <1>1, AcceptedStays DEF TakenOf, requestVars
  <2> QED BY <1>1, <2>1, AttemptStays DEF Attempts, requestVars
<1>2. CASE WorkerStep \/ Signal \/ ProcessStep \/ UNCHANGED vars
  <2>1. UNCHANGED <<caller, accepted, requestVars>> /\ (timedOut => timedOut')
    BY <1>2 DEF WorkerStep, P!Worker, P!Receive, P!ReceiveClosed, P!Tick,
       P!FlushOne, P!FlushEnd, Signal, ProcessStep, GRPCStopped, HTTPStopped,
       HTTPTimeout, PipelineShutdown, P!Shutdown, P!ShutdownMark, P!ShutdownCloseBuf,
       P!ShutdownReturn, Exit, vars, pipelineVars, processVars, P!callerVars
  <2> QED BY <1>1, <2>1
<1> QED
  BY <1>2, ArriveAttempts, AnswerAttempts, OfferAttempts, SendAttempts DEF Next, LoopStep

-----------------------------------------------------------------------------
(* Nothing is accepted, attempted or stopped at first. *)
LEMMA InitHolds == Init => Stops /\ Attempts /\ NothingAhead
<1> SUFFICES ASSUME Init PROVE Stops /\ Attempts /\ NothingAhead
  OBVIOUS
<1>1. P!Elements(accepted) = {}
  BY DEF Init, P!Init, P!Elements
<1>2. 1 .. (0 - 1) = {}
  OBVIOUS
<1>3. Attempts /\ NothingAhead
  BY <1>1, <1>2 DEF Init, P!Init, Attempts, Attempt, TakenOf, NothingAhead
<1>4. Stops
  BY DEF Init, P!Init, Stops, Busy
<1> QED BY <1>3, <1>4

(* The three hold in every state. *)
LEMMA RequestInvariant == Spec => [](Stops /\ Attempts /\ NothingAhead)
<1>1. Counted /\ PP!TypeOK /\ Stops /\ Attempts /\ NothingAhead /\ [Next]_vars
        => Stops' /\ Attempts' /\ NothingAhead'
  BY StopsPreserved, AttemptsPreserved, AheadPreserved
<1> QED
  BY <1>1, InitHolds, CountedInvariant, PipelineInvariants, PTL DEF Spec

(* What an answer tells the exporter is true of the pipeline: after        *)
(* "success" every group of the attempt was accepted, after a refusal the  *)
(* ones before it and no other, whatever other requests, the worker and    *)
(* the shutdown do.  (traceService.Export and handleHTTPTraces)            *)
THEOREM AnswersTrue == Spec => []AnswersAreTrue
<1>1. Counted /\ Attempts => AnswersAreTrue
  <2> SUFFICES ASSUME Counted, Attempts, NEW r \in Requests
               PROVE  /\ reply[r] = "success" => Taken(r, tries[r]) = 1 .. Size[r]
                      /\ reply[r] \in {"partial", "unavailable", "aborted"}
                           => Taken(r, tries[r]) = 1 .. (group[r] - 1)
    BY DEF AnswersAreTrue
  <2>1. Taken(r, tries[r]) = TakenOf(P!Elements(accepted), r, tries[r])
    BY DEF Taken, TakenOf
  <2>2. 1 .. 0 = {} /\ 1 .. (0 - 1) = {}
    OBVIOUS
  <2>3. CASE reply[r] = "success"
    BY <2>1, <2>2, <2>3 DEF Attempts, Attempt
  <2>4. CASE reply[r] \in {"partial", "unavailable", "aborted"}
    BY <2>1, <2>4 DEF Attempts, Attempt
  <2> QED BY <2>3, <2>4
<1> QED BY <1>1, CountedInvariant, RequestInvariant, PTL

(* Ingest panics only in an HTTP handler that outlived the deadline of     *)
(* recv.Shutdown: main stops the receiver before it closes the channel,    *)
(* and GracefulStop waits for every RPC.  (runServe, Receiver.Shutdown)    *)
THEOREM PanicsOnlyAfterTimeout == Spec => []PanicOnlyAfterTimeout
<1>1. Attempts => PanicOnlyAfterTimeout
  BY DEF Attempts, Attempt, PanicOnlyAfterTimeout
<1> QED BY <1>1, RequestInvariant, PTL

(* When the process has ended, what was answered with success is in the    *)
(* store's hands, and without a timeout everybody was answered.            *)
(* (the deferred calls of runServe)                                        *)
THEOREM SuccessIsStored == Spec => []SuccessReachesStore
<1>1. Counted /\ Stops /\ PP!ShutdownDrains /\ AnswersAreTrue => SuccessReachesStore
  <2> SUFFICES ASSUME Counted, Stops, PP!ShutdownDrains, AnswersAreTrue, phase = "exited"
               PROVE  /\ \A r \in Requests : reply[r] = "success" =>
                           \A g \in 1 .. Size[r] :
                             [req |-> r, try |-> tries[r], group |-> g] \in P!Elements(written)
                      /\ ~timedOut =>
                           \A r \in Requests : /\ handler[r] = "idle"
                                               /\ tries[r] > 0 => reply[r] # "none"
    BY DEF SuccessReachesStore
  <2>1. written = accepted
    BY DEF Stops, PP!ShutdownDrains
  <2>2. ASSUME NEW r \in Requests, reply[r] = "success", NEW g \in 1 .. Size[r]
        PROVE  [req |-> r, try |-> tries[r], group |-> g] \in P!Elements(written)
    <3>1. g \in Taken(r, tries[r])
      BY <2>2 DEF AnswersAreTrue
    <3> QED BY <2>1, <3>1 DEF Taken
  <2>3. ASSUME ~timedOut, NEW r \in Requests PROVE handler[r] = "idle"
    BY <2>3, ProtoAssumption DEF Stops, Busy
  <2> QED BY <2>2, <2>3 DEF Counted
<1> QED
  BY <1>1, CountedInvariant, RequestInvariant, PipelineInvariants, AnswersTrue, PTL
=============================================================================
