--------------------------- MODULE PipelineProofs ---------------------------
(***************************************************************************)
(* Proofs about Pipeline, for any callers, batches and channel capacity.   *)
(***************************************************************************)
EXTENDS Pipeline, SequenceTheorems, TLAPS

-----------------------------------------------------------------------------
(* Facts about sequences that the steps of the pipeline rest on. *)

(* Moving the head of one sequence to the end of the one before it leaves *)
(* their concatenation as it was: what Receive and FlushOne do.           *)
LEMMA MoveHead ==
  ASSUME NEW S, NEW p \in Seq(S), NEW q \in Seq(S), q # << >>
  PROVE  /\ Head(q) \in S
         /\ Tail(q) \in Seq(S)
         /\ Append(p, Head(q)) \in Seq(S)
         /\ Append(p, Head(q)) \o Tail(q) = p \o q
<1>1. /\ Head(q) \in S
      /\ Tail(q) \in Seq(S)
      /\ Len(Tail(q)) = Len(q) - 1
      /\ \A i \in 1 .. Len(Tail(q)) : Tail(q)[i] = q[i + 1]
  BY HeadTailProperties
<1>2. Head(q) = q[1] /\ Len(q) \in Nat /\ Len(p) \in Nat /\ Len(q) > 0
  OBVIOUS
<1> DEFINE a == Append(p, Head(q))
<1>3. /\ a \in Seq(S)
      /\ Len(a) = Len(p) + 1
      /\ \A i \in 1 .. Len(p) : a[i] = p[i]
      /\ a[Len(p) + 1] = q[1]
  BY <1>1, <1>2, AppendProperties
<1> HIDE DEF a
<1>4. /\ a \o Tail(q) \in Seq(S)
      /\ Len(a \o Tail(q)) = Len(a) + Len(Tail(q))
      /\ \A i \in 1 .. Len(a) + Len(Tail(q)) :
           (a \o Tail(q))[i] = IF i <= Len(a) THEN a[i] ELSE Tail(q)[i - Len(a)]
  BY <1>1, <1>3, ConcatProperties
<1>5. /\ p \o q \in Seq(S)
      /\ Len(p \o q) = Len(p) + Len(q)
      /\ \A i \in 1 .. Len(p) + Len(q) :
           (p \o q)[i] = IF i <= Len(p) THEN p[i] ELSE q[i - Len(p)]
  BY ConcatProperties
<1>6. \A i \in 1 .. Len(p) + Len(q) : (a \o Tail(q))[i] = (p \o q)[i]
  <2> SUFFICES ASSUME NEW i \in 1 .. Len(p) + Len(q)
               PROVE  (a \o Tail(q))[i] = (p \o q)[i]
    OBVIOUS
  <2>1. CASE i <= Len(p)
    BY <2>1, <1>1, <1>2, <1>3, <1>4, <1>5
  <2>2. CASE i = Len(p) + 1
    BY <2>2, <1>1, <1>2, <1>3, <1>4, <1>5
  <2>3. CASE i > Len(p) + 1
    <3>1. i - Len(a) \in 1 .. Len(Tail(q)) /\ (i - Len(a)) + 1 = i - Len(p)
      BY <2>3, <1>1, <1>2, <1>3
    <3> QED
      BY <3>1, <2>3, <1>1, <1>2, <1>3, <1>4, <1>5
  <2>4. i <= Len(p) \/ i = Len(p) + 1 \/ i > Len(p) + 1
    BY <1>2
  <2> QED
    BY <2>1, <2>2, <2>3, <2>4
<1>7. a \o Tail(q) = p \o q
  BY <1>1, <1>2, <1>3, <1>4, <1>5, <1>6, SeqEqual
<1> QED
  BY <1>1, <1>3, <1>7 DEF a

(* That it makes no difference where the brackets stand. *)
Associates(p, q, r) == (p \o q) \o r = p \o (q \o r)
LEMMA ConcatAssociates ==
  ASSUME NEW S
  PROVE  \A p, q, r \in Seq(S) : Associates(p, q, r)
BY ConcatAssociative DEF Associates

(* Appending to the last of two sequences appends to their concatenation. *)
LEMMA AppendConcat ==
  ASSUME NEW S, NEW p \in Seq(S), NEW q \in Seq(S), NEW e \in S
  PROVE  Append(p \o q, e) = p \o Append(q, e)
<1>1. p \o q \in Seq(S) /\ <<e>> \in Seq(S)
  BY ConcatProperties
<1>2. Append(p \o q, e) = (p \o q) \o <<e>> /\ Append(q, e) = q \o <<e>>
  BY <1>1, AppendIsConcat
<1>3. Associates(p, q, <<e>>)
  BY <1>1, ConcatAssociates
<1> QED
  BY <1>2, <1>3 DEF Associates

(* An element is in Append(s, e) iff it is in s or is e. *)
LEMMA ElementsAppend ==
  ASSUME NEW S, NEW s \in Seq(S), NEW e \in S
  PROVE  Elements(Append(s, e)) = Elements(s) \cup {e}
<1>1. /\ Len(Append(s, e)) = Len(s) + 1
      /\ \A i \in 1 .. Len(s) : Append(s, e)[i] = s[i]
      /\ Append(s, e)[Len(s) + 1] = e
      /\ Len(s) \in Nat
  BY AppendProperties
<1> QED
  BY <1>1 DEF Elements

-----------------------------------------------------------------------------
(* The inductive invariant. InOrderOnce is preserved by every step given   *)
(* the types alone; that it survives Shutdown needs to know how far main   *)
(* and the worker are of each other (Stages), and that the abstract log    *)
(* never sees a batch twice needs to know that a batch between the check   *)
(* and the send is new and nobody else's (FreshBatches).                   *)
Stages ==
  /\ closed <=> main # "running"
  /\ chanOpen <=> main \in {"running", "marked"}
  /\ worker \in {"final", "done"} => buf = << >> /\ ~chanOpen
  /\ worker = "done" => pending = << >>
  /\ main = "returned" => worker = "done"

FreshBatches ==
  /\ Elements(accepted) \subseteq offered
  /\ \A c \in Callers : caller[c].st = "checked" =>
       /\ caller[c].batch \in offered
       /\ caller[c].batch \notin Elements(accepted)
       /\ \A d \in Callers \ {c} : caller[d].st = "checked" =>
            caller[d].batch # caller[c].batch

IndInv == TypeOK /\ InOrderOnce /\ Stages /\ FreshBatches

(* The invariant holds at first. *)
LEMMA InitIndInv == Init => IndInv
<1> SUFFICES ASSUME Init PROVE IndInv
  OBVIOUS
<1>1. << >> \in Seq(Batches) /\ Len(<< >>) = 0
  OBVIOUS
<1>2. TypeOK
  <2>1. caller \in [Callers -> [st : CallState, batch : Batches \cup {NoBatch}]]
    BY DEF Init, CallState
  <2>2. Len(buf) <= BufSize
    BY <1>1, BufSizeAssumption DEF Init
  <2> QED
    BY <1>1, <2>1, <2>2 DEF Init, TypeOK, WorkerState, MainState
<1>3. InOrderOnce
  BY <1>1, ConcatEmptySeq DEF Init, InOrderOnce
<1>4. Stages
  BY DEF Init, Stages
<1>5. FreshBatches
  BY DEF Init, FreshBatches, Elements
<1> QED
  BY <1>2, <1>3, <1>4, <1>5 DEF IndInv

(* The closed check of Ingest keeps it ... *)
LEMMA CheckPreserves ==
  ASSUME IndInv, NEW c \in Callers, NEW b \in Batches, IngestCheck(c, b)
  PROVE  IndInv'
<1> USE DEF IndInv, callerVars, workerVars, shutdownVars
<1>1. TypeOK'
  BY DEF TypeOK, IngestCheck, CallState
<1>2. InOrderOnce'
  BY DEF InOrderOnce, IngestCheck
<1>3. Stages'
  BY DEF Stages, IngestCheck
<1>4. FreshBatches'
  BY DEF TypeOK, FreshBatches, IngestCheck, Elements
<1> QED
  BY <1>1, <1>2, <1>3, <1>4

(* ... its send or refusal ... *)
LEMMA SendPreserves ==
  ASSUME IndInv, NEW c \in Callers, IngestSend(c)
  PROVE  IndInv'
<1> USE DEF IndInv, callerVars, workerVars, shutdownVars
<1>1. caller[c].st = "checked" /\ caller[c].batch \in Batches
  BY DEF IngestSend, TypeOK, FreshBatches
<1>2. CASE UNCHANGED <<buf, accepted>>
  <2>1. TypeOK'
    BY <1>1, <1>2, ZenonT(40) DEF TypeOK, IngestSend, CallState
  <2>2. InOrderOnce' /\ Stages'
    BY <1>2 DEF InOrderOnce, Stages, IngestSend
  <2>3. FreshBatches'
    <3>1. \A d \in Callers : caller'[d].st = "checked" => d # c /\ caller'[d] = caller[d]
      BY <1>1, <1>2 DEF TypeOK, IngestSend
    <3>2. offered' = offered /\ accepted' = accepted
      BY <1>2 DEF IngestSend
    <3> QED
      BY <3>1, <3>2 DEF FreshBatches, Elements
  <2> QED
    BY <2>1, <2>2, <2>3
<1>3. CASE /\ chanOpen /\ Len(buf) < BufSize
           /\ buf' = Append(buf, caller[c].batch)
           /\ accepted' = Append(accepted, caller[c].batch)
           /\ caller' = [caller EXCEPT ![c].st = "ok"]
  <2>1. TypeOK'
    <3>1. buf' \in Seq(Batches) /\ Len(buf') = Len(buf) + 1 /\ accepted' \in Seq(Batches)
      BY <1>1, <1>3, AppendProperties DEF TypeOK
    <3>2. Len(buf') <= BufSize
      BY <3>1, <1>3, BufSizeAssumption DEF TypeOK
    <3>3. caller' \in [Callers -> [st : CallState, batch : Batches \cup {NoBatch}]]
      BY <1>1, <1>3 DEF TypeOK, CallState
    <3> QED
      BY <3>1, <3>2, <3>3, <1>1, <1>3 DEF TypeOK, IngestSend
  <2>2. InOrderOnce'
    <3>1. /\ written \o pending \in Seq(Batches)
          /\ (written \o pending) \o Append(buf, caller[c].batch)
               = Append((written \o pending) \o buf, caller[c].batch)
      BY <1>1, ConcatProperties, AppendConcat, SMTT(30) DEF TypeOK
    <3> QED
      BY <3>1, <1>3 DEF InOrderOnce, IngestSend
  <2>3. Stages'
    BY <1>3 DEF Stages, IngestSend
  <2>4. FreshBatches'
    <3>1. Elements(accepted') = Elements(accepted) \cup {caller[c].batch}
      BY <1>1, <1>3, ElementsAppend DEF TypeOK
    <3> QED
      BY <3>1, <1>1, <1>3 DEF TypeOK, FreshBatches, IngestSend
  <2> QED
    BY <2>1, <2>2, <2>3, <2>4
<1> QED
  BY <1>2, <1>3 DEF IngestSend

(* ... each step of the worker ... *)
LEMMA WorkerPreserves ==
  ASSUME IndInv, Worker
  PROVE  IndInv'
<1> USE DEF IndInv, callerVars, workerVars, shutdownVars
<1>1. CASE Receive
  <2>1. /\ Head(buf) \in Batches
        /\ Tail(buf) \in Seq(Batches)
        /\ Append(pending, Head(buf)) \in Seq(Batches)
        /\ Append(pending, Head(buf)) \o Tail(buf) = pending \o buf
        /\ Len(Tail(buf)) = Len(buf) - 1
    BY <1>1, MoveHead, HeadTailProperties DEF Receive, TypeOK
  <2>2. TypeOK'
    <3>1. Len(buf') <= BufSize
      BY <1>1, <2>1, BufSizeAssumption DEF Receive, TypeOK
    <3> QED
      BY <1>1, <2>1, <3>1 DEF Receive, TypeOK
  <2>3. InOrderOnce'
    <3>1. /\ written \in Seq(Batches)
          /\ pending \in Seq(Batches) /\ buf \in Seq(Batches)
          /\ pending' \in Seq(Batches) /\ buf' \in Seq(Batches)
      BY <1>1, <2>1 DEF Receive, TypeOK
    <3>2. Associates(written, pending', buf') /\ Associates(written, pending, buf)
      BY ONLY <3>1, ConcatAssociates
    <3>3. /\ (written \o pending') \o buf' = written \o (pending' \o buf')
          /\ (written \o pending) \o buf = written \o (pending \o buf)
      BY <3>2 DEF Associates
    <3>4. pending' \o buf' = pending \o buf /\ written' = written /\ accepted' = accepted
      BY <1>1, <2>1 DEF Receive
    <3> QED
      BY <3>3, <3>4 DEF InOrderOnce
  <2>4. Stages' /\ FreshBatches'
    BY <1>1 DEF Receive, Stages, FreshBatches
  <2> QED
    BY <2>2, <2>3, <2>4
<1>2. CASE ReceiveClosed
  BY <1>2 DEF ReceiveClosed, TypeOK, InOrderOnce, Stages, FreshBatches, WorkerState
<1>3. CASE Tick
  BY <1>3 DEF Tick, TypeOK, InOrderOnce, Stages, FreshBatches, WorkerState
<1>4. CASE FlushOne
  <2>1. /\ Head(pending) \in Batches
        /\ Tail(pending) \in Seq(Batches)
        /\ Append(written, Head(pending)) \in Seq(Batches)
        /\ Append(written, Head(pending)) \o Tail(pending) = written \o pending
    BY <1>4, MoveHead DEF FlushOne, TypeOK
  <2>2. TypeOK'
    BY <1>4, <2>1 DEF FlushOne, TypeOK
  <2>3. InOrderOnce'
    BY <1>4, <2>1 DEF FlushOne, InOrderOnce
  <2>4. Stages' /\ FreshBatches'
    BY <1>4 DEF FlushOne, Stages, FreshBatches
  <2> QED
    BY <2>2, <2>3, <2>4
<1>5. CASE FlushEnd
  BY <1>5 DEF FlushEnd, TypeOK, InOrderOnce, Stages, FreshBatches, WorkerState
<1> QED
  BY <1>1, <1>2, <1>3, <1>4, <1>5 DEF Worker

(* ... each step of Shutdown ... *)
LEMMA ShutdownPreserves ==
  ASSUME IndInv, Shutdown
  PROVE  IndInv'
<1> USE DEF IndInv, callerVars, workerVars, MainState
<1>1. CASE ShutdownMark
  BY <1>1 DEF ShutdownMark, TypeOK, InOrderOnce, Stages, FreshBatches
<1>2. CASE ShutdownCloseBuf
  BY <1>2 DEF ShutdownCloseBuf, TypeOK, InOrderOnce, Stages, FreshBatches
<1>3. CASE ShutdownReturn
  BY <1>3 DEF ShutdownReturn, TypeOK, InOrderOnce, Stages, FreshBatches
<1> QED
  BY <1>1, <1>2, <1>3 DEF Shutdown

(* ... and a step of others. *)
LEMMA StutterPreserves ==
  ASSUME IndInv, UNCHANGED vars
  PROVE  IndInv'
BY DEF IndInv, vars, TypeOK, InOrderOnce, Stages, FreshBatches, Elements

(* The inductive invariant holds in every state. *)
THEOREM Invariance == Spec => []IndInv
<1>1. Init => IndInv
  BY InitIndInv
<1>2. IndInv /\ [Next]_vars => IndInv'
  <2> SUFFICES ASSUME IndInv, [Next]_vars PROVE IndInv'
    OBVIOUS
  <2>1. ASSUME NEW c \in Callers, NEW b \in Batches, IngestCheck(c, b) PROVE IndInv'
    BY <2>1, CheckPreserves
  <2>2. ASSUME NEW c \in Callers, IngestSend(c) PROVE IndInv'
    BY <2>2, SendPreserves
  <2>3. CASE Worker
    BY <2>3, WorkerPreserves
  <2>4. CASE Shutdown
    BY <2>4, ShutdownPreserves
  <2>5. CASE UNCHANGED vars
    BY <2>5, StutterPreserves
  <2> QED
    BY <2>1, <2>2, <2>3, <2>4, <2>5 DEF Next
<1> QED
  BY <1>1, <1>2, PTL DEF Spec

-----------------------------------------------------------------------------
(* Every state is well typed; the channel never exceeds its capacity. *)
THEOREM TypeCorrect == Spec => []TypeOK
<1>1. IndInv => TypeOK
  BY DEF IndInv
<1> QED
  BY <1>1, Invariance, PTL

(* No interleaving of callers, worker, ticker and Shutdown loses, repeats  *)
(* or reorders a batch that Ingest accepted.                               *)
THEOREM AcceptedInOrderOnce == Spec => []InOrderOnce
<1>1. IndInv => InOrderOnce
  BY DEF IndInv
<1> QED
  BY <1>1, Invariance, PTL

(* When Shutdown has returned, all that was accepted is written. *)
LEMMA ReturnedMeansDrained ==
  ASSUME IndInv, main = "returned"
  PROVE  written = accepted /\ chanOpen = FALSE
<1>1. buf = << >> /\ pending = << >> /\ chanOpen = FALSE
  BY DEF IndInv, Stages, TypeOK
<1>2. << >> \in Seq(Batches) /\ written \in Seq(Batches)
  BY DEF IndInv, TypeOK
<1>3. written \o << >> = written
  BY <1>2, ConcatEmptySeq
<1> QED
  BY <1>1, <1>3 DEF IndInv, InOrderOnce

(* When Shutdown returns, every accepted batch was handed to the store. *)
THEOREM ShutdownLosesNothing == Spec => []ShutdownDrains
<1>1. IndInv => ShutdownDrains
  BY ReturnedMeansDrained DEF ShutdownDrains
<1> QED
  BY <1>1, Invariance, PTL

(* A call of Ingest that begins after Shutdown set the flag is refused. *)
THEOREM LateCallsAreRefused == Spec => LateCallsRefused
<1> DEFINE Refused ==
      \A c \in Callers :
        main # "running" /\ caller[c].st # "checked"
          => caller'[c].st \in {caller[c].st, "closed"}
<1>1. IndInv /\ [Next]_vars => [Refused]_vars
  <2> SUFFICES ASSUME IndInv, Next PROVE Refused
    OBVIOUS
  <2> USE DEF IndInv, TypeOK, callerVars, workerVars, shutdownVars
  <2>1. ASSUME NEW c \in Callers, NEW b \in Batches, IngestCheck(c, b) PROVE Refused
    BY <2>1 DEF IngestCheck, Stages
  <2>2. ASSUME NEW c \in Callers, IngestSend(c) PROVE Refused
    <3>1. \A d \in Callers \ {c} : caller'[d] = caller[d]
      BY <2>2 DEF IngestSend
    <3> QED
      BY <2>2, <3>1 DEF IngestSend
  <2>3. CASE Worker
    BY <2>3 DEF Worker, Receive, ReceiveClosed, Tick, FlushOne, FlushEnd
  <2>4. CASE Shutdown
    BY <2>4 DEF Shutdown, ShutdownMark, ShutdownCloseBuf, ShutdownReturn
  <2> QED
    BY <2>1, <2>2, <2>3, <2>4 DEF Next
<1> QED
  BY <1>1, Invariance, PTL DEF Spec, LateCallsRefused

-----------------------------------------------------------------------------
(* The pipeline implements the safety part of DeliveryLog under the        *)
(* mapping Log: every step is a step of the log or leaves it alone.        *)
LEMMA SendMaps ==
  ASSUME IndInv, NEW c \in Callers, IngestSend(c)
  PROVE  [Log!Next]_(Log!vars)
<1> USE DEF IndInv, workerVars, shutdownVars
<1>1. caller[c].st = "checked" /\ caller[c].batch \in Batches
  BY DEF IngestSend, TypeOK, FreshBatches
<1>2. CASE UNCHANGED accepted
  BY <1>2 DEF IngestSend, Log!vars
<1>3. CASE chanOpen /\ accepted' = Append(accepted, caller[c].batch)
  <2>1. \A i \in 1 .. Len(accepted) : accepted[i] # caller[c].batch
    BY <1>1 DEF FreshBatches, Elements
  <2>2. main # "returned"
    BY <1>3 DEF Stages
  <2>3. Log!Accept(caller[c].batch)
    BY <1>3, <2>1, <2>2 DEF IngestSend, Log!Accept
  <2> QED
    BY <1>1, <2>3 DEF Log!Next
<1> QED
  BY <1>2, <1>3 DEF IngestSend

(* A step of the worker delivers one batch of the log or changes nothing of it. *)
LEMMA WorkerMaps ==
  ASSUME IndInv, Worker
  PROVE  [Log!Next]_(Log!vars)
<1> USE DEF IndInv, callerVars, workerVars, shutdownVars
<1>1. CASE FlushOne
  <2>1. /\ Head(pending) \in Batches
        /\ written \in Seq(Batches) /\ pending \in Seq(Batches) /\ buf \in Seq(Batches)
        /\ pending # << >>
    BY <1>1, HeadTailProperties DEF FlushOne, TypeOK
  <2>2. Len(written') = Len(written) + 1
    BY <1>1, <2>1, AppendProperties DEF FlushOne
  <2>3. written \o pending \in Seq(Batches) /\ Len(written \o pending) = Len(written) + Len(pending)
    BY ONLY <2>1, ConcatProperties
  <2>4. Len((written \o pending) \o buf) = Len(written \o pending) + Len(buf)
    BY ONLY <2>1, <2>3, ConcatProperties
  <2>5. Len(pending) \in Nat /\ Len(pending) > 0 /\ Len(buf) \in Nat /\ Len(written) \in Nat
    BY ONLY <2>1
  <2>6. Len(accepted) = Len(written) + Len(pending) + Len(buf)
    BY <2>3, <2>4 DEF InOrderOnce
  <2>7. Len(written) < Len(accepted)
    BY ONLY <2>5, <2>6
  <2>8. Log!Deliver
    BY <1>1, <2>2, <2>7 DEF FlushOne, Log!Deliver
  <2> QED
    BY <2>8 DEF Log!Next
<1>2. CASE Receive \/ ReceiveClosed \/ Tick \/ FlushEnd
  BY <1>2 DEF Receive, ReceiveClosed, Tick, FlushEnd, Log!vars
<1> QED
  BY <1>1, <1>2 DEF Worker

(* A step of Shutdown stops the log or changes nothing of it. *)
LEMMA ShutdownMaps ==
  ASSUME IndInv, Shutdown
  PROVE  [Log!Next]_(Log!vars)
<1> USE DEF callerVars, workerVars
<1>1. CASE ShutdownReturn
  <2>1. IndInv' /\ main' = "returned"
    BY <1>1, ShutdownPreserves DEF ShutdownReturn
  <2>2. buf = << >> /\ pending = << >> /\ written \in Seq(Batches)
    BY <1>1 DEF ShutdownReturn, IndInv, Stages, TypeOK
  <2>3. written \o << >> = written
    BY <2>2, ConcatEmptySeq
  <2>4. written = accepted
    BY <2>2, <2>3 DEF IndInv, InOrderOnce
  <2>5. Log!Stop
    BY <1>1, <2>4 DEF ShutdownReturn, Log!Stop
  <2> QED
    BY <2>5 DEF Log!Next
<1>2. CASE ShutdownMark \/ ShutdownCloseBuf
  BY <1>2 DEF ShutdownMark, ShutdownCloseBuf, Log!vars
<1> QED
  BY <1>1, <1>2 DEF Shutdown

(* Spec refines DeliveryLog's Spec: once, in order, and nothing left when  *)
(* Shutdown returns.                                                       *)
THEOREM RefinesDeliveryLog == Spec => Log!Spec
<1>1. Init => Log!Init
  BY DEF Init, Log!Init
<1>2. IndInv /\ [Next]_vars => [Log!Next]_(Log!vars)
  <2> SUFFICES ASSUME IndInv, [Next]_vars PROVE [Log!Next]_(Log!vars)
    OBVIOUS
  <2>1. ASSUME NEW c \in Callers, NEW b \in Batches, IngestCheck(c, b)
        PROVE  [Log!Next]_(Log!vars)
    BY <2>1 DEF IngestCheck, workerVars, shutdownVars, Log!vars
  <2>2. ASSUME NEW c \in Callers, IngestSend(c) PROVE [Log!Next]_(Log!vars)
    BY <2>2, SendMaps
  <2>3. CASE Worker
    BY <2>3, WorkerMaps
  <2>4. CASE Shutdown
    BY <2>4, ShutdownMaps
  <2>5. CASE UNCHANGED vars
    BY <2>5 DEF vars, Log!vars
  <2> QED
    BY <2>1, <2>2, <2>3, <2>4, <2>5 DEF Next
<1> QED
  BY <1>1, <1>2, Invariance, PTL DEF Spec, Log!Spec
=============================================================================
