------------------------- MODULE AwsPipelineProofs --------------------------
(***************************************************************************)
(* Safety of AwsPipeline for every number of jobs, processes and workers,  *)
(* every fault model and every set of disturbances.                        *)
(***************************************************************************)
EXTENDS AwsPipeline, PoolProofs

(* The inductive invariant: what each actor knows about the job it is at. *)

Busy == Executing \cup Settling

\* A record that a worker has claimed, or that was marked failed.
Touched(j) == jobs[j].status \in {"processing", "done", "failed"}

\* What the requests have done so far: the record and the message of a job
\* appear in that order, and only by its own request.
RequestInv ==
    \A j \in Jobs :
        /\ req[j] \in {"new", "store", "save"} => jobs[j].status = "absent"
        /\ req[j] \in {"new", "store", "save", "enqueue"} => msg[j] = "none"
        /\ req[j] = "save" => OriginalKey(j) \in objects
        /\ req[j] \in {"enqueue", "mark"} =>
              jobs[j].status # "absent" /\ OriginalKey(j) \in objects
        /\ req[j] = "accepted" => msg[j] # "none"

\* A delivery comes from a message, all the way to the worker.
DeliveryInv ==
    /\ \A p \in Procs : \A j \in batch[p] : msg[j] # "none"
    /\ \A w \in Workers : pc[w] \in Busy => cur[w] \in Jobs /\ msg[cur[w]] # "none"

\* Past the claim, and before an acknowledgement, the job is no longer pending;
\* before it is marked done its result is stored.
WorkerInv ==
    \A w \in Workers :
        /\ pc[w] \in {"transform", "store", "finish", "fail", "ack"} => Touched(cur[w])
        /\ pc[w] = "finish" => ResultKey(cur[w]) \in objects

\* Only the message of a job that is no longer pending is deleted.
DeletedInv == \A j \in Jobs : msg[j] = "deleted" => Touched(j)

\* A published result is stored, and belongs to a job that exists.
PublishedInv ==
    /\ ResultIsStored
    /\ \A j \in Jobs : jobs[j].status = "absent" => jobs[j].resultKey = "unset"

Inv ==
    /\ TypeOK
    /\ RequestInv
    /\ DeliveryInv
    /\ WorkerInv
    /\ DeletedInv
    /\ MessageHasInput
    /\ PublishedInv
    /\ ErrorIsFailure

-----------------------------------------------------------------------------
(* Type correctness *)

\* The system starts well typed.
LEMMA InitType == Init => TypeOK
  <1> SUFFICES ASSUME Init PROVE TypeOK
    OBVIOUS
  <1>1. QueueTypeOK
    BY QueueAssumption
    DEF Init, QueueInit, QueueTypeOK, MsgStates, ConsumerStates
  <1> QED
    BY <1>1, InitParts DEF Init, TypeOK

\* A group of variables that a step leaves alone keeps its type.
LEMMA UnchangedType ==
    /\ StoreTypeOK /\ UNCHANGED storeVars => StoreTypeOK'
    /\ CreateTypeOK /\ UNCHANGED createVars => CreateTypeOK'
    /\ PoolTypeOK /\ UNCHANGED poolVars => PoolTypeOK'
    /\ QueueTypeOK /\ UNCHANGED queueVars => QueueTypeOK'
  BY UnchangedParts DEF QueueTypeOK, queueVars, brokerVars, adapterVars

\* The receive loop of the SQS adapter keeps the types.
LEMMA QueueStepType ==
    ASSUME TypeOK, NEW p \in Procs, Consume(p)
    PROVE  TypeOK'
  <1> USE DEF TypeOK
  <1>1. StoreTypeOK' /\ CreateTypeOK' /\ PoolTypeOK'
    BY UnchangedType DEF Consume
  <1>2. ASSUME NEW S \in SUBSET Receivable, HandOut(S)
        PROVE  msg' \in [Jobs -> MsgStates] /\ receives' \in [Jobs -> 0..MaxReceive]
    BY <1>2, QueueAssumption DEF HandOut, Receivable, QueueTypeOK, MsgStates
  <1>3. CASE Receive(p)
    <2>1. PICK S \in SUBSET Receivable :
             /\ HandOut(S)
             /\ receipts' = [receipts EXCEPT ![p] =
                   [j \in Jobs |-> IF j \in S THEN receives[j] + 1 ELSE receipts[p][j]]]
             /\ batch' = [batch EXCEPT ![p] = S]
      BY <1>3 DEF Receive
    <2>2. [j \in Jobs |-> IF j \in S THEN receives[j] + 1 ELSE receipts[p][j]]
            \in [Jobs -> 0..MaxReceive]
      BY QueueAssumption DEF QueueTypeOK, Receivable
    <2>3. receipts' \in [Procs -> [Jobs -> 0..MaxReceive]]
      BY <2>1, <2>2 DEF QueueTypeOK
    <2>4. batch' \in [Procs -> SUBSET Jobs]
      BY <2>1 DEF QueueTypeOK, Receivable
    <2> QED
      BY <1>1, <1>2, <1>3, <2>1, <2>3, <2>4 DEF Receive, QueueTypeOK
  <1>4. CASE ReceiveFailed(p)
    BY <1>1, <1>2, <1>4 DEF ReceiveFailed, QueueTypeOK, ConsumerStates
  <1>5. CASE BackoffOver(p)
    BY <1>1, <1>5 DEF BackoffOver, QueueTypeOK, ConsumerStates, brokerVars
  <1>6. CASE CloseConsumer(p)
    BY <1>1, <1>2, <1>6 DEF CloseConsumer, QueueTypeOK, ConsumerStates
  <1> QED
    BY <1>3, <1>4, <1>5, <1>6 DEF Consume

\* Forgetting a receipt keeps the types of the adapter.
LEMMA TakeReceiptType ==
    ASSUME QueueTypeOK, NEW p \in Procs, NEW j \in Jobs, TakeReceipt(p, j)
    PROVE  receipts' \in [Procs -> [Jobs -> 0..MaxReceive]]
  <1> DEFINE held == [receipts[p] EXCEPT ![j] = 0]
  <1>1. held \in [Jobs -> 0..MaxReceive]
    BY QueueAssumption DEF QueueTypeOK
  <1>2. receipts' = [receipts EXCEPT ![p] = held]
    BY DEF TakeReceipt
  <1> QED
    BY <1>1, <1>2 DEF QueueTypeOK

\* Acknowledging or returning a delivery keeps the types.
LEMMA SettleType ==
    ASSUME TypeOK, NEW w \in Workers, cur[w] \in Jobs, SettleDelivery(w)
    PROVE  TypeOK'
  <1> USE DEF TypeOK
  <1>1. Proc(w) \in Procs
    BY ProcOfWorker
  <1>2. StoreTypeOK' /\ CreateTypeOK'
    BY UnchangedType DEF SettleDelivery, Settled
  <1>3. PoolTypeOK'
    BY DEF SettleDelivery, Settled, PoolTypeOK, PcStates
  <1>4. Ack(Proc(w), cur[w]) \/ Nack(Proc(w), cur[w])
    BY DEF SettleDelivery
  <1>5. TakeReceipt(Proc(w), cur[w])
    BY <1>4 DEF Ack, Nack
  <1>6. receipts' \in [Procs -> [Jobs -> 0..MaxReceive]]
    BY <1>1, <1>5, TakeReceiptType
  <1>7. msg' \in [Jobs -> MsgStates]
    BY <1>4 DEF Ack, Nack, QueueTypeOK, MsgStates
  <1> QED
    BY <1>2, <1>3, <1>5, <1>6, <1>7 DEF QueueTypeOK, TakeReceipt

\* The adapter of a process that ends is well typed.
LEMMA GoneType ==
    ASSUME QueueTypeOK, NEW p \in Procs, AdapterGone(p) \/ AdapterOpened(p)
    PROVE  QueueTypeOK'
  <1>1. [j \in Jobs |-> 0] \in [Jobs -> 0..MaxReceive]
    BY QueueAssumption
  <1>2. CASE AdapterGone(p)
    BY <1>1, <1>2 DEF AdapterGone, QueueTypeOK, ConsumerStates, brokerVars
  <1>3. CASE AdapterOpened(p)
    BY <1>3 DEF AdapterOpened, QueueTypeOK, ConsumerStates, brokerVars
  <1> QED
    BY <1>2, <1>3

\* The remaining steps; a worker that executes or settles has a job.
LEMMA StepType ==
    ASSUME TypeOK, DeliveryInv, [Next]_vars
    PROVE  TypeOK'
  <1> USE DEF TypeOK
  <1>1. ASSUME NEW j \in Jobs, ApiStep(j)
        PROVE  TypeOK'
    <2>1. CASE CreateStep(j) /\ UNCHANGED <<poolVars, queueVars>>
      BY <2>1, CreateCallType, UnchangedType DEF CreateStep, StoreOriginal
    <2>2. CASE Enqueue(j)
      <3>1. StoreTypeOK' /\ CreateTypeOK'
        BY <2>2, UnchangedType
        DEF Enqueue, EnqueueAccepted, EnqueueRefused, To, CreateTypeOK, ReqStates, Active
      <3>2. PoolTypeOK'
        BY <2>2, UnchangedType DEF Enqueue
      <3>3. QueueTypeOK'
        BY <2>2 DEF Enqueue, Send, QueueTypeOK, MsgStates, adapterVars
      <3> QED
        BY <3>1, <3>2, <3>3
    <2> QED
      BY <1>1, <2>1, <2>2 DEF ApiStep
  <1>2. ASSUME NEW w \in Workers, NEW j \in Jobs, TakeDelivery(w, j)
        PROVE  TypeOK'
    <2>1. StoreTypeOK' /\ CreateTypeOK'
      BY <1>2, UnchangedType DEF TakeDelivery, Take
    <2>2. PoolTypeOK'
      BY <1>2 DEF TakeDelivery, Take, PoolTypeOK, PcStates, Executing
    <2>3. QueueTypeOK'
      BY <1>2, ProcOfWorker DEF TakeDelivery, HandOver, QueueTypeOK, brokerVars
    <2> QED
      BY <2>1, <2>2, <2>3
  <1>3. ASSUME NEW w \in Workers, ExecuteStep(w)
        PROVE  TypeOK'
    <2>1. cur[w] \in Jobs
      BY <1>3
      DEF DeliveryInv, Busy, Executing, ExecuteStep, Execute, Load, Claim, Transform,
          StoreResult, ResultStored, MarkDone, Fail
    <2> QED
      BY <1>3, <2>1, ExecuteCallType, UnchangedType DEF ExecuteStep, Execute, StoreResult
  <1>4. ASSUME NEW w \in Workers, SettleDelivery(w)
        PROVE  TypeOK'
    <2>1. cur[w] \in Jobs
      BY <1>4 DEF DeliveryInv, Busy, SettleDelivery, Settled
    <2> QED
      BY <1>4, <2>1, SettleType
  <1>5. ASSUME NEW w \in Workers, ExitWorker(w)
        PROVE  TypeOK'
    BY <1>5, UnchangedType DEF ExitWorker, Exit, Goto, PoolTypeOK, PcStates
  <1>6. ASSUME NEW p \in Procs, AbandonJobs(p)
        PROVE  TypeOK'
    BY <1>6, UnchangedType DEF AbandonJobs, ShutdownTimeout, PoolTypeOK, Phases
  <1>7. ASSUME NEW p \in Procs, ReturnFromRun(p)
        PROVE  TypeOK'
    <2>1. PoolTypeOK' /\ StoreTypeOK' /\ CreateTypeOK'
      BY <1>7, UnchangedType DEF ReturnFromRun, Return, PoolTypeOK, Phases
    <2> QED
      BY <1>7, <2>1, GoneType DEF ReturnFromRun
  <1>8. CASE DeadLetter
    BY <1>8, UnchangedType
    DEF DeadLetter, Redrive, QueueTypeOK, MsgStates, adapterVars
  <1>9. CASE Disturb
    <2>1. ASSUME NEW j \in Jobs, HangUp(j), UNCHANGED <<poolVars, queueVars>>
          PROVE  TypeOK'
      BY <2>1, UnchangedType DEF HangUp, CreateTypeOK
    <2>2. ASSUME ApiCrash, UNCHANGED <<poolVars, queueVars>>
          PROVE  TypeOK'
      BY <2>2, UnchangedType DEF ApiCrash, CreateTypeOK, ReqStates
    <2>3. ASSUME NEW w \in Workers, TimeOut(w)
          PROVE  TypeOK'
      BY <2>3, UnchangedType DEF TimeOut, JobTimeout, PoolTypeOK
    <2>4. ASSUME NEW j \in Jobs, VisibilityTimeout(j),
                 UNCHANGED <<storeVars, createVars, poolVars>>
          PROVE  TypeOK'
      BY <2>4, UnchangedType
      DEF VisibilityTimeout, QueueTypeOK, MsgStates, adapterVars
    <2>5. ASSUME NEW p \in Procs, Cancel(p), UNCHANGED <<createVars, queueVars>>
          PROVE  TypeOK'
      BY <2>5, UnchangedType DEF Cancel, PoolTypeOK, Phases
    <2>6. ASSUME NEW p \in Procs, Crash(p), AdapterGone(p), UNCHANGED createVars
          PROVE  TypeOK'
      <3>1. PoolTypeOK'
        BY <2>6 DEF Crash, PoolTypeOK, Phases, PcStates
      <3> QED
        BY <2>6, <3>1, GoneType, UnchangedType DEF Crash
    <2>7. ASSUME NEW p \in Procs, Restart(p), AdapterOpened(p), UNCHANGED createVars
          PROVE  TypeOK'
      <3>1. NoStats \in Stats
        BY DEF NoStats, Stats
      <3>2. PoolTypeOK'
        BY <2>7, <3>1 DEF Restart, PoolTypeOK, Phases, PcStates
      <3> QED
        BY <2>7, <3>2, GoneType, UnchangedType DEF Restart
    <2> QED
      BY <1>9, <2>1, <2>2, <2>3, <2>4, <2>5, <2>6, <2>7 DEF Disturb
  <1>10. CASE UNCHANGED vars
    BY <1>10, UnchangedType DEF vars
  <1> QED
    BY <1>1, <1>2, <1>3, <1>4, <1>5, <1>6, <1>7, <1>8, <1>9, <1>10, QueueStepType
    DEF Next

-----------------------------------------------------------------------------
(* What the writes to the stores preserve *)

\* It creates no record, makes none pending, keeps error and status in step,
\* and publishes only a result that is stored.
LEMMA UpdateStatusKeeps ==
    ASSUME StoreTypeOK, ErrorIsFailure, PublishedInv,
           NEW j \in Jobs, NEW s \in {"processing", "done", "failed"},
           NEW key \in {"unset", "set"}, NEW err \in {"unset", "set"}, NEW o,
           UpdateStatus(j, s, key, err, o),
           err = "set" <=> s = "failed",
           key = "set" => ResultKey(j) \in objects,
           s = "done" => key = "set",
           UNCHANGED objects
    PROVE  /\ \A k \in Jobs : jobs'[k].status = "absent" <=> jobs[k].status = "absent"
           /\ \A k \in Jobs : Touched(k) => Touched(k)'
           /\ o # "error" /\ jobs[j].status # "absent" => Touched(j)'
           /\ ErrorIsFailure'
           /\ PublishedInv'
  BY UpdateStatusEffect DEF ErrorIsFailure, PublishedInv, ResultIsStored, Touched

\* A step that leaves the records alone and removes no object.
LEMMA RecordsUntouched ==
    ASSUME ErrorIsFailure, PublishedInv, UNCHANGED jobs, objects \subseteq objects'
    PROVE  /\ ErrorIsFailure'
           /\ PublishedInv'
           /\ \A k : Touched(k) => Touched(k)'
  BY DEF ErrorIsFailure, PublishedInv, ResultIsStored, Touched

\* The request's Save creates the record of a job that has none.
LEMMA SaveKeeps ==
    ASSUME StoreTypeOK, ErrorIsFailure, PublishedInv,
           NEW j \in Jobs, NEW o, Save(j, NewJob, o), jobs[j].status = "absent",
           UNCHANGED objects
    PROVE  /\ \A k \in Jobs \ {j} : jobs'[k] = jobs[k]
           /\ o # "error" => jobs'[j].status = "pending"
           /\ \A k \in Jobs : jobs[k].status # "absent" => jobs'[k].status # "absent"
           /\ \A k \in Jobs : Touched(k) => Touched(k)'
           /\ ErrorIsFailure'
           /\ PublishedInv'
  BY DEF Save, NewJob, StoreTypeOK, ErrorIsFailure, PublishedInv, ResultIsStored, Touched

-----------------------------------------------------------------------------
(* The invariant holds initially, and every step preserves it *)

\* The inductive invariant holds when the system starts.
LEMMA InitInv == Init => Inv
  <1> SUFFICES ASSUME Init PROVE Inv
    OBVIOUS
  <1>1. TypeOK
    BY InitType
  <1>2. RequestInv /\ DeletedInv /\ MessageHasInput /\ PublishedInv /\ ErrorIsFailure
    BY DEF Init, StoreInit, CreateInit, QueueInit, NoJob, RequestInv, DeletedInv,
           MessageHasInput, PublishedInv, ResultIsStored, ErrorIsFailure
  <1>3. DeliveryInv /\ WorkerInv
    BY DEF Init, PoolInit, QueueInit, DeliveryInv, WorkerInv, Busy, Executing, Settling
  <1> QED
    BY <1>1, <1>2, <1>3 DEF Inv

\* The part of the invariant that the type lemmas do not cover.
Safety ==
    /\ RequestInv /\ DeliveryInv /\ WorkerInv /\ DeletedInv
    /\ MessageHasInput /\ PublishedInv /\ ErrorIsFailure

\* A step of the API keeps the invariant: record, original and message appear in
\* the order in which CreateJob makes its calls.
LEMMA ApiStepSafety ==
    ASSUME Inv, NEW j \in Jobs, ApiStep(j)
    PROVE  Safety'
  <1> USE DEF Inv, TypeOK
  <1>1. CASE Begin(j) /\ UNCHANGED <<poolVars, queueVars>>
    BY <1>1
    DEF Begin, To, Safety, RequestInv, DeliveryInv, WorkerInv, DeletedInv,
        MessageHasInput, PublishedInv, ResultIsStored, ErrorIsFailure, Touched, storeVars, poolVars,
        queueVars, brokerVars, adapterVars, CreateTypeOK
  <1>2. CASE StoreOriginal(j) /\ UNCHANGED <<poolVars, queueVars>>
    <2>1. objects \subseteq objects'
      BY <1>2 DEF StoreOriginal, OriginalStored, Put
    <2>2. req'[j] = "save" => OriginalKey(j) \in objects'
      BY <1>2 DEF StoreOriginal, OriginalStored, Put, To, CreateTypeOK
    <2> QED
      BY <1>2, <2>1, <2>2
      DEF StoreOriginal, OriginalStored, To, Safety, RequestInv, DeliveryInv, WorkerInv, DeletedInv,
          MessageHasInput, PublishedInv, ResultIsStored, ErrorIsFailure, Touched, poolVars,
          queueVars, brokerVars, adapterVars, CreateTypeOK
  <1>3. CASE SaveJob(j) /\ UNCHANGED <<poolVars, queueVars>>
    <2>1. PICK o : Save(j, NewJob, o) /\ To(j, IF o = "ok" THEN "enqueue" ELSE "failed")
      BY <1>3 DEF SaveJob
    <2>2. req[j] = "save" /\ jobs[j].status = "absent" /\ msg[j] = "none"
             /\ OriginalKey(j) \in objects
      BY <1>3 DEF SaveJob, RequestInv
    <2>3. UNCHANGED <<objects, msg, batch, pc, cur>>
      BY <1>3 DEF SaveJob, poolVars, queueVars, brokerVars, adapterVars
    <2>4. /\ \A k \in Jobs \ {j} : jobs'[k] = jobs[k]
          /\ o # "error" => jobs'[j].status = "pending"
          /\ \A k \in Jobs : jobs[k].status # "absent" => jobs'[k].status # "absent"
          /\ \A k \in Jobs : Touched(k) => Touched(k)'
          /\ ErrorIsFailure' /\ PublishedInv'
      BY <2>1, <2>2, <2>3, SaveKeeps
    <2>5. RequestInv'
      BY <2>1, <2>2, <2>3, <2>4 DEF RequestInv, To, CreateTypeOK
    <2>6. DeliveryInv' /\ WorkerInv' /\ DeletedInv' /\ MessageHasInput'
      BY <2>2, <2>3, <2>4
      DEF DeliveryInv, WorkerInv, DeletedInv, MessageHasInput, Busy, Executing, Settling
    <2> QED
      BY <2>4, <2>5, <2>6 DEF Safety
  <1>4. CASE MarkFailed(j) /\ UNCHANGED <<poolVars, queueVars>>
    <2>1. PICK o : UpdateStatus(j, "failed", "unset", "set", o)
      BY <1>4 DEF MarkFailed
    <2>2. UNCHANGED <<objects, msg, batch, pc, cur>>
      BY <1>4 DEF MarkFailed, poolVars, queueVars, brokerVars, adapterVars
    <2>3. /\ \A k \in Jobs : jobs'[k].status = "absent" <=> jobs[k].status = "absent"
          /\ \A k \in Jobs : Touched(k) => Touched(k)'
          /\ ErrorIsFailure' /\ PublishedInv'
      BY <2>1, <2>2, UpdateStatusKeeps
    <2>4. RequestInv'
      BY <1>4, <2>2, <2>3 DEF MarkFailed, RequestInv, To, CreateTypeOK
    <2>5. DeliveryInv' /\ WorkerInv' /\ DeletedInv' /\ MessageHasInput'
      BY <2>2, <2>3
      DEF DeliveryInv, WorkerInv, DeletedInv, MessageHasInput, Busy, Executing, Settling
    <2> QED
      BY <2>3, <2>4, <2>5 DEF Safety
  <1>5. CASE Enqueue(j)
    <2>1. req[j] = "enqueue" /\ msg[j] = "none"
      BY <1>5 DEF Enqueue, EnqueueAccepted, EnqueueRefused, RequestInv
    <2>2. UNCHANGED <<jobs, objects, batch, pc, cur>>
      BY <1>5
      DEF Enqueue, EnqueueAccepted, EnqueueRefused, Send, storeVars, poolVars, adapterVars
    <2>3. \/ msg' = [msg EXCEPT ![j] = "visible"] /\ req' = [req EXCEPT ![j] = "accepted"]
          \/ /\ msg' = msg \/ msg' = [msg EXCEPT ![j] = "visible"]
             /\ req' = [req EXCEPT ![j] = "mark"]
      BY <1>5 DEF Enqueue, EnqueueAccepted, EnqueueRefused, Send, To
    <2> QED
      BY <2>1, <2>2, <2>3
      DEF Safety, RequestInv, DeliveryInv, WorkerInv, DeletedInv, MessageHasInput,
          PublishedInv, ResultIsStored, ErrorIsFailure, Touched, CreateTypeOK, QueueTypeOK
  <1> QED
    BY <1>1, <1>2, <1>3, <1>4, <1>5 DEF ApiStep, CreateStep

\* A worker's call moves it along without touching the queue.  What the call
\* establishes for the worker's next one is the only thing to show.
LEMMA WorkerMoves ==
    ASSUME Inv, NEW w \in Workers, cur[w] \in Jobs, pc[w] \in Executing,
           UNCHANGED <<createVars, queueVars, cur>>,
           NEW step \in PcStates, pc' = [pc EXCEPT ![w] = step],
           objects \subseteq objects',
           \A k \in Jobs : jobs'[k].status = "absent" <=> jobs[k].status = "absent",
           \A k \in Jobs : Touched(k) => Touched(k)',
           ErrorIsFailure', PublishedInv',
           step \in {"transform", "store", "finish", "fail", "ack"} => Touched(cur[w])',
           step = "finish" => ResultKey(cur[w]) \in objects'
    PROVE  Safety'
  <1> USE DEF Inv, TypeOK
  <1>1. UNCHANGED <<req, msg, batch>>
    BY DEF createVars, queueVars, brokerVars, adapterVars
  <1>2. RequestInv'
    BY <1>1 DEF RequestInv
  <1>3. DeliveryInv'
    BY <1>1 DEF DeliveryInv, Busy, PoolTypeOK
  <1>4. WorkerInv'
    <2> SUFFICES ASSUME NEW v \in Workers
                 PROVE  /\ pc'[v] \in {"transform", "store", "finish", "fail", "ack"}
                              => Touched(cur[v])'
                        /\ pc'[v] = "finish" => ResultKey(cur[v]) \in objects'
      BY DEF WorkerInv
    <2>1. CASE v = w
      BY <2>1 DEF PoolTypeOK
    <2>2. CASE v # w
      BY <2>2
      DEF PoolTypeOK, WorkerInv, DeliveryInv, Busy, Executing, Settling
    <2> QED
      BY <2>1, <2>2
  <1>5. DeletedInv' /\ MessageHasInput'
    BY <1>1 DEF DeletedInv, MessageHasInput
  <1> QED
    BY <1>2, <1>3, <1>4, <1>5 DEF Safety

\* A call of ProcessJob keeps the invariant: a worker acts on what its earlier
\* calls left in the stores, whatever a second worker wrote in between.
LEMMA ExecuteSafety ==
    ASSUME Inv, NEW w \in Workers, ExecuteStep(w)
    PROVE  Safety'
  <1> USE DEF Inv, TypeOK
  <1>1. pc[w] \in Executing
    BY DEF ExecuteStep, Execute, Load, Claim, Transform, StoreResult, ResultStored, MarkDone, Fail,
           Executing
  <1>2. cur[w] \in Jobs /\ msg[cur[w]] # "none" /\ jobs[cur[w]].status # "absent"
    BY <1>1 DEF DeliveryInv, Busy, MessageHasInput
  <1>3. UNCHANGED <<createVars, queueVars, cur>>
    BY DEF ExecuteStep, Execute, Load, Claim, Transform, StoreResult, ResultStored, MarkDone, Fail
  <1>4. CASE Load(w)
    <2>1. UNCHANGED <<jobs, objects>>
      BY <1>4 DEF Load, storeVars
    <2>2. \E step \in {"nack", "ack", "claim"} :
             /\ pc' = [pc EXCEPT ![w] = step]
             /\ step = "ack" => Touched(cur[w])
      BY <1>2, <1>4 DEF Load, Conclude, Goto, RepoOk, Touched, StoreTypeOK, JobRecord, Status
    <2> QED
      BY <1>1, <1>2, <1>3, <2>1, <2>2, RecordsUntouched, WorkerMoves
      DEF PcStates, Executing, Settling
  <1>5. CASE Claim(w)
    <2>1. PICK o : /\ UpdateStatus(cur[w], "processing", "unset", "unset", o)
                   /\ IF RepoOk(cur[w], o) THEN Goto(w, "transform")
                                           ELSE Conclude(w, "failed")
      BY <1>5 DEF Claim
    <2>2. UNCHANGED objects
      BY <1>5 DEF Claim
    <2>3. /\ \A k \in Jobs : jobs'[k].status = "absent" <=> jobs[k].status = "absent"
          /\ \A k \in Jobs : Touched(k) => Touched(k)'
          /\ o # "error" => Touched(cur[w])'
          /\ ErrorIsFailure' /\ PublishedInv'
      BY <1>2, <1>3, <2>1, <2>2, UpdateStatusKeeps DEF Touched
    <2>4. \E step \in {"transform", "nack"} :
             /\ pc' = [pc EXCEPT ![w] = step]
             /\ step = "transform" => Touched(cur[w])'
      BY <2>1, <2>3 DEF Conclude, Goto, RepoOk
    <2> QED
      BY <1>1, <1>2, <1>3, <2>2, <2>3, <2>4, WorkerMoves DEF PcStates, Executing, Settling
  <1>6. CASE Transform(w)
    <2>1. UNCHANGED <<jobs, objects>>
      BY <1>6 DEF Transform, storeVars
    <2>2. \E step \in {"store", "fail"} : pc' = [pc EXCEPT ![w] = step]
      BY <1>6 DEF Transform, Goto
    <2>3. Touched(cur[w])
      BY <1>6 DEF Transform, WorkerInv
    <2> QED
      BY <1>1, <1>2, <1>3, <2>1, <2>2, <2>3, RecordsUntouched, WorkerMoves
      DEF PcStates, Executing
  <1>7. CASE StoreResult(w)
    <2>1. UNCHANGED jobs /\ objects \subseteq objects'
      BY <1>7 DEF StoreResult, ResultStored, Put
    <2>2. \E step \in {"finish", "fail"} :
             /\ pc' = [pc EXCEPT ![w] = step]
             /\ step = "finish" => ResultKey(cur[w]) \in objects'
      BY <1>7 DEF StoreResult, ResultStored, Goto, Put
    <2>3. Touched(cur[w])
      BY <1>7 DEF StoreResult, ResultStored, WorkerInv
    <2> QED
      BY <1>1, <1>2, <1>3, <2>1, <2>2, <2>3, RecordsUntouched, WorkerMoves
      DEF PcStates, Executing
  <1>8. CASE MarkDone(w)
    <2>1. PICK o : /\ UpdateStatus(cur[w], "done", "set", "unset", o)
                   /\ Conclude(w, IF RepoOk(cur[w], o) THEN "processed" ELSE "failed")
      BY <1>8 DEF MarkDone
    <2>2. UNCHANGED objects
      BY <1>8 DEF MarkDone
    <2>3. ResultKey(cur[w]) \in objects /\ Touched(cur[w])
      BY <1>8 DEF MarkDone, WorkerInv
    <2>4. /\ \A k \in Jobs : jobs'[k].status = "absent" <=> jobs[k].status = "absent"
          /\ \A k \in Jobs : Touched(k) => Touched(k)'
          /\ ErrorIsFailure' /\ PublishedInv'
      BY <1>2, <2>1, <2>2, <2>3, UpdateStatusKeeps
    <2>5. \E step \in {"ack", "nack"} : pc' = [pc EXCEPT ![w] = step]
      BY <2>1 DEF Conclude, Goto
    <2>6. Touched(cur[w])'
      BY <1>2, <1>3, <2>3, <2>4 DEF Touched
    <2> QED
      BY <1>1, <1>2, <1>3, <2>2, <2>4, <2>5, <2>6, WorkerMoves DEF PcStates, Settling
  <1>9. CASE Fail(w)
    <2>1. PICK o : UpdateStatus(cur[w], "failed", "unset", "set", o)
      BY <1>9 DEF Fail
    <2>2. UNCHANGED objects /\ pc' = [pc EXCEPT ![w] = "nack"]
      BY <1>9 DEF Fail, Conclude, Goto
    <2>3. /\ \A k \in Jobs : jobs'[k].status = "absent" <=> jobs[k].status = "absent"
          /\ \A k \in Jobs : Touched(k) => Touched(k)'
          /\ ErrorIsFailure' /\ PublishedInv'
      BY <1>2, <2>1, <2>2, UpdateStatusKeeps
    <2> QED
      BY <1>1, <1>2, <1>3, <2>2, <2>3, WorkerMoves DEF PcStates, Settling
  <1> QED
    BY <1>4, <1>5, <1>6, <1>7, <1>8, <1>9 DEF ExecuteStep, Execute

\* A step that leaves records, objects and requests alone, loses no message,
\* and deletes none, moves only workers that stop or start.
LEMMA QueueMoves ==
    ASSUME Inv, UNCHANGED <<storeVars, createVars>>,
           \A j \in Jobs : msg[j] = "none" <=> msg'[j] = "none",
           \A j \in Jobs : msg'[j] = "deleted" => msg[j] = "deleted" \/ Touched(j),
           \A p \in Procs : \A j \in batch'[p] : j \in Jobs /\ msg[j] # "none",
           \A w \in Workers :
              \/ pc'[w] = pc[w] /\ cur'[w] = cur[w]
              \/ pc'[w] \in {"idle", "exited"}
              \/ pc'[w] = "load" /\ cur'[w] \in Jobs /\ msg[cur'[w]] # "none"
    PROVE  Safety'
  <1> USE DEF Inv, storeVars, createVars
  <1>1. RequestInv'
    BY DEF RequestInv
  <1>2. DeliveryInv'
    BY DEF DeliveryInv, Busy, Executing, Settling
  <1>3. WorkerInv'
    BY DEF WorkerInv, Touched
  <1>4. DeletedInv' /\ MessageHasInput' /\ PublishedInv' /\ ErrorIsFailure'
    BY DEF DeletedInv, MessageHasInput, PublishedInv, ResultIsStored, ErrorIsFailure, Touched
  <1> QED
    BY <1>1, <1>2, <1>3, <1>4 DEF Safety

\* Receiving keeps the invariant: what reaches a worker is a message.
LEMMA ConsumeSafety ==
    ASSUME Inv, NEW p \in Procs, Consume(p)
    PROVE  Safety'
  <1> USE DEF Inv, TypeOK
  <1>1. UNCHANGED <<storeVars, createVars, pc, cur>>
    BY DEF Consume, poolVars
  <1>2. UNCHANGED <<msg, receives>> \/ \E S \in SUBSET Receivable : HandOut(S)
    BY DEF Consume, Receive, ReceiveFailed, BackoffOver, CloseConsumer, brokerVars
  <1>3. /\ \A j \in Jobs : msg[j] = "none" <=> msg'[j] = "none"
        /\ \A j \in Jobs : msg'[j] = "deleted" => msg[j] = "deleted"
    BY <1>2 DEF HandOut, Receivable
  <1>4. \/ UNCHANGED batch
        \/ \E S \in SUBSET Receivable : batch' = [batch EXCEPT ![p] = S]
    BY DEF Consume, Receive, ReceiveFailed, BackoffOver, CloseConsumer
  <1>5. \A q \in Procs : \A j \in batch'[q] : j \in Jobs /\ msg[j] # "none"
    BY <1>4 DEF DeliveryInv, Receivable, QueueTypeOK
  <1> QED
    BY <1>1, <1>3, <1>5, QueueMoves

\* Settling keeps the invariant: only the message of a touched job is deleted.
LEMMA SettleSafety ==
    ASSUME Inv, NEW w \in Workers, SettleDelivery(w)
    PROVE  Safety'
  <1> USE DEF Inv, TypeOK
  <1>1. cur[w] \in Jobs /\ (pc[w] = "ack" => Touched(cur[w]))
    BY DEF SettleDelivery, Settled, DeliveryInv, WorkerInv, Busy
  <1>2. UNCHANGED <<storeVars, createVars, batch>>
    BY DEF SettleDelivery, Settled, Ack, Nack, TakeReceipt
  <1>3. /\ \A j \in Jobs : msg[j] = "none" <=> msg'[j] = "none"
        /\ \A j \in Jobs : msg'[j] = "deleted" => msg[j] = "deleted" \/ Touched(j)
    BY <1>1 DEF SettleDelivery, Ack, Nack, QueueTypeOK
  <1>4. \A v \in Workers : \/ pc'[v] = pc[v] /\ cur'[v] = cur[v]
                           \/ pc'[v] = "idle"
    BY DEF SettleDelivery, Settled, PoolTypeOK
  <1>5. \A p \in Procs : \A j \in batch'[p] : j \in Jobs /\ msg[j] # "none"
    BY <1>2 DEF DeliveryInv, QueueTypeOK
  <1> QED
    BY <1>2, <1>3, <1>4, <1>5, QueueMoves

\* Taking a delivery keeps the invariant.
LEMMA TakeSafety ==
    ASSUME Inv, NEW w \in Workers, NEW j \in Jobs, TakeDelivery(w, j)
    PROVE  Safety'
  <1> USE DEF Inv, TypeOK
  <1>1. UNCHANGED <<storeVars, createVars, msg>>
    BY DEF TakeDelivery, Take, HandOver, brokerVars
  <1>2. Proc(w) \in Procs /\ j \in batch[Proc(w)]
    BY ProcOfWorker DEF TakeDelivery, HandOver
  <1>3. \A v \in Workers : \/ pc'[v] = pc[v] /\ cur'[v] = cur[v]
                           \/ pc'[v] = "load" /\ cur'[v] = j
    BY DEF TakeDelivery, Take, PoolTypeOK
  <1>4. \A p \in Procs : batch'[p] \subseteq batch[p]
    BY <1>2 DEF TakeDelivery, HandOver, QueueTypeOK
  <1>5. msg[j] # "none"
    BY <1>2 DEF DeliveryInv
  <1>6. \A p \in Procs : \A k \in batch'[p] : k \in Jobs /\ msg[k] # "none"
    BY <1>4 DEF DeliveryInv, QueueTypeOK
  <1> QED
    BY <1>1, <1>3, <1>5, <1>6, QueueMoves

\* Signals, timers, crashes, restarts, and the broker's own moves.
LEMMA OtherSafety ==
    ASSUME Inv, UNCHANGED <<storeVars, createVars>>,
           \/ UNCHANGED msg
           \/ \E j \in Jobs, m \in {"visible", "dead"} :
                 msg[j] # "none" /\ msg' = [msg EXCEPT ![j] = m],
           \A p \in Procs : batch'[p] \subseteq batch[p],
           \A w \in Workers : \/ pc'[w] = pc[w] /\ cur'[w] = cur[w]
                              \/ pc'[w] \in {"idle", "exited"}
    PROVE  Safety'
  <1> USE DEF Inv, TypeOK
  <1>1. /\ \A j \in Jobs : msg[j] = "none" <=> msg'[j] = "none"
        /\ \A j \in Jobs : msg'[j] = "deleted" => msg[j] = "deleted"
    BY DEF QueueTypeOK
  <1>2. \A p \in Procs : \A j \in batch'[p] : j \in Jobs /\ msg[j] # "none"
    BY DEF DeliveryInv, QueueTypeOK
  <1> QED
    BY <1>1, <1>2, QueueMoves

\* What a step of the environment, or of Run, does to the queue and the workers.
LEMMA OtherSteps ==
    ASSUME Inv,
           \/ \E w \in Workers : ExitWorker(w)
           \/ \E p \in Procs : AbandonJobs(p) \/ ReturnFromRun(p)
           \/ DeadLetter
           \/ Disturb /\ UNCHANGED createVars
    PROVE  Safety'
  <1> USE DEF Inv, TypeOK
  <1>1. UNCHANGED <<storeVars, createVars>>
    BY DEF ExitWorker, Exit, AbandonJobs, ShutdownTimeout, ReturnFromRun, Return,
           DeadLetter, Disturb, TimeOut, JobTimeout, VisibilityTimeout, Cancel, Crash,
           Restart, HangUp, ApiCrash
  <1>2. \/ UNCHANGED msg
        \/ \E j \in Jobs, m \in {"visible", "dead"} :
              msg[j] # "none" /\ msg' = [msg EXCEPT ![j] = m]
    BY DEF ExitWorker, AbandonJobs, ReturnFromRun, AdapterGone, AdapterOpened,
           DeadLetter, Redrive, Disturb, TimeOut, VisibilityTimeout, queueVars, brokerVars
  <1>3. \A p \in Procs : batch'[p] \subseteq batch[p]
    BY DEF ExitWorker, AbandonJobs, ReturnFromRun, AdapterGone, AdapterOpened,
           DeadLetter, Redrive, Disturb, TimeOut, VisibilityTimeout, queueVars,
           adapterVars, QueueTypeOK
  <1>4. \A w \in Workers : \/ pc'[w] = pc[w] /\ cur'[w] = cur[w]
                           \/ pc'[w] \in {"idle", "exited"}
    BY DEF ExitWorker, Exit, Goto, AbandonJobs, ShutdownTimeout, ReturnFromRun, Return,
           DeadLetter, Disturb, TimeOut, JobTimeout, Cancel, Crash, Restart, poolVars,
           PoolTypeOK
  <1> QED
    BY <1>1, <1>2, <1>3, <1>4, OtherSafety

\* A request that ends early, by a hang-up or a crash of the API.
LEMMA RequestEnds ==
    ASSUME Inv, UNCHANGED <<poolVars, queueVars>>,
           ApiCrash \/ \E j \in Jobs : HangUp(j)
    PROVE  Safety'
  <1>1. UNCHANGED <<jobs, objects, msg, batch, pc, cur>>
    BY DEF ApiCrash, HangUp, storeVars, poolVars, queueVars, brokerVars, adapterVars
  <1>2. \A j \in Jobs : req'[j] = req[j] \/ req'[j] = "crashed"
    BY DEF ApiCrash, HangUp
  <1> QED
    BY <1>1, <1>2
    DEF Inv, Safety, RequestInv, DeliveryInv, WorkerInv, DeletedInv, MessageHasInput,
        PublishedInv, ResultIsStored, ErrorIsFailure, Touched

\* Every step of the system keeps the invariant.
LEMMA StepInv == Inv /\ [Next]_vars => Inv'
  <1> SUFFICES ASSUME Inv, [Next]_vars PROVE Inv'
    OBVIOUS
  <1>1. TypeOK'
    BY StepType DEF Inv
  <1>2. CASE UNCHANGED vars
    <2>1. UNCHANGED <<jobs, objects, req, msg, batch, pc, cur>>
      BY <1>2 DEF vars, storeVars, createVars, poolVars, queueVars, brokerVars, adapterVars
    <2>2. Safety'
      BY <2>1
      DEF Inv, Safety, RequestInv, DeliveryInv, WorkerInv, DeletedInv, MessageHasInput,
          PublishedInv, ResultIsStored, ErrorIsFailure, Touched
    <2> QED
      BY <1>1, <2>2 DEF Inv, Safety
  <1>3. CASE Next
    <2>1. CASE Disturb
      <3>1. \/ UNCHANGED createVars
            \/ /\ UNCHANGED <<poolVars, queueVars>>
               /\ ApiCrash \/ \E j \in Jobs : HangUp(j)
        BY <2>1 DEF Disturb, TimeOut
      <3>2. Safety'
        BY <2>1, <3>1, OtherSteps, RequestEnds
      <3> QED
        BY <1>1, <3>2 DEF Inv, Safety
    <2>2. CASE ~Disturb
      <3>1. Safety'
        BY <1>3, <2>2, ApiStepSafety, TakeSafety, ExecuteSafety, SettleSafety,
           ConsumeSafety, OtherSteps
        DEF Next
      <3> QED
        BY <1>1, <3>1 DEF Inv, Safety
    <2> QED
      BY <2>1, <2>2
  <1> QED
    BY <1>2, <1>3

\* The inductive invariant holds in every state: the request, the queue and the
\* workers agree about every job, whatever calls fail and whoever dies.
THEOREM Invariance == Spec => []Inv
  BY InitInv, StepInv, PTL DEF Spec

\* Every variable keeps its type; in particular no message is received more
\* often than the redrive policy allows.
THEOREM TypeCorrectness == Spec => []TypeOK
  BY Invariance, PTL DEF Inv

\* A worker never meets a message whose record or original is missing
\* (create_job.go: store, save, enqueue).
THEOREM InputPresent == Spec => []MessageHasInput
  BY Invariance, PTL DEF Inv

\* No accepted job is lost before a worker has claimed it: its message is at
\* the broker (pool.go, settle; sqsqueue.go, Ack).
THEOREM NoJobLost == Spec => []AcceptedNotLost
  <1>1. Inv => AcceptedNotLost
    BY DEF Inv, TypeOK, QueueTypeOK, MsgStates, RequestInv, DeletedInv, Touched,
           AcceptedNotLost
  <1> QED
    BY <1>1, Invariance, PTL

\* A published result key leads to a stored object (process_job.go).
THEOREM ResultsAreStored == Spec => []ResultIsStored
  BY Invariance, PTL DEF Inv, PublishedInv, ResultIsStored

\* A record carries an error exactly while it is failed (UpdateStatus).
THEOREM ErrorsAreFailures == Spec => []ErrorIsFailure
  BY Invariance, PTL DEF Inv

-----------------------------------------------------------------------------
(* The records implement the lifecycle *)

\* A step creates a pending record, writes a later status to an existing one,
\* or leaves every record alone.
LEMMA RecordSteps ==
    ASSUME Inv, [Next]_vars
    PROVE  \/ UNCHANGED jobs
           \/ \E j \in Jobs : /\ jobs[j].status = "absent"
                             /\ jobs' = [jobs EXCEPT ![j] = NewJob]
           \/ \E j \in Jobs, o \in {"ok", "error", "lost"} :
                 /\ jobs[j].status # "absent"
                 /\ \/ UpdateStatus(j, "processing", "unset", "unset", o)
                    \/ UpdateStatus(j, "done", "set", "unset", o)
                    \/ UpdateStatus(j, "failed", "unset", "set", o)
  <1> USE DEF Inv, TypeOK
  <1>1. \A live : /\ Outcomes(live, RepoFaults) \subseteq {"ok", "error", "lost"}
    BY StoreAssumption, OutcomesType
  <1>2. ASSUME NEW j \in Jobs, ApiStep(j), jobs' # jobs
        PROVE  SaveJob(j) \/ MarkFailed(j)
    BY <1>2
    DEF ApiStep, CreateStep, Begin, StoreOriginal, OriginalStored, Enqueue, EnqueueAccepted,
        EnqueueRefused, storeVars
  <1>3. ASSUME NEW j \in Jobs, SaveJob(j), jobs' # jobs
        PROVE  jobs[j].status = "absent" /\ jobs' = [jobs EXCEPT ![j] = NewJob]
    BY <1>3 DEF SaveJob, Save, RequestInv
  <1>4. ASSUME NEW j \in Jobs, MarkFailed(j)
        PROVE  /\ jobs[j].status # "absent"
               /\ \E o \in {"ok", "error", "lost"} :
                     UpdateStatus(j, "failed", "unset", "set", o)
    BY <1>1, <1>4 DEF MarkFailed, RequestInv
  <1>5. ASSUME NEW w \in Workers, ExecuteStep(w), jobs' # jobs
        PROVE  /\ cur[w] \in Jobs
               /\ jobs[cur[w]].status # "absent"
               /\ \E o \in {"ok", "error", "lost"} :
                    \/ UpdateStatus(cur[w], "processing", "unset", "unset", o)
                    \/ UpdateStatus(cur[w], "done", "set", "unset", o)
                    \/ UpdateStatus(cur[w], "failed", "unset", "set", o)
    <2>1. Claim(w) \/ MarkDone(w) \/ Fail(w)
      BY <1>5 DEF ExecuteStep, Execute, Load, Transform, StoreResult, ResultStored, storeVars
    <2>2. cur[w] \in Jobs /\ jobs[cur[w]].status # "absent"
      BY <2>1 DEF Claim, MarkDone, Fail, DeliveryInv, Busy, Executing, MessageHasInput
    <2> QED
      BY <1>1, <2>1, <2>2 DEF Claim, MarkDone, Fail
  <1>6. \/ \E j \in Jobs : ApiStep(j)
        \/ \E w \in Workers : ExecuteStep(w)
        \/ UNCHANGED jobs
    BY DEF Next, vars, storeVars, TakeDelivery, Take, SettleDelivery, Settled, ExitWorker,
           Exit, Consume, AbandonJobs, ShutdownTimeout, ReturnFromRun, Return, DeadLetter,
           Disturb, HangUp, ApiCrash, TimeOut, JobTimeout, Cancel, Crash, Restart
  <1> QED
    BY <1>2, <1>3, <1>4, <1>5, <1>6

StatusOf == [j \in Jobs |-> jobs[j].status]

Published == {j \in Jobs : jobs[j].resultKey = "set"}

\* What a write to the record is to a client.
LEMMA WriteMaps ==
    ASSUME StoreTypeOK, NEW j \in Jobs, NEW s, NEW key \in {"unset", "set"}, NEW err, NEW o,
           jobs[j].status # "absent", UpdateStatus(j, s, key, err, o), jobs' # jobs
    PROVE  /\ StatusOf' = [StatusOf EXCEPT ![j] = s]
           /\ Published' = IF key = "set" THEN Published \cup {j} ELSE Published
  <1>1. /\ jobs'[j].status = s
        /\ jobs'[j].resultKey = IF key = "set" THEN "set" ELSE jobs[j].resultKey
        /\ \A k \in Jobs \ {j} : jobs'[k] = jobs[k]
    BY DEF UpdateStatus, StoreTypeOK
  <1>2. StatusOf' = [StatusOf EXCEPT ![j] = s]
    BY <1>1 DEF StatusOf
  <1>3. \A k : k \in Published' <=> IF key = "set" THEN k \in Published \/ k = j ELSE k \in Published
    BY <1>1 DEF Published
  <1> QED
    BY <1>2, <1>3

\* Every step of the pipeline is a step of the lifecycle that a polling client
\* is promised, or invisible to it.
THEOREM Refinement == Spec => RefinesLifecycle
  <1>1. Init => Lifecycle!Init
    BY DEF Init, StoreInit, NoJob, Lifecycle!Init
  <1>2. Inv /\ [Next]_vars => [Lifecycle!Next]_(Lifecycle!lifecycleVars)
    <2> SUFFICES ASSUME Inv, [Next]_vars
                 PROVE  Lifecycle!Next \/ UNCHANGED Lifecycle!lifecycleVars
      OBVIOUS
    <2> USE DEF Inv, TypeOK, StatusOf, Published
    <2>1. CASE UNCHANGED jobs
      BY <2>1 DEF Lifecycle!lifecycleVars
    <2>2. ASSUME NEW j \in Jobs, jobs[j].status = "absent",
                 jobs' = [jobs EXCEPT ![j] = NewJob]
          PROVE  Lifecycle!Create(j)
      <3>1. Published' = Published
        BY <2>2 DEF NewJob, PublishedInv, ResultIsStored, StoreTypeOK
      <3> QED
        BY <2>2, <3>1 DEF Lifecycle!Create, Lifecycle!Exists, NewJob, StoreTypeOK
    <2>3. ASSUME NEW j \in Jobs, NEW o, jobs[j].status # "absent",
                 UpdateStatus(j, "processing", "unset", "unset", o)
          PROVE  UNCHANGED jobs \/ Lifecycle!Start(j)
      BY <2>3, WriteMaps DEF Lifecycle!Start, Lifecycle!Exists
    <2>4. ASSUME NEW j \in Jobs, NEW o, jobs[j].status # "absent",
                 UpdateStatus(j, "done", "set", "unset", o)
          PROVE  UNCHANGED jobs \/ Lifecycle!Publish(j)
      BY <2>4, WriteMaps DEF Lifecycle!Publish, Lifecycle!Exists
    <2>5. ASSUME NEW j \in Jobs, NEW o, jobs[j].status # "absent",
                 UpdateStatus(j, "failed", "unset", "set", o)
          PROVE  UNCHANGED jobs \/ Lifecycle!GiveUp(j)
      BY <2>5, WriteMaps DEF Lifecycle!GiveUp, Lifecycle!Exists
    <2> QED
      BY RecordSteps, <2>1, <2>2, <2>3, <2>4, <2>5 DEF Lifecycle!Next
  <1> QED
    BY <1>1, <1>2, Invariance, PTL DEF Spec, RefinesLifecycle, Lifecycle!Spec

-----------------------------------------------------------------------------
(* What is finished stays finished *)

\* What a step that is neither a call of a request nor one of ProcessJob does:
\* no record changes, no request goes on, and no worker gets past its load.
LEMMA BystanderSteps ==
    ASSUME Inv, [Next]_vars,
           ~ \E j \in Jobs : ApiStep(j),
           ~ \E w \in Workers : ExecuteStep(w)
    PROVE  /\ UNCHANGED jobs
           /\ \A j \in Jobs : req'[j] = req[j] \/ req'[j] = "crashed"
           /\ \A w \in Workers : \/ pc'[w] = pc[w] /\ cur'[w] = cur[w]
                                 \/ pc'[w] \in {"idle", "exited", "load"}
  <1> USE DEF Inv, TypeOK, PoolTypeOK
  <1>1. CASE UNCHANGED vars
    BY <1>1 DEF vars, storeVars, createVars, poolVars
  <1>2. CASE \E w \in Workers, j \in Jobs : TakeDelivery(w, j)
    BY <1>2 DEF TakeDelivery, Take, storeVars, createVars
  <1>3. CASE \E w \in Workers : SettleDelivery(w) \/ ExitWorker(w)
    BY <1>3 DEF SettleDelivery, Settled, ExitWorker, Exit, Goto, storeVars, createVars
  <1>4. CASE \E p \in Procs : Consume(p) \/ AbandonJobs(p) \/ ReturnFromRun(p)
    BY <1>4 DEF Consume, AbandonJobs, ShutdownTimeout, ReturnFromRun, Return, storeVars,
                createVars, poolVars
  <1>5. CASE DeadLetter
    BY <1>5 DEF DeadLetter, storeVars, createVars, poolVars
  <1>6. CASE Disturb
    <2>1. UNCHANGED jobs
      BY <1>6 DEF Disturb, HangUp, ApiCrash, TimeOut, JobTimeout, Cancel, Crash, Restart,
                  storeVars
    <2>2. \A j \in Jobs : req'[j] = req[j] \/ req'[j] = "crashed"
      BY <1>6 DEF Disturb, HangUp, ApiCrash, TimeOut, createVars
    <2>3. \A w \in Workers : \/ pc'[w] = pc[w] /\ cur'[w] = cur[w]
                             \/ pc'[w] \in {"idle", "exited", "load"}
      BY <1>6 DEF Disturb, TimeOut, JobTimeout, Cancel, Crash, Restart, poolVars
    <2> QED
      BY <2>1, <2>2, <2>3
  <1> QED
    BY <1>1, <1>2, <1>3, <1>4, <1>5, <1>6 DEF Next

\* The request of a finished job is over, and a worker that still holds a
\* delivery of it finds that it is not pending.
LEMMA FinishedStep ==
    ASSUME Inv, [Next]_vars, NEW j \in Jobs, Finished(j)
    PROVE  jobs'[j] = jobs[j] /\ Finished(j)'
  <1> USE DEF Inv, TypeOK
  <1>1. ASSUME NEW k \in Jobs, ApiStep(k)
        PROVE  jobs'[j] = jobs[j] /\ Finished(j)'
    <2>1. UNCHANGED <<pc, cur>>
      BY <1>1 DEF ApiStep, Enqueue, poolVars
    <2>2. req[j] \notin {"new", "store", "save", "enqueue", "mark"}
      BY DEF Finished, Terminal, RequestInv
    <2>3. k # j
      BY <1>1, <2>2
      DEF ApiStep, CreateStep, Begin, StoreOriginal, OriginalStored, SaveJob, MarkFailed,
          Enqueue, EnqueueAccepted, EnqueueRefused
    <2>4. req'[j] = req[j]
      BY <1>1, <2>3
      DEF ApiStep, CreateStep, Begin, StoreOriginal, OriginalStored, SaveJob, MarkFailed,
          Enqueue, EnqueueAccepted, EnqueueRefused, To, CreateTypeOK
    <2>5. jobs'[j] = jobs[j]
      BY <1>1, <2>3
      DEF ApiStep, CreateStep, Begin, StoreOriginal, OriginalStored, SaveJob, Save, MarkFailed,
          UpdateStatus, Enqueue, EnqueueAccepted, EnqueueRefused, StoreTypeOK, storeVars
    <2> QED
      BY <2>1, <2>4, <2>5 DEF Finished
  <1>2. ASSUME NEW w \in Workers, ExecuteStep(w)
        PROVE  jobs'[j] = jobs[j] /\ Finished(j)'
    <2>1. UNCHANGED <<cur, req>> /\ \A v \in Workers \ {w} : pc'[v] = pc[v]
      BY <1>2
      DEF ExecuteStep, Execute, Load, Claim, Transform, StoreResult, ResultStored, MarkDone,
          Fail, Conclude, Goto, createVars, PoolTypeOK
    <2>2. CASE cur[w] = j
      <3>1. Load(w)
        BY <1>2, <2>2
        DEF ExecuteStep, Execute, Claim, Transform, StoreResult, ResultStored, MarkDone, Fail,
            Finished, PastClaim
      <3>2. jobs[j].status # "pending"
        BY DEF Finished, Terminal
      <3>3. UNCHANGED jobs /\ pc'[w] \in {"ack", "nack"}
        BY <2>2, <3>1, <3>2 DEF Load, Conclude, Goto, PoolTypeOK, storeVars
      <3> QED
        BY <2>1, <3>3 DEF Finished, PastClaim
    <2>3. CASE cur[w] # j
      <3>1. jobs'[j] = jobs[j]
        BY <1>2, <2>3
        DEF ExecuteStep, Execute, Load, Claim, Transform, StoreResult, ResultStored, MarkDone,
            Fail, UpdateStatus, StoreTypeOK, storeVars
      <3> QED
        BY <2>1, <2>3, <3>1 DEF Finished
    <2> QED
      BY <2>2, <2>3
  <1>3. CASE /\ ~ \E k \in Jobs : ApiStep(k)
             /\ ~ \E w \in Workers : ExecuteStep(w)
    BY <1>3, BystanderSteps DEF Finished, PastClaim
  <1> QED
    BY <1>1, <1>2, <1>3

\* Once nobody is left who read the record before it was terminal, it never
\* changes again, for any number of redeliveries, workers and restarts
\* (process_job.go skips what is not pending).
THEOREM Finality == Spec => FinishedIsFinal
  <1>1. Inv /\ [Next]_vars =>
          [\A j \in Jobs : Finished(j) => jobs'[j] = jobs[j] /\ Finished(j)']_vars
    BY FinishedStep
  <1> QED
    BY <1>1, Invariance, PTL DEF Spec, FinishedIsFinal

-----------------------------------------------------------------------------
(* When the comments on CreateJob and on the pool hold *)

\* A refused job that is left pending is one whose client hung up.
MarkedUnlessHungUp ==
    \A j \in Jobs : req[j] = "failed" /\ jobs[j].status = "pending" => j \in hungUp

\* On a repository without faults every step keeps it: the save and the mark of
\* a request that is still live do not fail.
LEMMA MarkedStep ==
    ASSUME RepoFaults = {}, Inv, MarkedUnlessHungUp, [Next]_vars
    PROVE  MarkedUnlessHungUp'
  <1> USE DEF Inv, TypeOK
  <1>1. \A j \in Jobs : jobs'[j].status = "pending" =>
           jobs[j].status = "pending" \/ jobs[j].status = "absent"
    BY RecordSteps DEF UpdateStatus, NewJob, StoreTypeOK
  <1>2. ASSUME NEW j \in Jobs, ApiStep(j)
        PROVE  MarkedUnlessHungUp'
    <2>1. UNCHANGED hungUp
      BY <1>2
      DEF ApiStep, CreateStep, Begin, StoreOriginal, OriginalStored, SaveJob, MarkFailed,
          Enqueue, EnqueueAccepted, EnqueueRefused
    <2>2. \A k \in Jobs \ {j} : req'[k] = req[k] /\ jobs'[k] = jobs[k]
      BY <1>2
      DEF ApiStep, CreateStep, Begin, StoreOriginal, OriginalStored, SaveJob, Save, MarkFailed,
          UpdateStatus, Enqueue, EnqueueAccepted, EnqueueRefused, To, CreateTypeOK,
          StoreTypeOK, storeVars
    <2>3. ASSUME j \notin hungUp, req'[j] = "failed"
          PROVE  jobs'[j].status # "pending"
      <3>1. Outcomes(RequestLive(j), RepoFaults) = {"ok"}
        BY <2>3 DEF Outcomes, RequestLive
      <3>2. CASE Begin(j) \/ StoreOriginal(j)
        BY <3>2 DEF Begin, StoreOriginal, OriginalStored, RequestInv, storeVars
      <3>3. CASE SaveJob(j)
        BY <2>3, <3>1, <3>3 DEF SaveJob, To, CreateTypeOK
      <3>4. CASE MarkFailed(j)
        <4>1. UpdateStatus(j, "failed", "unset", "set", "ok") /\ jobs[j].status # "absent"
          BY <3>1, <3>4 DEF MarkFailed, RequestInv
        <4> QED
          BY <4>1 DEF UpdateStatus, StoreTypeOK
      <3>5. CASE Enqueue(j)
        BY <2>3, <3>5 DEF Enqueue, EnqueueAccepted, EnqueueRefused, To, CreateTypeOK
      <3> QED
        BY <1>2, <3>2, <3>3, <3>4, <3>5 DEF ApiStep, CreateStep
    <2> QED
      BY <2>1, <2>2, <2>3 DEF MarkedUnlessHungUp
  <1>3. ASSUME NEW w \in Workers, ExecuteStep(w)
        PROVE  MarkedUnlessHungUp'
    <2>1. UNCHANGED <<req, hungUp>>
      BY <1>3 DEF ExecuteStep, createVars
    <2>2. \A j \in Jobs : jobs[j].status = "absent" => jobs'[j].status = "absent"
      BY <1>3
      DEF ExecuteStep, Execute, Load, Claim, Transform, StoreResult, ResultStored, MarkDone,
          Fail, UpdateStatus, StoreTypeOK, storeVars
    <2> QED
      BY <1>1, <2>1, <2>2 DEF MarkedUnlessHungUp
  <1>4. CASE /\ ~ \E j \in Jobs : ApiStep(j)
             /\ ~ \E w \in Workers : ExecuteStep(w)
    <2>1. hungUp \subseteq hungUp'
      BY <1>4
      DEF Next, vars, createVars, TakeDelivery, SettleDelivery, ExitWorker, Consume,
          AbandonJobs, ReturnFromRun, DeadLetter, Disturb, TimeOut, HangUp, ApiCrash
    <2> QED
      BY <1>4, <2>1, BystanderSteps DEF MarkedUnlessHungUp
  <1> QED
    BY <1>2, <1>3, <1>4

\* On a repository without faults, a request that fails leaves its job pending
\* only when its client hung up: no failure of the queue or the storage, and no
\* worker that got the message all the same, is a reason (create_job.go).
THEOREM PendingMeansHungUp ==
    ASSUME RepoFaults = {}
    PROVE  Spec => []MarkedUnlessHungUp
  <1>1. Init => MarkedUnlessHungUp
    BY DEF Init, CreateInit, MarkedUnlessHungUp
  <1>2. Inv /\ MarkedUnlessHungUp /\ [Next]_vars => MarkedUnlessHungUp'
    BY MarkedStep
  <1> QED
    BY <1>1, <1>2, Invariance, PTL DEF Spec

\* So create_job.go keeps its word where no client hangs up and the repository
\* does not fail.  The run that refutes RefusedIsMarked shows that it takes no
\* more than a hang-up to break it.
THEOREM RefusedAreMarked ==
    ASSUME RepoFaults = {}, "hangup" \notin Disturbances
    PROVE  Spec => []RefusedIsMarked
  <1> DEFINE NoHangUp == hungUp = {}
  <1>1. Init => NoHangUp
    BY DEF Init, CreateInit
  <1>2. NoHangUp /\ [Next]_vars => NoHangUp'
    BY DEF Next, vars, createVars, ApiStep, CreateStep, Begin, StoreOriginal, OriginalStored,
           SaveJob, MarkFailed, Enqueue, EnqueueAccepted, EnqueueRefused, TakeDelivery,
           ExecuteStep, SettleDelivery, ExitWorker, Consume, AbandonJobs, ReturnFromRun,
           DeadLetter, Disturb, TimeOut, ApiCrash
  <1>3. MarkedUnlessHungUp /\ NoHangUp => RefusedIsMarked
    BY DEF MarkedUnlessHungUp, RefusedIsMarked
  <1>4. Spec => []MarkedUnlessHungUp
    BY PendingMeansHungUp
  <1> HIDE DEF NoHangUp
  <1> QED
    BY <1>1, <1>2, <1>3, <1>4, PTL DEF Spec

-----------------------------------------------------------------------------
(* One worker at a time *)

\* A delivery is held once, by the batch of a process or by a worker, and while
\* it is held its message is in flight.
OneHolder ==
    /\ \A v, w \in Workers : pc[v] \in Busy /\ pc[w] \in Busy /\ cur[v] = cur[w] => v = w
    /\ \A w \in Workers : pc[w] \in Busy => \A p \in Procs : cur[w] \notin batch[p]
    /\ \A p, q \in Procs : p # q => batch[p] \cap batch[q] = {}
    /\ \A w \in Workers : pc[w] \in Busy => msg[cur[w]] = "inflight"
    /\ \A p \in Procs : \A j \in batch[p] : msg[j] = "inflight"

\* A step after which nobody holds more than before, and no message that is held
\* has reappeared.
LEMMA HoldersLeave ==
    ASSUME OneHolder, Inv,
           \A j \in Jobs : msg[j] = "inflight" /\ Held(j) => msg'[j] = "inflight",
           \A p \in Procs : batch'[p] \subseteq batch[p],
           \A w \in Workers : pc'[w] \in Busy => pc[w] \in Busy /\ cur'[w] = cur[w]
    PROVE  OneHolder'
  <1>1. \A p \in Procs : batch[p] \subseteq Jobs
    BY DEF Inv, TypeOK, QueueTypeOK
  <1>2. \A w \in Workers : pc[w] \in Busy => cur[w] \in Jobs /\ Held(cur[w])
    BY DEF Inv, DeliveryInv, Held, Busy
  <1>3. \A p \in Procs : \A j \in batch[p] : Held(j)
    BY DEF Held
  <1> QED
    BY <1>1, <1>2, <1>3 DEF OneHolder

\* A receive hands out what nobody holds.
LEMMA ReceiveHolder ==
    ASSUME OneHolder, Inv, NEW p \in Procs, Consume(p)
    PROVE  OneHolder'
  <1> USE DEF Inv, TypeOK
  <1>1. UNCHANGED <<pc, cur>>
    BY DEF Consume, poolVars
  <1>2. ASSUME NEW S \in SUBSET Receivable, HandOut(S)
        PROVE  \A j \in Jobs : /\ msg[j] = "inflight" => msg'[j] = "inflight"
                               /\ j \in S => msg[j] = "visible" /\ msg'[j] = "inflight"
    BY <1>2 DEF HandOut, Receivable
  <1>3. CASE Receive(p)
    <2>1. PICK S \in SUBSET Receivable : HandOut(S) /\ batch' = [batch EXCEPT ![p] = S]
      BY <1>3 DEF Receive
    <2>2. S \subseteq Jobs
      BY DEF Receivable
    <2>3. batch'[p] = S /\ \A q \in Procs \ {p} : batch'[q] = batch[q]
      BY <2>1 DEF QueueTypeOK
    <2>4. \A q \in Procs : batch[q] \subseteq Jobs /\ S \cap batch[q] = {}
      BY <1>2, <2>1, <2>2 DEF OneHolder, QueueTypeOK
    <2>5. \A w \in Workers : pc[w] \in Busy => cur[w] \in Jobs /\ cur[w] \notin S
      BY <1>2, <2>1 DEF OneHolder, DeliveryInv
    <2>6. \A q \in Procs : \A j \in batch'[q] : msg'[j] = "inflight"
      BY <1>2, <2>1, <2>2, <2>3, <2>4 DEF OneHolder
    <2>7. \A w \in Workers : pc[w] \in Busy => msg'[cur[w]] = "inflight"
      BY <1>2, <2>1, <2>5 DEF OneHolder
    <2>8. \A q, r \in Procs : q # r => batch'[q] \cap batch'[r] = {}
      BY <2>3, <2>4 DEF OneHolder
    <2>9. \A w \in Workers : pc[w] \in Busy => \A q \in Procs : cur[w] \notin batch'[q]
      BY <2>3, <2>5 DEF OneHolder
    <2> QED
      BY <1>1, <2>6, <2>7, <2>8, <2>9 DEF OneHolder
  <1>4. CASE ~Receive(p)
    <2>1. UNCHANGED msg \/ \E S \in SUBSET Receivable : HandOut(S)
      BY <1>4 DEF Consume, ReceiveFailed, BackoffOver, CloseConsumer, brokerVars
    <2>2. \A q \in Procs : batch'[q] \subseteq batch[q]
      BY <1>4 DEF Consume, ReceiveFailed, BackoffOver, CloseConsumer, QueueTypeOK
    <2> QED
      BY <1>1, <1>2, <2>1, <2>2, HoldersLeave
  <1> QED
    BY <1>3, <1>4

\* A worker takes over from its batch.
LEMMA TakeHolder ==
    ASSUME OneHolder, Inv, NEW w \in Workers, NEW j \in Jobs, TakeDelivery(w, j)
    PROVE  OneHolder'
  <1> USE DEF Inv, TypeOK
  <1>1. Proc(w) \in Procs /\ j \in batch[Proc(w)] /\ UNCHANGED msg /\ pc[w] \notin Busy
    BY ProcOfWorker DEF TakeDelivery, HandOver, Take, brokerVars, Busy, Executing, Settling
  <1>2. /\ \A p \in Procs : batch'[p] \subseteq batch[p]
        /\ \A p \in Procs : j \notin batch'[p]
    BY <1>1 DEF TakeDelivery, HandOver, OneHolder, QueueTypeOK
  <1>3. /\ cur'[w] = j
        /\ \A v \in Workers \ {w} : pc'[v] = pc[v] /\ cur'[v] = cur[v]
    BY DEF TakeDelivery, Take, PoolTypeOK
  <1>4. msg[j] = "inflight" /\ \A v \in Workers : pc[v] \in Busy => cur[v] # j
    BY <1>1 DEF OneHolder
  <1> QED
    BY <1>1, <1>2, <1>3, <1>4 DEF OneHolder

\* The worker that settles was the only one to hold the delivery.
LEMMA SettleHolder ==
    ASSUME OneHolder, Inv, NEW w \in Workers, SettleDelivery(w)
    PROVE  OneHolder'
  <1> USE DEF Inv, TypeOK
  <1>1. pc[w] \in Busy /\ cur[w] \in Jobs /\ UNCHANGED batch
    BY DEF SettleDelivery, Settled, Ack, Nack, TakeReceipt, DeliveryInv, Busy
  <1>2. \A k \in Jobs \ {cur[w]} : msg'[k] = msg[k]
    BY <1>1 DEF SettleDelivery, Ack, Nack, QueueTypeOK
  <1>3. /\ pc'[w] \notin Busy
        /\ \A v \in Workers \ {w} : pc'[v] = pc[v] /\ cur'[v] = cur[v]
    BY DEF SettleDelivery, Settled, PoolTypeOK, Busy, Executing, Settling
  <1>4. \A v \in Workers \ {w} : pc[v] \in Busy => cur[v] \in Jobs /\ cur[v] # cur[w]
    BY <1>1 DEF OneHolder, DeliveryInv
  <1>5. \A p \in Procs : batch[p] \subseteq Jobs /\ cur[w] \notin batch[p]
    BY <1>1 DEF OneHolder, QueueTypeOK
  <1>6. \A v \in Workers : pc'[v] \in Busy => msg'[cur'[v]] = "inflight"
    BY <1>2, <1>3, <1>4 DEF OneHolder
  <1>7. \A p \in Procs : \A j \in batch'[p] : msg'[j] = "inflight"
    BY <1>1, <1>2, <1>5 DEF OneHolder
  <1> QED
    BY <1>1, <1>3, <1>6, <1>7 DEF OneHolder

\* Where no message reappears while it is held, every step keeps one holder; one
\* that a crash or a lost answer left in flight may well reappear.
LEMMA HolderStep ==
    ASSUME "visibility" \notin Disturbances, OneHolder, Inv, [Next]_vars
    PROVE  OneHolder'
  <1> USE DEF Inv, TypeOK
  <1>1. ASSUME NEW j \in Jobs, ApiStep(j)
        PROVE  OneHolder'
    <2>1. UNCHANGED <<pc, cur, batch>>
      BY <1>1 DEF ApiStep, Enqueue, Send, poolVars, queueVars, adapterVars
    <2>2. \A k \in Jobs : msg[k] = "inflight" => msg'[k] = "inflight"
      BY <1>1
      DEF ApiStep, Enqueue, EnqueueAccepted, EnqueueRefused, Send, queueVars, brokerVars,
          RequestInv, QueueTypeOK
    <2> QED
      BY <2>1, <2>2, HoldersLeave
  <1>2. ASSUME NEW w \in Workers, ExecuteStep(w)
        PROVE  OneHolder'
    <2>1. UNCHANGED <<msg, batch, cur>> /\ \A v \in Workers \ {w} : pc'[v] = pc[v]
      BY <1>2
      DEF ExecuteStep, Execute, Load, Claim, Transform, StoreResult, ResultStored, MarkDone,
          Fail, Conclude, Goto, queueVars, brokerVars, adapterVars, PoolTypeOK
    <2>2. pc[w] \in Busy
      BY <1>2
      DEF ExecuteStep, Execute, Load, Claim, Transform, StoreResult, ResultStored, MarkDone,
          Fail, Busy, Executing
    <2> QED
      BY <2>1, <2>2, HoldersLeave
  <1>3. CASE \/ \E w \in Workers : ExitWorker(w)
             \/ \E p \in Procs : AbandonJobs(p) \/ ReturnFromRun(p)
             \/ DeadLetter \/ Disturb \/ UNCHANGED vars
    <2>1. \A j \in Jobs : msg[j] = "inflight" /\ Held(j) => msg'[j] = "inflight"
      BY <1>3
      DEF ExitWorker, AbandonJobs, ReturnFromRun, AdapterGone, AdapterOpened, DeadLetter,
          Redrive, Disturb, VisibilityTimeout, TimeOut, vars, queueVars, brokerVars, QueueTypeOK
    <2>2. \A p \in Procs : batch'[p] \subseteq batch[p]
      BY <1>3
      DEF ExitWorker, AbandonJobs, ReturnFromRun, AdapterGone, AdapterOpened, DeadLetter,
          Redrive, Disturb, VisibilityTimeout, TimeOut, vars, queueVars, adapterVars, QueueTypeOK
    <2>3. \A w \in Workers : pc'[w] \in Busy => pc[w] \in Busy /\ cur'[w] = cur[w]
      BY <1>3
      DEF ExitWorker, Exit, Goto, AbandonJobs, ShutdownTimeout, ReturnFromRun, Return,
          DeadLetter, Disturb, TimeOut, JobTimeout, Cancel, Crash, Restart, vars, poolVars,
          PoolTypeOK, Busy, Executing, Settling
    <2> QED
      BY <2>1, <2>2, <2>3, HoldersLeave
  <1> QED
    BY <1>1, <1>2, <1>3, ReceiveHolder, TakeHolder, SettleHolder DEF Next

\* Two workers are at the same job only where the visibility timeout can run out
\* under a delivery that is still held.  A message that reappears after a crash,
\* a dropped batch, a lost answer or a failed settling, and is delivered again,
\* does not put a second worker on the job.
THEOREM OneWorkerAtATime ==
    ASSUME "visibility" \notin Disturbances
    PROVE  Spec => []OneHolder
  <1>1. Init => OneHolder
    BY DEF Init, PoolInit, QueueInit, OneHolder, Busy, Executing, Settling
  <1>2. Inv /\ OneHolder /\ [Next]_vars => OneHolder'
    BY HolderStep
  <1> QED
    BY <1>1, <1>2, Invariance, PTL DEF Spec

-----------------------------------------------------------------------------
(* Where a job is processed once *)

\* The lifecycle in which an outcome is final.
OnceLifecycle == INSTANCE JobLifecycle WITH
    Redelivery <- FALSE,
    status     <- StatusOf,
    published  <- Published

\* What a worker read of the record is still so when it writes, and a request
\* marks a job whose message nobody got.
OnceInv ==
    /\ \A w \in Workers :
          /\ pc[w] = "claim" => jobs[cur[w]].status = "pending"
          /\ pc[w] \in PastClaim => jobs[cur[w]].status = "processing"
    /\ \A j \in Jobs :
          req[j] \in {"enqueue", "mark"} => jobs[j].status = "pending" /\ msg[j] = "none"

\* No worker is at a job whose message was never sent.
LEMMA UnsentIsUnheld ==
    ASSUME Inv, NEW j \in Jobs, msg[j] = "none", NEW w \in Workers
    PROVE  pc[w] \in {"claim"} \cup PastClaim => cur[w] \in Jobs /\ cur[w] # j
  BY DEF Inv, DeliveryInv, Busy, Executing, PastClaim

\* A request that still has something to write is alone with its job.
LEMMA RequestOnce ==
    ASSUME "lost" \notin QueueFaults, Inv, OnceInv, NEW j \in Jobs, ApiStep(j)
    PROVE  /\ OnceInv'
           /\ \/ UNCHANGED jobs
              \/ jobs[j].status = "absent" /\ jobs' = [jobs EXCEPT ![j] = NewJob]
              \/ /\ jobs[j].status = "pending"
                 /\ \E o : UpdateStatus(j, "failed", "unset", "set", o)
  <1> USE DEF Inv, TypeOK
  <1>1. UNCHANGED <<pc, cur>>
    BY DEF ApiStep, Enqueue, poolVars
  <1>2. \A k \in Jobs \ {j} : req'[k] = req[k] /\ jobs'[k] = jobs[k] /\ msg'[k] = msg[k]
    BY DEF ApiStep, CreateStep, Begin, StoreOriginal, OriginalStored, SaveJob, Save, MarkFailed,
           UpdateStatus, Enqueue, EnqueueAccepted, EnqueueRefused, Send, To, CreateTypeOK,
           StoreTypeOK, QueueTypeOK, storeVars, queueVars, brokerVars
  <1>3. msg[j] = "none"
    BY DEF ApiStep, CreateStep, Begin, StoreOriginal, OriginalStored, SaveJob, MarkFailed,
           Enqueue, EnqueueAccepted, EnqueueRefused, RequestInv, OnceInv
  <1>4. \A w \in Workers :
           /\ pc'[w] = "claim" => jobs'[cur'[w]].status = "pending"
           /\ pc'[w] \in PastClaim => jobs'[cur'[w]].status = "processing"
    <2> SUFFICES ASSUME NEW w \in Workers, pc[w] \in {"claim"} \cup PastClaim
                 PROVE  jobs'[cur[w]] = jobs[cur[w]]
      BY <1>1 DEF OnceInv
    <2> QED
      BY <1>2, <1>3, UnsentIsUnheld
  <1>5. SUFFICES /\ req'[j] \in {"enqueue", "mark"} =>
                       jobs'[j].status = "pending" /\ msg'[j] = "none"
                 /\ \/ UNCHANGED jobs
                    \/ jobs[j].status = "absent" /\ jobs' = [jobs EXCEPT ![j] = NewJob]
                    \/ /\ jobs[j].status = "pending"
                       /\ \E o : UpdateStatus(j, "failed", "unset", "set", o)
    BY <1>2, <1>4 DEF OnceInv
  <1>6. CASE (Begin(j) \/ StoreOriginal(j)) /\ UNCHANGED <<poolVars, queueVars>>
    BY <1>6 DEF Begin, StoreOriginal, OriginalStored, To, CreateTypeOK, storeVars
  <1>7. CASE SaveJob(j) /\ UNCHANGED <<poolVars, queueVars>>
    BY <1>3, <1>7
    DEF SaveJob, Save, NewJob, To, RequestInv, CreateTypeOK, StoreTypeOK, queueVars, brokerVars
  <1>8. CASE MarkFailed(j) /\ UNCHANGED <<poolVars, queueVars>>
    BY <1>8 DEF MarkFailed, To, OnceInv, CreateTypeOK
  <1>9. CASE Enqueue(j)
    <2>1. UNCHANGED jobs /\ jobs[j].status = "pending"
      BY <1>9 DEF Enqueue, EnqueueAccepted, EnqueueRefused, OnceInv, storeVars
    <2>2. PICK o \in Outcomes(RequestLive(j), QueueFaults) :
             Send(j, o) /\ (IF o = "ok" THEN EnqueueAccepted(j) ELSE EnqueueRefused(j))
      BY <1>9 DEF Enqueue
    <2>3. o \in {"ok", "error"}
      BY QueueAssumption DEF Outcomes, Faults
    <2>4. CASE o = "ok"
      BY <2>1, <2>2, <2>4 DEF EnqueueAccepted, To, CreateTypeOK
    <2>5. CASE o = "error"
      BY <1>3, <2>1, <2>2, <2>5 DEF Send
    <2> QED
      BY <2>3, <2>4, <2>5
  <1> QED
    BY <1>6, <1>7, <1>8, <1>9 DEF ApiStep, CreateStep

\* A worker that holds the only delivery writes what follows from what it read.
LEMMA ExecuteOnce ==
    ASSUME Inv, OneHolder, OnceInv, NEW w \in Workers, ExecuteStep(w)
    PROVE  /\ OnceInv'
           /\ cur[w] \in Jobs
           /\ \/ UNCHANGED jobs
              \/ /\ jobs[cur[w]].status = "pending"
                 /\ \E o : UpdateStatus(cur[w], "processing", "unset", "unset", o)
              \/ /\ jobs[cur[w]].status = "processing"
                 /\ \E o : \/ UpdateStatus(cur[w], "done", "set", "unset", o)
                           \/ UpdateStatus(cur[w], "failed", "unset", "set", o)
  <1> USE DEF Inv, TypeOK
  <1> DEFINE j == cur[w]
  <1>1. pc[w] \in Busy
    BY DEF ExecuteStep, Execute, Load, Claim, Transform, StoreResult, ResultStored, MarkDone, Fail,
           Busy, Executing
  <1>2. j \in Jobs /\ msg[j] # "none" /\ jobs[j].status # "absent"
    BY <1>1 DEF DeliveryInv, MessageHasInput
  <1>3. /\ UNCHANGED <<req, msg, cur>> /\ \A v \in Workers \ {w} : pc'[v] = pc[v]
        /\ \A k \in Jobs \ {j} : jobs'[k] = jobs[k]
    BY DEF ExecuteStep, Execute, Load, Claim, Transform, StoreResult, ResultStored, MarkDone, Fail,
           UpdateStatus, Conclude, Goto, createVars, queueVars, brokerVars, storeVars,
           PoolTypeOK, StoreTypeOK
  <1>4. \A k \in Jobs : req[k] \in {"enqueue", "mark"} => k # j
    BY <1>2 DEF OnceInv
  <1>5. \A v \in Workers \ {w} : pc[v] \in {"claim"} \cup PastClaim => cur[v] \in Jobs /\ cur[v] # j
    BY <1>1 DEF OneHolder, DeliveryInv, Busy, Executing, PastClaim
  <1>6. SUFFICES /\ pc'[w] = "claim" => jobs'[j].status = "pending"
                 /\ pc'[w] \in PastClaim => jobs'[j].status = "processing"
                 /\ \/ UNCHANGED jobs
                    \/ /\ jobs[j].status = "pending"
                       /\ \E o : UpdateStatus(j, "processing", "unset", "unset", o)
                    \/ /\ jobs[j].status = "processing"
                       /\ \E o : \/ UpdateStatus(j, "done", "set", "unset", o)
                                 \/ UpdateStatus(j, "failed", "unset", "set", o)
    <2>1. \A v \in Workers \ {w} :
             /\ pc'[v] = "claim" => jobs'[cur'[v]].status = "pending"
             /\ pc'[v] \in PastClaim => jobs'[cur'[v]].status = "processing"
      BY <1>3, <1>5 DEF OnceInv
    <2>2. \A k \in Jobs :
             req'[k] \in {"enqueue", "mark"} => jobs'[k].status = "pending" /\ msg'[k] = "none"
      BY <1>3, <1>4 DEF OnceInv
    <2> QED
      BY <1>2, <1>3, <1>6, <2>1, <2>2 DEF OnceInv
  <1>7. CASE Load(w)
    BY <1>7 DEF Load, Conclude, Goto, PastClaim, PoolTypeOK, storeVars
  <1>8. CASE Claim(w)
    <2>1. PICK o : /\ UpdateStatus(j, "processing", "unset", "unset", o)
                   /\ IF RepoOk(j, o) THEN Goto(w, "transform") ELSE Conclude(w, "failed")
      BY <1>8 DEF Claim
    <2>2. jobs[j].status = "pending"
      BY <1>8 DEF Claim, OnceInv
    <2>3. CASE RepoOk(j, o)
      BY <1>2, <2>1, <2>2, <2>3 DEF RepoOk, Goto, UpdateStatus, PastClaim, PoolTypeOK, StoreTypeOK
    <2>4. CASE ~RepoOk(j, o)
      BY <2>1, <2>2, <2>4 DEF Conclude, Goto, PastClaim, PoolTypeOK
    <2> QED
      BY <2>3, <2>4
  <1>9. CASE Transform(w) \/ StoreResult(w)
    <2>1. UNCHANGED jobs /\ jobs[j].status = "processing"
      BY <1>9 DEF Transform, StoreResult, ResultStored, OnceInv, PastClaim, storeVars
    <2>2. pc'[w] # "claim"
      BY <1>9 DEF Transform, StoreResult, ResultStored, Goto, PoolTypeOK
    <2> QED
      BY <2>1, <2>2
  <1>10. CASE MarkDone(w) \/ Fail(w)
    <2>1. jobs[j].status = "processing"
      BY <1>10 DEF MarkDone, Fail, OnceInv, PastClaim
    <2>2. pc'[w] \in {"ack", "nack"}
      BY <1>10 DEF MarkDone, Fail, Conclude, Goto, PoolTypeOK
    <2>3. \E o : \/ UpdateStatus(j, "done", "set", "unset", o)
                 \/ UpdateStatus(j, "failed", "unset", "set", o)
      BY <1>10 DEF MarkDone, Fail
    <2> QED
      BY <2>1, <2>2, <2>3 DEF PastClaim
  <1> QED
    BY <1>7, <1>8, <1>9, <1>10 DEF ExecuteStep, Execute

\* Every step keeps what the writers rely on.
LEMMA OnceStep ==
    ASSUME "lost" \notin QueueFaults, Inv, OneHolder, OnceInv, [Next]_vars
    PROVE  OnceInv'
  <1>1. CASE /\ ~ \E j \in Jobs : ApiStep(j)
             /\ ~ \E w \in Workers : ExecuteStep(w)
    <2>1. \A j \in Jobs : msg[j] = "none" => msg'[j] = "none"
      BY <1>1
      DEF Next, vars, TakeDelivery, HandOver, SettleDelivery, Ack, Nack, ExitWorker, Consume,
          Receive, ReceiveFailed, BackoffOver, CloseConsumer, HandOut, Receivable, AbandonJobs,
          ReturnFromRun, AdapterGone, AdapterOpened, DeadLetter, Redrive, Disturb, TimeOut,
          VisibilityTimeout, queueVars, brokerVars, Inv, TypeOK, QueueTypeOK
    <2> QED
      BY <1>1, <2>1, BystanderSteps DEF OnceInv, PastClaim
  <1> QED
    BY <1>1, RequestOnce, ExecuteOnce

\* Where no visibility timeout runs out under a delivery that is still held, and
\* no send is applied that the API takes for failed, a client that polls sees each
\* job go from pending over processing to one outcome, for good: crashes and the
\* redeliveries after them, restarts, job timeouts, shutdowns and faults of the
\* stores do not make an outcome change.
\* Both conditions are needed: either alone lets a second writer in.
THEOREM OutcomesAreFinal ==
    ASSUME "visibility" \notin Disturbances, "lost" \notin QueueFaults
    PROVE  Spec => OnceLifecycle!Spec
  <1>1. Init => OnceLifecycle!Init /\ OneHolder /\ OnceInv
    BY DEF Init, StoreInit, CreateInit, PoolInit, QueueInit, NoJob, OnceLifecycle!Init, StatusOf,
           Published, OneHolder, OnceInv, Busy, Executing, Settling, PastClaim
  <1>2. Inv /\ OneHolder /\ OnceInv /\ [Next]_vars => OneHolder' /\ OnceInv'
    BY HolderStep, OnceStep
  <1>3. Inv /\ OneHolder /\ OnceInv /\ [Next]_vars =>
           [OnceLifecycle!Next]_(OnceLifecycle!lifecycleVars)
    <2> SUFFICES ASSUME Inv, OneHolder, OnceInv, [Next]_vars
                 PROVE  OnceLifecycle!Next \/ UNCHANGED OnceLifecycle!lifecycleVars
      OBVIOUS
    <2>0. StoreTypeOK
      BY DEF Inv, TypeOK
    <2>1. CASE UNCHANGED jobs
      BY <2>1 DEF OnceLifecycle!lifecycleVars, StatusOf, Published
    <2>2. ASSUME NEW j \in Jobs, jobs[j].status = "absent",
                 jobs' = [jobs EXCEPT ![j] = NewJob]
          PROVE  OnceLifecycle!Create(j)
      <3>1. Published' = Published
        BY <2>0, <2>2 DEF Published, NewJob, Inv, PublishedInv, ResultIsStored, StoreTypeOK
      <3>2. StatusOf' = [StatusOf EXCEPT ![j] = "pending"] /\ StatusOf[j] = "absent"
        BY <2>0, <2>2 DEF StatusOf, NewJob, StoreTypeOK
      <3> QED
        BY <3>1, <3>2 DEF OnceLifecycle!Create, OnceLifecycle!Exists
    <2>3. ASSUME NEW j \in Jobs, NEW o, jobs[j].status = "pending",
                 UpdateStatus(j, "processing", "unset", "unset", o)
          PROVE  UNCHANGED jobs \/ OnceLifecycle!Start(j)
      BY <2>0, <2>3, WriteMaps DEF OnceLifecycle!Start, StatusOf
    <2>4. ASSUME NEW j \in Jobs, NEW o, jobs[j].status = "processing",
                 UpdateStatus(j, "done", "set", "unset", o)
          PROVE  UNCHANGED jobs \/ OnceLifecycle!Publish(j)
      BY <2>0, <2>4, WriteMaps DEF OnceLifecycle!Publish, StatusOf
    <2>5. ASSUME NEW j \in Jobs, NEW o, jobs[j].status \in {"pending", "processing"},
                 UpdateStatus(j, "failed", "unset", "set", o)
          PROVE  UNCHANGED jobs \/ OnceLifecycle!GiveUp(j)
      BY <2>0, <2>5, WriteMaps DEF OnceLifecycle!GiveUp, StatusOf
    <2>6. ASSUME NEW j \in Jobs, ApiStep(j)
          PROVE  UNCHANGED jobs \/ OnceLifecycle!Create(j) \/ OnceLifecycle!GiveUp(j)
      BY <2>2, <2>5, <2>6, RequestOnce
    <2>7. ASSUME NEW w \in Workers, ExecuteStep(w)
          PROVE  \/ UNCHANGED jobs
                 \/ \E j \in Jobs : \/ OnceLifecycle!Start(j) \/ OnceLifecycle!Publish(j)
                                    \/ OnceLifecycle!GiveUp(j)
      BY <2>3, <2>4, <2>5, <2>7, ExecuteOnce
    <2>8. CASE /\ ~ \E j \in Jobs : ApiStep(j)
               /\ ~ \E w \in Workers : ExecuteStep(w)
      BY <2>1, <2>8, BystanderSteps
    <2> QED
      BY <2>1, <2>6, <2>7, <2>8 DEF OnceLifecycle!Next
  <1> QED
    BY <1>1, <1>2, <1>3, Invariance, PTL DEF Spec, OnceLifecycle!Spec

-----------------------------------------------------------------------------
(* Where a failure is on record before it is settled *)

\* No job's context is done.
Undisturbed == expired = {} /\ \A p \in Procs : phase[p] \notin {"draining", "abandoned"}

\* A claim about to be written, and a failure to be settled, is of a job whose
\* record is not in processing.
RecordedInv ==
    \A w \in Workers : pc[w] \in {"claim", "nack"} => jobs[cur[w]].status # "processing"

\* Without job timeouts and signals no context ends.
LEMMA UndisturbedStep ==
    ASSUME "timeout" \notin Disturbances, "signal" \notin Disturbances,
           Inv, Undisturbed, [Next]_vars
    PROVE  Undisturbed'
  <1> USE DEF Inv, TypeOK, PoolTypeOK, Undisturbed
  <1>1. ASSUME NEW j \in Jobs, ApiStep(j)
        PROVE  Undisturbed'
    BY <1>1 DEF ApiStep, Enqueue, poolVars
  <1>2. ASSUME NEW w \in Workers, ExecuteStep(w) \/ SettleDelivery(w) \/ ExitWorker(w)
        PROVE  Undisturbed'
    BY <1>2
    DEF ExecuteStep, Execute, Load, Claim, Transform, StoreResult, ResultStored, MarkDone, Fail,
        SettleDelivery, Settled, ExitWorker, Exit
  <1>3. ASSUME NEW w \in Workers, NEW j \in Jobs, TakeDelivery(w, j)
        PROVE  Undisturbed'
    BY <1>3 DEF TakeDelivery, Take
  <1>4. ASSUME NEW p \in Procs, Consume(p) \/ AbandonJobs(p) \/ ReturnFromRun(p)
        PROVE  Undisturbed'
    BY <1>4 DEF Consume, AbandonJobs, ShutdownTimeout, ReturnFromRun, Return, poolVars
  <1>5. CASE DeadLetter \/ UNCHANGED vars
    BY <1>5 DEF DeadLetter, vars, poolVars
  <1>6. CASE Disturb
    BY <1>6 DEF Disturb, TimeOut, Crash, Restart, poolVars
  <1> QED
    BY <1>1, <1>2, <1>3, <1>4, <1>5, <1>6 DEF Next

\* A worker whose calls are answered has written the end of its job when it
\* settles.
LEMMA ExecuteRecorded ==
    ASSUME RepoFaults = {}, Inv, OneHolder, Undisturbed, RecordedInv,
           NEW w \in Workers, ExecuteStep(w)
    PROVE  RecordedInv'
  <1> USE DEF Inv, TypeOK
  <1> DEFINE j == cur[w]
  <1>1. pc[w] \in Busy
    BY DEF ExecuteStep, Execute, Load, Claim, Transform, StoreResult, ResultStored, MarkDone, Fail,
           Busy, Executing
  <1>2. j \in Jobs /\ msg[j] = "inflight" /\ jobs[j].status # "absent"
    BY <1>1 DEF DeliveryInv, MessageHasInput, OneHolder
  <1>3. /\ UNCHANGED cur /\ \A v \in Workers \ {w} : pc'[v] = pc[v]
        /\ \A k \in Jobs \ {j} : jobs'[k] = jobs[k]
    BY DEF ExecuteStep, Execute, Load, Claim, Transform, StoreResult, ResultStored, MarkDone, Fail,
           UpdateStatus, Conclude, Goto, storeVars, PoolTypeOK, StoreTypeOK
  <1>4. \A v \in Workers \ {w} : pc[v] \in {"claim", "nack"} => cur[v] \in Jobs /\ cur[v] # j
    BY <1>1 DEF OneHolder, DeliveryInv, Busy, Executing, Settling
  <1>5. SUFFICES pc'[w] \in {"claim", "nack"} => jobs'[j].status # "processing"
    BY <1>3, <1>4 DEF RecordedInv
  <1>6. Outcomes(JobLive(w), RepoFaults) = {"ok"}
    BY ProcOfWorker DEF Outcomes, JobLive, Undisturbed
  <1>7. CASE Load(w)
    BY <1>2, <1>6, <1>7 DEF Load, RepoOk, Conclude, Goto, PoolTypeOK, storeVars
  <1>8. CASE Claim(w)
    BY <1>2, <1>6, <1>8 DEF Claim, RepoOk, Goto, PoolTypeOK
  <1>9. CASE Transform(w) \/ StoreResult(w)
    BY <1>9 DEF Transform, StoreResult, ResultStored, Goto, PoolTypeOK
  <1>10. CASE MarkDone(w)
    BY <1>2, <1>6, <1>10 DEF MarkDone, RepoOk, Conclude, Goto, PoolTypeOK
  <1>11. CASE Fail(w)
    <2>1. UpdateStatus(j, "failed", "unset", "set", "ok")
      BY <1>6, <1>11 DEF Fail
    <2> QED
      BY <1>2, <2>1 DEF UpdateStatus, StoreTypeOK
  <1> QED
    BY <1>7, <1>8, <1>9, <1>10, <1>11 DEF ExecuteStep, Execute

\* Only a worker at a call of ProcessJob gets to its claim or to a failure, and
\* only a claim puts a record in processing.
LEMMA OthersRecorded ==
    ASSUME Inv, RecordedInv, [Next]_vars, ~ \E w \in Workers : ExecuteStep(w)
    PROVE  RecordedInv'
  <1> USE DEF Inv, TypeOK
  <1>1. ASSUME NEW j \in Jobs, ApiStep(j)
        PROVE  RecordedInv'
    <2>1. UNCHANGED <<pc, cur>>
      BY <1>1 DEF ApiStep, Enqueue, poolVars
    <2>2. \A k \in Jobs : jobs'[k].status = "processing" => jobs[k].status = "processing"
      BY <1>1
      DEF ApiStep, CreateStep, Begin, StoreOriginal, OriginalStored, SaveJob, Save, NewJob,
          MarkFailed, UpdateStatus, Enqueue, EnqueueAccepted, EnqueueRefused, StoreTypeOK,
          storeVars
    <2>3. \A w \in Workers : pc[w] \in {"claim", "nack"} => cur[w] \in Jobs
      BY DEF DeliveryInv, Busy, Executing, Settling
    <2> QED
      BY <2>1, <2>2, <2>3 DEF RecordedInv
  <1>2. CASE ~ \E j \in Jobs : ApiStep(j)
    BY <1>2, BystanderSteps DEF RecordedInv
  <1> QED
    BY <1>1, <1>2

\* So pool.go is right that a failure is on record when it is settled, where
\* jobs have no timeout, no process is told to stop, no message reappears while it
\* is held and the repository does not fail: a storage fault, a queue fault, a
\* crash and the redelivery after it, or a client that hangs up does not make it
\* wrong.  The run that refutes FailureIsRecorded shows that a job timeout alone
\* does.
THEOREM FailuresAreRecorded ==
    ASSUME RepoFaults = {},
           Disturbances \cap {"timeout", "signal", "visibility"} = {}
    PROVE  Spec => []FailureIsRecorded
  <1> DEFINE IInv == OneHolder /\ Undisturbed /\ RecordedInv
  <1>1. Init => IInv
    BY DEF Init, PoolInit, QueueInit, OneHolder, Undisturbed, RecordedInv, Busy, Executing,
           Settling
  <1>2. Inv /\ IInv /\ [Next]_vars => IInv'
    <2> SUFFICES ASSUME Inv, IInv, [Next]_vars
                 PROVE  IInv'
      OBVIOUS
    <2>1. OneHolder' /\ Undisturbed'
      BY HolderStep, UndisturbedStep
    <2>2. RecordedInv'
      BY ExecuteRecorded, OthersRecorded
    <2> QED
      BY <2>1, <2>2
  <1>3. IInv => FailureIsRecorded
    BY DEF RecordedInv, FailureIsRecorded
  <1> HIDE DEF IInv
  <1> QED
    BY <1>1, <1>2, <1>3, Invariance, PTL DEF Spec
=============================================================================
