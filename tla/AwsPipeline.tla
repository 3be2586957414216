---------------------------- MODULE AwsPipeline -----------------------------
(***************************************************************************)
(* The system on the AWS backend: the API's CreateJob, one or more worker  *)
(* processes with a pool each, and the SQS queue, the DynamoDB table and   *)
(* the S3 bucket they share.                                               *)
(***************************************************************************)
EXTENDS CreateJob, SqsQueue

CONSTANT Disturbances   \* the events of the environment that may happen;
                        \* "visibility": a delivery may outlast its visibility
                        \* timeout while somebody has it

ASSUME DisturbanceAssumption ==
    Disturbances \subseteq
        {"hangup", "apicrash", "timeout", "visibility", "signal", "crash", "restart"}

vars == <<storeVars, createVars, poolVars, queueVars>>

TypeOK == StoreTypeOK /\ CreateTypeOK /\ PoolTypeOK /\ QueueTypeOK

Init == StoreInit /\ CreateInit /\ PoolInit /\ QueueInit

-----------------------------------------------------------------------------
(* The API *)

Enqueue(j) ==
    /\ \E o \in Outcomes(RequestLive(j), QueueFaults) :
          /\ Send(j, o)
          /\ IF o = "ok" THEN EnqueueAccepted(j) ELSE EnqueueRefused(j)
    /\ UNCHANGED poolVars

ApiStep(j) == (CreateStep(j) /\ UNCHANGED <<poolVars, queueVars>>) \/ Enqueue(j)

-----------------------------------------------------------------------------
(* The workers *)

TakeDelivery(w, j) ==
    /\ HandOver(Proc(w), j)
    /\ Take(w, j)
    /\ UNCHANGED createVars

ExecuteStep(w) == Execute(w) /\ UNCHANGED <<createVars, queueVars>>

\* settle runs under a context of its own, so an expired job still settles.
SettleDelivery(w) ==
    /\ Settled(w)
    /\ IF pc[w] = "ack" THEN Ack(Proc(w), cur[w]) ELSE Nack(Proc(w), cur[w])
    /\ UNCHANGED createVars

ExitWorker(w) == Exit(w) /\ UNCHANGED <<createVars, queueVars>>

\* Run returns, main does, and the process is gone.
ReturnFromRun(p) == Return(p) /\ AdapterGone(p) /\ UNCHANGED createVars

AbandonJobs(p) == ShutdownTimeout(p) /\ UNCHANGED <<createVars, queueVars>>

Consume(p) ==
    /\ Receive(p) \/ ReceiveFailed(p) \/ BackoffOver(p) \/ CloseConsumer(p)
    /\ UNCHANGED <<storeVars, createVars, poolVars>>

-----------------------------------------------------------------------------
(* The environment *)

\* Somebody has a delivery of the job: a batch it waits in, or a worker.
Held(j) ==
    \/ \E p \in Procs : j \in batch[p]
    \/ \E w \in Workers : pc[w] \in Executing \cup Settling /\ cur[w] = j

\* The job timeout; a pool without one (WithJobTimeout of zero) never times out.
TimeOut(w) ==
    /\ "timeout" \in Disturbances
    /\ JobTimeout(w)
    /\ UNCHANGED <<createVars, queueVars>>

\* A delivery nobody has any more, of a process that died, a batch dropped or an
\* answer lost, always reappears at some time.  With "visibility" so does one that
\* is still held: the timeout is shorter than the way to its settling.
Disturb ==
    \/ /\ "hangup" \in Disturbances
       /\ \E j \in Jobs : HangUp(j)
       /\ UNCHANGED <<poolVars, queueVars>>
    \/ /\ "apicrash" \in Disturbances
       /\ ApiCrash
       /\ UNCHANGED <<poolVars, queueVars>>
    \/ \E w \in Workers : TimeOut(w)
    \/ /\ \E j \in Jobs : VisibilityTimeout(j) /\ (Held(j) => "visibility" \in Disturbances)
       /\ UNCHANGED <<storeVars, createVars, poolVars>>
    \/ /\ "signal" \in Disturbances
       /\ \E p \in Procs : Cancel(p)
       /\ UNCHANGED <<createVars, queueVars>>
    \/ /\ "crash" \in Disturbances
       /\ \E p \in Procs : Crash(p) /\ AdapterGone(p)
       /\ UNCHANGED createVars
    \/ /\ "restart" \in Disturbances
       /\ \E p \in Procs : Restart(p) /\ AdapterOpened(p)
       /\ UNCHANGED createVars

DeadLetter ==
    /\ \E j \in Jobs : Redrive(j)
    /\ UNCHANGED <<storeVars, createVars, poolVars>>

Next ==
    \/ \E j \in Jobs : ApiStep(j)
    \/ \E w \in Workers, j \in Jobs : TakeDelivery(w, j)
    \/ \E w \in Workers : ExecuteStep(w) \/ SettleDelivery(w) \/ ExitWorker(w)
    \/ \E p \in Procs : Consume(p) \/ AbandonJobs(p) \/ ReturnFromRun(p)
    \/ DeadLetter
    \/ Disturb

Spec == Init /\ [][Next]_vars

\* A port call may hang until its context is done; the adapters honour that.
\* The shutdown timer fires, goroutines that can go on do, settle has a timeout
\* of its own; the job timeout is an option, so it need not fire.
HangFairness ==
    /\ \A w \in Workers :
          /\ WF_vars(ExecuteStep(w) /\ ~JobLive(w))
          /\ WF_vars(SettleDelivery(w))
          /\ WF_vars(ExitWorker(w))
    /\ \A p \in Procs :
          /\ WF_vars(AbandonJobs(p))
          /\ WF_vars(ReturnFromRun(p))
          /\ WF_vars(CloseConsumer(p) /\ UNCHANGED <<storeVars, createVars, poolVars>>)

HangSpec == Spec /\ HangFairness

\* Every call returns, and every worker and consumer keeps going.
CallFairness ==
    /\ \A w \in Workers : WF_vars(ExecuteStep(w)) /\ WF_vars(SettleDelivery(w))
    /\ \A p \in Procs :
          /\ WF_vars(Consume(p))
          /\ WF_vars(\E w \in WorkersOf(p), j \in Jobs : TakeDelivery(w, j))

FairSpec == Spec /\ CallFairness

-----------------------------------------------------------------------------
(* Safety *)

\* A message on the queue names a job whose record is saved and whose original
\* is stored, however the calls of CreateJob fail: a worker never meets a job
\* it cannot load (create_job.go stores, saves, and only then enqueues).
MessageHasInput ==
    \A j \in Jobs :
        msg[j] # "none" =>
            jobs[j].status # "absent" /\ OriginalKey(j) \in objects

\* An accepted job that is still pending has its message at the broker: no
\* failed call, timeout, shutdown, crash or stale receipt deletes the message
\* of a job nobody has claimed (settle acknowledges only a finished or an
\* already claimed job).
AcceptedNotLost ==
    \A j \in Jobs :
        req[j] = "accepted" /\ jobs[j].status = "pending" =>
            msg[j] \in {"visible", "inflight", "dead"}

\* The result key a client is shown leads to a stored object, also after a
\* second worker has overwritten the status, and a done job has one
\* (process_job.go stores the result before it marks the job done).
ResultIsStored ==
    \A j \in Jobs :
        /\ jobs[j].resultKey = "set" => ResultKey(j) \in objects
        /\ jobs[j].status = "done" => jobs[j].resultKey = "set"

\* A client is shown an error exactly while the job is failed, whatever order
\* the writers of a redelivered job come in (UpdateStatus clears the error).
ErrorIsFailure ==
    \A j \in Jobs : jobs[j].error = "set" <=> jobs[j].status = "failed"

\* The calls of a worker whose claim is written and whose last write is not.
PastClaim == {"transform", "store", "finish", "fail"}

\* Nobody is left who read the record before it was terminal: no worker between
\* its load and its last write, and no request that may still mark it failed.
Finished(j) ==
    /\ Terminal(jobs[j].status)
    /\ req[j] \notin {"enqueue", "mark"}
    /\ \A w \in Workers : cur[w] = j => pc[w] \notin PastClaim \cup {"claim"}

\* From then on the record never changes again, however often the message is
\* delivered and whichever process restarts: a terminal status alone is not
\* final, this is (Execute skips what is not pending).
FinishedIsFinal ==
    [][\A j \in Jobs : Finished(j) => jobs'[j] = jobs[j] /\ Finished(j)']_vars

\* The records behave as the lifecycle that allows redelivery.
Lifecycle == INSTANCE JobLifecycle WITH
    Redelivery <- TRUE,
    status     <- [j \in Jobs |-> jobs[j].status],
    published  <- {j \in Jobs : jobs[j].resultKey = "set"}

RefinesLifecycle == Lifecycle!Spec

-----------------------------------------------------------------------------
(* Liveness *)

\* A signal ends the process: Run returns, even if calls hang until their
\* context is done and jobs have no timeout of their own, because the pool
\* cancels the jobs that outlast the shutdown timeout.
RunReturns ==
    \A p \in Procs : phase[p] = "draining" ~> phase[p] \notin Up

\* A hanging call does not cost the pool a worker: where jobs have a timeout it
\* frees the worker, and the delivery is settled under a context of its own.
WorkerIsFreed ==
    (\A w \in Workers : WF_vars(TimeOut(w))) =>
        \A w \in Workers : pc[w] \in Executing ~> pc[w] \in {"idle", "exited"}

\* Without faults of the stores, timeouts and crashes every accepted job ends
\* done or failed and stays so, however often its message is redelivered.
AcceptedSettles ==
    \A j \in Jobs : req[j] = "accepted" ~> []Terminal(jobs[j].status)

-----------------------------------------------------------------------------
(* What comments in the code say, and the code does not guarantee *)

\* create_job.go: if enqueueing fails the job is marked failed, so that it is
\* not left pending forever.
RefusedIsMarked ==
    \A j \in Jobs : req[j] = "failed" => jobs[j].status # "pending"

\* pool.go: by the time a failure is settled the use case has recorded it, so
\* the state a client polls for is correct.
FailureIsRecorded ==
    \A w \in Workers : pc[w] = "nack" => jobs[cur[w]].status # "processing"
=============================================================================
