---------------------------- MODULE LocalBackend ----------------------------
(***************************************************************************)
(* The two commands on the memory backend, each a process of its own with  *)
(* its queue and its records in memory, and its objects on disk.           *)
(*                                                                         *)
(* The worker submits the images named on its command line through         *)
(* CreateJob, one after the other, and only then runs the pool that works  *)
(* on them.  The API serves uploads at the same time, and nobody consumes  *)
(* what it enqueues.  Its shutdown waits for the requests under way, then  *)
(* closes their connections, which ends their contexts.  Both close the    *)
(* queue before they exit.                                                 *)
(***************************************************************************)
EXTENDS CreateJob, LocalStorage, MemQueue, FiniteSets

CONSTANT Disturbances   \* the events of the environment that may happen

\* No call of memrepo or localstorage takes effect and fails all the same.
ASSUME LocalAssumption ==
    /\ Disturbances \subseteq {"signal", "timeout", "hangup", "listener", "kill"}
    /\ "lost" \notin RepoFaults \cup StorageFaults
    /\ IsFiniteSet(Jobs) /\ IsFiniteSet(Slots)

VARIABLES
    main,           \* how far the command has come
    metrics         \* the goroutine of the worker's metrics server

vars == <<storeVars, createVars, poolVars, memVars, diskVars, main, metrics>>

WorkerPhases == {"seeding", "pool", "reporting"}

ApiPhases == {"serving", "draining"}

\* Main is in the deferred calls: with no request under way, with requests whose
\* connections it closed, with requests it did nothing about.
ClosingPhases == {"closing", "severed", "deserted"}

Gone == {"exited", "aborted", "killed"}

TypeOK ==
    /\ StoreTypeOK /\ CreateTypeOK /\ PoolTypeOK /\ MemTypeOK /\ DiskTypeOK
    /\ main \in WorkerPhases \cup ApiPhases \cup ClosingPhases \cup Gone
    /\ metrics \in {"none", "listening", "returned"}

Init ==
    /\ StoreInit /\ CreateInit /\ PoolInit /\ MemInit /\ DiskInit
    /\ \/ main = "seeding" /\ metrics = "listening"
       \/ main = "serving" /\ metrics = "none"

-----------------------------------------------------------------------------
(* CreateJob, by seed or by the upload handler *)

\* Seed takes the images one by one.  An upload begins on a connection that is
\* not closed, and goes on until the process ends.
Turn(j) ==
    \/ /\ main = "seeding"
       /\ \A k \in Jobs \ {j} : req[k] \in {"new", "accepted"}
    \/ main \in {"serving", "draining", "deserted"}
    \/ main = "severed" /\ req[j] # "new"

CreateCall(j) ==
    /\ Turn(j)
    /\ Begin(j) \/ SaveJob(j) \/ MarkFailed(j)
    /\ UNCHANGED <<poolVars, memVars, diskVars, main, metrics>>

\* The steps of a Put before it returns.
PutProceeds(k, live) ==
    /\ PutBegins(k, live) \/ PutCopies(k)
    /\ UNCHANGED <<storeVars, createVars, poolVars, memVars, main, metrics>>

CreatePut(j) ==
    /\ Turn(j)
    /\ req[j] = "store"
    /\ \/ PutProceeds(OriginalKey(j), RequestLive(j))
       \/ /\ \E o \in {"ok"} \cup Faults :
                PutReturns(OriginalKey(j), RequestLive(j), o) /\ OriginalStored(j, o)
          /\ UNCHANGED <<poolVars, memVars, main, metrics>>

\* Enqueue takes the lock, and sends, or gives up once the context is done.
CreateEnqueue(j) ==
    /\ Turn(j)
    /\ req[j] = "enqueue"
    /\ \/ RLock(j) /\ UNCHANGED <<storeVars, createVars>>
       \/ Offer(j) /\ EnqueueAccepted(j)
       \/ ~RequestLive(j) /\ GiveUp(j) /\ EnqueueRefused(j)
       \/ SendRefused(j) /\ EnqueueRefused(j)
    /\ UNCHANGED <<poolVars, diskVars, main, metrics>>

SubmitStep(j) == CreateCall(j) \/ CreatePut(j) \/ CreateEnqueue(j)

-----------------------------------------------------------------------------
(* The worker command *)

StartPool ==
    /\ main = "seeding"
    /\ \A j \in Jobs : req[j] = "accepted"
    /\ main' = "pool"
    /\ UNCHANGED <<storeVars, createVars, poolVars, memVars, diskVars, metrics>>

\* The error of one image ends the command: no pool is run.
SeedError ==
    /\ main = "seeding"
    /\ \E j \in Jobs : req[j] = "failed"
    /\ main' = "closing"
    /\ UNCHANGED <<storeVars, createVars, poolVars, memVars, diskVars, metrics>>

FetchNext ==
    /\ main = "pool"
    /\ Fetch \/ Quit
    /\ UNCHANGED <<storeVars, createVars, poolVars, diskVars, main, metrics>>

TakeDelivery(w, j) ==
    /\ main = "pool"
    /\ Pass(j)
    /\ Take(w, j)
    /\ UNCHANGED <<createVars, diskVars, main, metrics>>

\* The queue is no Acknowledger, so settle does nothing.
WorkerStep(w) ==
    /\ main = "pool"
    /\ \/ Load(w) \/ Claim(w) \/ Transform(w) \/ MarkDone(w) \/ Fail(w)
       \/ Settled(w) \/ Exit(w)
    /\ UNCHANGED <<createVars, memVars, diskVars, main, metrics>>

WorkerPut(w) ==
    /\ main = "pool"
    /\ pc[w] = "store"
    /\ \/ PutProceeds(ResultKey(cur[w]), JobLive(w))
       \/ /\ \E o \in {"ok"} \cup Faults :
                PutReturns(ResultKey(cur[w]), JobLive(w), o) /\ ResultStored(w, o)
          /\ UNCHANGED <<createVars, memVars, main, metrics>>

AbandonJobs ==
    /\ main = "pool"
    /\ ShutdownTimeout(Process)
    /\ UNCHANGED <<createVars, memVars, diskVars, main, metrics>>

ReturnFromRun ==
    /\ main = "pool"
    /\ Return(Process)
    /\ main' = "reporting"
    /\ UNCHANGED <<createVars, memVars, diskVars, metrics>>

\* ListenAndServe of the metrics server returns: with an error at any time,
\* which nobody looks at yet, or once Shutdown has been called.
MetricsReturn ==
    /\ metrics = "listening"
    /\ main = "reporting" \/ (main \in WorkerPhases /\ "listener" \in Disturbances)
    /\ metrics' = "returned"
    /\ UNCHANGED <<storeVars, createVars, poolVars, memVars, diskVars, main>>

\* Shutdown has returned, after its timeout at the latest, and what the server
\* returned is received.
Reported ==
    /\ main = "reporting" /\ metrics = "returned"
    /\ main' = "closing"
    /\ UNCHANGED <<storeVars, createVars, poolVars, memVars, diskVars, metrics>>

-----------------------------------------------------------------------------
(* The API command *)

Served == \A j \in Jobs : req[j] \notin Active

\* Shutdown returns nil once no request is under way.
Drained ==
    /\ main = "draining" /\ Served
    /\ main' = "closing"
    /\ UNCHANGED <<storeVars, createVars, poolVars, memVars, diskVars, metrics>>

\* Mutant: a shutdown that timed out does not close the connections.
SeverOmitted ==
    /\ main = "draining" /\ ~Served
    /\ main' = "deserted"
    /\ UNCHANGED <<storeVars, createVars, poolVars, memVars, diskVars, metrics>>

\* Shutdown times out, and server.Close closes the connections.
Sever ==
    /\ main = "draining" /\ ~Served
    /\ main' = "severed"
    /\ UNCHANGED <<storeVars, createVars, poolVars, memVars, diskVars, metrics>>

\* ListenAndServe returns an error: run returns it, with no Shutdown.
ServeError ==
    /\ "listener" \in Disturbances
    /\ main = "serving"
    /\ main' = "deserted"
    /\ UNCHANGED <<storeVars, createVars, poolVars, memVars, diskVars, metrics>>

\* A request learns in its own time that its connection is closed.
ContextEnds(j) ==
    /\ \/ main = "severed"
       \/ main \in {"serving", "draining", "deserted"} /\ "hangup" \in Disturbances
    /\ HangUp(j)
    /\ UNCHANGED <<poolVars, memVars, diskVars, main, metrics>>

-----------------------------------------------------------------------------
(* The deferred Close of the queue, and the end of the process *)

CloseQueue ==
    /\ main \in ClosingPhases
    /\ LockForClose \/ CloseChannel
    /\ UNCHANGED <<storeVars, createVars, poolVars, diskVars, main, metrics>>

\* What still runs ends with the process.
ExitProcess ==
    /\ main \in ClosingPhases /\ closing = "closed"
    /\ main' = IF main = "closing" THEN "exited" ELSE "aborted"
    /\ UNCHANGED <<storeVars, createVars, poolVars, memVars, diskVars, metrics>>

-----------------------------------------------------------------------------
(* The environment *)

Signal ==
    /\ "signal" \in Disturbances
    /\ \/ /\ main \in {"seeding", "pool"}
          /\ Cancel(Process)
          /\ hungUp' = Jobs
          /\ UNCHANGED <<req, memVars, diskVars, main, metrics>>
       \/ /\ main = "serving"
          /\ main' = "draining"
          /\ UNCHANGED <<storeVars, createVars, poolVars, memVars, diskVars, metrics>>

Timeout ==
    /\ "timeout" \in Disturbances
    /\ main = "pool"
    /\ \E w \in Workers : JobTimeout(w)
    /\ UNCHANGED <<createVars, memVars, diskVars, main, metrics>>

\* The process is killed: what it had in memory no longer matters.
Kill ==
    /\ "kill" \in Disturbances
    /\ main \notin Gone
    /\ main' = "killed"
    /\ UNCHANGED <<storeVars, createVars, poolVars, memVars, diskVars, metrics>>

Next ==
    \/ \E j \in Jobs : SubmitStep(j) \/ ContextEnds(j)
    \/ StartPool \/ SeedError
    \/ FetchNext
    \/ \E w \in Workers, j \in Jobs : TakeDelivery(w, j)
    \/ \E w \in Workers : WorkerStep(w) \/ WorkerPut(w)
    \/ AbandonJobs \/ ReturnFromRun \/ MetricsReturn \/ Reported
    \/ Drained \/ Sever \/ ServeError
    \/ CloseQueue \/ ExitProcess
    \/ Signal \/ Timeout \/ Kill

Spec == Init /\ [][Next]_vars

\* What the process does goes on while it can: none of these calls hangs, an
\* image is transformed in a finite time, the two shutdown timeouts expire, and
\* a closed connection ends the context of its request.
Fairness ==
    /\ \A j \in Jobs : WF_vars(req[j] # "new" /\ SubmitStep(j))
    /\ WF_vars(main = "seeding" /\ \E j \in Jobs : Begin(j) /\ SubmitStep(j))
    /\ WF_vars(StartPool) /\ WF_vars(SeedError)
    /\ WF_vars(FetchNext)
    /\ WF_vars(\E w \in Workers, j \in Jobs : TakeDelivery(w, j))
    /\ \A w \in Workers : WF_vars(WorkerStep(w)) /\ WF_vars(WorkerPut(w))
    /\ WF_vars(AbandonJobs) /\ WF_vars(ReturnFromRun)
    /\ WF_vars(main = "reporting" /\ MetricsReturn) /\ WF_vars(Reported)
    /\ WF_vars(Drained \/ Sever)
    /\ \A j \in Jobs : WF_vars(main = "severed" /\ ContextEnds(j))
    /\ WF_vars(CloseQueue) /\ WF_vars(ExitProcess)

FairSpec == Spec /\ Fairness

-----------------------------------------------------------------------------
(* Properties *)

\* The places in which job j waits or is worked on.
Places(j) ==
    Cardinality({i \in 1..Len(chan) : chan[i] = j})
    + Cardinality({h \in {held} : h = j})
    + Cardinality({w \in Workers : cur[w] = j})

\* A job is never in two places at once: no two workers run it, and none that
\* was handed over waits again (the queue delivers an identifier to exactly one
\* consumer, and each goroutine on the way gives up what it passes on).
DeliveredOnce == \A j \in Jobs : Places(j) <= 1

\* No accepted job vanishes: until a signal each one waits in the queue, is
\* being executed, or was counted once by a worker, whichever way its calls
\* and its timeout went.  After the signal some may be dropped, none doubled.
EveryJobCounted ==
    LET waiting   == Len(chan) + Cardinality({held} \ {NoDelivery})
        executing == Cardinality({w \in Workers : pc[w] \in Executing})
        counted   == stats[Process]["processed"] + stats[Process]["failed"]
                       + stats[Process]["skipped"]
        accepted  == Cardinality({j \in Jobs : req[j] = "accepted"})
    IN  /\ waiting + executing + counted <= accepted
        /\ phase[Process] = "running" => waiting + executing + counted = accepted

\* The pool's counters tell the truth about the records: as many jobs were
\* processed as are done, no delivery was a duplicate, and every failed record
\* of an accepted job was counted (handle counts, the use case records).
CountersMatchRecords ==
    /\ stats[Process]["processed"] = Cardinality({j \in Jobs : jobs[j].status = "done"})
    /\ stats[Process]["skipped"] = 0
    /\ stats[Process]["failed"] >=
         Cardinality({j \in Jobs : req[j] = "accepted" /\ jobs[j].status = "failed"})

\* With a queue that delivers once the records follow the strict lifecycle: no
\* job leaves a terminal status, and only a claimed one is done.
Lifecycle == INSTANCE JobLifecycle WITH
    Redelivery <- FALSE,
    status     <- [j \in Jobs |-> jobs[j].status],
    published  <- {j \in Jobs : jobs[j].resultKey = "set"}

RefinesStrictLifecycle == Lifecycle!Spec

\* Get never observes a half-written object, whenever the process dies: a file
\* under a key's name is complete, and it is there exactly when its Put has
\* succeeded (the temporary file and the rename).
StorageContract ==
    \A k \in Keys : file[k] = IF k \in objects THEN "whole" ELSE "none"

\* A command that ends by itself leaves no temporary file behind, whichever of
\* its writes failed or were interrupted; only an abort or a kill may.
CleanExitLeavesNoTemp == main = "exited" => \A k \in Keys : temp[k] = "none"

\* Nobody sends on a closed channel, which would panic: Close waits for every
\* Enqueue that has looked at the closed flag.
NoSendAfterClose == closing = "closed" => senders = {}

\* A signal ends the command, though Close waits for the requests that are
\* blocked on a full queue nobody consumes: the shutdown timeout cuts them off
\* before the queue is closed, and abandons the jobs that still run.
CommandExits ==
    /\ main \in {"draining", "severed"} ~> main \in Gone
    /\ phase[Process] # "running" ~> main \in Gone

\* The worker's queue is filled before anyone consumes it.  Submitting the
\* images ends when the buffer has a place for each, whatever happens to them;
\* with a shorter one it may block for good.
SeedingEnds == buffer >= Cardinality(Jobs) => <>(main # "seeding")
=============================================================================
