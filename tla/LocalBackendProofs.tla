------------------------- MODULE LocalBackendProofs -------------------------
(***************************************************************************)
(* Safety of LocalBackend for every number of jobs and workers, every      *)
(* capacity of the queue and every set of disturbances.                    *)
(***************************************************************************)
EXTENDS LocalBackend, PoolProofs, FiniteSetTheorems

(* The inductive invariant *)

Queued(j) == \E i \in 1..Len(chan) : chan[i] = j

\* The states of a worker that has no delivery.
Free == {"idle", "exited"}

\* What each phase of the command leaves behind it: the pool runs when every
\* image was accepted, and no request and no worker is under way when the
\* command ends by itself.
MainInv ==
    /\ main \in {"pool", "reporting"} => \A j \in Jobs : req[j] = "accepted"
    /\ main = "seeding" =>
          \A j, k \in Jobs : j # k => \/ req[j] \in {"new", "accepted"}
                                      \/ req[k] \in {"new", "accepted"}
    /\ main \in {"closing", "exited"} => Served
    /\ main \notin {"pool", "killed"} => \A w \in Workers : pc[w] \in Free

\* A job is in the channel once, or with the consumer goroutine, or with one
\* worker, and then its Enqueue has succeeded.
PlaceInv ==
    /\ \A i, k \in 1..Len(chan) : chan[i] = chan[k] => i = k
    /\ \A j \in Jobs : held = j => ~Queued(j)
    /\ \A w \in Workers : cur[w] \in Jobs => ~Queued(cur[w]) /\ cur[w] # held
    /\ \A v, w \in Workers : v # w /\ cur[v] = cur[w] => cur[v] = NoDelivery
    /\ \A w \in Workers : pc[w] \in Free <=> cur[w] = NoDelivery
    /\ \A j \in Jobs : Queued(j) \/ held = j => req[j] = "accepted"
    /\ \A w \in Workers : cur[w] \in Jobs => req[cur[w]] = "accepted"

\* What each actor knows about the record of its job: nobody else writes it.
RecordInv ==
    /\ \A j \in Jobs :
          /\ req[j] \in {"new", "store", "save"} => jobs[j].status = "absent"
          /\ req[j] \in {"enqueue", "mark"} => jobs[j].status = "pending"
          /\ Queued(j) \/ held = j => jobs[j].status = "pending"
          /\ jobs[j].status # "done" => jobs[j].resultKey = "unset"
    /\ \A w \in Workers :
          /\ pc[w] \in {"load", "claim"} => jobs[cur[w]].status = "pending"
          /\ pc[w] \in {"transform", "store", "finish", "fail"} =>
                jobs[cur[w]].status = "processing"

\* A temporary file belongs to a Put that is under way.
TempInv ==
    \A j \in Jobs :
        /\ temp[OriginalKey(j)] # "none" => req[j] = "store"
        /\ temp[ResultKey(j)] # "none" =>
              \E w \in Workers : cur[w] = j /\ pc[w] = "store"

Inv ==
    /\ TypeOK
    /\ MainInv
    /\ PlaceInv
    /\ RecordInv
    /\ TempInv
    /\ StorageContract
    /\ NoSendAfterClose
    /\ EveryJobCounted
    /\ CountersMatchRecords

-----------------------------------------------------------------------------
(* The operators of the model *)

\* There is one process, and every worker is a goroutine of it.
LEMMA OneProcess == Procs = {Process} /\ \A w \in Workers : Proc(w) = Process
  BY MemAssumption DEF Workers, Proc

\* A call of this backend succeeds, or fails without an effect.
LEMMA NothingLost ==
    /\ \A live : Outcomes(live, RepoFaults) \subseteq {"ok", "error"}
    /\ \A live : Outcomes(live, StorageFaults) \subseteq {"ok", "error"}
  BY StoreAssumption, LocalAssumption DEF Outcomes, Faults

\* The steps that move a job, a record or an object.
Moves ==
    \/ \E j \in Jobs : SubmitStep(j)
    \/ FetchNext
    \/ \E w \in Workers, j \in Jobs : TakeDelivery(w, j)
    \/ \E w \in Workers : WorkerStep(w) \/ WorkerPut(w)

\* What the moves are about; the other steps leave it alone.
moved == <<jobs, objects, req, pc, cur, stats, buffer, chan, held, temp, file>>

\* The steps that are no moves.
Turns ==
    \/ \E j \in Jobs : ContextEnds(j)
    \/ StartPool \/ SeedError \/ AbandonJobs \/ ReturnFromRun \/ MetricsReturn
    \/ Reported \/ Drained \/ Sever \/ ServeError \/ CloseQueue \/ ExitProcess
    \/ Signal \/ Timeout \/ Kill

\* Every step is a move or a turn of the command.
LEMMA NextSteps == Next => Moves \/ Turns
  BY DEF Next, Moves, Turns

\* The other steps end phases of the command, of the pool and of Close.
LEMMA TurnsLeaveAlone ==
    ASSUME Turns, TypeOK
    PROVE  /\ UNCHANGED moved
           /\ phase'[Process] = "running" => phase[Process] = "running"
  <1> USE DEF storeVars, createVars, poolVars, memVars, diskVars, moved
  <1>1. UNCHANGED moved
    BY DEF Turns, ContextEnds, HangUp, StartPool, SeedError, AbandonJobs, ShutdownTimeout,
           ReturnFromRun, Return, MetricsReturn, Reported, Drained, Sever, ServeError,
           CloseQueue, LockForClose, CloseChannel, ExitProcess, Signal, Cancel, Timeout,
           JobTimeout, Kill
  <1>2. \/ UNCHANGED phase
        \/ AbandonJobs \/ ReturnFromRun \/ Signal
    BY DEF Turns, ContextEnds, HangUp, StartPool, SeedError, MetricsReturn, Reported, Drained,
           Sever, ServeError, CloseQueue, ExitProcess, Timeout, JobTimeout, Kill
  <1>3. phase'[Process] = "running" => phase[Process] = "running"
    BY <1>2, OneProcess
    DEF AbandonJobs, ShutdownTimeout, ReturnFromRun, Return, Signal, Cancel, TypeOK, PoolTypeOK
  <1> QED
    BY <1>1, <1>3

\* Main stays where it is while something moves.
LEMMA MovesInPhase ==
    ASSUME Moves
    PROVE  UNCHANGED <<main, metrics, phase>>
  BY DEF Moves, SubmitStep, CreateCall, CreatePut, PutProceeds, CreateEnqueue, FetchNext,
         TakeDelivery, Take, WorkerStep, Load, Claim, Transform, MarkDone, Fail, Settled, Exit,
         WorkerPut, ResultStored, poolVars

-----------------------------------------------------------------------------
(* Type correctness *)

\* A group of variables that a step leaves alone keeps its type.
LEMMA UnchangedQueueAndDisk ==
    /\ MemTypeOK /\ UNCHANGED memVars => MemTypeOK'
    /\ DiskTypeOK /\ UNCHANGED diskVars => DiskTypeOK'
  <1>1. MemTypeOK /\ UNCHANGED memVars => MemTypeOK'
    BY DEF MemTypeOK, memVars
  <1>2. DiskTypeOK /\ UNCHANGED diskVars => DiskTypeOK'
    BY DEF DiskTypeOK, diskVars
  <1> QED
    BY <1>1, <1>2

\* The steps of the queue keep its types.
LEMMA QueueStepType ==
    ASSUME MemTypeOK, NEW j \in Jobs,
           \/ RLock(j) \/ Offer(j) \/ GiveUp(j) \/ SendRefused(j)
           \/ LockForClose \/ CloseChannel \/ Fetch \/ Pass(j) \/ Quit
    PROVE  MemTypeOK'
  <1> USE DEF MemTypeOK
  <1>1. CASE RLock(j) \/ GiveUp(j) \/ SendRefused(j)
    BY <1>1 DEF RLock, GiveUp, SendRefused, memVars
  <1>2. CASE Offer(j)
    <2>1. chan' \in Seq(Jobs) /\ Len(chan') = Len(chan) + 1
      BY <1>2 DEF Offer
    <2>2. Len(chan') <= buffer
      BY <1>2, <2>1, MemAssumption DEF Offer
    <2> QED
      BY <1>2, <2>1, <2>2 DEF Offer
  <1>3. CASE LockForClose \/ CloseChannel
    BY <1>3 DEF LockForClose, CloseChannel
  <1>4. CASE Fetch
    <2>1. chan' \in Seq(Jobs) /\ Len(chan') = Len(chan) - 1 /\ held' \in Jobs
      BY <1>4 DEF Fetch
    <2>2. Len(chan') <= buffer
      BY <2>1, MemAssumption
    <2> QED
      BY <1>4, <2>1, <2>2 DEF Fetch
  <1>5. CASE Pass(j) \/ Quit
    BY <1>5 DEF Pass, Quit
  <1> QED
    BY <1>1, <1>2, <1>3, <1>4, <1>5

\* The steps of a Put keep the types of the files.
LEMMA PutStepType ==
    ASSUME DiskTypeOK, NEW k \in Keys, NEW live, NEW o,
           PutBegins(k, live) \/ PutCopies(k) \/ PutReturns(k, live, o)
    PROVE  DiskTypeOK'
  BY DEF DiskTypeOK, Contents, PutBegins, PutCopies, PutReturns, PutRenames, PutFails

\* Both commands start well typed.
LEMMA InitType == Init => TypeOK
  <1> SUFFICES ASSUME Init PROVE TypeOK
    OBVIOUS
  <1>1. MemTypeOK
    BY MemAssumption DEF Init, MemInit, MemTypeOK
  <1>2. DiskTypeOK
    BY DEF Init, DiskInit, DiskTypeOK, Contents
  <1> QED
    BY <1>1, <1>2, InitParts
    DEF Init, TypeOK, WorkerPhases, ApiPhases, ClosingPhases, Gone

\* The moves keep the types; a worker that is at work has a job.
LEMMA MovesType ==
    ASSUME TypeOK, PlaceInv, Moves
    PROVE  TypeOK'
  <1> USE DEF TypeOK
  <1>1. UNCHANGED <<main, metrics>>
    BY MovesInPhase
  <1>2. ASSUME NEW j \in Jobs, CreateCall(j)
        PROVE  TypeOK'
    <2>1. StoreTypeOK' /\ CreateTypeOK'
      BY <1>2, CreateCallType DEF CreateCall
    <2> QED
      BY <1>1, <1>2, <2>1, UnchangedParts, UnchangedQueueAndDisk DEF CreateCall
  <1>3. ASSUME NEW j \in Jobs, CreatePut(j)
        PROVE  TypeOK'
    <2>1. OriginalKey(j) \in Keys
      BY KeysType
    <2>2. CASE PutProceeds(OriginalKey(j), RequestLive(j))
      BY <1>1, <2>1, <2>2, PutStepType, UnchangedParts, UnchangedQueueAndDisk DEF PutProceeds
    <2>3. CASE ~PutProceeds(OriginalKey(j), RequestLive(j))
      <3>1. PICK o : PutReturns(OriginalKey(j), RequestLive(j), o) /\ OriginalStored(j, o)
        BY <1>3, <2>3 DEF CreatePut
      <3>2. UNCHANGED <<poolVars, memVars>>
        BY <1>3, <2>3 DEF CreatePut
      <3>3. StoreTypeOK' /\ CreateTypeOK'
        BY <3>1, CreateCallType
      <3>4. DiskTypeOK'
        BY <2>1, <3>1, PutStepType
      <3> QED
        BY <1>1, <3>2, <3>3, <3>4, UnchangedParts, UnchangedQueueAndDisk
    <2> QED
      BY <2>2, <2>3
  <1>4. ASSUME NEW j \in Jobs, CreateEnqueue(j)
        PROVE  TypeOK'
    <2>1. MemTypeOK'
      BY <1>4, QueueStepType DEF CreateEnqueue
    <2>2. StoreTypeOK' /\ CreateTypeOK'
      BY <1>4, UnchangedParts
      DEF CreateEnqueue, EnqueueAccepted, EnqueueRefused, To, CreateTypeOK, ReqStates, Active
    <2> QED
      BY <1>1, <1>4, <2>1, <2>2, UnchangedParts, UnchangedQueueAndDisk DEF CreateEnqueue
  <1>5. ASSUME FetchNext
        PROVE  TypeOK'
    <2>1. MemTypeOK'
      <3>1. CASE Fetch
        <4>1. Head(chan) \in Jobs
          BY <3>1 DEF Fetch, MemTypeOK
        <4> QED
          BY <3>1, <4>1, QueueStepType
      <3>2. CASE Quit
        BY <3>2 DEF Quit, MemTypeOK
      <3> QED
        BY <1>5, <3>1, <3>2 DEF FetchNext
    <2> QED
      BY <1>1, <1>5, <2>1, UnchangedParts, UnchangedQueueAndDisk DEF FetchNext
  <1>6. ASSUME NEW w \in Workers, NEW j \in Jobs, TakeDelivery(w, j)
        PROVE  TypeOK'
    <2>1. StoreTypeOK' /\ PoolTypeOK'
      BY <1>6, OneProcess, PoolStepType DEF TakeDelivery
    <2>2. MemTypeOK'
      BY <1>6, QueueStepType DEF TakeDelivery
    <2> QED
      BY <1>1, <1>6, <2>1, <2>2, UnchangedParts, UnchangedQueueAndDisk DEF TakeDelivery
  <1>7. ASSUME NEW w \in Workers, pc[w] \notin Free
        PROVE  cur[w] \in Jobs
    BY <1>7 DEF PlaceInv, PoolTypeOK
  <1>8. ASSUME NEW w \in Workers, WorkerStep(w)
        PROVE  TypeOK'
    <2>1. StoreTypeOK' /\ PoolTypeOK'
      <3>1. CASE Exit(w)
        BY <3>1, UnchangedParts DEF Exit, Goto, PoolTypeOK, PcStates
      <3>2. CASE Settled(w)
        BY <3>2, UnchangedParts DEF Settled, PoolTypeOK, PcStates
      <3>3. CASE Load(w) \/ Claim(w) \/ Transform(w) \/ MarkDone(w) \/ Fail(w)
        <4>1. cur[w] \in Jobs
          BY <1>7, <3>3 DEF Load, Claim, Transform, MarkDone, Fail, Free
        <4> QED
          BY <3>3, <4>1, ExecuteCallType
      <3> QED
        BY <1>8, <3>1, <3>2, <3>3 DEF WorkerStep
    <2> QED
      BY <1>1, <1>8, <2>1, UnchangedParts, UnchangedQueueAndDisk DEF WorkerStep
  <1>9. ASSUME NEW w \in Workers, WorkerPut(w)
        PROVE  TypeOK'
    <2>1. cur[w] \in Jobs
      BY <1>7, <1>9 DEF WorkerPut, Free
    <2>2. ResultKey(cur[w]) \in Keys
      BY <2>1, KeysType
    <2>3. CASE PutProceeds(ResultKey(cur[w]), JobLive(w))
      BY <1>1, <2>2, <2>3, PutStepType, UnchangedParts, UnchangedQueueAndDisk DEF PutProceeds
    <2>4. CASE ~PutProceeds(ResultKey(cur[w]), JobLive(w))
      <3>1. PICK o : PutReturns(ResultKey(cur[w]), JobLive(w), o) /\ ResultStored(w, o)
        BY <1>9, <2>4 DEF WorkerPut
      <3>2. UNCHANGED <<createVars, memVars>>
        BY <1>9, <2>4 DEF WorkerPut
      <3>3. StoreTypeOK' /\ PoolTypeOK'
        BY <2>1, <3>1, ExecuteCallType
      <3>4. DiskTypeOK'
        BY <2>2, <3>1, PutStepType
      <3> QED
        BY <1>1, <3>2, <3>3, <3>4, UnchangedParts, UnchangedQueueAndDisk
    <2> QED
      BY <2>3, <2>4
  <1> QED
    BY <1>2, <1>3, <1>4, <1>5, <1>6, <1>8, <1>9 DEF Moves, SubmitStep

\* The phases of the command, the pool and Close are well typed.
LEMMA TurnsType ==
    ASSUME TypeOK, Turns
    PROVE  TypeOK'
  <1> USE DEF TypeOK
  <1>1. StoreTypeOK' /\ DiskTypeOK'
    BY TurnsLeaveAlone, UnchangedParts, UnchangedQueueAndDisk DEF moved, storeVars, diskVars
  <1>2. CreateTypeOK'
    <2>1. UNCHANGED req /\ hungUp' \in SUBSET Jobs
      BY TurnsLeaveAlone
      DEF moved, Turns, ContextEnds, HangUp, StartPool, SeedError, AbandonJobs, ReturnFromRun,
          MetricsReturn, Reported, Drained, Sever, ServeError, CloseQueue, ExitProcess, Signal,
          Timeout, Kill, createVars, CreateTypeOK
    <2> QED
      BY <2>1 DEF CreateTypeOK
  <1>3. PoolTypeOK'
    <2>1. phase' \in [Procs -> Phases]
      BY DEF Turns, ContextEnds, StartPool, SeedError, AbandonJobs, ShutdownTimeout,
             ReturnFromRun, Return, MetricsReturn, Reported, Drained, Sever, ServeError,
             CloseQueue, ExitProcess, Signal, Cancel, Timeout, JobTimeout, Kill, poolVars,
             PoolTypeOK, Phases
    <2>2. expired' \in SUBSET Workers
      BY DEF Turns, ContextEnds, StartPool, SeedError, AbandonJobs, ShutdownTimeout,
             ReturnFromRun, Return, MetricsReturn, Reported, Drained, Sever, ServeError,
             CloseQueue, ExitProcess, Signal, Cancel, Timeout, JobTimeout, Kill, poolVars,
             PoolTypeOK
    <2> QED
      BY <2>1, <2>2, TurnsLeaveAlone DEF moved, PoolTypeOK
  <1>4. MemTypeOK'
    BY DEF Turns, ContextEnds, StartPool, SeedError, AbandonJobs, ReturnFromRun,
           MetricsReturn, Reported, Drained, Sever, ServeError, CloseQueue, LockForClose,
           CloseChannel, ExitProcess, Signal, Timeout, Kill, memVars, MemTypeOK
  <1>5. /\ main' \in WorkerPhases \cup ApiPhases \cup ClosingPhases \cup Gone
        /\ metrics' \in {"none", "listening", "returned"}
    BY DEF Turns, ContextEnds, StartPool, SeedError, AbandonJobs, ReturnFromRun,
           MetricsReturn, Reported, Drained, Sever, ServeError, CloseQueue, ExitProcess,
           Signal, Timeout, Kill, WorkerPhases, ApiPhases, ClosingPhases, Gone
  <1> QED
    BY <1>1, <1>2, <1>3, <1>4, <1>5

-----------------------------------------------------------------------------
(* The moves keep the parts of the invariant that are not about counters *)

Safety == MainInv /\ PlaceInv /\ RecordInv /\ TempInv /\ StorageContract /\ NoSendAfterClose

\* The two keys of a job are different from each other and from those of others.
LEMMA DistinctKeys ==
    \A j, k \in Jobs :
        /\ OriginalKey(j) # ResultKey(k)
        /\ OriginalKey(j) = OriginalKey(k) => j = k
        /\ ResultKey(j) = ResultKey(k) => j = k
  BY DEF OriginalKey, ResultKey

\* A request that goes on while the queue and the workers stand still leaves
\* main's view of the requests intact, and nothing was queued for it yet.
LEMMA RequestMoves ==
    ASSUME TypeOK, MainInv, PlaceInv, NEW j \in Jobs, Turn(j),
           req[j] \notin {"accepted", "failed"},
           NEW s \in ReqStates, req' = [req EXCEPT ![j] = s],
           UNCHANGED <<pc, cur, main>>
    PROVE  /\ MainInv'
           /\ UNCHANGED <<chan, held>> => PlaceInv'
  <1> USE DEF TypeOK, CreateTypeOK
  <1>1. main \notin {"pool", "reporting", "closing", "exited"}
    BY DEF Turn
  <1>2. MainInv'
    BY <1>1 DEF MainInv, Turn, Served
  <1>3. ASSUME UNCHANGED <<chan, held>>
        PROVE  PlaceInv'
    <2>1. \A k \in Jobs : req[k] = "accepted" => req'[k] = "accepted"
      OBVIOUS
    <2> QED
      BY <1>3, <2>1 DEF PlaceInv, Queued, PoolTypeOK
  <1> QED
    BY <1>2, <1>3

\* A call of CreateJob, its Put and Enqueue aside, writes the record of a job
\* that no worker has heard of.
LEMMA CreateCallSafety ==
    ASSUME TypeOK, Safety, NEW j \in Jobs, CreateCall(j)
    PROVE  Safety'
  <1> USE DEF TypeOK, Safety
  <1>1. /\ UNCHANGED <<pc, cur, chan, held, senders, closing, temp, file, main, objects>>
        /\ Turn(j)
    BY DEF CreateCall, Begin, SaveJob, MarkFailed, poolVars, memVars, diskVars, storeVars
  <1>2. PICK s \in {"store", "enqueue", "failed"} : req' = [req EXCEPT ![j] = s]
    BY DEF CreateCall, Begin, SaveJob, MarkFailed, To
  <1>3. req[j] \in {"new", "save", "mark"}
    BY DEF CreateCall, Begin, SaveJob, MarkFailed
  <1>4. MainInv' /\ PlaceInv'
    BY <1>1, <1>2, <1>3, RequestMoves DEF ReqStates, Active
  <1>5. ~Queued(j) /\ held # j /\ \A w \in Workers : cur[w] # j
    BY <1>3 DEF PlaceInv
  <1>6. TempInv' /\ StorageContract' /\ NoSendAfterClose'
    <2>1. \A k \in Jobs : req[k] = "store" => req'[k] = "store"
      BY <1>2, <1>3 DEF CreateTypeOK
    <2> QED
      BY <1>1, <2>1 DEF TempInv, StorageContract, NoSendAfterClose
  <1>7. /\ \A k \in Jobs \ {j} : jobs'[k] = jobs[k]
        /\ req'[j] = "store" => jobs'[j].status = "absent"
        /\ req'[j] = "enqueue" => jobs'[j].status = "pending"
        /\ jobs'[j].status # "done" => jobs'[j].resultKey = "unset"
    <2>1. CASE Begin(j)
      BY <1>3, <2>1 DEF Begin, To, storeVars, RecordInv, CreateTypeOK
    <2>2. CASE SaveJob(j)
      BY <2>2, NothingLost DEF SaveJob, Save, To, NewJob, RecordInv, StoreTypeOK, CreateTypeOK
    <2>3. CASE MarkFailed(j)
      <3>1. PICK o : UpdateStatus(j, "failed", "unset", "set", o)
        BY <2>3 DEF MarkFailed
      <3>2. req'[j] = "failed" /\ jobs[j].status = "pending"
        BY <2>3 DEF MarkFailed, To, CreateTypeOK, RecordInv
      <3> QED
        BY <3>1, <3>2, UpdateStatusEffect DEF RecordInv
    <2> QED
      BY <2>1, <2>2, <2>3 DEF CreateCall
  <1>8. RecordInv'
    <2>1. ASSUME NEW k \in Jobs
          PROVE  /\ req'[k] \in {"new", "store", "save"} => jobs'[k].status = "absent"
                 /\ req'[k] \in {"enqueue", "mark"} => jobs'[k].status = "pending"
                 /\ Queued(k)' \/ held' = k => jobs'[k].status = "pending"
                 /\ jobs'[k].status # "done" => jobs'[k].resultKey = "unset"
      BY <1>1, <1>2, <1>5, <1>7 DEF RecordInv, Queued, CreateTypeOK
    <2>2. ASSUME NEW w \in Workers, pc[w] \notin Free
          PROVE  jobs'[cur[w]] = jobs[cur[w]]
      BY <1>5, <1>7, <2>2 DEF PlaceInv, PoolTypeOK
    <2> QED
      BY <1>1, <2>1, <2>2 DEF RecordInv, Free
  <1> QED
    BY <1>1, <1>4, <1>6, <1>8

\* A Put changes the files of its own key, and stores the object it renames.
LEMMA PutEffect ==
    ASSUME TypeOK, StorageContract, NEW k \in Keys, NEW live, NEW o,
           PutReturns(k, live, o), Put(k, o)
    PROVE  /\ StorageContract'
           /\ temp' = [temp EXCEPT ![k] = "none"]
  BY NothingLost
  DEF PutReturns, PutRenames, PutFails, Put, StorageContract, TypeOK, DiskTypeOK

\* The Put of an original keeps the invariant, at each of its steps.
LEMMA CreatePutSafety ==
    ASSUME TypeOK, Safety, NEW j \in Jobs, CreatePut(j)
    PROVE  Safety'
  <1> USE DEF TypeOK, Safety
  <1>1. /\ UNCHANGED <<jobs, pc, cur, chan, held, senders, closing, main>>
        /\ Turn(j) /\ req[j] = "store"
    BY DEF CreatePut, PutProceeds, OriginalStored, poolVars, memVars, storeVars
  <1>2. OriginalKey(j) \in Keys
    BY KeysType
  <1>3. CASE PutProceeds(OriginalKey(j), RequestLive(j))
    <2>1. UNCHANGED <<req, objects, file>>
      BY <1>3 DEF PutProceeds, PutBegins, PutCopies, createVars, storeVars
    <2>2. \A k \in Keys \ {OriginalKey(j)} : temp'[k] = temp[k]
      BY <1>2, <1>3 DEF PutProceeds, PutBegins, PutCopies, DiskTypeOK
    <2>3. TempInv'
      BY <1>1, <2>1, <2>2, DistinctKeys, KeysType DEF TempInv
    <2> QED
      BY <1>1, <2>1, <2>3
      DEF MainInv, Served, PlaceInv, RecordInv, Queued, StorageContract, NoSendAfterClose
  <1>4. CASE ~PutProceeds(OriginalKey(j), RequestLive(j))
    <2>1. PICK o : PutReturns(OriginalKey(j), RequestLive(j), o) /\ OriginalStored(j, o)
      BY <1>4 DEF CreatePut
    <2>2. StorageContract' /\ temp' = [temp EXCEPT ![OriginalKey(j)] = "none"]
      BY <1>2, <2>1, PutEffect DEF OriginalStored
    <2>3. PICK s \in {"save", "failed"} : req' = [req EXCEPT ![j] = s]
      BY <2>1 DEF OriginalStored, To
    <2>4. MainInv' /\ PlaceInv'
      BY <1>1, <2>3, RequestMoves DEF ReqStates, Active
    <2>5. TempInv'
      BY <1>1, <1>2, <2>2, <2>3, DistinctKeys, KeysType DEF TempInv, DiskTypeOK, CreateTypeOK
    <2>6. RecordInv'
      BY <1>1, <2>3 DEF RecordInv, Queued, CreateTypeOK
    <2> QED
      BY <1>1, <2>2, <2>4, <2>5, <2>6 DEF NoSendAfterClose
  <1> QED
    BY <1>3, <1>4

Unrepeated(s) == \A i, k \in 1..Len(s) : s[i] = s[k] => i = k

\* A job that is sent is queued behind the others.
LEMMA AppendQueues ==
    ASSUME chan \in Seq(Jobs), Unrepeated(chan), NEW j \in Jobs, ~Queued(j),
           chan' = Append(chan, j)
    PROVE  /\ Unrepeated(chan')
           /\ \A k \in Jobs : Queued(k)' <=> Queued(k) \/ k = j
  <1>1. /\ Len(chan) \in Nat
        /\ Len(chan') = Len(chan) + 1
        /\ chan'[Len(chan) + 1] = j
        /\ \A i \in 1..Len(chan) : chan'[i] = chan[i]
    OBVIOUS
  <1>2. Unrepeated(chan')
    BY <1>1 DEF Unrepeated, Queued
  <1>3. ASSUME NEW k \in Jobs
        PROVE  Queued(k)' <=> Queued(k) \/ k = j
    BY <1>1 DEF Queued
  <1> QED
    BY <1>2, <1>3

\* The job that is received is queued no more.
LEMMA TailDequeues ==
    ASSUME chan \in Seq(Jobs), Unrepeated(chan), chan # <<>>, chan' = Tail(chan)
    PROVE  /\ Unrepeated(chan')
           /\ Head(chan) \in Jobs /\ Queued(Head(chan))
           /\ \A k \in Jobs : Queued(k)' <=> Queued(k) /\ k # Head(chan)
  <1>1. /\ Len(chan) \in Nat /\ Len(chan) >= 1
        /\ Len(chan') = Len(chan) - 1
        /\ Head(chan) = chan[1] /\ Head(chan) \in Jobs
        /\ \A i \in 1..Len(chan') : chan'[i] = chan[i + 1]
    OBVIOUS
  <1>2. Unrepeated(chan')
    BY <1>1 DEF Unrepeated
  <1>3. Queued(Head(chan))
    BY <1>1 DEF Queued
  <1>4. ASSUME NEW k \in Jobs
        PROVE  Queued(k)' <=> Queued(k) /\ k # Head(chan)
    <2>1. ASSUME NEW i \in 1..Len(chan), chan[i] = k, k # Head(chan)
          PROVE  i - 1 \in 1..Len(chan') /\ chan'[i - 1] = k
      BY <1>1, <2>1
    <2>2. ASSUME NEW i \in 1..Len(chan'), chan'[i] = k
          PROVE  i + 1 \in 1..Len(chan) /\ chan[i + 1] = k /\ k # Head(chan)
      BY <1>1, <2>2 DEF Unrepeated
    <2> QED
      BY <2>1, <2>2 DEF Queued
  <1> QED
    BY <1>1, <1>2, <1>3, <1>4

\* Enqueue keeps the invariant: the send and the answer are one step, and the
\* channel is not closed under a sender.
LEMMA CreateEnqueueSafety ==
    ASSUME TypeOK, Safety, NEW j \in Jobs, CreateEnqueue(j)
    PROVE  Safety'
  <1> USE DEF TypeOK, Safety
  <1>1. /\ UNCHANGED <<jobs, objects, pc, cur, held, closing, temp, file, main>>
        /\ Turn(j) /\ req[j] = "enqueue"
    BY DEF CreateEnqueue, EnqueueAccepted, EnqueueRefused, RLock, Offer, GiveUp, SendRefused,
           poolVars, memVars, storeVars, diskVars
  <1>2. StorageContract' /\ NoSendAfterClose'
    <2>1. closing = "closed" => senders' = senders
      BY DEF CreateEnqueue, RLock, Offer, GiveUp, SendRefused, memVars, NoSendAfterClose
    <2> QED
      BY <1>1, <2>1 DEF StorageContract, NoSendAfterClose
  <1>3. CASE UNCHANGED <<req, chan>>
    BY <1>1, <1>2, <1>3 DEF MainInv, Served, PlaceInv, RecordInv, TempInv, Queued
  <1>4. ASSUME NEW s \in {"accepted", "mark"}, req' = [req EXCEPT ![j] = s]
        PROVE  MainInv' /\ TempInv'
    <2>1. \A k \in Jobs : req[k] = "store" => req'[k] = "store"
      BY <1>1, <1>4 DEF CreateTypeOK
    <2> QED
      BY <1>1, <1>4, <2>1, RequestMoves DEF ReqStates, Active, TempInv
  <1>5. CASE To(j, "mark") /\ UNCHANGED chan
    <2>1. PlaceInv'
      BY <1>1, <1>5, RequestMoves DEF To, ReqStates, Active
    <2>2. RecordInv'
      BY <1>1, <1>5 DEF To, RecordInv, Queued, CreateTypeOK
    <2> QED
      BY <1>2, <1>4, <1>5, <2>1, <2>2 DEF To
  <1>6. CASE To(j, "accepted") /\ chan' = Append(chan, j)
    <2>1. ~Queued(j) /\ held # j /\ \A w \in Workers : cur[w] # j
      BY <1>1 DEF PlaceInv
    <2>2. /\ Unrepeated(chan')
          /\ \A k \in Jobs : Queued(k)' <=> Queued(k) \/ k = j
      BY <1>6, <2>1, AppendQueues DEF PlaceInv, Unrepeated, MemTypeOK
    <2>3. req'[j] = "accepted" /\ \A k \in Jobs \ {j} : req'[k] = req[k]
      BY <1>6 DEF To, CreateTypeOK
    <2>4. PlaceInv'
      BY <1>1, <2>1, <2>2, <2>3 DEF PlaceInv, Unrepeated, PoolTypeOK
    <2>5. RecordInv'
      BY <1>1, <2>1, <2>2, <2>3 DEF RecordInv
    <2> QED
      BY <1>2, <1>4, <1>6, <2>4, <2>5 DEF To
  <1>7. \/ UNCHANGED <<req, chan>>
        \/ To(j, "mark") /\ UNCHANGED chan
        \/ To(j, "accepted") /\ chan' = Append(chan, j)
    BY DEF CreateEnqueue, EnqueueAccepted, EnqueueRefused, RLock, Offer, GiveUp, SendRefused,
           createVars, memVars
  <1> QED
    BY <1>3, <1>5, <1>6, <1>7

\* The consumer goroutine keeps the invariant: what it holds is not in the
\* channel any more.
LEMMA FetchNextSafety ==
    ASSUME TypeOK, Safety, FetchNext
    PROVE  Safety'
  <1> USE DEF TypeOK, Safety
  <1>1. UNCHANGED <<jobs, objects, req, pc, cur, senders, closing, temp, file, main>>
    BY DEF FetchNext, Fetch, Quit, storeVars, createVars, poolVars, diskVars
  <1>2. MainInv' /\ TempInv' /\ StorageContract' /\ NoSendAfterClose'
    BY <1>1 DEF MainInv, Served, TempInv, StorageContract, NoSendAfterClose
  <1>3. CASE Quit
    <2>1. UNCHANGED chan /\ held' = NoDelivery
      BY <1>3 DEF Quit
    <2> QED
      BY <1>1, <1>2, <2>1, PoolAssumption DEF PlaceInv, RecordInv, Queued
  <1>4. CASE Fetch
    <2>1. held = NoDelivery /\ chan # <<>> /\ held' = Head(chan) /\ chan' = Tail(chan)
      BY <1>4 DEF Fetch
    <2>2. /\ Unrepeated(chan')
          /\ Head(chan) \in Jobs /\ Queued(Head(chan))
          /\ \A k \in Jobs : Queued(k)' <=> Queued(k) /\ k # Head(chan)
      BY <2>1, TailDequeues DEF PlaceInv, Unrepeated, MemTypeOK
    <2>3. PlaceInv'
      BY <1>1, <2>1, <2>2 DEF PlaceInv, Unrepeated
    <2>4. RecordInv'
      BY <1>1, <2>1, <2>2 DEF RecordInv
    <2> QED
      BY <1>2, <2>3, <2>4
  <1> QED
    BY <1>3, <1>4 DEF FetchNext

\* A worker that takes the delivery has it for itself.
LEMMA TakeSafety ==
    ASSUME TypeOK, Safety, NEW w \in Workers, NEW j \in Jobs, TakeDelivery(w, j)
    PROVE  Safety'
  <1> USE DEF TypeOK, Safety
  <1>1. /\ UNCHANGED <<jobs, objects, req, chan, senders, closing, temp, file, main>>
        /\ main = "pool"
    BY DEF TakeDelivery, Take, Pass, storeVars, createVars, diskVars
  <1>2. /\ held = j /\ held' = NoDelivery
        /\ pc[w] = "idle" /\ cur[w] = NoDelivery
        /\ pc' = [pc EXCEPT ![w] = "load"]
        /\ cur' = [cur EXCEPT ![w] = j]
    BY DEF TakeDelivery, Take, Pass, PlaceInv, Free
  <1>3. MainInv' /\ StorageContract' /\ NoSendAfterClose'
    BY <1>1 DEF MainInv, StorageContract, NoSendAfterClose
  <1>4. ~Queued(j) /\ req[j] = "accepted" /\ jobs[j].status = "pending"
    BY <1>2 DEF PlaceInv, RecordInv
  <1>5. \A v \in Workers : cur[v] # j
    BY <1>2 DEF PlaceInv
  <1>6. PlaceInv'
    BY <1>1, <1>2, <1>4, <1>5, PoolAssumption DEF PlaceInv, Queued, Free, PoolTypeOK
  <1>7. RecordInv'
    BY <1>1, <1>2, <1>4, PoolAssumption DEF RecordInv, Queued, PoolTypeOK
  <1>8. TempInv'
    BY <1>1, <1>2, PoolAssumption DEF TempInv, PoolTypeOK
  <1> QED
    BY <1>3, <1>6, <1>7, <1>8

\* A worker that goes on with its job is the only one to write the job's record.
\* What its call establishes for the next one is the only thing to show.
LEMMA WorkerMoves ==
    ASSUME TypeOK, Safety, main = "pool",
           NEW w \in Workers, pc[w] \in Executing, cur[w] \in Jobs,
           NEW step \in Executing \cup Settling, pc' = [pc EXCEPT ![w] = step],
           UNCHANGED <<cur, req, chan, held, senders, closing, main>>,
           \A k \in Jobs \ {cur[w]} : jobs'[k] = jobs[k],
           step \in {"load", "claim"} => jobs'[cur[w]].status = "pending",
           step \in {"transform", "store", "finish", "fail"} =>
              jobs'[cur[w]].status = "processing",
           jobs'[cur[w]].status # "done" => jobs'[cur[w]].resultKey = "unset"
    PROVE  MainInv' /\ PlaceInv' /\ RecordInv' /\ NoSendAfterClose'
  <1> USE DEF TypeOK, Safety
  <1>1. step \notin Free /\ pc[w] \notin Free
    BY DEF Free, Executing, Settling
  <1>2. MainInv' /\ NoSendAfterClose'
    BY DEF MainInv, NoSendAfterClose
  <1>3. PlaceInv'
    BY <1>1 DEF PlaceInv, Queued, PoolTypeOK
  <1>4. ~Queued(cur[w]) /\ cur[w] # held /\ req[cur[w]] = "accepted"
    BY DEF PlaceInv
  <1>5. ASSUME NEW j \in Jobs
        PROVE  /\ req'[j] \in {"new", "store", "save"} => jobs'[j].status = "absent"
               /\ req'[j] \in {"enqueue", "mark"} => jobs'[j].status = "pending"
               /\ Queued(j)' \/ held' = j => jobs'[j].status = "pending"
               /\ jobs'[j].status # "done" => jobs'[j].resultKey = "unset"
    BY <1>4 DEF RecordInv, Queued
  <1>6. ASSUME NEW v \in Workers
        PROVE  /\ pc'[v] \in {"load", "claim"} => jobs'[cur'[v]].status = "pending"
               /\ pc'[v] \in {"transform", "store", "finish", "fail"} =>
                     jobs'[cur'[v]].status = "processing"
    <2>1. CASE v = w
      BY <2>1 DEF PoolTypeOK
    <2>2. CASE v # w
      <3>1. ASSUME pc[v] \notin Free
            PROVE  cur[v] \in Jobs /\ cur[v] # cur[w]
        BY <2>2, <3>1, PoolAssumption DEF PlaceInv, PoolTypeOK
      <3> QED
        BY <2>2, <3>1 DEF RecordInv, PoolTypeOK, Free
    <2> QED
      BY <2>1, <2>2
  <1>7. RecordInv'
    BY <1>5, <1>6 DEF RecordInv
  <1> QED
    BY <1>2, <1>3, <1>7

\* What a call of ProcessJob leaves in the record of its job: nobody wrote it
\* since the worker's last call, so each status follows the one before.
LEMMA CallEffect ==
    ASSUME TypeOK, Safety, NEW w \in Workers, cur[w] \in Jobs,
           Load(w) \/ Claim(w) \/ Transform(w) \/ MarkDone(w) \/ Fail(w)
    PROVE  \E step \in Executing \cup Settling :
              /\ pc' = [pc EXCEPT ![w] = step]
              /\ \A k \in Jobs \ {cur[w]} : jobs'[k] = jobs[k]
              /\ step \in {"load", "claim"} => jobs'[cur[w]].status = "pending"
              /\ step \in {"transform", "store", "finish", "fail"} =>
                    jobs'[cur[w]].status = "processing"
              /\ jobs'[cur[w]].status # "done" => jobs'[cur[w]].resultKey = "unset"
  <1> USE DEF TypeOK, Safety, Executing, Settling
  <1> DEFINE j == cur[w]
  <1>0. jobs[j].status # "done" => jobs[j].resultKey = "unset"
    BY DEF RecordInv
  <1>1. CASE Load(w)
    <2>1. PICK step \in {"claim", "ack", "nack"} : pc' = [pc EXCEPT ![w] = step]
      BY <1>1 DEF Load, Conclude, Goto
    <2>2. jobs[j].status = "pending" /\ UNCHANGED jobs
      BY <1>1 DEF Load, RecordInv, storeVars
    <2> QED
      BY <1>0, <2>1, <2>2
  <1>2. CASE Claim(w)
    <2>1. PICK o : /\ UpdateStatus(j, "processing", "unset", "unset", o)
                   /\ IF RepoOk(j, o) THEN Goto(w, "transform") ELSE Conclude(w, "failed")
      BY <1>2 DEF Claim
    <2>2. jobs[j].status = "pending"
      BY <1>2 DEF Claim, RecordInv
    <2>3. \E step \in {"transform", "nack"} :
             /\ pc' = [pc EXCEPT ![w] = step]
             /\ step = "transform" => o = "ok"
      BY <2>1 DEF Conclude, Goto, RepoOk
    <2>4. /\ \A k \in Jobs \ {j} : jobs'[k] = jobs[k]
          /\ o = "ok" => jobs'[j].status = "processing"
          /\ jobs'[j].resultKey = "unset"
      BY <1>0, <2>1, <2>2, UpdateStatusEffect
    <2> QED
      BY <2>3, <2>4
  <1>3. CASE Transform(w)
    <2>1. PICK step \in {"store", "fail"} : pc' = [pc EXCEPT ![w] = step]
      BY <1>3 DEF Transform, Goto
    <2>2. jobs[j].status = "processing" /\ UNCHANGED jobs
      BY <1>3 DEF Transform, RecordInv, storeVars
    <2> QED
      BY <1>0, <2>1, <2>2
  <1>4. CASE MarkDone(w) \/ Fail(w)
    <2>1. PICK step \in {"ack", "nack"} : pc' = [pc EXCEPT ![w] = step]
      BY <1>4 DEF MarkDone, Fail, Conclude, Goto
    <2>2. PICK o : \/ UpdateStatus(j, "done", "set", "unset", o)
                   \/ UpdateStatus(j, "failed", "unset", "set", o)
      BY <1>4 DEF MarkDone, Fail
    <2>3. jobs[j].status = "processing"
      BY <1>4 DEF MarkDone, Fail, RecordInv
    <2>4. /\ \A k \in Jobs \ {j} : jobs'[k] = jobs[k]
          /\ jobs'[j].status # "done" => jobs'[j].resultKey = "unset"
      BY <1>0, <2>2, <2>3, UpdateStatusEffect
    <2> QED
      BY <2>1, <2>4
  <1> QED
    BY <1>1, <1>2, <1>3, <1>4

\* The worker's calls, its Put aside, keep the invariant.
LEMMA WorkerStepSafety ==
    ASSUME TypeOK, Safety, NEW w \in Workers, WorkerStep(w)
    PROVE  Safety'
  <1> USE DEF TypeOK, Safety
  <1>1. /\ UNCHANGED <<objects, req, chan, held, senders, closing, temp, file, main>>
        /\ main = "pool"
    BY DEF WorkerStep, Load, Claim, Transform, MarkDone, Fail, Settled, Exit, storeVars,
           createVars, memVars, diskVars
  <1>2. StorageContract'
    BY <1>1 DEF StorageContract
  <1>3. pc[w] # "store"
    BY DEF WorkerStep, Load, Claim, Transform, MarkDone, Fail, Settled, Exit, Settling
  <1>4. \A v \in Workers \ {w} : pc'[v] = pc[v] /\ cur'[v] = cur[v]
    BY DEF WorkerStep, Load, Claim, Transform, MarkDone, Fail, Settled, Exit, Conclude, Goto,
           PoolTypeOK
  <1>5. TempInv'
    BY <1>1, <1>3, <1>4 DEF TempInv
  <1>6. CASE Load(w) \/ Claim(w) \/ Transform(w) \/ MarkDone(w) \/ Fail(w)
    <2>1. pc[w] \in Executing /\ UNCHANGED cur
      BY <1>6 DEF Load, Claim, Transform, MarkDone, Fail, Executing
    <2>2. cur[w] \in Jobs
      BY <2>1 DEF PlaceInv, PoolTypeOK, Free, Executing
    <2> QED
      BY <1>1, <1>2, <1>5, <1>6, <2>1, <2>2, CallEffect, WorkerMoves
  <1>7. CASE Settled(w) \/ Exit(w)
    <2>1. UNCHANGED jobs
      BY <1>7 DEF Settled, Exit, storeVars
    <2>2. pc'[w] \in Free /\ cur'[w] = NoDelivery
      BY <1>7 DEF Settled, Exit, Goto, Free, PlaceInv, PoolTypeOK
    <2>3. MainInv' /\ NoSendAfterClose'
      BY <1>1 DEF MainInv, NoSendAfterClose
    <2>4. PlaceInv'
      BY <1>1, <1>4, <2>2, PoolAssumption DEF PlaceInv, Queued
    <2>5. RecordInv'
      BY <1>1, <1>4, <2>1, <2>2 DEF RecordInv, Queued, Free
    <2> QED
      BY <1>2, <1>5, <2>3, <2>4, <2>5
  <1> QED
    BY <1>6, <1>7 DEF WorkerStep

\* The Put of a result keeps the invariant, at each of its steps.
LEMMA WorkerPutSafety ==
    ASSUME TypeOK, Safety, NEW w \in Workers, WorkerPut(w)
    PROVE  Safety'
  <1> USE DEF TypeOK, Safety
  <1> DEFINE key == ResultKey(cur[w])
  <1>1. /\ UNCHANGED <<jobs, cur, req, chan, held, senders, closing, main>>
        /\ main = "pool" /\ pc[w] = "store"
    BY DEF WorkerPut, PutProceeds, ResultStored, storeVars, createVars, poolVars, memVars
  <1>2. cur[w] \in Jobs
    BY <1>1 DEF PlaceInv, PoolTypeOK, Free
  <1>3. key \in Keys
    BY <1>2, KeysType
  <1>4. CASE PutProceeds(key, JobLive(w))
    <2>1. UNCHANGED <<objects, file, pc>>
      BY <1>4 DEF PutProceeds, PutBegins, PutCopies, storeVars, poolVars
    <2>2. \A k \in Keys \ {key} : temp'[k] = temp[k]
      BY <1>3, <1>4 DEF PutProceeds, PutBegins, PutCopies, DiskTypeOK
    <2>3. TempInv'
      BY <1>1, <1>2, <2>1, <2>2, DistinctKeys, KeysType DEF TempInv
    <2> QED
      BY <1>1, <2>1, <2>3
      DEF MainInv, Served, PlaceInv, RecordInv, Queued, StorageContract, NoSendAfterClose
  <1>5. CASE ~PutProceeds(key, JobLive(w))
    <2>1. PICK o : PutReturns(key, JobLive(w), o) /\ ResultStored(w, o)
      BY <1>5 DEF WorkerPut
    <2>2. StorageContract' /\ temp' = [temp EXCEPT ![key] = "none"]
      BY <1>3, <2>1, PutEffect DEF ResultStored
    <2>3. PICK step \in {"finish", "fail"} : pc' = [pc EXCEPT ![w] = step]
      BY <2>1 DEF ResultStored, Goto
    <2>4. jobs[cur[w]].status = "processing" /\ jobs[cur[w]].resultKey = "unset"
      BY <1>1, <1>2 DEF RecordInv
    <2>5. MainInv' /\ PlaceInv' /\ RecordInv' /\ NoSendAfterClose'
      BY <1>1, <1>2, <2>3, <2>4, WorkerMoves DEF Executing
    <2>6. TempInv'
      BY <1>1, <1>2, <1>3, <2>2, <2>3, DistinctKeys, KeysType
      DEF TempInv, DiskTypeOK, PoolTypeOK
    <2> QED
      BY <2>2, <2>5, <2>6
  <1> QED
    BY <1>4, <1>5

\* The phases of the command end in the order that MainInv relies on, and Close
\* waits for the senders.
LEMMA TurnsSafety ==
    ASSUME TypeOK, Safety, Turns
    PROVE  Safety'
  <1> USE DEF TypeOK, Safety
  <1>1. UNCHANGED <<jobs, objects, req, pc, cur, chan, held, temp, file>>
    BY TurnsLeaveAlone DEF moved
  <1>2. PlaceInv' /\ RecordInv' /\ TempInv' /\ StorageContract'
    BY <1>1 DEF PlaceInv, RecordInv, Queued, TempInv, StorageContract
  <1>3. MainInv'
    <2>1. CASE main' = main \/ main' = "killed"
      BY <1>1, <2>1 DEF MainInv, Served
    <2>2. CASE StartPool
      BY <1>1, <2>2 DEF StartPool, MainInv
    <2>3. CASE SeedError
      <3>1. PICK j \in Jobs : req[j] = "failed"
        BY <2>3 DEF SeedError
      <3>2. \A k \in Jobs : req[k] \notin Active
        BY <2>3, <3>1 DEF SeedError, MainInv, Active
      <3> QED
        BY <1>1, <2>3, <3>2 DEF SeedError, MainInv, Served
    <2>4. CASE ReturnFromRun
      BY <1>1, <2>4, OneProcess
      DEF ReturnFromRun, Return, MainInv, WorkersOf, Workers, Free
    <2>5. CASE Reported
      BY <1>1, <2>5 DEF Reported, MainInv, Served, Active
    <2>6. CASE Drained
      BY <1>1, <2>6 DEF Drained, MainInv, Served
    <2>7. CASE Sever \/ ServeError
      BY <1>1, <2>7 DEF Sever, ServeError, MainInv
    <2>8. CASE ExitProcess
      BY <1>1, <2>8 DEF ExitProcess, MainInv, Served, ClosingPhases
    <2>9. CASE Signal
      BY <1>1, <2>9 DEF Signal, MainInv
    <2> QED
      BY <2>1, <2>2, <2>3, <2>4, <2>5, <2>6, <2>7, <2>8, <2>9
      DEF Turns, ContextEnds, AbandonJobs, MetricsReturn, CloseQueue, Timeout, Kill
  <1>4. NoSendAfterClose'
    BY DEF NoSendAfterClose, Turns, ContextEnds, StartPool, SeedError, AbandonJobs,
           ReturnFromRun, MetricsReturn, Reported, Drained, Sever, ServeError, CloseQueue,
           LockForClose, CloseChannel, ExitProcess, Signal, Timeout, Kill, memVars
  <1> QED
    BY <1>2, <1>3, <1>4

-----------------------------------------------------------------------------
(* The moves keep the account of the jobs *)

\* The figures of EveryJobCounted.
Waiting == Len(chan) + Cardinality({held} \ {NoDelivery})

Running == Cardinality({w \in Workers : pc[w] \in Executing})

Counted ==
    stats[Process]["processed"] + stats[Process]["failed"] + stats[Process]["skipped"]

Accepted == Cardinality({j \in Jobs : req[j] = "accepted"})

\* There are finitely many workers.
LEMMA FiniteWorkers == IsFiniteSet(Workers)
  <1>1. IsFiniteSet(Procs)
    BY OneProcess, FS_Singleton
  <1> QED
    BY <1>1, LocalAssumption, FS_Product DEF Workers

\* The figures are natural numbers.
LEMMA FiguresType ==
    ASSUME TypeOK
    PROVE  /\ Waiting \in Nat /\ Running \in Nat /\ Counted \in Nat /\ Accepted \in Nat
           /\ \A o \in {"processed", "failed", "skipped"} : stats[Process][o] \in Nat
  <1> USE DEF TypeOK
  <1>1. Running \in Nat
    BY FiniteWorkers, FS_Subset, FS_CardinalityType DEF Running
  <1>2. Accepted \in Nat
    BY LocalAssumption, FS_Subset, FS_CardinalityType DEF Accepted
  <1>3. Waiting \in Nat
    <2>1. Len(chan) \in Nat
      BY DEF MemTypeOK
    <2>2. Cardinality({held} \ {NoDelivery}) \in Nat
      BY FS_Singleton, FS_Subset, FS_CardinalityType
    <2> QED
      BY <2>1, <2>2 DEF Waiting
  <1>4. \A o \in {"processed", "failed", "skipped"} : stats[Process][o] \in Nat
    BY OneProcess DEF PoolTypeOK, Stats
  <1>5. Counted \in Nat
    BY <1>4 DEF Counted
  <1> QED
    BY <1>1, <1>2, <1>3, <1>4, <1>5

\* An element that joins a finite set adds one to its size, one that leaves it
\* takes one away.
LEMMA OneMore ==
    ASSUME NEW S, NEW T, NEW x, IsFiniteSet(S), x \notin S, T = S \cup {x}
    PROVE  Cardinality(T) = Cardinality(S) + 1
  BY FS_AddElement

\* See OneMore.
LEMMA OneLess ==
    ASSUME NEW S, NEW T, NEW x, IsFiniteSet(S), x \in S, T = S \ {x}
    PROVE  Cardinality(T) = Cardinality(S) - 1
  BY FS_RemoveElement

\* A set whose elements are all equal has at most one.
LEMMA AtMostOne ==
    ASSUME NEW S, \A x, y \in S : x = y
    PROVE  Cardinality(S) = IF S = {} THEN 0 ELSE 1
  <1>1. CASE S = {}
    BY <1>1, FS_EmptySet
  <1>2. CASE S # {}
    <2>1. PICK x \in S : TRUE
      BY <1>2
    <2>2. S = {x}
      BY <2>1
    <2> QED
      BY <1>2, <2>2, FS_Singleton
  <1> QED
    BY <1>1, <1>2

\* What a request does to the number of accepted jobs.
LEMMA AcceptedMoves ==
    ASSUME TypeOK, NEW j \in Jobs, req[j] # "accepted", NEW s,
           req' = [req EXCEPT ![j] = s]
    PROVE  Accepted' = IF s = "accepted" THEN Accepted + 1 ELSE Accepted
  <1> DEFINE A == {k \in Jobs : req[k] = "accepted"}
             B == {k \in Jobs : req'[k] = "accepted"}
  <1>1. IsFiniteSet(A)
    BY LocalAssumption, FS_Subset
  <1>2. CASE s = "accepted"
    <2>1. B = A \cup {j}
      BY <1>2 DEF TypeOK, CreateTypeOK
    <2> QED
      BY <1>1, <1>2, <2>1, OneMore DEF Accepted
  <1>3. CASE s # "accepted"
    <2>1. B = A
      BY <1>3 DEF TypeOK, CreateTypeOK
    <2> QED
      BY <1>3, <2>1 DEF Accepted
  <1> QED
    BY <1>2, <1>3

\* What a worker does to the number of jobs under way.
LEMMA RunningMoves ==
    ASSUME TypeOK, NEW w \in Workers, NEW step, pc' = [pc EXCEPT ![w] = step]
    PROVE  /\ (pc[w] \in Executing <=> step \in Executing) => Running' = Running
           /\ pc[w] \notin Executing /\ step \in Executing => Running' = Running + 1
           /\ pc[w] \in Executing /\ step \notin Executing => Running' = Running - 1
  <1> DEFINE E == {v \in Workers : pc[v] \in Executing}
             F == {v \in Workers : pc'[v] \in Executing}
  <1> USE DEF TypeOK, PoolTypeOK
  <1>1. IsFiniteSet(E)
    BY FiniteWorkers, FS_Subset
  <1>2. ASSUME pc[w] \in Executing <=> step \in Executing
        PROVE  Running' = Running
    <2>1. F = E
      BY <1>2
    <2> QED
      BY <2>1 DEF Running
  <1>3. ASSUME pc[w] \notin Executing, step \in Executing
        PROVE  Running' = Running + 1
    <2>1. F = E \cup {w} /\ w \notin E
      BY <1>3
    <2> QED
      BY <1>1, <2>1, OneMore DEF Running
  <1>4. ASSUME pc[w] \in Executing, step \notin Executing
        PROVE  Running' = Running - 1
    <2>1. F = E \ {w} /\ w \in E
      BY <1>4
    <2> QED
      BY <1>1, <2>1, OneLess DEF Running
  <1> QED
    BY <1>2, <1>3, <1>4

\* The consumer goroutine holds one delivery or none.
LEMMA HeldCount ==
    /\ \A j \in Jobs : Cardinality({j} \ {NoDelivery}) = 1
    /\ Cardinality({NoDelivery} \ {NoDelivery}) = 0
    /\ MemTypeOK => Cardinality({held} \ {NoDelivery}) \in 0..1
  <1>1. {NoDelivery} \ {NoDelivery} = {}
    OBVIOUS
  <1>2. \A j \in Jobs : {j} \ {NoDelivery} = {j}
    BY PoolAssumption
  <1>3. MemTypeOK => {held} \ {NoDelivery} \in {{}, {held}}
    BY DEF MemTypeOK
  <1>4. Cardinality({}) \in 0..1 /\ Cardinality({held}) \in 0..1
    BY FS_EmptySet, FS_Singleton
  <1>5. MemTypeOK => Cardinality({held} \ {NoDelivery}) \in 0..1
    BY <1>3, <1>4, Zenon
  <1>6. Cardinality({NoDelivery} \ {NoDelivery}) = 0
    BY <1>1, FS_EmptySet
  <1>7. \A j \in Jobs : Cardinality({j} \ {NoDelivery}) = 1
    BY <1>2, FS_Singleton
  <1> QED
    BY <1>5, <1>6, <1>7

\* Conclude counts the job whose execution it ends.
LEMMA ConcludeCounts ==
    ASSUME TypeOK, NEW w \in Workers, pc[w] \in Executing,
           NEW outcome \in {"processed", "failed", "skipped"}, Conclude(w, outcome)
    PROVE  /\ Running' = Running - 1
           /\ Counted' = Counted + 1
           /\ stats'[Process][outcome] = stats[Process][outcome] + 1
           /\ \A o \in {"processed", "failed", "skipped"} \ {outcome} :
                 stats'[Process][o] = stats[Process][o]
  <1> USE DEF TypeOK
  <1>1. stats' = [stats EXCEPT ![Process][outcome] = stats[Process][outcome] + 1]
    BY OneProcess DEF Conclude
  <1>2. stats[Process] \in Stats /\ Process \in DOMAIN stats
    BY OneProcess DEF PoolTypeOK
  <1>3. /\ stats'[Process][outcome] = stats[Process][outcome] + 1
        /\ \A o \in {"processed", "failed", "skipped"} \ {outcome} :
              stats'[Process][o] = stats[Process][o]
    BY <1>1, <1>2 DEF Stats
  <1>4. Counted' = Counted + 1
    BY <1>3, FiguresType DEF Counted
  <1>5. PICK step \in {"ack", "nack"} : pc' = [pc EXCEPT ![w] = step]
    BY DEF Conclude, Goto
  <1>6. Running' = Running - 1
    BY <1>5, RunningMoves DEF Executing
  <1> QED
    BY <1>3, <1>4, <1>6

\* A call of ProcessJob goes on to the next one, or concludes the job.
LEMMA CallConcludes ==
    ASSUME TypeOK, NEW w \in Workers, NEW o,
           \/ Load(w) \/ Claim(w) \/ Transform(w)
           \/ ResultStored(w, o) \/ MarkDone(w) \/ Fail(w)
    PROVE  /\ pc[w] \in Executing
           /\ \/ UNCHANGED stats /\ \E step \in Executing : pc' = [pc EXCEPT ![w] = step]
              \/ \E outcome \in {"processed", "failed", "skipped"} : Conclude(w, outcome)
  BY DEF Load, Claim, Transform, ResultStored, MarkDone, Fail, Goto, Executing

\* Every move keeps the account: a job goes from one figure to the next, and
\* only the consumer goroutine that quits loses one.
LEMMA MovesAccount ==
    ASSUME TypeOK, Safety, EveryJobCounted, Moves
    PROVE  EveryJobCounted'
  <1> USE DEF TypeOK, Safety
  <1> DEFINE Sum == Waiting + Running + Counted
  <1>1. UNCHANGED phase
    BY MovesInPhase
  <1>2. Sum <= Accepted /\ (phase[Process] = "running" => Sum = Accepted)
    BY DEF EveryJobCounted, Waiting, Running, Counted, Accepted
  <1>3. Waiting \in Nat /\ Running \in Nat /\ Counted \in Nat /\ Accepted \in Nat
    BY FiguresType
  <1>4. /\ UNCHANGED <<chan, held>> => Waiting' = Waiting
        /\ UNCHANGED pc => Running' = Running
        /\ UNCHANGED stats => Counted' = Counted
        /\ UNCHANGED req => Accepted' = Accepted
    BY DEF Waiting, Running, Counted, Accepted
  <1>5. SUFFICES Sum' <= Accepted' /\ (phase[Process] = "running" => Sum' = Accepted')
    BY <1>1 DEF EveryJobCounted, Waiting, Running, Counted, Accepted
  <1>6. ASSUME NEW j \in Jobs, CreateCall(j) \/ CreatePut(j)
        PROVE  UNCHANGED <<Waiting, Running, Counted, Accepted>>
    <2>1. UNCHANGED <<chan, held, pc, stats>>
      BY <1>6 DEF CreateCall, CreatePut, PutProceeds, memVars, poolVars
    <2>2. \/ UNCHANGED req
          \/ /\ req[j] # "accepted"
             /\ \E s \in {"store", "save", "enqueue", "failed"} : req' = [req EXCEPT ![j] = s]
      BY <1>6 DEF CreateCall, CreatePut, PutProceeds, Begin, SaveJob, MarkFailed,
                  OriginalStored, To, createVars
    <2> QED
      BY <1>4, <2>1, <2>2, AcceptedMoves
  <1>7. ASSUME NEW j \in Jobs, CreateEnqueue(j)
        PROVE  \/ UNCHANGED <<Waiting, Running, Counted, Accepted>>
               \/ /\ UNCHANGED <<Running, Counted>>
                  /\ Waiting' = Waiting + 1 /\ Accepted' = Accepted + 1
    <2>1. UNCHANGED <<held, pc, stats>> /\ req[j] = "enqueue"
      BY <1>7 DEF CreateEnqueue, RLock, Offer, GiveUp, SendRefused, memVars, poolVars
    <2>2. CASE UNCHANGED chan /\ (UNCHANGED req \/ req' = [req EXCEPT ![j] = "mark"])
      BY <1>4, <2>1, <2>2, AcceptedMoves
    <2>3. CASE chan' = Append(chan, j) /\ req' = [req EXCEPT ![j] = "accepted"]
      <3>1. Accepted' = Accepted + 1
        BY <2>1, <2>3, AcceptedMoves
      <3>2. Len(chan') = Len(chan) + 1 /\ Len(chan) \in Nat
        BY <2>3 DEF MemTypeOK
      <3>3. Cardinality({held} \ {NoDelivery}) \in 0..1
        BY HeldCount
      <3> QED
        BY <1>4, <2>1, <3>1, <3>2, <3>3 DEF Waiting
    <2> QED
      BY <1>7, <2>2, <2>3
      DEF CreateEnqueue, RLock, Offer, GiveUp, SendRefused, EnqueueAccepted, EnqueueRefused,
          To, memVars, createVars
  <1>8. ASSUME FetchNext
        PROVE  /\ UNCHANGED <<Running, Counted, Accepted>>
               /\ \/ Waiting' = Waiting
                  \/ /\ phase[Process] # "running"
                     /\ Waiting' \in Nat /\ Waiting' <= Waiting
    <2>1. UNCHANGED <<Running, Counted, Accepted>>
      BY <1>4, <1>8 DEF FetchNext, poolVars, createVars
    <2>2. CASE Fetch
      <3>1. held = NoDelivery /\ held' \in Jobs /\ Len(chan') = Len(chan) - 1 /\ Len(chan) \in Nat
        BY <2>2 DEF Fetch, MemTypeOK
      <3> QED
        BY <2>1, <3>1, HeldCount DEF Waiting
    <2>3. CASE Quit
      <3>1. UNCHANGED chan /\ held' = NoDelivery /\ phase[Process] # "running"
              /\ Len(chan) \in Nat
        BY <2>3 DEF Quit, MemTypeOK
      <3>2. Cardinality({held} \ {NoDelivery}) \in 0..1
        BY HeldCount
      <3> QED
        BY <2>1, <3>1, <3>2, HeldCount DEF Waiting
    <2> QED
      BY <1>8, <2>2, <2>3 DEF FetchNext
  <1>9. ASSUME NEW w \in Workers, NEW j \in Jobs, TakeDelivery(w, j)
        PROVE  /\ UNCHANGED <<Counted, Accepted>>
               /\ Waiting' = Waiting - 1 /\ Running' = Running + 1
    <2>1. UNCHANGED <<chan, stats, req>> /\ held = j /\ held' = NoDelivery
      BY <1>9 DEF TakeDelivery, Take, Pass, createVars
    <2>2. pc[w] \notin Executing /\ pc' = [pc EXCEPT ![w] = "load"] /\ "load" \in Executing
      BY <1>9 DEF TakeDelivery, Take, Executing
    <2>3. Running' = Running + 1
      BY <2>2, RunningMoves
    <2>4. Waiting' = Waiting - 1
      BY <2>1, HeldCount DEF Waiting, MemTypeOK
    <2> QED
      BY <1>4, <2>1, <2>3, <2>4
  <1>10. ASSUME NEW w \in Workers, WorkerStep(w) \/ WorkerPut(w)
         PROVE  /\ UNCHANGED <<Waiting, Accepted>>
                /\ \/ UNCHANGED <<Running, Counted>>
                   \/ Running' = Running - 1 /\ Counted' = Counted + 1
    <2>1. UNCHANGED <<Waiting, Accepted>>
      BY <1>4, <1>10 DEF WorkerStep, WorkerPut, PutProceeds, memVars, createVars
    <2>2. CASE Settled(w) \/ Exit(w)
      <3>1. UNCHANGED stats /\ pc[w] \notin Executing
        BY <2>2 DEF Settled, Exit, Settling, Executing
      <3>2. PICK step \in Free : pc' = [pc EXCEPT ![w] = step]
        BY <2>2 DEF Settled, Exit, Goto, Free
      <3> QED
        BY <1>4, <2>1, <3>1, <3>2, RunningMoves DEF Free, Executing
    <2>3. ASSUME NEW o, \/ Load(w) \/ Claim(w) \/ Transform(w)
                        \/ ResultStored(w, o) \/ MarkDone(w) \/ Fail(w)
          PROVE  \/ UNCHANGED <<Running, Counted>>
                 \/ Running' = Running - 1 /\ Counted' = Counted + 1
      BY <1>4, <2>3, CallConcludes, RunningMoves, ConcludeCounts
    <2>4. CASE UNCHANGED poolVars
      BY <1>4, <2>1, <2>4 DEF poolVars
    <2> QED
      BY <1>10, <2>1, <2>2, <2>3, <2>4 DEF WorkerStep, WorkerPut, PutProceeds
  <1>11. \/ UNCHANGED <<Waiting, Running, Counted, Accepted>>
         \/ /\ UNCHANGED <<Running, Counted>>
            /\ Waiting' = Waiting + 1 /\ Accepted' = Accepted + 1
         \/ /\ UNCHANGED <<Running, Counted, Accepted>>
            /\ phase[Process] # "running" /\ Waiting' \in Nat /\ Waiting' <= Waiting
         \/ /\ UNCHANGED <<Counted, Accepted>>
            /\ Waiting' = Waiting - 1 /\ Running' = Running + 1
         \/ /\ UNCHANGED <<Waiting, Accepted>>
            /\ Running' = Running - 1 /\ Counted' = Counted + 1
    BY <1>6, <1>7, <1>8, <1>9, <1>10 DEF Moves, SubmitStep
  <1> HIDE DEF TypeOK, Safety
  <1> QED
    BY <1>2, <1>3, <1>11

-----------------------------------------------------------------------------
(* The moves keep counters and records in step *)

DoneJobs == {j \in Jobs : jobs[j].status = "done"}

FailedJobs == {j \in Jobs : req[j] = "accepted" /\ jobs[j].status = "failed"}

\* No request changes the outcome of an accepted job.
LEMMA RequestsFinishNothing ==
    ASSUME TypeOK, Safety, NEW j \in Jobs, SubmitStep(j)
    PROVE  UNCHANGED <<DoneJobs, FailedJobs, stats>>
  <1> USE DEF TypeOK, Safety
  <1>1. UNCHANGED stats
    BY DEF SubmitStep, CreateCall, CreatePut, PutProceeds, CreateEnqueue, poolVars
  <1>2. CASE CreateCall(j)
    <2>1. req[j] # "accepted" /\ req'[j] # "accepted" /\ \A k \in Jobs \ {j} : req'[k] = req[k]
      BY <1>2 DEF CreateCall, Begin, SaveJob, MarkFailed, To, CreateTypeOK
    <2>2. /\ \A k \in Jobs \ {j} : jobs'[k] = jobs[k]
          /\ jobs[j].status # "done" /\ jobs'[j].status # "done"
      <3>1. CASE Begin(j)
        BY <3>1 DEF Begin, RecordInv, storeVars
      <3>2. CASE SaveJob(j)
        BY <3>2 DEF SaveJob, Save, NewJob, RecordInv, StoreTypeOK
      <3>3. CASE MarkFailed(j)
        <4>1. PICK o : UpdateStatus(j, "failed", "unset", "set", o)
          BY <3>3 DEF MarkFailed
        <4>2. jobs[j].status = "pending"
          BY <3>3 DEF MarkFailed, RecordInv
        <4> QED
          BY <4>1, <4>2, UpdateStatusEffect
      <3> QED
        BY <1>2, <3>1, <3>2, <3>3 DEF CreateCall
    <2> QED
      BY <1>1, <2>1, <2>2 DEF DoneJobs, FailedJobs
  <1>3. CASE CreatePut(j) \/ CreateEnqueue(j)
    <2>1. UNCHANGED jobs
      BY <1>3 DEF CreatePut, PutProceeds, OriginalStored, CreateEnqueue, EnqueueAccepted,
                  EnqueueRefused, storeVars
    <2>2. jobs[j].status # "failed" /\ \A k \in Jobs \ {j} : req'[k] = req[k]
      BY <1>3 DEF CreatePut, PutProceeds, OriginalStored, CreateEnqueue, EnqueueAccepted,
                  EnqueueRefused, To, createVars, CreateTypeOK, RecordInv
    <2> QED
      BY <1>1, <2>1, <2>2 DEF DoneJobs, FailedJobs
  <1> QED
    BY <1>2, <1>3 DEF SubmitStep

\* A worker that writes the status of its job, or fails to, changes the outcome
\* of no other.
LEMMA OutcomeMoves ==
    ASSUME TypeOK, NEW j \in Jobs, req[j] = "accepted", UNCHANGED req,
           jobs[j].status \in {"pending", "processing"},
           \A k \in Jobs \ {j} : jobs'[k] = jobs[k]
    PROVE  /\ Cardinality(DoneJobs') =
                 Cardinality(DoneJobs) + IF jobs'[j].status = "done" THEN 1 ELSE 0
           /\ Cardinality(FailedJobs') =
                 Cardinality(FailedJobs) + IF jobs'[j].status = "failed" THEN 1 ELSE 0
  <1>1. IsFiniteSet(DoneJobs) /\ IsFiniteSet(FailedJobs)
    BY LocalAssumption, FS_Subset DEF DoneJobs, FailedJobs
  <1>2. Cardinality(DoneJobs) \in Nat /\ Cardinality(FailedJobs) \in Nat
    BY <1>1, FS_CardinalityType
  <1>3. j \notin DoneJobs /\ j \notin FailedJobs
    BY DEF DoneJobs, FailedJobs
  <1>4. DoneJobs' = IF jobs'[j].status = "done" THEN DoneJobs \cup {j} ELSE DoneJobs
    BY DEF DoneJobs
  <1>5. FailedJobs' = IF jobs'[j].status = "failed" THEN FailedJobs \cup {j} ELSE FailedJobs
    BY DEF FailedJobs
  <1>6. Cardinality(DoneJobs') =
           Cardinality(DoneJobs) + IF jobs'[j].status = "done" THEN 1 ELSE 0
    BY <1>1, <1>2, <1>3, <1>4, OneMore
  <1>7. Cardinality(FailedJobs') =
           Cardinality(FailedJobs) + IF jobs'[j].status = "failed" THEN 1 ELSE 0
    BY <1>1, <1>2, <1>3, <1>5, OneMore
  <1> QED
    BY <1>6, <1>7

\* What the calls of ProcessJob record is what the pool counts.
LEMMA MovesCounters ==
    ASSUME TypeOK, Safety, CountersMatchRecords, Moves
    PROVE  CountersMatchRecords'
  <1> USE DEF TypeOK, Safety
  <1>1. /\ stats[Process]["processed"] = Cardinality(DoneJobs)
        /\ stats[Process]["skipped"] = 0
        /\ stats[Process]["failed"] >= Cardinality(FailedJobs)
    BY DEF CountersMatchRecords, DoneJobs, FailedJobs
  <1>2. SUFFICES /\ stats'[Process]["processed"] = Cardinality(DoneJobs')
                 /\ stats'[Process]["skipped"] = 0
                 /\ stats'[Process]["failed"] >= Cardinality(FailedJobs')
    BY DEF CountersMatchRecords, DoneJobs, FailedJobs
  <1>3. /\ \A o \in {"processed", "failed", "skipped"} : stats[Process][o] \in Nat
        /\ Cardinality(DoneJobs) \in Nat /\ Cardinality(FailedJobs) \in Nat
    BY FiguresType, LocalAssumption, FS_Subset, FS_CardinalityType DEF DoneJobs, FailedJobs
  <1>4. CASE UNCHANGED <<DoneJobs, FailedJobs, stats>>
    BY <1>1, <1>4
  <1>5. ASSUME UNCHANGED <<jobs, req>>
        PROVE  UNCHANGED <<DoneJobs, FailedJobs>>
    BY <1>5 DEF DoneJobs, FailedJobs
  <1>6. CASE \E j \in Jobs : SubmitStep(j)
    BY <1>4, <1>6, RequestsFinishNothing
  <1>7. CASE FetchNext \/ \E w \in Workers, j \in Jobs : TakeDelivery(w, j)
    BY <1>4, <1>5, <1>7 DEF FetchNext, TakeDelivery, Take, storeVars, createVars, poolVars
  <1>8. ASSUME NEW w \in Workers, WorkerPut(w)
        PROVE  UNCHANGED <<DoneJobs, FailedJobs, stats>>
    BY <1>5, <1>8 DEF WorkerPut, PutProceeds, ResultStored, storeVars, createVars, poolVars
  <1>9. ASSUME NEW w \in Workers, WorkerStep(w)
        PROVE  /\ stats'[Process]["processed"] = Cardinality(DoneJobs')
               /\ stats'[Process]["skipped"] = 0
               /\ stats'[Process]["failed"] >= Cardinality(FailedJobs')
    <2> DEFINE j == cur[w]
    <2>1. UNCHANGED req
      BY <1>9 DEF WorkerStep, createVars
    <2>2. CASE Settled(w) \/ Exit(w) \/ Transform(w)
      BY <1>4, <1>5, <2>1, <2>2 DEF Settled, Exit, Transform, storeVars
    <2>3. ASSUME pc[w] \in Executing
          PROVE  j \in Jobs /\ req[j] = "accepted"
      BY <2>3 DEF PlaceInv, PoolTypeOK, Free, Executing
    <2>4. ASSUME pc[w] \in Executing, jobs[j].status \in {"pending", "processing"},
                 \A k \in Jobs \ {j} : jobs'[k] = jobs[k],
                 jobs'[j].status # "done",
                 \/ Conclude(w, "failed")
                 \/ jobs'[j].status # "failed" /\ UNCHANGED stats
          PROVE  /\ stats'[Process]["processed"] = Cardinality(DoneJobs')
                 /\ stats'[Process]["skipped"] = 0
                 /\ stats'[Process]["failed"] >= Cardinality(FailedJobs')
      <3>1. /\ Cardinality(DoneJobs') = Cardinality(DoneJobs)
            /\ Cardinality(FailedJobs') =
                  Cardinality(FailedJobs) + IF jobs'[j].status = "failed" THEN 1 ELSE 0
        BY <1>3, <2>1, <2>3, <2>4, OutcomeMoves
      <3>2. \/ UNCHANGED stats /\ jobs'[j].status # "failed"
            \/ /\ stats'[Process]["failed"] = stats[Process]["failed"] + 1
               /\ stats'[Process]["processed"] = stats[Process]["processed"]
               /\ stats'[Process]["skipped"] = stats[Process]["skipped"]
        BY <2>4, ConcludeCounts
      <3> QED
        BY <1>1, <1>3, <3>1, <3>2
    <2>5. CASE Load(w)
      <3>1. pc[w] \in Executing /\ jobs[j].status = "pending" /\ UNCHANGED jobs
        BY <2>5 DEF Load, Executing, RecordInv, storeVars
      <3>2. Conclude(w, "failed") \/ UNCHANGED stats
        BY <2>5, <3>1 DEF Load
      <3> QED
        BY <2>4, <3>1, <3>2
    <2>6. CASE Claim(w)
      <3>1. PICK o : UpdateStatus(j, "processing", "unset", "unset", o)
        BY <2>6 DEF Claim
      <3>2. pc[w] \in Executing /\ jobs[j].status = "pending"
        BY <2>6 DEF Claim, Executing, RecordInv
      <3>3. Conclude(w, "failed") \/ UNCHANGED stats
        BY <2>6 DEF Claim
      <3>4. /\ \A k \in Jobs \ {j} : jobs'[k] = jobs[k]
            /\ jobs'[j].status \in {"pending", "processing"}
        BY <2>3, <3>1, <3>2, UpdateStatusEffect
      <3> QED
        BY <2>4, <3>2, <3>3, <3>4
    <2>7. CASE Fail(w)
      <3>1. PICK o : UpdateStatus(j, "failed", "unset", "set", o)
        BY <2>7 DEF Fail
      <3>2. pc[w] \in Executing /\ jobs[j].status = "processing" /\ Conclude(w, "failed")
        BY <2>7 DEF Fail, Executing, RecordInv
      <3>3. /\ \A k \in Jobs \ {j} : jobs'[k] = jobs[k]
            /\ jobs'[j].status # "done"
        BY <2>3, <3>1, <3>2, UpdateStatusEffect
      <3> QED
        BY <2>4, <3>2, <3>3
    <2>8. CASE MarkDone(w)
      <3>1. PICK o \in {"ok", "error"} :
               /\ UpdateStatus(j, "done", "set", "unset", o)
               /\ Conclude(w, IF RepoOk(j, o) THEN "processed" ELSE "failed")
        BY <2>8, NothingLost DEF MarkDone
      <3>2. pc[w] \in Executing /\ jobs[j].status = "processing"
        BY <2>8 DEF MarkDone, Executing, RecordInv
      <3>3. CASE o = "ok"
        <4>1. Conclude(w, "processed")
          BY <3>1, <3>2, <3>3 DEF RepoOk
        <4>2. /\ \A k \in Jobs \ {j} : jobs'[k] = jobs[k]
              /\ jobs'[j].status = "done"
          BY <2>3, <3>1, <3>2, <3>3, UpdateStatusEffect
        <4>3. /\ Cardinality(DoneJobs') = Cardinality(DoneJobs) + 1
              /\ Cardinality(FailedJobs') = Cardinality(FailedJobs)
          BY <1>3, <2>1, <2>3, <3>2, <4>2, OutcomeMoves
        <4>4. /\ stats'[Process]["processed"] = stats[Process]["processed"] + 1
              /\ stats'[Process]["failed"] = stats[Process]["failed"]
              /\ stats'[Process]["skipped"] = stats[Process]["skipped"]
          BY <3>2, <4>1, ConcludeCounts
        <4> QED
          BY <1>1, <1>3, <4>3, <4>4
      <3>4. CASE o = "error"
        <4>1. Conclude(w, "failed")
          BY <3>1, <3>4 DEF RepoOk
        <4>2. UNCHANGED jobs
          BY <3>1, <3>4 DEF UpdateStatus
        <4> QED
          BY <2>4, <3>2, <4>1, <4>2
      <3> QED
        BY <3>1, <3>3, <3>4
    <2> QED
      BY <1>9, <2>2, <2>5, <2>6, <2>7, <2>8 DEF WorkerStep
  <1> QED
    BY <1>4, <1>6, <1>7, <1>8, <1>9 DEF Moves

-----------------------------------------------------------------------------
(* The invariant *)

\* The inductive invariant holds when a command starts.
LEMMA InitInv == Init => Inv
  <1> SUFFICES ASSUME Init PROVE Inv
    OBVIOUS
  <1> USE DEF Init, StoreInit, CreateInit, PoolInit, MemInit, DiskInit
  <1>1. TypeOK
    BY InitType
  <1>2. MainInv /\ TempInv /\ StorageContract /\ NoSendAfterClose
    BY KeysType DEF MainInv, Free, TempInv, StorageContract, NoSendAfterClose
  <1>3. PlaceInv
    BY PoolAssumption DEF PlaceInv, Queued, Free
  <1>4. RecordInv
    BY PoolAssumption DEF RecordInv, Queued, NoJob
  <1>5. stats[Process] = NoStats
    BY OneProcess
  <1>6. EveryJobCounted
    <2>1. {w \in Workers : pc[w] \in Executing} = {} /\ {j \in Jobs : req[j] = "accepted"} = {}
      BY DEF Executing
    <2>2. Len(chan) = 0 /\ Cardinality({held} \ {NoDelivery}) = 0
      BY HeldCount
    <2>3. Waiting = 0
      BY <2>2 DEF Waiting
    <2>4. Running = 0 /\ Accepted = 0
      BY <2>1, FS_EmptySet, Zenon DEF Running, Accepted
    <2>5. Counted = 0
      BY <1>5 DEF Counted, NoStats
    <2> HIDE DEF Init
    <2> QED
      BY <2>3, <2>4, <2>5 DEF EveryJobCounted, Waiting, Running, Counted, Accepted
  <1>7. CountersMatchRecords
    <2>1. {j \in Jobs : jobs[j].status = "done"} = {}
      BY DEF NoJob
    <2>2. {j \in Jobs : req[j] = "accepted" /\ jobs[j].status = "failed"} = {}
      BY DEF NoJob
    <2>3. /\ Cardinality({j \in Jobs : jobs[j].status = "done"}) = 0
          /\ Cardinality({j \in Jobs : req[j] = "accepted" /\ jobs[j].status = "failed"}) = 0
      BY <2>1, <2>2, FS_EmptySet, Zenon
    <2>4. \A o \in {"processed", "failed", "skipped"} : stats[Process][o] = 0
      BY <1>5 DEF NoStats
    <2> HIDE DEF Init
    <2> QED
      BY <2>3, <2>4 DEF CountersMatchRecords
  <1> QED
    BY <1>1, <1>2, <1>3, <1>4, <1>6, <1>7 DEF Inv

\* Every step of the two commands and of their environment preserves it.
LEMMA StepInv == Inv /\ [Next]_vars => Inv'
  <1> SUFFICES ASSUME Inv, [Next]_vars PROVE Inv'
    OBVIOUS
  <1>1. TypeOK /\ Safety /\ EveryJobCounted /\ CountersMatchRecords
    BY DEF Inv, Safety
  <1>2. CASE Moves
    <2>1. TypeOK'
      BY <1>1, <1>2, MovesType DEF Safety
    <2>2. Safety'
      BY <1>1, <1>2, CreateCallSafety, CreatePutSafety, CreateEnqueueSafety, FetchNextSafety,
         TakeSafety, WorkerStepSafety, WorkerPutSafety
      DEF Moves, SubmitStep
    <2>3. EveryJobCounted' /\ CountersMatchRecords'
      BY <1>1, <1>2, MovesAccount, MovesCounters
    <2> QED
      BY <2>1, <2>2, <2>3 DEF Inv, Safety
  <1>3. ASSUME UNCHANGED moved, phase'[Process] = "running" => phase[Process] = "running"
        PROVE  EveryJobCounted' /\ CountersMatchRecords'
    BY <1>1, <1>3 DEF moved, EveryJobCounted, CountersMatchRecords
  <1>4. CASE Turns
    BY <1>1, <1>3, <1>4, TurnsType, TurnsSafety, TurnsLeaveAlone DEF Inv, Safety
  <1>5. CASE UNCHANGED vars
    <2>1. TypeOK'
      BY <1>1, <1>5, UnchangedParts, UnchangedQueueAndDisk DEF TypeOK, vars
    <2>2. Safety'
      BY <1>1, <1>5
      DEF Safety, MainInv, Served, PlaceInv, RecordInv, Queued, TempInv, StorageContract,
          NoSendAfterClose, vars, storeVars, createVars, poolVars, memVars, diskVars
    <2>3. EveryJobCounted' /\ CountersMatchRecords'
      BY <1>3, <1>5 DEF moved, vars, storeVars, createVars, poolVars, memVars, diskVars
    <2> QED
      BY <2>1, <2>2, <2>3 DEF Inv, Safety
  <1> QED
    BY <1>2, <1>4, <1>5, NextSteps

\* The invariant holds in every reachable state.
THEOREM Invariance == Spec => []Inv
  BY InitInv, StepInv, PTL DEF Spec

\* Every variable keeps its type: the channel never outgrows its buffer, and no
\* counter is negative.
THEOREM TypeCorrectness == Spec => []TypeOK
  <1>1. Inv => TypeOK
    BY DEF Inv
  <1> QED
    BY <1>1, Invariance, PTL

\* Close never closes the channel under an Enqueue that has passed its check.
THEOREM NoPanic == Spec => []NoSendAfterClose
  <1>1. Inv => NoSendAfterClose
    BY DEF Inv
  <1> QED
    BY <1>1, Invariance, PTL

\* However a Put ends, and whenever the process dies, Get finds a whole object
\* under the keys that were put and nothing under the others.
THEOREM WholeObjects == Spec => []StorageContract
  <1>1. Inv => StorageContract
    BY DEF Inv
  <1> QED
    BY <1>1, Invariance, PTL

\* A command that ends by itself leaves no temporary file: no request and no
\* worker is under way then, and only those have one.
THEOREM NoLitter == Spec => []CleanExitLeavesNoTemp
  <1>1. Inv => CleanExitLeavesNoTemp
    <2> SUFFICES ASSUME Inv, main = "exited", NEW k \in Keys
                 PROVE  temp[k] = "none"
      BY DEF CleanExitLeavesNoTemp
    <2>1. PICK j \in Jobs : k = OriginalKey(j) \/ k = ResultKey(j)
      BY DEF Keys, OriginalKey, ResultKey
    <2>2. req[j] # "store" /\ \A w \in Workers : pc[w] # "store"
      BY DEF Inv, MainInv, Served, Active, Free
    <2> QED
      BY <2>1, <2>2 DEF Inv, TempInv
  <1> QED
    BY <1>1, Invariance, PTL

\* No accepted job vanishes before the signal, and none is counted twice.
THEOREM JobsAreCounted == Spec => []EveryJobCounted
  <1>1. Inv => EveryJobCounted
    BY DEF Inv
  <1> QED
    BY <1>1, Invariance, PTL

\* The pool's counters agree with the records.
THEOREM CountersAreTrue == Spec => []CountersMatchRecords
  <1>1. Inv => CountersMatchRecords
    BY DEF Inv
  <1> QED
    BY <1>1, Invariance, PTL

\* A job is in one place at a time: the channel, the consumer goroutine, or one
\* of the workers.
THEOREM OnePlace == Spec => []DeliveredOnce
  <1>1. Inv => DeliveredOnce
    <2> SUFFICES ASSUME Inv, NEW j \in Jobs
                 PROVE  Places(j) <= 1
      BY DEF DeliveredOnce
    <2> DEFINE C == {i \in 1..Len(chan) : chan[i] = j}
               H == {h \in {held} : h = j}
               W == {w \in Workers : cur[w] = j}
    <2> USE DEF Inv, TypeOK
    <2>1. \A i, k \in C : i = k
      BY DEF PlaceInv
    <2>2. \A v, w \in W : v = w
      BY PoolAssumption DEF PlaceInv
    <2>3. /\ C # {} => H = {} /\ W = {}
          /\ H # {} => W = {}
      BY DEF PlaceInv, Queued
    <2>4. \A g, h \in H : g = h
      OBVIOUS
    <2> HIDE DEF C, H, W
    <2>5. /\ Cardinality(C) = IF C = {} THEN 0 ELSE 1
          /\ Cardinality(H) = IF H = {} THEN 0 ELSE 1
          /\ Cardinality(W) = IF W = {} THEN 0 ELSE 1
      BY <2>1, <2>2, <2>4, AtMostOne
    <2>6. Places(j) = Cardinality(C) + Cardinality(H) + Cardinality(W)
      BY DEF Places, C, H, W
    <2> QED
      BY <2>3, <2>5, <2>6
  <1> QED
    BY <1>1, Invariance, PTL

-----------------------------------------------------------------------------
(* The records implement the strict lifecycle *)

\* A step creates a pending record, writes a later status to one that has the
\* status before, or leaves every record alone.
LEMMA RecordSteps ==
    ASSUME Inv, [Next]_vars
    PROVE  \/ UNCHANGED jobs
           \/ \E j \in Jobs :
                 \/ /\ jobs[j].status = "absent"
                    /\ jobs' = [jobs EXCEPT ![j] = NewJob]
                 \/ \E o : \/ /\ jobs[j].status = "pending"
                              /\ UpdateStatus(j, "processing", "unset", "unset", o)
                           \/ /\ jobs[j].status = "processing"
                              /\ UpdateStatus(j, "done", "set", "unset", o)
                           \/ /\ jobs[j].status \in {"pending", "processing"}
                              /\ UpdateStatus(j, "failed", "unset", "set", o)
  <1> USE DEF Inv, TypeOK
  <1>1. \/ UNCHANGED jobs
        \/ \E j \in Jobs : SaveJob(j) \/ MarkFailed(j)
        \/ \E w \in Workers : Claim(w) \/ MarkDone(w) \/ Fail(w)
    <2>1. Turns => UNCHANGED jobs
      BY TurnsLeaveAlone DEF moved
    <2>2. Moves => \/ UNCHANGED jobs
                   \/ \E j \in Jobs : SaveJob(j) \/ MarkFailed(j)
                   \/ \E w \in Workers : Claim(w) \/ MarkDone(w) \/ Fail(w)
      BY DEF Moves, SubmitStep, CreateCall, Begin, CreatePut, PutProceeds, OriginalStored,
             CreateEnqueue, EnqueueAccepted, EnqueueRefused, FetchNext, TakeDelivery, Take,
             WorkerStep, Load, Transform, Settled, Exit, WorkerPut, ResultStored, storeVars
    <2> QED
      BY <2>1, <2>2, NextSteps DEF vars, storeVars
  <1>2. ASSUME NEW j \in Jobs, SaveJob(j), jobs' # jobs
        PROVE  jobs[j].status = "absent" /\ jobs' = [jobs EXCEPT ![j] = NewJob]
    BY <1>2 DEF SaveJob, Save, RecordInv
  <1>3. ASSUME NEW j \in Jobs, MarkFailed(j)
        PROVE  jobs[j].status = "pending" /\ \E o : UpdateStatus(j, "failed", "unset", "set", o)
    BY <1>3 DEF MarkFailed, RecordInv
  <1>4. ASSUME NEW w \in Workers, Claim(w) \/ MarkDone(w) \/ Fail(w)
        PROVE  /\ cur[w] \in Jobs
               /\ \E o : \/ /\ jobs[cur[w]].status = "pending"
                            /\ UpdateStatus(cur[w], "processing", "unset", "unset", o)
                         \/ /\ jobs[cur[w]].status = "processing"
                            /\ UpdateStatus(cur[w], "done", "set", "unset", o)
                         \/ /\ jobs[cur[w]].status = "processing"
                            /\ UpdateStatus(cur[w], "failed", "unset", "set", o)
    <2>1. cur[w] \in Jobs
      BY <1>4 DEF Claim, MarkDone, Fail, PlaceInv, PoolTypeOK, Free
    <2> QED
      BY <1>4, <2>1 DEF Claim, MarkDone, Fail, RecordInv
  <1> QED
    BY <1>1, <1>2, <1>3, <1>4

\* Every step of the two commands is a step of the lifecycle without redelivery,
\* or invisible to a client: no job leaves a terminal status.
THEOREM StrictRefinement == Spec => RefinesStrictLifecycle
  <1> DEFINE status == [j \in Jobs |-> jobs[j].status]
             published == {j \in Jobs : jobs[j].resultKey = "set"}
  <1>1. Init => Lifecycle!Init
    BY DEF Init, StoreInit, NoJob, Lifecycle!Init
  <1>2. Inv /\ [Next]_vars => [Lifecycle!Next]_(Lifecycle!lifecycleVars)
    <2> SUFFICES ASSUME Inv, [Next]_vars
                 PROVE  Lifecycle!Next \/ UNCHANGED Lifecycle!lifecycleVars
      OBVIOUS
    <2> USE DEF Inv, TypeOK, StoreTypeOK
    <2>1. CASE UNCHANGED jobs
      BY <2>1 DEF Lifecycle!lifecycleVars
    <2>2. ASSUME NEW j \in Jobs, jobs[j].status = "absent",
                 jobs' = [jobs EXCEPT ![j] = NewJob]
          PROVE  Lifecycle!Create(j)
      <3>1. published' = published
        BY <2>2 DEF NewJob, RecordInv
      <3> QED
        BY <2>2, <3>1 DEF Lifecycle!Create, Lifecycle!Exists, NewJob
    <2>3. ASSUME NEW j \in Jobs, NEW o, jobs[j].status = "pending",
                 UpdateStatus(j, "processing", "unset", "unset", o), jobs' # jobs
          PROVE  Lifecycle!Start(j)
      <3>1. \A k \in Jobs : jobs'[k].resultKey = jobs[k].resultKey
        BY <2>3 DEF UpdateStatus
      <3>2. status' = [status EXCEPT ![j] = "processing"]
        BY <2>3 DEF UpdateStatus
      <3> QED
        BY <2>3, <3>1, <3>2 DEF Lifecycle!Start
    <2>4. ASSUME NEW j \in Jobs, NEW o, jobs[j].status = "processing",
                 UpdateStatus(j, "done", "set", "unset", o), jobs' # jobs
          PROVE  Lifecycle!Publish(j)
      <3>1. published' = published \cup {j}
        BY <2>4 DEF UpdateStatus
      <3>2. status' = [status EXCEPT ![j] = "done"]
        BY <2>4 DEF UpdateStatus
      <3> QED
        BY <2>4, <3>1, <3>2 DEF Lifecycle!Publish
    <2>5. ASSUME NEW j \in Jobs, NEW o, jobs[j].status \in {"pending", "processing"},
                 UpdateStatus(j, "failed", "unset", "set", o), jobs' # jobs
          PROVE  Lifecycle!GiveUp(j)
      <3>1. \A k \in Jobs : jobs'[k].resultKey = jobs[k].resultKey
        BY <2>5 DEF UpdateStatus
      <3>2. status' = [status EXCEPT ![j] = "failed"]
        BY <2>5 DEF UpdateStatus
      <3> QED
        BY <2>5, <3>1, <3>2 DEF Lifecycle!GiveUp
    <2> QED
      BY RecordSteps, <2>1, <2>2, <2>3, <2>4, <2>5 DEF Lifecycle!Next
  <1> QED
    BY <1>1, <1>2, Invariance, PTL DEF Spec, RefinesStrictLifecycle, Lifecycle!Spec
=============================================================================
