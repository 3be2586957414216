-------------------------- MODULE StuckJobsProofs ---------------------------
(***************************************************************************)
(* ProcessingIsExplained for every number of jobs, processes and workers,  *)
(* every fault model and every set of disturbances.                        *)
(***************************************************************************)
EXTENDS StuckJobs, AwsPipelineProofs

\* The workers of a process that has ended, or died, are gone with it.
GoneInv == \A w \in Workers : phase[Proc(w)] \notin Up => pc[w] = "exited"

HistoryInv == Inv /\ GoneInv /\ ProcessingIsExplained

-----------------------------------------------------------------------------

\* A behaviour with the history variable is one of the pipeline: the invariants
\* proved of the pipeline hold of it.
LEMMA HistoryIsPipeline == HistorySpec => Spec
  <1>1. HistoryInit => Init
    BY DEF HistoryInit
  <1>2. [HistoryNext]_historyVars => [Next]_vars
    BY DEF HistoryNext, historyVars
  <1> QED
    BY <1>1, <1>2, PTL DEF HistorySpec, Spec

\* A worker that is at a call belongs to a process that is up.
LEMMA StepGone ==
    ASSUME Inv, GoneInv, Next
    PROVE  GoneInv'
  <1> USE ProcOfWorker DEF Inv, TypeOK, PoolTypeOK, GoneInv, Up
  <1>1. ASSUME NEW j \in Jobs, ApiStep(j)
        PROVE  GoneInv'
    BY <1>1 DEF ApiStep, Enqueue, poolVars
  <1>2. ASSUME NEW w \in Workers, NEW j \in Jobs, TakeDelivery(w, j)
        PROVE  GoneInv'
    BY <1>2 DEF TakeDelivery, Take
  <1>3. ASSUME NEW w \in Workers, ExecuteStep(w)
        PROVE  GoneInv'
    <2>1. UNCHANGED phase /\ pc[w] # "exited" /\ \A v \in Workers \ {w} : pc'[v] = pc[v]
      BY <1>3
      DEF ExecuteStep, Execute, Load, Claim, Transform, StoreResult, ResultStored, MarkDone,
          Fail, Conclude, Goto
    <2> QED
      BY <2>1
  <1>4. ASSUME NEW w \in Workers, SettleDelivery(w) \/ ExitWorker(w)
        PROVE  GoneInv'
    BY <1>4 DEF SettleDelivery, Settled, Settling, ExitWorker, Exit, Goto
  <1>5. ASSUME NEW p \in Procs, Consume(p) \/ AbandonJobs(p)
        PROVE  GoneInv'
    BY <1>5 DEF Consume, AbandonJobs, ShutdownTimeout, poolVars
  <1>6. ASSUME NEW p \in Procs, ReturnFromRun(p)
        PROVE  GoneInv'
    BY <1>6 DEF ReturnFromRun, Return, Workers, WorkersOf, Proc
  <1>7. CASE DeadLetter
    BY <1>7 DEF DeadLetter, poolVars
  <1>8. CASE Disturb
    BY <1>8 DEF Disturb, TimeOut, JobTimeout, Cancel, Crash, Restart, poolVars
  <1> QED
    BY <1>1, <1>2, <1>3, <1>4, <1>5, <1>6, <1>7, <1>8 DEF Next

\* A call of the repository under the job's context fails for a reason.
LEMMA FaultIsExcused ==
    ASSUME NEW w \in Workers, NEW o \in Outcomes(JobLive(w), RepoFaults), o # "ok"
    PROVE  Excused(w)
  BY DEF Outcomes, JobLive, Excused

\* The job of a worker whose write fails for a reason, or who dies, is marred.
LEMMA HitIsMarred ==
    ASSUME Observe, NEW w \in Workers, (WriteFails(w) /\ Excused(w)) \/ Dies(w)
    PROVE  cur[w] \in marred'
  BY DEF Observe

\* What a call of ProcessJob does to a record in processing, and to a claim.
LEMMA ExecuteExplained ==
    ASSUME HistoryInv, Observe, NEW w \in Workers, ExecuteStep(w)
    PROVE  ProcessingIsExplained'
  <1> USE DEF HistoryInv, Inv, TypeOK
  <1> SUFFICES ASSUME NEW j \in Jobs, jobs'[j].status = "processing"
               PROVE  \/ j \in marred'
                      \/ \E v \in Workers : cur'[v] = j /\ pc'[v] \in PastClaim
    BY DEF ProcessingIsExplained
  <1>1. UNCHANGED cur /\ \A v \in Workers \ {w} : pc'[v] = pc[v]
    BY DEF ExecuteStep, Execute, Load, Claim, Transform, StoreResult, ResultStored, MarkDone,
           Fail, Conclude, Goto, PoolTypeOK
  <1>2. marred \subseteq marred'
    BY DEF Observe
  <1>3. CASE cur[w] # j
    <2>1. jobs'[j] = jobs[j]
      BY <1>3
      DEF ExecuteStep, Execute, Load, Claim, Transform, StoreResult, ResultStored, MarkDone,
          Fail, UpdateStatus, StoreTypeOK, storeVars
    <2>2. j \in marred \/ \E v \in Workers : cur[v] = j /\ pc[v] \in PastClaim
      BY <2>1 DEF ProcessingIsExplained
    <2> QED
      BY <1>1, <1>2, <1>3, <2>2
  <1>4. CASE cur[w] = j
    <2>1. jobs[j].status # "absent" /\ jobs[j] \in JobRecord
      BY <1>4
      DEF ExecuteStep, Execute, Load, Claim, Transform, StoreResult, ResultStored, MarkDone,
          Fail, DeliveryInv, MessageHasInput, Busy, Executing, StoreTypeOK
    <2>2. CASE Load(w)
      <3>1. jobs'[j] = jobs[j] /\ pc[w] = "load"
        BY <2>2 DEF Load, storeVars
      <3>2. j \in marred \/ \E v \in Workers \ {w} : cur[v] = j /\ pc[v] \in PastClaim
        BY <3>1 DEF ProcessingIsExplained, PastClaim
      <3> QED
        BY <1>1, <1>2, <3>2
    <2>3. CASE Claim(w)
      <3>1. PICK o \in Outcomes(JobLive(w), RepoFaults) :
               IF RepoOk(cur[w], o)
               THEN Goto(w, "transform") /\ UNCHANGED stats
               ELSE Conclude(w, "failed")
        BY <2>3 DEF Claim
      <3>2. CASE o = "ok"
        <4>1. pc'[w] = "transform"
          BY <1>4, <2>1, <3>1, <3>2 DEF RepoOk, Goto, PoolTypeOK
        <4> QED
          BY <1>1, <1>4, <4>1 DEF PastClaim
      <3>3. CASE o # "ok"
        <4>1. pc[w] = "claim" /\ pc'[w] = "nack"
          BY <2>3, <3>1, <3>3 DEF Claim, RepoOk, Conclude, Goto, PoolTypeOK
        <4>2. WriteFails(w) /\ Excused(w)
          BY <3>3, <4>1, FaultIsExcused DEF WriteFails
        <4> QED
          BY <1>4, <4>2, HitIsMarred
      <3> QED
        BY <3>2, <3>3
    <2>4. CASE Transform(w) \/ StoreResult(w)
      <3>1. pc'[w] \in PastClaim
        BY <2>4 DEF Transform, StoreResult, ResultStored, Goto, PastClaim, PoolTypeOK
      <3> QED
        BY <1>1, <1>4, <3>1
    <2>5. CASE MarkDone(w)
      <3>1. PICK o \in Outcomes(JobLive(w), RepoFaults) :
               /\ UpdateStatus(cur[w], "done", "set", "unset", o)
               /\ Conclude(w, IF RepoOk(cur[w], o) THEN "processed" ELSE "failed")
        BY <2>5 DEF MarkDone
      <3>2. o # "ok"
        BY <1>4, <2>1, <3>1 DEF UpdateStatus, StoreTypeOK
      <3>3. pc[w] = "finish" /\ pc'[w] = "nack"
        BY <2>5, <3>1, <3>2 DEF MarkDone, RepoOk, Conclude, Goto, PoolTypeOK
      <3>4. WriteFails(w) /\ Excused(w)
        BY <3>2, <3>3, FaultIsExcused DEF WriteFails
      <3> QED
        BY <1>4, <3>4, HitIsMarred
    <2>6. CASE Fail(w)
      <3>1. PICK o \in Outcomes(JobLive(w), RepoFaults) :
               UpdateStatus(cur[w], "failed", "unset", "set", o)
        BY <2>6 DEF Fail
      <3>2. o # "ok"
        BY <1>4, <2>1, <3>1 DEF UpdateStatus, StoreTypeOK
      <3>3. pc[w] = "fail" /\ pc'[w] = "nack"
        BY <2>6 DEF Fail, Conclude, Goto, PoolTypeOK
      <3>4. WriteFails(w) /\ Excused(w)
        BY <1>4, <3>2, <3>3, FaultIsExcused DEF WriteFails
      <3> QED
        BY <1>4, <3>4, HitIsMarred
    <2> QED
      BY <2>2, <2>3, <2>4, <2>5, <2>6 DEF ExecuteStep, Execute
  <1> QED
    BY <1>3, <1>4

\* A request creates a pending record or marks one failed; neither is processing.
LEMMA RequestExplained ==
    ASSUME HistoryInv, Observe, NEW k \in Jobs, ApiStep(k)
    PROVE  ProcessingIsExplained'
  <1> USE DEF HistoryInv, Inv, TypeOK
  <1>1. UNCHANGED <<pc, cur>> /\ marred \subseteq marred'
    BY DEF ApiStep, Enqueue, poolVars, Observe
  <1>2. \A j \in Jobs : jobs'[j].status = "processing" => jobs[j].status = "processing"
    BY DEF ApiStep, CreateStep, Begin, StoreOriginal, OriginalStored, SaveJob, Save, NewJob,
           MarkFailed, UpdateStatus, Enqueue, EnqueueAccepted, EnqueueRefused, StoreTypeOK,
           storeVars
  <1> QED
    BY <1>1, <1>2 DEF ProcessingIsExplained

\* Nobody else moves a worker from its call, except for a crash.
LEMMA OtherExplained ==
    ASSUME HistoryInv, Observe, Next,
           ~ \E j \in Jobs : ApiStep(j),
           ~ \E w \in Workers : ExecuteStep(w)
    PROVE  ProcessingIsExplained'
  <1> USE DEF HistoryInv, Inv, TypeOK
  <1>1. UNCHANGED jobs /\ marred \subseteq marred'
    BY BystanderSteps DEF Observe
  <1>2. ASSUME NEW w \in Workers, pc[w] \in PastClaim
        PROVE  Dies(w) \/ (pc'[w] = pc[w] /\ cur'[w] = cur[w])
    <2>1. pc[w] \notin {"idle", "exited", "ack", "nack"} /\ phase[Proc(w)] \in Up
      BY <1>2 DEF PastClaim, GoneInv
    <2>2. CASE \E v \in Workers, j \in Jobs : TakeDelivery(v, j)
      BY <2>1, <2>2 DEF TakeDelivery, Take, PoolTypeOK
    <2>3. CASE \E v \in Workers : SettleDelivery(v) \/ ExitWorker(v)
      BY <2>1, <2>3 DEF SettleDelivery, Settled, Settling, ExitWorker, Exit, Goto, PoolTypeOK
    <2>4. CASE \E p \in Procs : Consume(p) \/ AbandonJobs(p) \/ ReturnFromRun(p)
      BY <2>4 DEF Consume, AbandonJobs, ShutdownTimeout, ReturnFromRun, Return, poolVars
    <2>5. CASE DeadLetter
      BY <2>5 DEF DeadLetter, poolVars
    <2>6. CASE Disturb
      BY <1>2, <2>1, <2>6, ProcOfWorker
      DEF Disturb, TimeOut, JobTimeout, Cancel, Crash, Restart, poolVars, Dies, PoolTypeOK
    <2> QED
      BY <2>2, <2>3, <2>4, <2>5, <2>6 DEF Next
  <1>3. \A w \in Workers : pc[w] \in PastClaim =>
           cur[w] \in marred' \/ (pc'[w] \in PastClaim /\ cur'[w] = cur[w])
    BY <1>2, HitIsMarred
  <1> QED
    BY <1>1, <1>3 DEF ProcessingIsExplained

\* Every step keeps the invariant with history.
LEMMA HistoryStep == HistoryInv /\ [HistoryNext]_historyVars => HistoryInv'
  <1> SUFFICES ASSUME HistoryInv, [HistoryNext]_historyVars PROVE HistoryInv'
    OBVIOUS
  <1>1. Inv'
    BY StepInv DEF HistoryInv, HistoryNext, historyVars
  <1>2. CASE UNCHANGED historyVars
    BY <1>1, <1>2
    DEF HistoryInv, historyVars, vars, storeVars, poolVars, GoneInv, ProcessingIsExplained
  <1>3. CASE HistoryNext
    BY <1>1, <1>3, StepGone, ExecuteExplained, RequestExplained, OtherExplained
    DEF HistoryInv, HistoryNext
  <1> QED
    BY <1>2, <1>3

\* A job that stays in processing had a worker that died past its claim, ran
\* into its timeout or an abandoned shutdown, or met a fault of the repository:
\* for every number of jobs, processes and workers, under every interleaving of
\* redeliveries, signals, crashes and restarts (process_job.go, pool.go).
THEOREM StuckIsExplained == HistorySpec => []ProcessingIsExplained
  <1>1. HistoryInit => HistoryInv
    <2> SUFFICES ASSUME HistoryInit PROVE HistoryInv
      OBVIOUS
    <2>1. Inv
      BY InitInv DEF HistoryInit
    <2>2. GoneInv
      BY ProcOfWorker DEF HistoryInit, Init, PoolInit, GoneInv, Up
    <2>3. ProcessingIsExplained
      BY DEF HistoryInit, Init, StoreInit, NoJob, ProcessingIsExplained
    <2> QED
      BY <2>1, <2>2, <2>3 DEF HistoryInv
  <1>2. HistoryInv => ProcessingIsExplained
    BY DEF HistoryInv
  <1> QED
    BY <1>1, <1>2, HistoryStep, PTL DEF HistorySpec

\* Where no process dies, no context ends and the repository does not fail, no
\* job is ever marred, so a job in processing has a worker on it: whatever the
\* storage, the queue and the clients do, and however often a message reappears.
\* This is what AcceptedSettles needs besides fairness: nobody has to come back
\* for a job that was left.
THEOREM NobodyIsLeft ==
    ASSUME RepoFaults = {},
           Disturbances \cap {"crash", "timeout", "signal"} = {}
    PROVE  HistorySpec =>
              [](\A j \in Jobs : jobs[j].status = "processing" =>
                    \E w \in Workers : cur[w] = j /\ pc[w] \in PastClaim)
  <1> DEFINE Unmarred == Undisturbed /\ (\A p \in Procs : phase[p] # "down") /\ marred = {}
             Attended == \A j \in Jobs : jobs[j].status = "processing" =>
                            \E w \in Workers : cur[w] = j /\ pc[w] \in PastClaim
  <1>1. HistoryInit => Unmarred
    BY DEF HistoryInit, Init, PoolInit, Undisturbed
  <1>2. Inv /\ Unmarred /\ [HistoryNext]_historyVars => Unmarred'
    <2> SUFFICES ASSUME Inv, Unmarred, [HistoryNext]_historyVars
                 PROVE  Unmarred'
      OBVIOUS
    <2>1. [Next]_vars
      BY DEF HistoryNext, historyVars
    <2>2. Undisturbed'
      BY <2>1, UndisturbedStep
    <2>3. \A p \in Procs : phase'[p] # "down"
      BY <2>1
      DEF Next, ApiStep, Enqueue, TakeDelivery, Take, ExecuteStep, Execute, Load, Claim,
          Transform, StoreResult, ResultStored, MarkDone, Fail, SettleDelivery, Settled,
          ExitWorker, Exit, Consume, AbandonJobs, ShutdownTimeout, ReturnFromRun, Return,
          DeadLetter, Disturb, TimeOut, JobTimeout, Cancel, Restart, vars, poolVars, Inv,
          TypeOK, PoolTypeOK
    <2>4. \A w \in Workers : ~Excused(w) /\ ~Dies(w)
      BY <2>3, ProcOfWorker DEF Excused, Dies, Undisturbed
    <2>5. marred' = {}
      BY <2>4 DEF HistoryNext, historyVars, Observe
    <2> QED
      BY <2>2, <2>3, <2>5
  <1>3. ProcessingIsExplained /\ Unmarred => Attended
    BY DEF ProcessingIsExplained
  <1>4. HistorySpec => []Inv
    BY HistoryIsPipeline, Invariance, PTL
  <1> HIDE DEF Unmarred
  <1> QED
    BY <1>1, <1>2, <1>3, <1>4, StuckIsExplained, PTL DEF HistorySpec
=============================================================================
