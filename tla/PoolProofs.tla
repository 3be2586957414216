----------------------------- MODULE PoolProofs -----------------------------
(***************************************************************************)
(* What the stores, the CreateJob use case and the worker pool do, for     *)
(* whichever queue they are composed with: the lemmas that the proofs      *)
(* about both backends rest on.                                            *)
(***************************************************************************)
EXTENDS CreateJob, WorkerPool, TLAPS

(* The operators of the stores and the pool *)

\* A worker belongs to one of the processes.
LEMMA ProcOfWorker == \A w \in Workers : Proc(w) \in Procs
  BY DEF Workers, Proc

\* An outcome of a call is "ok" or a fault.
LEMMA OutcomesType ==
    ASSUME NEW live, NEW faults, faults \subseteq Faults
    PROVE  Outcomes(live, faults) \subseteq {"ok", "error", "lost"}
  BY DEF Outcomes, Faults

\* Save leaves well-typed records.
LEMMA SaveType ==
    ASSUME StoreTypeOK, NEW j \in Jobs, NEW rec \in JobRecord, NEW o, Save(j, rec, o)
    PROVE  jobs' \in [Jobs -> JobRecord]
  BY DEF StoreTypeOK, Save

\* UpdateStatus leaves well-typed records, whichever fields it keeps.
LEMMA UpdateStatusType ==
    ASSUME StoreTypeOK, NEW j \in Jobs, NEW s \in Status,
           NEW key \in {"unset", "set"}, NEW err \in {"unset", "set"}, NEW o,
           UpdateStatus(j, s, key, err, o)
    PROVE  jobs' \in [Jobs -> JobRecord]
  <1> DEFINE rec == [status    |-> s,
                     resultKey |-> IF key = "set" THEN key ELSE jobs[j].resultKey,
                     error     |-> err]
  <1>1. jobs[j] \in JobRecord
    BY DEF StoreTypeOK
  <1>2. rec \in JobRecord
    BY <1>1 DEF JobRecord
  <1>3. jobs' = jobs \/ jobs' = [jobs EXCEPT ![j] = rec]
    BY DEF UpdateStatus
  <1> QED
    BY <1>2, <1>3 DEF StoreTypeOK

\* Put stores nothing but keys.
LEMMA PutType ==
    ASSUME StoreTypeOK, NEW key \in Keys, NEW o, Put(key, o)
    PROVE  objects' \in SUBSET Keys
  BY DEF StoreTypeOK, Put

\* The two keys of a job are storage keys.
LEMMA KeysType == \A j \in Jobs : OriginalKey(j) \in Keys /\ ResultKey(j) \in Keys
  BY DEF OriginalKey, ResultKey, Keys

\* Counting an outcome and moving on to settling is well typed.
LEMMA ConcludeType ==
    ASSUME PoolTypeOK, NEW w \in Workers,
           NEW outcome \in {"processed", "failed", "skipped"}, Conclude(w, outcome)
    PROVE  pc' \in [Workers -> PcStates] /\ stats' \in [Procs -> Stats]
  <1>1. Proc(w) \in Procs
    BY ProcOfWorker
  <1>2. stats[Proc(w)] \in Stats
    BY <1>1 DEF PoolTypeOK
  <1> DEFINE counters == [stats[Proc(w)] EXCEPT ![outcome] = stats[Proc(w)][outcome] + 1]
  <1>3. stats' = [stats EXCEPT ![Proc(w)] = counters]
    BY DEF Conclude
  <1>4. counters \in Stats
    BY <1>2 DEF Stats
  <1>5. stats' \in [Procs -> Stats]
    BY <1>1, <1>3, <1>4 DEF PoolTypeOK
  <1>6. pc' \in [Workers -> PcStates]
    BY DEF PoolTypeOK, Conclude, Goto, PcStates, Settling
  <1> QED
    BY <1>5, <1>6

\* A worker's or the API's write of a status after pending.
LEMMA UpdateStatusEffect ==
    ASSUME StoreTypeOK, NEW j \in Jobs, NEW s \in {"processing", "done", "failed"},
           NEW key \in {"unset", "set"}, NEW err \in {"unset", "set"}, NEW o,
           UpdateStatus(j, s, key, err, o)
    PROVE  /\ \A k \in Jobs \ {j} : jobs'[k] = jobs[k]
           /\ \/ jobs'[j] = jobs[j] /\ (o = "error" \/ jobs[j].status = "absent")
              \/ /\ jobs[j].status # "absent"
                 /\ jobs'[j].status = s
                 /\ jobs'[j].error = err
                 /\ jobs'[j].resultKey = IF key = "set" THEN key ELSE jobs[j].resultKey
  BY DEF UpdateStatus, StoreTypeOK

-----------------------------------------------------------------------------
(* Type correctness *)

\* The stores, the requests and the pool start well typed.
LEMMA InitParts ==
    /\ StoreInit => StoreTypeOK
    /\ CreateInit => CreateTypeOK
    /\ PoolInit => PoolTypeOK
  <1>1. StoreInit => StoreTypeOK
    BY DEF StoreInit, StoreTypeOK, NoJob, JobRecord
  <1>2. CreateInit => CreateTypeOK
    BY DEF CreateInit, CreateTypeOK, ReqStates
  <1>3. PoolInit => PoolTypeOK
    BY DEF PoolInit, PoolTypeOK, PcStates, Phases, Stats, NoStats
  <1> QED
    BY <1>1, <1>2, <1>3

\* A group of variables that a step leaves alone keeps its type.
LEMMA UnchangedParts ==
    /\ StoreTypeOK /\ UNCHANGED storeVars => StoreTypeOK'
    /\ CreateTypeOK /\ UNCHANGED createVars => CreateTypeOK'
    /\ PoolTypeOK /\ UNCHANGED poolVars => PoolTypeOK'
  <1>1. StoreTypeOK /\ UNCHANGED storeVars => StoreTypeOK'
    BY DEF StoreTypeOK, storeVars
  <1>2. CreateTypeOK /\ UNCHANGED createVars => CreateTypeOK'
    BY DEF CreateTypeOK, createVars
  <1>3. PoolTypeOK /\ UNCHANGED poolVars => PoolTypeOK'
    BY DEF PoolTypeOK, poolVars
  <1> QED
    BY <1>1, <1>2, <1>3

\* The calls of CreateJob keep the types.
LEMMA CreateCallType ==
    ASSUME StoreTypeOK, CreateTypeOK, NEW j \in Jobs, NEW o,
           Begin(j) \/ OriginalStored(j, o) \/ SaveJob(j) \/ MarkFailed(j)
    PROVE  StoreTypeOK' /\ CreateTypeOK'
  <1>1. CASE Begin(j)
    BY <1>1, UnchangedParts
    DEF Begin, To, CreateTypeOK, ReqStates, Active
  <1>2. CASE OriginalStored(j, o)
    <2>1. objects' \in SUBSET Keys
      BY <1>2, PutType, KeysType DEF OriginalStored
    <2> QED
      BY <1>2, <2>1
      DEF OriginalStored, To, CreateTypeOK, StoreTypeOK, ReqStates, Active
  <1>3. CASE SaveJob(j)
    <2>1. NewJob \in JobRecord
      BY DEF NewJob, JobRecord, Status
    <2>2. jobs' \in [Jobs -> JobRecord]
      BY <1>3, <2>1, SaveType DEF SaveJob
    <2> QED
      BY <1>3, <2>2
      DEF SaveJob, To, CreateTypeOK, StoreTypeOK, ReqStates, Active
  <1>4. CASE MarkFailed(j)
    <2>1. jobs' \in [Jobs -> JobRecord]
      BY <1>4, UpdateStatusType DEF MarkFailed, Status
    <2> QED
      BY <1>4, <2>1
      DEF MarkFailed, To, CreateTypeOK, StoreTypeOK, ReqStates, Active
  <1> QED
    BY <1>1, <1>2, <1>3, <1>4

\* The calls of ProcessJob keep the types.
LEMMA ExecuteCallType ==
    ASSUME StoreTypeOK, PoolTypeOK, NEW w \in Workers, cur[w] \in Jobs, NEW o,
           \/ Load(w) \/ Claim(w) \/ Transform(w)
           \/ ResultStored(w, o) \/ MarkDone(w) \/ Fail(w)
    PROVE  StoreTypeOK' /\ PoolTypeOK'
  <1>1. CASE Load(w)
    <2>1. pc' \in [Workers -> PcStates] /\ stats' \in [Procs -> Stats]
      <3>1. \/ \E outcome \in {"failed", "skipped"} : Conclude(w, outcome)
            \/ Goto(w, "claim") /\ UNCHANGED stats
        BY <1>1 DEF Load
      <3> QED
        BY <3>1, ConcludeType DEF Goto, PoolTypeOK, PcStates, Executing
    <2> QED
      BY <1>1, <2>1, UnchangedParts DEF Load, PoolTypeOK
  <1>2. CASE Claim(w)
    <2>1. pc' \in [Workers -> PcStates] /\ stats' \in [Procs -> Stats]
      <3>1. Conclude(w, "failed") \/ (Goto(w, "transform") /\ UNCHANGED stats)
        BY <1>2 DEF Claim
      <3> QED
        BY <3>1, ConcludeType DEF Goto, PoolTypeOK, PcStates, Executing
    <2>2. jobs' \in [Jobs -> JobRecord]
      BY <1>2, UpdateStatusType DEF Claim, Status
    <2> QED
      BY <1>2, <2>1, <2>2 DEF Claim, PoolTypeOK, StoreTypeOK
  <1>3. CASE Transform(w)
    BY <1>3, UnchangedParts DEF Transform, Goto, PoolTypeOK, PcStates, Executing
  <1>4. CASE ResultStored(w, o)
    <2>1. objects' \in SUBSET Keys
      BY <1>4, PutType, KeysType DEF ResultStored
    <2>2. pc' \in [Workers -> PcStates]
      BY <1>4 DEF ResultStored, Goto, PoolTypeOK, PcStates, Executing
    <2> QED
      BY <1>4, <2>1, <2>2 DEF ResultStored, PoolTypeOK, StoreTypeOK
  <1>5. CASE MarkDone(w)
    <2>1. \E outcome \in {"processed", "failed"} : Conclude(w, outcome)
      BY <1>5 DEF MarkDone
    <2>2. pc' \in [Workers -> PcStates] /\ stats' \in [Procs -> Stats]
      BY <2>1, ConcludeType
    <2>3. jobs' \in [Jobs -> JobRecord]
      BY <1>5, UpdateStatusType DEF MarkDone, Status
    <2> QED
      BY <1>5, <2>2, <2>3 DEF MarkDone, PoolTypeOK, StoreTypeOK
  <1>6. CASE Fail(w)
    <2>1. pc' \in [Workers -> PcStates] /\ stats' \in [Procs -> Stats]
      BY <1>6, ConcludeType DEF Fail
    <2>2. jobs' \in [Jobs -> JobRecord]
      BY <1>6, UpdateStatusType DEF Fail, Status
    <2> QED
      BY <1>6, <2>1, <2>2 DEF Fail, PoolTypeOK, StoreTypeOK
  <1> QED
    BY <1>1, <1>2, <1>3, <1>4, <1>5, <1>6

\* The loop around a delivery, the timeouts and the shutdown keep the types.
LEMMA PoolStepType ==
    ASSUME StoreTypeOK, PoolTypeOK, NEW w \in Workers, NEW j \in Jobs, NEW p \in Procs,
           \/ Take(w, j) \/ Exit(w) \/ Settled(w) \/ JobTimeout(w)
           \/ Cancel(p) \/ ShutdownTimeout(p) \/ Return(p)
    PROVE  StoreTypeOK' /\ PoolTypeOK'
  <1>1. StoreTypeOK'
    BY UnchangedParts
    DEF Take, Exit, Settled, JobTimeout, Cancel, ShutdownTimeout, Return
  <1>2. CASE Take(w, j) \/ Exit(w) \/ Settled(w)
    BY <1>1, <1>2 DEF Take, Exit, Settled, Goto, PoolTypeOK, PcStates, Executing
  <1>3. CASE JobTimeout(w)
    BY <1>1, <1>3 DEF JobTimeout, PoolTypeOK
  <1>4. CASE Cancel(p) \/ ShutdownTimeout(p) \/ Return(p)
    BY <1>1, <1>4 DEF Cancel, ShutdownTimeout, Return, PoolTypeOK, Phases
  <1> QED
    BY <1>2, <1>3, <1>4
=============================================================================
