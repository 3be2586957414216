----------------------------- MODULE WorkerPool -----------------------------
(***************************************************************************)
(* The worker pool and the ProcessJob use case its workers run.            *)
(*                                                                         *)
(* A process runs one pool: Run starts a goroutine per slot and waits for  *)
(* the end of the process's context (a signal), then for the workers, for  *)
(* at most the shutdown timeout, and cancels the jobs that outlast it.     *)
(* Jobs run under a context that the signal does not cancel: it ends with  *)
(* the job timeout or when the pool abandons its jobs, and not before.     *)
(*                                                                         *)
(* pc[w] is the next call of worker w.  Taking a delivery and settling it  *)
(* are completed by the modules that compose the pool with a queue.        *)
(***************************************************************************)
EXTENDS JobStore, Naturals

CONSTANTS
    Procs,          \* worker processes
    Slots,          \* the goroutines of a pool: size of them
    NoDelivery      \* what an idle worker works on

ASSUME PoolAssumption == NoDelivery \notin Jobs

VARIABLES
    pc,             \* per worker: its next call
    cur,            \* per worker: the job of its delivery
    expired,        \* the workers whose job timeout has fired
    phase,          \* per process: how far Run has come
    stats           \* per process: the pool's counters

poolVars == <<pc, cur, expired, phase, stats>>

Workers == Procs \X Slots

Proc(w) == w[1]

WorkersOf(p) == {p} \X Slots

\* The calls made under the job's context, and those that settle the delivery.
Executing == {"load", "claim", "transform", "store", "finish", "fail"}

Settling == {"ack", "nack"}

PcStates == {"idle", "exited"} \cup Executing \cup Settling

\* running: until the signal; draining: until the shutdown timeout; abandoned:
\* jobCtx canceled; stopped, timedout: Run returned nil, ErrShutdownTimeout.
Phases == {"running", "draining", "abandoned", "stopped", "timedout", "down"}

Up == {"running", "draining", "abandoned"}

Stats == [{"processed", "failed", "skipped"} -> Nat]

NoStats == [o \in {"processed", "failed", "skipped"} |-> 0]

PoolTypeOK ==
    /\ pc \in [Workers -> PcStates]
    /\ cur \in [Workers -> Jobs \cup {NoDelivery}]
    /\ expired \in SUBSET Workers
    /\ phase \in [Procs -> Phases]
    /\ stats \in [Procs -> Stats]

PoolInit ==
    /\ pc = [w \in Workers |-> "idle"]
    /\ cur = [w \in Workers |-> NoDelivery]
    /\ expired = {}
    /\ phase = [p \in Procs |-> "running"]
    /\ stats = [p \in Procs |-> NoStats]

\* Mutants: the job's context ends with the signal; it does not end when jobs
\* are abandoned; it has no timeout.
JobLiveAttached(w) == w \notin expired /\ phase[Proc(w)] = "running"

JobLiveUnabandoned(w) == w \notin expired

JobLiveUntimed(w) == phase[Proc(w)] # "abandoned"

JobLive(w) == w \notin expired /\ phase[Proc(w)] # "abandoned"

Goto(w, step) == pc' = [pc EXCEPT ![w] = step]

\* Execute returns: the outcome is counted, and the delivery settled next.
\* Only a failure leaves the message on the queue.
Conclude(w, outcome) ==
    /\ stats' = [stats EXCEPT ![Proc(w)][outcome] = @ + 1]
    /\ Goto(w, IF outcome = "failed" THEN "nack" ELSE "ack")

-----------------------------------------------------------------------------
(* work: the loop around a delivery *)

\* The select between the two channels is free to prefer the delivery even
\* when the context is already done.
Take(w, j) ==
    /\ pc[w] = "idle"
    /\ phase[Proc(w)] \in Up
    /\ pc' = [pc EXCEPT ![w] = "load"]
    /\ cur' = [cur EXCEPT ![w] = j]
    /\ expired' = expired \ {w}
    /\ UNCHANGED <<phase, stats, storeVars>>

Exit(w) ==
    /\ pc[w] = "idle"
    /\ phase[Proc(w)] \in {"draining", "abandoned"}
    /\ Goto(w, "exited")
    /\ UNCHANGED <<cur, expired, phase, stats, storeVars>>

\* The delivery is settled, whatever the queue answered.
Settled(w) ==
    /\ pc[w] \in Settling
    /\ pc' = [pc EXCEPT ![w] = "idle"]
    /\ cur' = [cur EXCEPT ![w] = NoDelivery]
    /\ expired' = expired \ {w}
    /\ UNCHANGED <<phase, stats, storeVars>>

-----------------------------------------------------------------------------
(* ProcessJob.Execute *)

\* Mutant: a load that fails is settled as a skip.
LoadErrorSkips(w) ==
    /\ pc[w] = "load"
    /\ \E o \in Outcomes(JobLive(w), RepoFaults) :
          IF RepoOk(cur[w], o) /\ jobs[cur[w]].status = "pending"
          THEN Goto(w, "claim") /\ UNCHANGED stats
          ELSE Conclude(w, "skipped")
    /\ UNCHANGED <<cur, expired, phase, storeVars>>

\* Mutant: the record is loaded, but its status is not looked at.
LoadUnchecked(w) ==
    /\ pc[w] = "load"
    /\ \E o \in Outcomes(JobLive(w), RepoFaults) :
          IF RepoOk(cur[w], o)
          THEN Goto(w, "claim") /\ UNCHANGED stats
          ELSE Conclude(w, "failed")
    /\ UNCHANGED <<cur, expired, phase, storeVars>>

\* The status is checked here and not again by the claim.
Load(w) ==
    /\ pc[w] = "load"
    /\ \E o \in Outcomes(JobLive(w), RepoFaults) :
          \/ /\ ~RepoOk(cur[w], o)
             /\ Conclude(w, "failed")
          \/ /\ RepoOk(cur[w], o)
             /\ jobs[cur[w]].status # "pending"
             /\ Conclude(w, "skipped")
          \/ /\ RepoOk(cur[w], o)
             /\ jobs[cur[w]].status = "pending"
             /\ Goto(w, "claim")
             /\ UNCHANGED stats
    /\ UNCHANGED <<cur, expired, phase, storeVars>>

\* Mutant: no claim at all.
ClaimSkipped(w) ==
    /\ pc[w] = "claim"
    /\ Goto(w, "transform")
    /\ UNCHANGED <<stats, cur, expired, phase, storeVars>>

Claim(w) ==
    /\ pc[w] = "claim"
    /\ \E o \in Outcomes(JobLive(w), RepoFaults) :
          /\ UpdateStatus(cur[w], "processing", "unset", "unset", o)
          /\ IF RepoOk(cur[w], o)
             THEN Goto(w, "transform") /\ UNCHANGED stats
             ELSE Conclude(w, "failed")
    /\ UNCHANGED <<cur, expired, phase, objects>>

\* The original is read and transformed; an image may always prove unusable.
Transform(w) ==
    /\ pc[w] = "transform"
    /\ \E o \in Outcomes(JobLive(w), StorageFaults \cup {"error"}) :
          Goto(w, IF GetOk(OriginalKey(cur[w]), o) THEN "store" ELSE "fail")
    /\ UNCHANGED <<cur, expired, phase, stats, storeVars>>

\* Mutant: the error of storage.Put is dropped.
StoreResultUnchecked(w) ==
    /\ pc[w] = "store"
    /\ \E o \in Outcomes(JobLive(w), StorageFaults) :
          /\ Put(ResultKey(cur[w]), o)
          /\ Goto(w, "finish")
    /\ UNCHANGED <<cur, expired, phase, stats, jobs>>

\* storage.Put of the result has returned with outcome o.
ResultStored(w, o) ==
    /\ pc[w] = "store"
    /\ Put(ResultKey(cur[w]), o)
    /\ Goto(w, IF o = "ok" THEN "finish" ELSE "fail")
    /\ UNCHANGED <<cur, expired, phase, stats, jobs>>

StoreResult(w) == \E o \in Outcomes(JobLive(w), StorageFaults) : ResultStored(w, o)

\* Mutant: the job counts as processed though it could not be marked done.
MarkDoneUnchecked(w) ==
    /\ pc[w] = "finish"
    /\ \E o \in Outcomes(JobLive(w), RepoFaults) :
          UpdateStatus(cur[w], "done", "set", "unset", o)
    /\ Conclude(w, "processed")
    /\ UNCHANGED <<cur, expired, phase, objects>>

MarkDone(w) ==
    /\ pc[w] = "finish"
    /\ \E o \in Outcomes(JobLive(w), RepoFaults) :
          /\ UpdateStatus(cur[w], "done", "set", "unset", o)
          /\ Conclude(w, IF RepoOk(cur[w], o) THEN "processed" ELSE "failed")
    /\ UNCHANGED <<cur, expired, phase, objects>>

\* Mutant: the failure is recorded but not counted.
FailUncounted(w) ==
    /\ pc[w] = "fail"
    /\ \E o \in Outcomes(JobLive(w), RepoFaults) :
          UpdateStatus(cur[w], "failed", "unset", "set", o)
    /\ Goto(w, "nack")
    /\ UNCHANGED <<stats, cur, expired, phase, objects>>

\* fail: the failure is recorded under the job's context, expired or not.
Fail(w) ==
    /\ pc[w] = "fail"
    /\ \E o \in Outcomes(JobLive(w), RepoFaults) :
          UpdateStatus(cur[w], "failed", "unset", "set", o)
    /\ Conclude(w, "failed")
    /\ UNCHANGED <<cur, expired, phase, objects>>

Execute(w) ==
    \/ Load(w) \/ Claim(w) \/ Transform(w)
    \/ StoreResult(w) \/ MarkDone(w) \/ Fail(w)

-----------------------------------------------------------------------------
(* Run, and the clocks and signals it reacts to *)

JobTimeout(w) ==
    /\ pc[w] \in Executing
    /\ w \notin expired
    /\ expired' = expired \cup {w}
    /\ UNCHANGED <<pc, cur, phase, stats, storeVars>>

Cancel(p) ==
    /\ phase[p] = "running"
    /\ phase' = [phase EXCEPT ![p] = "draining"]
    /\ UNCHANGED <<pc, cur, expired, stats, storeVars>>

ShutdownTimeout(p) ==
    /\ phase[p] = "draining"
    /\ phase' = [phase EXCEPT ![p] = "abandoned"]
    /\ UNCHANGED <<pc, cur, expired, stats, storeVars>>

\* Every worker has returned, so Run does.
Return(p) ==
    /\ phase[p] \in {"draining", "abandoned"}
    /\ \A w \in WorkersOf(p) : pc[w] = "exited"
    /\ phase' = [phase EXCEPT ![p] = IF @ = "draining" THEN "stopped"
                                                       ELSE "timedout"]
    /\ UNCHANGED <<pc, cur, expired, stats, storeVars>>

\* The process dies: its workers are gone, wherever they were.
Crash(p) ==
    /\ phase[p] \in Up
    /\ phase' = [phase EXCEPT ![p] = "down"]
    /\ pc' = [w \in Workers |-> IF Proc(w) = p THEN "exited" ELSE pc[w]]
    /\ cur' = [w \in Workers |-> IF Proc(w) = p THEN NoDelivery ELSE cur[w]]
    /\ expired' = expired \ WorkersOf(p)
    /\ UNCHANGED <<stats, storeVars>>

\* A new process takes its place, with a pool of its own.
Restart(p) ==
    /\ phase[p] \notin Up
    /\ phase' = [phase EXCEPT ![p] = "running"]
    /\ pc' = [w \in Workers |-> IF Proc(w) = p THEN "idle" ELSE pc[w]]
    /\ stats' = [stats EXCEPT ![p] = NoStats]
    /\ UNCHANGED <<cur, expired, storeVars>>
=============================================================================
