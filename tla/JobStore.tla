------------------------------ MODULE JobStore ------------------------------
(***************************************************************************)
(* The two stores behind the ports package: the job repository (memrepo,   *)
(* dynamorepo) and the object storage (localstorage, s3storage).           *)
(*                                                                         *)
(* A call has an outcome.  With a context that is already done it is       *)
(* always "error": the call has no effect.  Otherwise it is "ok", or one   *)
(* of the faults the adapter is exposed to: "error" (failed, no effect) or *)
(* "lost" (the remote side applied it, but the caller sees an error        *)
(* because the answer did not come back, or the context ended first).      *)
(***************************************************************************)

CONSTANTS
    Jobs,           \* job identifiers, one per upload: newID never repeats one
    RepoFaults,     \* {} for memrepo, {"error", "lost"} for dynamorepo
    StorageFaults   \* {"error"} for localstorage, {"error", "lost"} for s3storage

Faults == {"error", "lost"}

ASSUME StoreAssumption ==
    /\ RepoFaults \subseteq Faults
    /\ StorageFaults \subseteq Faults

VARIABLES
    jobs,           \* the record of every job, NoJob when there is none
    objects         \* the keys of the objects in storage

storeVars == <<jobs, objects>>

Status == {"pending", "processing", "done", "failed"}

Terminal(s) == s \in {"done", "failed"}

\* A result key is unset or the job's result key; an error text is unset or set.
JobRecord == [status    : Status \cup {"absent"},
              resultKey : {"unset", "set"},
              error     : {"unset", "set"}]

NoJob == [status |-> "absent", resultKey |-> "unset", error |-> "unset"]

NewJob == [status |-> "pending", resultKey |-> "unset", error |-> "unset"]

OriginalKey(j) == <<"original", j>>

ResultKey(j) == <<"result", j>>

Keys == {"original", "result"} \X Jobs

Outcomes(live, faults) == IF live THEN {"ok"} \cup faults ELSE {"error"}

StoreTypeOK ==
    /\ jobs \in [Jobs -> JobRecord]
    /\ objects \in SUBSET Keys

StoreInit ==
    /\ jobs = [j \in Jobs |-> NoJob]
    /\ objects = {}

-----------------------------------------------------------------------------
(* JobRepository *)

Save(j, rec, o) ==
    jobs' = IF o = "error" THEN jobs ELSE [jobs EXCEPT ![j] = rec]

\* Mutants of UpdateStatus, for the runs that show what its details are for.
UpdateStatusKeepsError(j, status, key, err, o) ==
    jobs' = IF o = "error" \/ jobs[j].status = "absent"
            THEN jobs
            ELSE [jobs EXCEPT ![j] =
                    [status    |-> status,
                     resultKey |-> IF key = "set" THEN key ELSE @.resultKey,
                     error     |-> IF err = "set" THEN err ELSE @.error]]

UpdateStatusReplacesKey(j, status, key, err, o) ==
    jobs' = IF o = "error" \/ jobs[j].status = "absent"
            THEN jobs
            ELSE [jobs EXCEPT ![j] =
                    [status |-> status, resultKey |-> key, error |-> err]]

\* There is no condition on the status the record has: the last write wins.
\* The result key is kept unless a new one is given, the error is not.
\* The callers pass identifiers and statuses of the domain: both repositories
\* check that first, and the check, which never fails, is left out.
UpdateStatus(j, status, key, err, o) ==
    jobs' = IF o = "error" \/ jobs[j].status = "absent"
            THEN jobs
            ELSE [jobs EXCEPT ![j] =
                    [status    |-> status,
                     resultKey |-> IF key = "set" THEN key ELSE @.resultKey,
                     error     |-> err]]

\* A repository call that its caller sees succeed, on a job that exists.
RepoOk(j, o) == o = "ok" /\ jobs[j].status # "absent"

(* Storage *)

Put(key, o) ==
    objects' = IF o = "error" THEN objects ELSE objects \cup {key}

\* storage.Get that returns the object to its caller.
GetOk(key, o) == o = "ok" /\ key \in objects
=============================================================================
