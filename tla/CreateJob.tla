----------------------------- MODULE CreateJob ------------------------------
(***************************************************************************)
(* The CreateJob use case, as the upload handler of the API runs it: store *)
(* the original, save a pending record, enqueue the identifier, and mark   *)
(* the job failed when enqueueing fails.  Every call uses the context of   *)
(* the request, which is done once the client hangs up.                    *)
(*                                                                         *)
(* req[j] is the next call of the upload that creates job j, or how the    *)
(* request ended.  The enqueue step is completed by the module that        *)
(* composes this one with a queue.                                         *)
(***************************************************************************)
EXTENDS JobStore

VARIABLES
    req,            \* per job: where its upload request is
    hungUp          \* the jobs whose request context is done

createVars == <<req, hungUp>>

Active == {"store", "save", "enqueue", "mark"}

ReqStates == {"new", "accepted", "failed", "crashed"} \cup Active

CreateTypeOK ==
    /\ req \in [Jobs -> ReqStates]
    /\ hungUp \in SUBSET Jobs

CreateInit ==
    /\ req = [j \in Jobs |-> "new"]
    /\ hungUp = {}

RequestLive(j) == j \notin hungUp

To(j, state) == req' = [req EXCEPT ![j] = state]

-----------------------------------------------------------------------------

\* Execute is entered; a missing source or an invalid spec ends it at once.
Begin(j) ==
    /\ req[j] = "new"
    /\ \/ To(j, "store")
       \/ To(j, "failed")
    /\ UNCHANGED <<storeVars, hungUp>>

\* Mutant: the record is saved and the job enqueued without a stored original.
StoreOriginalUnchecked(j) ==
    /\ req[j] = "store"
    /\ \E o \in Outcomes(RequestLive(j), StorageFaults) :
          /\ Put(OriginalKey(j), o)
          /\ To(j, "save")
    /\ UNCHANGED <<jobs, hungUp>>

\* storage.Put of the original has returned with outcome o.
OriginalStored(j, o) ==
    /\ req[j] = "store"
    /\ Put(OriginalKey(j), o)
    /\ To(j, IF o = "ok" THEN "save" ELSE "failed")
    /\ UNCHANGED <<jobs, hungUp>>

StoreOriginal(j) == \E o \in Outcomes(RequestLive(j), StorageFaults) : OriginalStored(j, o)

SaveJob(j) ==
    /\ req[j] = "save"
    /\ \E o \in Outcomes(RequestLive(j), RepoFaults) :
          /\ Save(j, NewJob, o)
          /\ To(j, IF o = "ok" THEN "enqueue" ELSE "failed")
    /\ UNCHANGED <<objects, hungUp>>

\* Enqueue returned without an error: the handler answers 202.
EnqueueAccepted(j) ==
    /\ req[j] = "enqueue"
    /\ To(j, "accepted")
    /\ UNCHANGED <<storeVars, hungUp>>

\* Enqueue returned an error: the job is about to be marked failed.
EnqueueRefused(j) ==
    /\ req[j] = "enqueue"
    /\ To(j, "mark")
    /\ UNCHANGED <<storeVars, hungUp>>

\* The mark uses the request's own context, and its error changes nothing in
\* the answer: the request fails either way.
MarkFailed(j) ==
    /\ req[j] = "mark"
    /\ \E o \in Outcomes(RequestLive(j), RepoFaults) :
          UpdateStatus(j, "failed", "unset", "set", o)
    /\ To(j, "failed")
    /\ UNCHANGED <<objects, hungUp>>

CreateStep(j) == Begin(j) \/ StoreOriginal(j) \/ SaveJob(j) \/ MarkFailed(j)

-----------------------------------------------------------------------------
(* The environment *)

\* The client disconnects, or the server is closed under the request.
HangUp(j) ==
    /\ req[j] \in Active
    /\ j \notin hungUp
    /\ hungUp' = hungUp \cup {j}
    /\ UNCHANGED <<storeVars, req>>

\* The API process dies with every request it is serving.
ApiCrash ==
    /\ \E j \in Jobs : req[j] \in Active
    /\ req' = [j \in Jobs |-> IF req[j] \in Active THEN "crashed" ELSE req[j]]
    /\ UNCHANGED <<storeVars, hungUp>>
=============================================================================
