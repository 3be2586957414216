---------------------------- MODULE JobLifecycle ----------------------------
(***************************************************************************)
(* What a client that polls a job may see of it: the abstract              *)
(* specification of the job record.  A job is created pending, is claimed, *)
(* and ends done, with its result published, or failed.                    *)
(*                                                                         *)
(* With an at-least-once queue a job may be claimed and concluded again    *)
(* after it ended, by a worker that read it while it was still pending;    *)
(* Redelivery says whether the lifecycle allows that.  What it never       *)
(* allows is a job that becomes pending again, a job that is done without  *)
(* a result, or a result that is withdrawn.                                *)
(***************************************************************************)
CONSTANTS Jobs, Redelivery

VARIABLES
    status,         \* per job: its status, "absent" before it exists
    published       \* the jobs whose result key is on record

lifecycleVars == <<status, published>>

Init ==
    /\ status = [j \in Jobs |-> "absent"]
    /\ published = {}

Exists(j) == status[j] # "absent"

Create(j) ==
    /\ ~Exists(j)
    /\ status' = [status EXCEPT ![j] = "pending"]
    /\ UNCHANGED published

Start(j) ==
    /\ status[j] = "pending" \/ (Redelivery /\ Exists(j))
    /\ status' = [status EXCEPT ![j] = "processing"]
    /\ UNCHANGED published

Publish(j) ==
    /\ status[j] = "processing" \/ (Redelivery /\ Exists(j))
    /\ status' = [status EXCEPT ![j] = "done"]
    /\ published' = published \cup {j}

GiveUp(j) ==
    /\ status[j] \in {"pending", "processing"} \/ (Redelivery /\ Exists(j))
    /\ status' = [status EXCEPT ![j] = "failed"]
    /\ UNCHANGED published

Next == \E j \in Jobs : Create(j) \/ Start(j) \/ Publish(j) \/ GiveUp(j)

Spec == Init /\ [][Next]_lifecycleVars
=============================================================================
