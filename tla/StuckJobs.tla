----------------------------- MODULE StuckJobs ------------------------------
(***************************************************************************)
(* Which jobs of the AWS pipeline may stay in processing.                  *)
(*                                                                         *)
(* A job in processing that nobody works on is not picked up again: its    *)
(* redelivery is skipped.  The pipeline is observed with a history         *)
(* variable: the jobs one of whose workers could not write the record past *)
(* its claim, or died before it did.                                       *)
(***************************************************************************)
EXTENDS AwsPipeline

VARIABLE marred         \* history: the jobs with such a fault

historyVars == <<vars, marred>>

\* The worker's write failed, or its caller was told that it did.
WriteFails(w) ==
    \/ pc[w] \in {"claim", "finish"} /\ pc'[w] = "nack"
    \/ pc[w] = "fail" /\ pc'[w] = "nack" /\ jobs'[cur[w]].status # "failed"

\* A write fails with a repository that has faults, after the job's timeout, and
\* after the shutdown timeout; a signal alone is no reason.
Excused(w) == RepoFaults # {} \/ w \in expired \/ phase[Proc(w)] = "abandoned"

Dies(w) == pc[w] \in PastClaim /\ phase'[Proc(w)] = "down"

Observe ==
    LET hit == {w \in Workers : (WriteFails(w) /\ Excused(w)) \/ Dies(w)}
    IN  marred' = marred \cup {cur[w] : w \in hit}

HistoryInit == Init /\ marred = {}

HistoryNext == Next /\ Observe

HistorySpec == HistoryInit /\ [][HistoryNext]_historyVars

\* The same, when calls may hang until their context is done.
HistoryHangSpec == HistorySpec /\ HangFairness

-----------------------------------------------------------------------------

\* A job in processing is being worked on, unless a crash, a job timeout, an
\* abandoned shutdown or the repository kept one of its workers from writing
\* its end.  A signal, a redelivery, a stale receipt, a second worker or a lost
\* message is never the reason (Execute concludes on every path).
ProcessingIsExplained ==
    \A j \in Jobs : jobs[j].status = "processing" =>
        \/ j \in marred
        \/ \E w \in Workers : cur[w] = j /\ pc[w] \in PastClaim
=============================================================================
