------------------------------ MODULE JobPage -------------------------------
(***************************************************************************)
(* The page of the web client: the upload that creates a job, the query    *)
(* that polls it, and the gallery kept in the browser, with the render     *)
(* cycle that connects them.                                               *)
(*                                                                         *)
(* The server is the job lifecycle that the pipelines implement.  A job it *)
(* has may stop moving for good: the page has to live with that.           *)
(*                                                                         *)
(* Time is counted in poll intervals, and only the age of the data shown   *)
(* matters: after Timeout of them the page is to stop polling.  A timer    *)
(* fires when it is due; a machine that sleeps is not modelled.  Setting   *)
(* the job to show and subscribing to its query are one step.              *)
(***************************************************************************)
EXTENDS Naturals, Sequences, FiniteSets

CONSTANTS
    Jobs,           \* the jobs the page may create
    Past,           \* jobs of earlier visits
    Redelivery,     \* whether the server's queue may deliver a job twice
    NoJob,          \* what the page shows when it shows the form
    Timeout,        \* POLL_TIMEOUT_MS in poll intervals
    Retries,        \* how often a poll that failed is retried: 3
    MaxEntries      \* MAX_ENTRIES

ASSUME PageAssumption ==
    /\ NoJob \notin Jobs /\ Jobs \cap Past = {}
    /\ Timeout \in Nat /\ Retries \in Nat /\ MaxEntries \in Nat \ {0}

VARIABLES
    status, published,  \* the server's records
    net,                \* whether requests are answered, are not, or are known
                        \* by the browser to have no way out
    submit,             \* per job: how far the onSubmit that created it is
    shown,              \* jobId: the job on screen
    data,               \* query.state.data of that job, "none" without one
    age,                \* how old the data is
    fetch,              \* whether a fetch is under way, or waits to be online
    failures,           \* the failures of that fetch
    error,              \* whether the last fetch ended in an error
    timer,              \* whether the refetch interval is set
    entries,            \* the gallery
    saved,              \* the gallery in localStorage
    dirty,              \* whether a render is scheduled
    drawn               \* what the render saw whose effects have yet to run

serverVars == <<status, published>>
queryVars == <<data, age, fetch, failures, error, timer>>
galleryVars == <<entries, saved>>
renderVars == <<dirty, drawn>>
vars == <<serverVars, net, submit, shown, queryVars, galleryVars, renderVars>>

Server == INSTANCE JobLifecycle

isTerminal(s) == s \in {"done", "failed"}

Status == {"pending", "processing", "done", "failed"}

Entry == [id : Jobs \cup Past, status : Status]

IsGallery(g) == g \in Seq(Entry) /\ Len(g) <= MaxEntries

\* What earlier visits may have left: entries of jobs that were still pending.
Left == {g \in UNION {[1..n -> [id : Past, status : {"pending"}]] : n \in 0..MaxEntries} :
            \A i, k \in DOMAIN g : g[i] = g[k] => i = k}

Draws == [id : Jobs \cup {NoJob}, data : Status \cup {"none"}, entries : Seq(Entry)]

TypeOK ==
    /\ status \in [Jobs -> Status \cup {"absent"}] /\ published \in SUBSET Jobs
    /\ net \in {"up", "down", "offline"}
    /\ submit \in [Jobs -> {"idle", "uploading", "thumbnail", "over"}]
    /\ shown \in Jobs \cup {NoJob}
    /\ data \in Status \cup {"none"} /\ (data = "none" <=> shown = NoJob)
    /\ age \in 0..Timeout + 1
    /\ fetch \in {"idle", "fetching", "paused"} /\ failures \in 0..Retries
    /\ error \in BOOLEAN /\ timer \in {"on", "off"}
    /\ IsGallery(entries) /\ IsGallery(saved)
    /\ dirty \in BOOLEAN
    /\ drawn = {} \/ \E d \in drawn : d \in Draws /\ drawn = {d}

Init ==
    /\ Server!Init
    /\ net = "up"
    /\ submit = [j \in Jobs |-> "idle"]
    /\ shown = NoJob /\ data = "none" /\ age = 0
    /\ fetch = "idle" /\ failures = 0 /\ error = FALSE /\ timer = "off"
    /\ saved \in Left /\ entries = saved
    /\ dirty = TRUE /\ drawn = {}

-----------------------------------------------------------------------------
(* useJob *)

\* Mutants: no timeout; only a pending job is polled; a settled one is too.
refetchIntervalUntimed(d, a) == IF isTerminal(d) THEN "off" ELSE "on"

refetchIntervalPending(d, a) == IF d # "pending" \/ a > Timeout THEN "off" ELSE "on"

refetchIntervalSettled(d, a) == IF a > Timeout THEN "off" ELSE "on"

\* The age is that of the data, which every answer renews.
refetchInterval(d, a) == IF isTerminal(d) \/ a > Timeout THEN "off" ELSE "on"

\* Every change of the query's state sets the interval anew.
SetInterval == timer' = IF shown' = NoJob THEN "off" ELSE refetchInterval(data', age')

\* The cache is seeded with the accepted job, and the query fetches at once.
Watch(j) ==
    /\ shown' = j /\ data' = "pending" /\ age' = 0
    /\ fetch' = "fetching" /\ failures' = 0 /\ error' = FALSE
    /\ SetInterval

\* The query has no observer any more: its fetch is aborted.
Unwatch ==
    /\ shown' = NoJob /\ data' = "none" /\ age' = 0
    /\ fetch' = "idle" /\ failures' = 0 /\ error' = FALSE
    /\ SetInterval

\* A fetch begun offline waits for the browser to be online.
BeginFetch ==
    /\ shown # NoJob /\ fetch = "idle"
    /\ fetch' = (IF net = "offline" THEN "paused" ELSE "fetching") /\ failures' = 0
    /\ UNCHANGED <<serverVars, net, submit, shown, data, error, galleryVars, renderVars>>
    /\ SetInterval

Older == IF age > Timeout THEN age ELSE age + 1

\* The interval has passed.
Poll == timer = "on" /\ age' = Older /\ BeginFetch

\* refetchOnWindowFocus
Focus == ~isTerminal(data) /\ UNCHANGED age /\ BeginFetch

\* refetchOnReconnect: the browser is online again.  A fetch that waits goes on;
\* without one a fetch begins, for a settled job too: the data is always stale.
Online ==
    /\ net = "offline" /\ net' \in {"up", "down"}
    /\ fetch' = (IF shown = NoJob THEN "idle" ELSE "fetching")
    /\ failures' = IF fetch = "idle" THEN 0 ELSE failures
    /\ UNCHANGED <<serverVars, submit, shown, data, age, error, galleryVars, renderVars>>
    /\ SetInterval

\* The page renders again when what it uses of the query has changed.
Answer ==
    /\ fetch = "fetching" /\ net = "up"
    /\ data' = status[shown] /\ age' = 0
    /\ fetch' = "idle" /\ failures' = 0 /\ error' = FALSE
    /\ dirty' = (dirty \/ data' # data \/ error)
    /\ UNCHANGED <<serverVars, net, submit, shown, galleryVars, drawn>>
    /\ SetInterval

\* A server error is retried; a network error or a refusal is not.
Failure ==
    /\ fetch = "fetching" /\ net # "up"
    /\ \/ /\ net = "down" /\ failures < Retries
          /\ failures' = failures + 1
          /\ UNCHANGED <<fetch, error, dirty>>
       \/ /\ fetch' = "idle" /\ error' = TRUE
          /\ dirty' = (dirty \/ ~error)
          /\ UNCHANGED failures
    /\ UNCHANGED <<serverVars, net, submit, shown, data, age, galleryVars, drawn>>
    /\ SetInterval

\* A retry that is due offline waits too.
Pause ==
    /\ fetch = "fetching" /\ failures > 0 /\ net = "offline"
    /\ fetch' = "paused"
    /\ UNCHANGED <<serverVars, net, submit, shown, data, age, failures, error,
                   galleryVars, renderVars>>
    /\ SetInterval

-----------------------------------------------------------------------------
(* useGallery *)

Without(g, j) ==
    LET kept[n \in 0..Len(g)] ==
            IF n = 0 THEN <<>>
            ELSE IF g[n].id = j THEN kept[n - 1] ELSE Append(kept[n - 1], g[n])
    IN  kept[Len(g)]

\* Mutant: the gallery grows without a bound.
addUnbounded(g, j) == <<[id |-> j, status |-> "pending"]>> \o Without(g, j)

add(g, j) ==
    LET longer == <<[id |-> j, status |-> "pending"]>> \o Without(g, j)
    IN  SubSeq(longer, 1, IF Len(longer) > MaxEntries THEN MaxEntries ELSE Len(longer))

Holds(g, j) == \E i \in DOMAIN g : g[i].id = j

\* Mutant: the newest entry is taken for that of the job on screen.
updateNewest(g, j, s) == [i \in DOMAIN g |-> IF i = 1 THEN [g[i] EXCEPT !.status = s] ELSE g[i]]

First(g, j, i) == g[i].id = j /\ \A k \in 1..i - 1 : g[k].id # j

update(g, j, s) ==
    [i \in DOMAIN g |-> IF First(g, j, i) THEN [g[i] EXCEPT !.status = s] ELSE g[i]]

-----------------------------------------------------------------------------
(* App *)

\* The form is there while no job is shown, and disabled during an upload.
Submit(j) ==
    /\ shown = NoJob /\ submit[j] = "idle"
    /\ \A k \in Jobs : submit[k] # "uploading"
    /\ submit' = [submit EXCEPT ![j] = "uploading"]
    /\ dirty' = TRUE
    /\ UNCHANGED <<serverVars, net, shown, queryVars, galleryVars, drawn>>

Uploaded(j) ==
    /\ submit[j] = "uploading" /\ net = "up"
    /\ Server!Create(j)
    /\ submit' = [submit EXCEPT ![j] = "thumbnail"]
    /\ Watch(j)
    /\ dirty' = TRUE
    /\ UNCHANGED <<net, galleryVars, drawn>>

\* The mutation is not retried.  The job may exist all the same.
UploadFails(j) ==
    /\ submit[j] = "uploading"
    /\ \/ Server!Create(j) /\ submit' = [submit EXCEPT ![j] = "over"]
       \/ UNCHANGED serverVars /\ submit' = [submit EXCEPT ![j] = "idle"]
    /\ dirty' = TRUE
    /\ UNCHANGED <<net, shown, queryVars, galleryVars, drawn>>

\* Mutant: the array is changed in place, which React does not notice.
AddEntryInPlace(j) ==
    /\ submit[j] = "thumbnail"
    /\ submit' = [submit EXCEPT ![j] = "over"]
    /\ entries' = add(entries, j)
    /\ UNCHANGED <<serverVars, net, shown, queryVars, saved, renderVars>>

\* The thumbnail is there, or has failed: the entry is added with the status
\* the job had when it was created, whatever is shown by now.
AddEntry(j) ==
    /\ submit[j] = "thumbnail"
    /\ submit' = [submit EXCEPT ![j] = "over"]
    /\ entries' = add(entries, j)
    /\ dirty' = TRUE
    /\ UNCHANGED <<serverVars, net, shown, queryVars, saved, drawn>>

\* "Start over"
reset ==
    /\ shown # NoJob
    /\ Unwatch
    /\ dirty' = TRUE
    /\ UNCHANGED <<serverVars, net, submit, galleryVars, drawn>>

\* The remove button of an entry, and the clear button.
Forget ==
    /\ entries # <<>>
    /\ \/ entries' = <<>>
       \/ \E j \in Jobs \cup Past : Holds(entries, j) /\ entries' = Without(entries, j)
    /\ dirty' = TRUE
    /\ UNCHANGED <<serverVars, net, submit, shown, queryVars, saved, drawn>>

\* The effects of the last render run before the next one.
Render ==
    /\ dirty /\ drawn = {}
    /\ dirty' = FALSE
    /\ drawn' = {[id |-> shown, data |-> data, entries |-> entries]}
    /\ UNCHANGED <<serverVars, net, submit, shown, data, age, fetch, failures, error, galleryVars>>
    /\ SetInterval

\* save gives up quietly when the quota is gone.
Save(g) == saved' = g \/ saved' = saved

\* The effects use what their render saw.  update changes the entry of the job,
\* if there is one, and then always makes a new array: the page renders again.
\* Each render makes a new gallery object, so each one runs the effect.
RunEffects ==
    \E d \in drawn :
       /\ drawn' = {}
       /\ Save(d.entries)
       /\ entries' = IF d.id = NoJob THEN entries ELSE update(entries, d.id, d.data)
       /\ dirty' = (dirty \/ Holds(entries, d.id))
       /\ UNCHANGED <<serverVars, net, submit, shown, queryVars>>

\* A new page finds the gallery that was saved; the rest is gone.  The job of an
\* upload that is cut off may exist all the same.
Reload ==
    /\ Unwatch
    /\ \/ /\ UNCHANGED serverVars
          /\ submit' = [j \in Jobs |->
                          IF submit[j] \in {"thumbnail", "over"} THEN "over" ELSE "idle"]
       \/ /\ \E j \in Jobs : submit[j] = "uploading" /\ Server!Create(j)
          /\ submit' = [j \in Jobs |-> IF submit[j] = "idle" THEN "idle" ELSE "over"]
    /\ entries' = saved
    /\ dirty' = TRUE /\ drawn' = {}
    /\ UNCHANGED <<net, saved>>

-----------------------------------------------------------------------------
(* The environment *)

\* Time passes, while no interval is about to end.
Tick ==
    /\ shown # NoJob /\ (fetch # "idle" \/ timer = "off")
    /\ age <= Timeout
    /\ age' = Older
    /\ UNCHANGED <<serverVars, net, submit, shown, data, fetch, failures, error, timer,
                   galleryVars, renderVars>>

\* The network goes, or comes back without the browser having noticed.
NetChanges ==
    /\ net # "offline" /\ net' \in {"up", "down", "offline"} \ {net}
    /\ UNCHANGED <<serverVars, submit, shown, queryVars, galleryVars, renderVars>>

\* Only the record of the job on screen is looked at, and only once it is.
ServerMoves ==
    /\ \E j \in Jobs \cap {shown} : Server!Start(j) \/ Server!Publish(j) \/ Server!GiveUp(j)
    /\ UNCHANGED <<net, submit, shown, queryVars, galleryVars, renderVars>>

Next ==
    \/ \E j \in Jobs : Submit(j) \/ Uploaded(j) \/ UploadFails(j) \/ AddEntry(j)
    \/ Poll \/ Focus \/ Online \/ Answer \/ Failure \/ Pause
    \/ reset \/ Forget \/ Reload
    \/ Render \/ RunEffects
    \/ Tick \/ NetChanges \/ ServerMoves

Spec == Init /\ [][Next]_vars

\* Time passes, the browser renders and runs timers, a request is answered or
\* fails, and a thumbnail is made or given up.  The user, the server and the
\* network owe the page nothing.
Fairness ==
    /\ WF_vars(Tick \/ Poll) /\ WF_vars(Answer \/ Failure)
    /\ WF_vars(Render) /\ WF_vars(RunEffects)
    /\ \A j \in Jobs : WF_vars(AddEntry(j))

FairSpec == Spec /\ Fairness

-----------------------------------------------------------------------------
(* Properties *)

AtRest == ~dirty /\ drawn = {}

\* A request for a settled job begins only when the browser comes back online:
\* neither the interval nor focus fetches it once the data shown is done or
\* failed, whichever of them comes first and however old the data is.
SettledIsQuiet ==
    [][isTerminal(data) /\ fetch = "idle" /\ fetch' # "idle" =>
          net = "offline" /\ net' # "offline"]_vars

\* An outcome that the page shows, keeps in the gallery or has saved is the
\* outcome that this very job has at the server: the effects run with the job
\* and the data that an earlier render saw, after the user may have gone on to
\* another job, removed entries or loaded the page anew.  It is stated for a queue
\* that delivers once: with redelivery the server itself may change its mind.
OutcomeIsTrue ==
    /\ isTerminal(data) => data = status[shown]
    /\ \A g \in {entries, saved} : \A i \in DOMAIN g :
          isTerminal(g[i].status) => g[i].id \in Jobs /\ g[i].status = status[g[i].id]

\* The entry of a job on screen gets the outcome the page has seen, even when
\* the job settles before the thumbnail is made and the entry added.
GalleryInStep ==
    \A j \in Jobs : \A s \in {"done", "failed"} :
        shown = j /\ data = s /\ Holds(entries, j) ~>
            \/ shown # j \/ data # s \/ ~Holds(entries, j)
            \/ [id |-> j, status |-> s] \in {entries[i] : i \in DOMAIN entries}

\* While the requests it makes online are answered the page learns how a job
\* ended, however long the job takes and however long each answer is under way.
\* It may be offline in between, even until it has stopped polling.
OutcomeIsShown ==
    \A j \in Jobs :
        [](net # "down") /\ <>[](net = "up") /\ <>[]isTerminal(status[j]) =>
            (shown = j ~> isTerminal(data) \/ shown # j)

\* A page whose requests are no longer answered stops polling for good.
SilenceEndsPolling == <>[](net = "down") => <>[](timer = "off")

\* web/README.md: a job that never settles is abandoned rather than polled for
\* ever.
GivesUp == shown # NoJob ~> timer = "off" \/ shown = NoJob

\* web/README.md: a settled job costs nothing to leave on screen.
PageRests == isTerminal(data) ~> AtRest \/ ~isTerminal(data)
=============================================================================
