# ImageForge: models, checks and proofs

ImageForge accepts an image and a transformation over HTTP, stores the image,
records a job, and puts the job's identifier on a queue. Worker processes take
identifiers from the queue, transform the images, store the results and record
how each job ended. A client polls the record. The same binaries run against
DynamoDB, S3 and SQS, or against in-process stand-ins for them.

This directory models the parts of that system in which order, failure and
concurrency decide whether it is correct. TLC checks the models on small
instances; TLAPS proves nearly all of the safety properties, of every component
modelled, for every instance.
`PROJECT.json` maps each definition to the source lines it models and lists the
runs, the mutants, the findings, the hazards and the theorems.

## The system and its parts

| Part | Source | State it keeps | Operations | Made correct by |
|---|---|---|---|---|
| CreateJob | `internal/usecase/create_job.go` | none of its own | store the original, save the record, enqueue, mark failed | a message never names a job that cannot be loaded; a refused upload does not stay pending |
| ProcessJob | `internal/usecase/process_job.go` | none of its own | load, claim, transform, store the result, mark done or failed | a published key leads to an object; a failure is recorded |
| Worker pool | `internal/worker/pool.go` | counters; the contexts of the process and of its jobs | Run, work, handle, settle | a signal neither aborts nor forgets a job; Run returns; a hanging call costs no worker |
| Job record | `internal/domain/job.go` | status, result key, error, times | `Terminal` | the lifecycle pending, processing, done or failed |
| Repositories | `memrepo`, `dynamorepo` | the records | Save, Get, UpdateStatus | one write is one atomic record |
| Object storage | `localstorage`, `s3storage` | the objects; files and temporary files | Put, Get | an object is there as a whole or not at all, whenever the process dies |
| SQS adapter | `sqsqueue` | one receipt handle per job, the batch in hand, the backoff | Enqueue, ConsumeDeliveries, Ack, Nack | no message of an unfinished job is deleted |
| In-memory queue | `memqueue` | a buffered channel, a lock, a delivery in the hand of a goroutine | Enqueue, ConsumeDeliveries, Close | each identifier is delivered once; nobody sends on a closed channel; Close returns |
| Worker command | `cmd/worker` | how far `run` has come | seed, run the pool, stop the metrics server, exit | seeding ends; the pool runs only after it; a signal ends the command |
| API command | `cmd/api` | the HTTP server | serve, shut down | a signal ends the command, whatever its requests wait for |
| Rate limiter | `internal/adapters/httpapi/ratelimit.go` | one token bucket per client | allow, sweep | no client exceeds its burst and its rate |
| Handlers and middleware | `handlers.go`, `media.go`, `api.go` of `httpapi` | none of their own | check and accept an upload, get a job | a refusal has no effect and leaks nothing |
| Tokens | `httpapi/auth.go` | the signing key | issue, verify | a token is good until it expires or the key changes |
| Image processor, transformation | `imageproc`, `domain/transformation.go` | the image in hand | Validate, Process, the size arithmetic | what the API accepts can be resized; the result is what was asked for |
| Web client | `web/src` | the cached token, the polled job, the gallery | upload, poll, remember | one token request at a time; a lost token goes unnoticed; the outcome of a job reaches the page and the gallery; polling ends |
| Metrics, telemetry, configuration, health check, deployment | the rest | counters, spans | | no influence on the behaviour above |

How they interact. An API request calls the two stores and the queue in sequence
under the request's context. A worker process has one goroutine that receives
from SQS and hands deliveries over an unbuffered channel to its workers. Each
worker calls the stores in sequence under the job's context, and settles the
delivery under a third one. The processes share the stores and the broker and
nothing else: what a worker read may be stale when it writes. The local worker
has everything in one process, and seeds its queue before anything reads from
it; the API on that backend has a queue that nobody reads. Requests of one
client share a token bucket, and a sweeper drops buckets nobody has used for a
while. The calls of a page share a token and the request for it. The page's
query, its gallery and its upload change its state independently, and meet in
the effects that run after a render.

What is hard here: two workers on a job that was redelivered; a context that
ends between two calls that both need it; answers that are lost after the call
took effect; a signal at any point of all this; a receipt that belongs to a
later delivery; a queue that is full before anybody reads it; reservations that
overlap; a late 401 for a token that has been replaced; a lock that is held by
whoever waits for the queue; an answer, a thumbnail and a render in any order.
`hazards` in `PROJECT.json` lists each at its line with the properties that
watch it.

## The modules

| Module | Models | Builds on |
|---|---|---|
| `JobStore` | the records and the objects; a call has an outcome | |
| `CreateJob` | CreateJob as the upload handler runs it | `JobStore` |
| `WorkerPool` | the pool and ProcessJob | `JobStore` |
| `SqsQueue` | the SQS adapter, and the broker as an external part | `WorkerPool` |
| `AwsPipeline` | the API and several worker processes on AWS | `CreateJob`, `SqsQueue` |
| `StuckJobs` | the same, observed: which jobs may stay in processing | `AwsPipeline` |
| `MemQueue` | the in-memory queue and its lock | `WorkerPool` |
| `LocalStorage` | Put on the file system, step by step | `JobStore` |
| `LocalBackend` | the worker and the API command on the memory backend | `CreateJob`, `MemQueue`, `LocalStorage` |
| `JobLifecycle` | abstract: what a client may see of a job | |
| `RateLimiter` | the bucket of one client, its handlers, the sweeper | |
| `TokenSession` | the page's token, the calls that share it, the issuer | |
| `JobPage` | the page: upload, polling, gallery, render cycle | `JobLifecycle` as its server |
| `Transformation` | Validate and the size arithmetic, with reference definitions | |
| `ImageRequest` | one upload through the API's checks and the processor | `Transformation` |
| `PoolProofs` | lemmas about the calls of CreateJob and of the pool, for both backends | `CreateJob`, `WorkerPool` |
| `AwsPipelineProofs` | the theorems about `AwsPipeline` | `AwsPipeline`, `PoolProofs` |
| `StuckJobsProofs` | the theorems about `StuckJobs` | `StuckJobs`, `AwsPipelineProofs` |
| `LocalBackendProofs` | the theorems about `LocalBackend` | `LocalBackend`, `PoolProofs` |
| `RateLimiterProofs`, `TokenSessionProofs`, `JobPageProofs` | the theorems about each | `RateLimiter`, `TokenSession`, `JobPage` |
| `ImageRequestProofs` | the theorems about the size arithmetic and the upload | `ImageRequest` |
| `MCAwsPipeline`, `MCRateLimiter`, `MCTokenSession` | the symmetry sets of the runs | |
| `MCImageRequest` | the requests and sizes of the run | |

**Calls and contexts.** The state changes of the program are calls to the
stores and the queue, so a step of an actor is one call: `pc[w]` and `req[j]`
name the next one. `Outcomes(live, faults)` gives what may come of it. With a
context that is done the call fails and has no effect. Otherwise it succeeds,
or it has a fault of the adapter: *error*, failed without effect, or *lost*,
applied although the caller sees a failure. The caller's early returns follow
from the outcome. The contexts are state: `hungUp` for requests; for jobs the
set `expired` and the phase of the pool, since the job's context is detached
from the signal and ends with the job timeout or when the pool abandons its
jobs. `settle` has a context of its own and needs neither.

**Records.** A record keeps its status, and whether a result key and an error
are set; timestamps and the transformation do not influence the control.
`UpdateStatus` has no condition on the status it replaces, keeps the result key
unless it is given one, and replaces the error, as both repositories do. Their
check that the new status is one of the domain is left out: every caller passes a
constant.

**The broker.** One message per job: CreateJob enqueues an identifier once. A
receive hides the message under a new handle, and the receive count stands for
the handle. A message in flight may reappear at any time. If nobody has its
delivery any more, because a process died, a batch was dropped or an answer lost,
it always may. With the disturbance "visibility" it may also do so under whoever
still has it (`Held`), because the visibility clock starts before the wait for a
worker and nothing extends it. Leaving that out is an assumption about the
deployment: a visibility timeout that outlasts the wait in the batch, the job and
its settling. `WithVisibilityTimeout` can provide it; the defaults, two minutes for
both the visibility and the job timeout, do not.
A stale handle may or may not work: SQS promises neither. A batch is a set, as
a standard queue has no order. After `MaxReceive` receives the redrive policy
of `deployments/terraform/modules/sqs` moves the message away.

**The pool.** `phase[p]` is how far Run has come: running, draining after the
signal, abandoned after the shutdown timeout, then stopped or timed out. The
select in `work` may prefer a delivery to an ended context, so `Take` is
possible in every phase in which the process is up. `Crash` and `Restart` let a
process die anywhere and come back with an empty adapter.

**What was observed.** `StuckJobs` adds a history variable, which no guard reads:
the jobs for which a worker could not write the record past its claim, for a
reason the design accepts (a fault of the repository, the job timeout, an
abandoned shutdown), or died before it did.

**The commands on the memory backend.** `LocalBackend` is one process, the
worker or the API, and `main` is where its main goroutine is. The worker seeds,
runs the pool, waits for the goroutine of its metrics server and closes the
queue. The API serves; after a signal Shutdown waits for the requests under way,
and after its timeout `server.Close` closes their connections (*severed*); an
error of the listener ends `run` without either (*deserted*). In both commands
the deferred calls close the queue. The lock that Enqueue and Close share is
`senders`, its readers, and `closing`: a Close that waits lets no new reader in,
as Go's RWMutex does. `Offer` is the send with the unlock; a context that is
done may lose against a free place in the channel, as in the select. A request
learns of its closed connection in its own time. What is on disk outlives a
kill.

**Files.** A Put has come as far as its temporary file shows: none, partial,
whole, renamed. `objects`, on which the rest of the model relies, changes with
the rename, and `StorageContract` says that the files agree with it.

**The rate limiter.** `allow` is four steps: read the clock, find the bucket
under the limiter's lock, reserve, and cancel when the request would have to
wait. Reserving and canceling are those of `golang.org/x/time/rate` and marked
external. Time is whole ticks, and a token is divided into as many units as a
second has ticks, so the rounding of floating point is left out; a delay below a
tick is none, as the library's conversion to nanoseconds cuts it off, and so a
token may be lent for less than a tick. `Budget` allows for that. Buckets of
different clients share only the map, so one client is enough. `Lag` bounds how
long a handler stays in `allow`; without a bound the sweeper could drop a bucket
in use. A refused request does not always get its token back: canceling restores
only what was not reserved since, and nothing keeps another request of the
client from reserving in between. A new bucket starts full at its first
handler's time, the library's at the zero time; the tokens are the same, and
only `ordered`, the condition of `Budget`, is a little stricter for it.

**The token.** A page runs one continuation at a time, so a step of a call goes
from one await to the next. A promise for a token is named after the call that
made it. The server answers at some later time, and its answer arrives later
still; a token is good until it expires or the server restarts without a
configured key, which makes a new one. These losses are counted.

**The page.** A render is scheduled (`dirty`), draws what it sees and leaves its
effects to run later (`drawn`), with the values of that render; the effects of
one render run before the next. `useGallery` returns a new object each time, so
the effect that updates the gallery runs after each render. react-query decides
the interval anew with every update of the query and every render
(`SetInterval`), fetches once at a time, and aborts when the job is no longer
shown; these are marked external or noted there. The network is up, down, or
down with the browser knowing it (*offline*). Offline, a fetch that begins or is
to be retried waits (*paused*), and when the browser comes back online it goes
on; without one a fetch begins, for a settled job too, because
`refetchOnReconnect` is on by default and the data always stale (`Online`). Time
is counted in poll intervals, and only the age of the data matters. A timer
fires when it is due: a machine that sleeps is not modelled. The server is
`JobLifecycle`, in the runs without redelivery; only the record of the job on
screen is looked at, so only that one moves. A reload keeps what was saved and
nothing else; an upload it cuts off may have created its job. Entries of earlier
visits may be there from the start.

**An upload.** `ImageRequest` follows one upload, and what the client sent comes
to light as it is read: each check chooses an outcome, and the early returns of
the handlers are its disjuncts. `CreateJob` is three steps here: the domain's
own check (`Validate`), the original (`Store`), the record and the queue
(`Persist`); how these calls fail has a module of its own. An answer and the
deferred close of the file are one step, since nothing happens between them. An
accepted upload goes on to `Process`, with either image library; a stage may
fail for reasons of the library, and for the reasons the code has. An image is
its media type, its size, and whether it carries metadata. Thumbnails are an
operation of the package that the program does not call; their arithmetic is
checked all the same. Go's `int` has 64 bits and the products stay far below
that.

**Abstract specification.** `JobLifecycle` is what a client that polls may
see. With `Redelivery` it lets a job be claimed and concluded again after it
ended, but never lets it become pending again, be done without a result or
lose a published one. `AwsPipeline` implements it with redelivery, `LocalBackend`
without, and `JobPage` takes it as its server.

## The runs

Every run finishes within five minutes. Deadlock is not checked: uploads end,
processes and pages stop, the clock of the limiter and the tokens of a session
are bounded, and all of that is meant.

| Run | Instance | Shows |
|---|---|---|
| `AwsPipeline_faults` | 1 job, 2 processes with 1 worker, 2 receives, all faults, timeouts, signals, crashes and restarts | `TypeOK`, `MessageHasInput`, `AcceptedNotLost`, `ResultIsStored`, `ErrorIsFailure`, `RefinesLifecycle`, `FinishedIsFinal` |
| `AwsPipeline_hang` | 1 job, 1 process with 2 workers, storage and queue faults, visibility timeouts, job timeouts, signals, crashes and restarts | `ProcessingIsExplained`, `RunReturns`, `WorkerIsFreed` |
| `AwsPipeline_settles` | 2 jobs, 1 process with 2 workers, storage errors, visibility timeouts, hang-ups, crashes of the API | `AcceptedSettles` |
| `LocalBackend_commands` | 2 images or uploads, 2 workers, a buffer of 1 or 2, failing writes, job timeouts, hang-ups, an error of a listener, a signal, a kill | `TypeOK`, `DeliveredOnce`, `EveryJobCounted`, `CountersMatchRecords`, `StorageContract`, `CleanExitLeavesNoTemp`, `NoSendAfterClose`, `RefinesStrictLifecycle`, `CommandExits`, `SeedingEnds` |
| `RateLimiter_budget` | 2 handlers, burst 2, two thirds of a token per tick, 7 ticks | `TypeOK`, `Budget`, `BucketInUse` |
| `TokenSession_shared` | 3 calls, 4 tokens, 2 losses | `OneTokenRequest`, `AwaitsLiveRequest`, `OneLossIsHidden` |
| `ImageRequest_upload` | both libraries; widths, heights, qualities and sources on both sides of each limit | `TypeOK`, `UploadIsClosed`, `RefusalWritesNothing`, `AcceptedIsUsable`, `SizeIsRequested`, `BoxIsFitted` |
| `JobPage_watch` | 1 upload, 1 entry of an earlier visit, a gallery of 1, a timeout of 2 intervals, 2 retries, a network that comes and goes, and a browser that may know it | `TypeOK`, `OutcomeIsTrue`, `SettledIsQuiet`, `GalleryInStep`, `OutcomeIsShown`, `SilenceEndsPolling` |
| `AwsPipeline_refused` | violated: a client hangs up | `RefusedIsMarked` |
| `AwsPipeline_unrecorded` | violated: a job times out | `FailureIsRecorded` |
| `JobPage_giveup` | violated: a job never settles | `GivesUp` |
| `JobPage_rests` | violated: a settled job is on screen | `PageRests` |

Why the bounds are enough. What can go wrong with a job needs two workers on it,
and two receives give a delivery and a redelivery whose receipt replaces the
first; jobs do not interact except for the workers and the batch, so one job
carries the fault run, and two carry the run about batches. The fault run leaves
out hang-ups and crashes of the API: a request may stop anywhere in a run
without fairness, and a call of one that hung up fails as a faulty one does. On
the memory backend two jobs and a buffer of one block a sender on a full queue,
with another waiting in the channel, in the goroutine's hand or with a worker;
with a buffer of two the same jobs fit. Two handlers are the least that overlap,
and seven ticks let a bucket empty, be swept and fill again; two thirds of a
token per tick make delays that are cut off. With three calls one makes the
token request, one joins it and one brings a late rejection; two losses are one
more than the page promises to hide. The sizes of an upload are 1, 4 and 300
pixels against targets of 1, 7 and 90 with 90 the limit: derived dimensions
round up, down, to a half and to zero. The arithmetic is proved for all sizes. A
page shows one job at a time and never the same one twice, so one upload is
enough; the entry of an earlier visit makes its gallery overflow, and two
intervals tell an answer in time from a late one.

Each property has a mutant, an operator kept next to the definition it
replaces. A mutant changes the code's behaviour the way a slip in that code
would: the error of a call is dropped, the job's context follows the signal, the
sweeper ignores the age of a bucket. Under each
mutant the property fails, so it depends on that detail.

### Fairness

`HangFairness` assumes little: a call to a port returns once its context is
done, which the adapters ensure by passing the context on; the shutdown timer
fires; `settle`, which has a timeout of its own, returns; a goroutine that can
return does. Calls with a live context may hang for ever. Under it `RunReturns`
holds even where jobs have no timeout; `WorkerIsFreed` assumes the job timeout
on top, in its own statement.

`CallFairness`, for `AcceptedSettles`, assumes that calls return and that the
receive loop and the workers go on: they are loops without a way to wait for
each other. Nothing is assumed of the environment: messages may reappear until
the redrive policy ends that. The property needs stores without faults, no job
timeout and no crash of a worker; each of those can leave a job in processing, see below.

`Fairness` of `LocalBackend` assumes that what the process does goes on while it
can, that its timeouts expire, and that a closed connection ends the context of
its request, as net/http does. It assumes nothing of clients: an upload may never
begin, and a client may never hang up.

`Fairness` of `JobPage` assumes that time passes, that the browser renders and
runs effects and timers, that a request is answered or fails, and that a
thumbnail is made or given up. The user, the server and the network owe nothing;
`OutcomeIsShown` and `SilenceEndsPolling` say in their own statements what they
need of them: the first a network that the browser knows to be gone whenever it is
and that is up for good in the end, the second one that stays silent.

## What is proved

`AwsPipelineProofs` proves, for any sets of jobs, processes and slots, any
fault model and any set of disturbances:

| Theorem | States |
|---|---|
| `Invariance` | `Spec => []Inv` |
| `TypeCorrectness` | `Spec => []TypeOK` |
| `InputPresent` | `Spec => []MessageHasInput` |
| `NoJobLost` | `Spec => []AcceptedNotLost` |
| `ResultsAreStored` | `Spec => []ResultIsStored` |
| `ErrorsAreFailures` | `Spec => []ErrorIsFailure` |
| `Refinement` | `Spec => RefinesLifecycle` |
| `Finality` | `Spec => FinishedIsFinal` |
| `StuckIsExplained` (`StuckJobsProofs`) | `HistorySpec => []ProcessingIsExplained` |

and, under conditions on the faults and disturbances that each theorem names,

| Theorem | Condition | States |
|---|---|---|
| `PendingMeansHungUp` | no fault of the repository | a refused job that stays pending is one whose client hung up |
| `RefusedAreMarked` | and no client hangs up | `Spec => []RefusedIsMarked` |
| `FailuresAreRecorded` | no fault of the repository; no job timeout or signal; no visibility timeout under a held delivery | `Spec => []FailureIsRecorded` |
| `OneWorkerAtATime` | no visibility timeout under a held delivery | `Spec => []OneHolder` |
| `OutcomesAreFinal` | and no send is applied that fails | `Spec => OnceLifecycle!Spec` |
| `NobodyIsLeft` (`StuckJobsProofs`) | no fault of the repository; no crash, job timeout or signal | a job in processing has a worker past its claim |

The assumptions are those of the modules: faults are "error" and "lost",
`NoDelivery` is no job, `MaxReceive` is a natural number, and the disturbances
are the known ones.

None of the properties is inductive. `Inv` adds what each actor may rely on
when it makes its next call. `RequestInv`: the record, the original and the
message of a job appear in the order of CreateJob's calls. `DeliveryInv`: what is in
a batch or in a worker's hands came from a message. `WorkerInv`: past its claim a
worker's job is no longer pending, whatever others wrote since, and before it
is marked done its result is stored. `DeletedInv`: only the message of a job
that is no longer pending has been deleted. That last part is what
`AcceptedNotLost` rests on, and it needs `WorkerInv` because the receipt with
which a worker settles may be another delivery's. The proof goes action by
action; the refinement maps each call of UpdateStatus to a step of the
lifecycle, and everything else to a stutter.

`Finality` follows from `Inv` without a further part: a worker that loads a
finished record skips it, so only one that had loaded it before could write, and
`Finished` excludes that one. `ProcessingIsExplained` is inductive with `Inv`
and one more part, `GoneInv`: the workers of a process that is not up have
exited, so that a restart takes none along whose job nobody recorded. What `Inv`
says holds there because every behaviour with the history is one of the pipeline.

The conditional theorems say what the refuted statements of the code and the
weak points of the pipeline depend on. Two comments are true where their
conditions hold, and the runs that refute them show a single hang-up and a
single job timeout. Under all of them messages are still redelivered: after a
crash, a dropped batch, a lost answer or a settling that failed. `OneHolder`
says that a job in flight is in one batch or with one worker, and its message is
not visible: a redelivery finds the first holder gone. From that `OnceInv` gets
what the memory backend has for free, that what a worker read of a record is
still so when it writes. `OutcomesAreFinal` is then a second refinement, of the
lifecycle without redelivery. Neither of its conditions can be dropped: a
message that reappears under its holder brings a second writer, and so does a
send that is applied and reported as failed, whose job the API marks while a
worker has it.

`LocalBackendProofs` proves, for any finite sets of jobs and workers, any
buffers, either command and any set of disturbances:

| Theorem | States |
|---|---|
| `Invariance`, `TypeCorrectness` | `Spec => []Inv`, `Spec => []TypeOK` |
| `NoPanic` | `Spec => []NoSendAfterClose` |
| `OnePlace` | `Spec => []DeliveredOnce` |
| `JobsAreCounted`, `CountersAreTrue` | `Spec => []EveryJobCounted`, `Spec => []CountersMatchRecords` |
| `WholeObjects`, `NoLitter` | `Spec => []StorageContract`, `Spec => []CleanExitLeavesNoTemp` |
| `StrictRefinement` | `Spec => RefinesStrictLifecycle` |

It assumes that the sets are finite, since jobs are counted, and that no call
to `memrepo` or `localstorage` takes effect and fails all the same ("lost"),
which an in-process map and a rename do not. Its `Inv` has four parts that are
not properties. `MainInv`: what each phase of the command leaves behind, such as
that the pool runs when every image was accepted, and that nobody is under way
when the command ends by itself. `PlaceInv`: a job is in the channel once, or
with the consumer goroutine, or with one worker, and was accepted; `DeliveredOnce`
and the counters follow from it by cardinalities. `RecordInv`: what each actor
knows of the record of its job. On AWS it knows little, as others may write in
between; here `PlaceInv` says that nobody else has the job, so what it read is
still so, and that is the difference between the two lifecycles. `TempInv`: a
temporary file belongs to a Put that is under way.

`TokenSessionProofs` proves, for any set of calls and any numbers of tokens and
losses, `TypeCorrectness`, `TokenRequestsAreShared` (`OneTokenRequest`),
`NobodyIsLeftWaiting` (`AwaitsLiveRequest`) and `LossIsHidden`
(`OneLossIsHidden`). The first ones need `SharedInv`: the request on the way is
the one that is shared, and whoever waits waits for it. The last one needs to
know where a void token can be. `UnharmedInv`: before the first loss every token is
good, and one is requested only while nobody has had one. `OneLossInv`: after one
loss an answer from before it can only be on the way while nobody bears a token,
so no second try is made with it.

`RateLimiterProofs` proves, for any number of handlers, any configuration and
any length of time, `TypeCorrectness` (`TypeOK`), `BucketIsKept` (`BucketInUse`)
and `BudgetIsKept` (`Budget`). They assume that twice `Lag` is at most the TTL.
`ClockInv` bounds the age of the time a handler read, and `UseInv` the age of the
stamp of a bucket in use. The stamp may be older than the handler's own time,
because another handler with an older time may have stamped it since: hence
twice.

`Budget` rests on a potential: what the bucket holds, and a token for each
reservation whose cancellation may still give one back. As long as handlers are
in order these are the reservations of the instant the bucket is at (`Live`), the
potential is never more than a full bucket, and it rises only by what is earned.
That a cancellation gives back no more than its token is the hard part, because
delays are cut off to ticks: canceling the last reservation sets the bucket's
last event back, and were it set back behind another pending one, that one would
get more than it took. `Stacked` excludes it: pending reservations act a gap
apart, and the debt of the bucket pays for the delay of each and for all above
it, except for a fraction of a token that the one just below may have taken when
it was canceled. A request that is admitted finds no live reservation, and leaves
a debt of less than a tick's worth. A swept bucket has been idle for long enough
to be full (`Refills`, a condition on the configuration).

`JobPageProofs` proves, for any number of jobs, any bound on the gallery and any
timeouts:

| Theorem | States |
|---|---|
| `QuietOnceSettled` | `Spec => SettledIsQuiet` |
| `PageInvariance`, `TypeCorrectness` | `Spec => []PageInv`, `Spec => []TypeOK` |
| `OutcomesAreTrue` | `Spec => []OutcomeIsTrue`, if the server's queue delivers a job once |
| `ListedOnce` | `entries` and `saved` list no job twice |

The first says that neither the timer nor focus fetches a job that the page
knows has ended; only coming back online does. It needs `QueryInv`, that no
timer runs for a job that has ended, and `UploadInv`, that no upload is under
way while a job is on screen: its answer would show another job and fetch. The
others rest on `PageInv`. The effects of a render use what that render saw, when
the page may long show something else; so the invariant speaks of `drawn` as it
does of the page (`SoundDraw`): an outcome it holds is the one its job has at
the server. That stays so because the server takes no outcome back
(`ServerKeeps`), which is true of a lifecycle without redelivery: always on the
memory backend (`StrictRefinement`), and on AWS under the conditions of
`OutcomesAreFinal`.

What the gallery's filter keeps is proved by induction. The induction theorems of
the library take an operator and cannot be used, but a set of numbers can stand
for it: `Induction` says that a set with 0 and the successor of each member is
all of `Nat`, and follows from the least element of its complement. With it
`Without`, a recursive function, is shown to exist (`KeptExists`) and to keep the
entries that are not the job's, all of them and nothing else (`WithoutKeeps`).

`ImageRequestProofs` proves, for any limit on the
dimensions, any sizes of text and image, and either library or both:

| Theorem | States |
|---|---|
| `FittedIntoBox`, `ThumbnailIsBounded` | what `targetSize` and `thumbnailSize` return for every source |
| `RequestInvariance`, `RequestTypeCorrectness` | `Spec => []Inv`, `Spec => []TypeOK` |
| `UploadsAreClosed` | `Spec => []UploadIsClosed` |
| `RefusalsWriteNothing` | `Spec => []RefusalWritesNothing` |
| `AcceptedAreUsable` | `Spec => []AcceptedIsUsable` |
| `SizesAreRequested` | `Spec => []SizeIsRequested` |
| `BoxesAreFitted`, `ThumbnailsFit` | `Spec => []BoxIsFitted`, `Spec => []ThumbnailFits` |
| `StrippedAreClean` | `Spec => []StrippedIsClean` |

They assume that the sizes of uploaded images are positive and the rest are
integers. The arithmetic rests on one lemma: adding half the divisor before an
integer division leaves an error of at most half the divisor (`RoundingError`),
so no other size is nearer (`ScaledIsNearest`), and a bound that the exact
quotient respects is respected by the rounded one (`ScaledIsBounded`). `Inv` of
`ImageRequestProofs` then carries what each stage may rely on: the specification
in a worker's hands is valid, so the resize has a target, and the accepted formats
are ones that libvips encodes; before the resize the
image has the size of its source, and after it the size asked for.

Only model-checked are the liveness properties, which need fairness and ENABLED.
Each invariant and each action property that a passing run checks is a theorem.

Two definitions were wrong until a proof was tried. `Budget` did not allow for
the token that is lent for less than a tick, which cannot happen at the rate the
run had; the run has another rate now, at which it does. `TypeOK` of
`RateLimiter`, and `Budget`, did not hold for a negative burst, with which
limiting is off.

## What the checks found

Four statements in the code's comments and docs do not hold. `findings` in
`PROJECT.json` quotes them, and a run shows each.

- *A job whose enqueueing fails is marked failed* (`create_job.go`). The mark
  uses the request's context, and when the client hung up both calls fail.
  `RefusedAreMarked` proves it where no client does and the repository does not
  fail.
- *The use case has already recorded the failure* (`pool.go`). It records it
  under the job's context, which has expired when the failure is a timeout. The
  record stays in processing, and a redelivery skips it. `FailuresAreRecorded`
  proves it where no job times out, no signal comes, no message reappears while
  somebody has it and the repository does not fail.
- *Give up on a job that never settles* (`useJob.ts`). The timeout is measured
  from the last answer: it ends the polling of a server that is silent, never of
  a job that is stuck.
- *A settled job costs nothing to leave on screen* (`web/README.md`; `useJob.ts`
  says the same). It is asked for again only when the browser comes back online,
  but the effect that keeps the gallery in step causes the render that
  runs it again, for as long as the job is shown and in the gallery. The same
  loop is what updates an entry added after the job has settled: with
  dependencies that only follow the data, `GalleryInStep` would fail.

Three more follow from what the passing runs say, and are stated there as what
does hold.

- `domain/job.go` expects no further transition from a terminal status. Two
  workers may read a redelivered job as pending, and the claim has no condition,
  so the slower one moves a finished job back to processing.
  `FinishedIsFinal` says when a terminal status is final: once nobody is left
  who read the record before. `OutcomesAreFinal` says where the comment is right.
- `cmd/worker` says that the buffered queue holds the seeded jobs.
  `SeedingEnds` needs a buffer with a place for each; with a shorter one the
  command blocks in Enqueue, before it starts the pool, until a signal.
- A job may stay in processing for good, with its redelivery skipped.
  `ProcessingIsExplained` says after what: a crash, a job timeout, an abandoned
  shutdown or a fault of the repository, and nothing else.

## What is left out

Pixels; formatting, logging and tracing; the collectors of the metrics; reading
configuration; the deployment, except for the redrive policy. `localstorage`
does not sync its files, so what a crash of the machine leaves is the file
system's affair; a kill may leave a temporary file, which nothing removes.
`memqueue.Consume` is not called. The length of a backoff delay is not modelled
(it is computed with floating point and capped, so it cannot overflow); that the
loop backs off and comes back is. Reading a job and the probes of the API keep no
state. An error of the API's listener while uploads wait on a full queue leaves
the process in Close, with its signals trapped, until their clients hang up:
`ServeError` is in the model, and `CommandExits` claims nothing about it. The
dimension that is derived from the other is not bounded by `MaxDimension`: the
code bounds what is asked for, and `SizeIsRequested` says what comes of it. A rate
or a burst of zero is replaced by the default in `New`, so configuring zero does
not switch limiting off, although a comment of `newRateLimiter` says so. On the
page: the form's validation, the object URL of the preview, a machine that
sleeps, and two things react-query holds back: an upload begun offline, which
here just fails, and the retries and paused requests of a tab that has no focus.
What a text drawn on an image looks like is left out; that the pure Go library
refuses an image smaller than its text is in the model (`TextFits`).
That a settling runs into its own timeout is not told apart from one that fails.

## Plan

The depth gauge and the collectors, if the metrics come to steer anything.
