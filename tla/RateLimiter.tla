---------------------------- MODULE RateLimiter -----------------------------
(***************************************************************************)
(* The rate limiter of the API: the token bucket of one client, the        *)
(* handlers of that client's concurrent requests, and the sweeper that     *)
(* drops an idle bucket.  Buckets of different clients share only the map. *)
(*                                                                         *)
(* Time is counted in ticks.  A token is Second units, and a tick earns    *)
(* Limit of them.  allow reads the clock, finds the bucket under the       *)
(* limiter's lock, reserves a token and, when it would have to wait,       *)
(* cancels the reservation: four steps, with the locks free in between.    *)
(* Reserving and canceling are those of golang.org/x/time/rate.  A limiter *)
(* that is not enabled lets every request pass and keeps no bucket.        *)
(***************************************************************************)
EXTENDS Integers, FiniteSets

CONSTANTS
    Handlers,           \* the requests of the client that run at one time
    RateLimit,          \* as configured: tokens per second
    RateBurst,          \* as configured: tokens a full bucket holds
    DefaultRateLimit,
    DefaultRateBurst,
    Second,             \* ticks per second
    TTL,                \* ticks an idle bucket is kept
    Lag,                \* the longest a handler stays in allow, in ticks
    MaxTime,            \* bound on the clock
    MaxDebt             \* bound: no request arrives at a bucket further in debt

ASSUME LimiterAssumption ==
    /\ RateLimit \in Int /\ RateBurst \in Int
    /\ DefaultRateLimit \in Nat \ {0} /\ DefaultRateBurst \in Nat \ {0}
    /\ Second \in Nat \ {0} /\ MaxTime \in Nat /\ MaxDebt \in Nat
    /\ TTL \in Nat /\ Lag \in Nat /\ 2 * Lag <= TTL
    /\ IsFiniteSet(Handlers)

\* New replaces a zero by the default, and newRateLimiter takes what is left.
Limit == IF RateLimit = 0 THEN DefaultRateLimit ELSE RateLimit

Burst == IF RateBurst = 0 THEN DefaultRateBurst ELSE RateBurst

Enabled == Limit > 0 /\ Burst > 0

Full == Burst * Second

VARIABLES
    now,                \* the clock
    bucket,             \* the client's bucket, NoBucket when it has none
    pc,                 \* per handler: its next step in allow
    at,                 \* per handler: the time it read
    act,                \* per handler: when its reservation could act
    since,              \* history: the start of the window looked at
    admitted,           \* history: requests admitted in that window
    ordered             \* history: no handler has set a bucket's time back

history == <<since, admitted, ordered>>

vars == <<now, bucket, pc, at, act, history>>

NoBucket == [tokens |-> 0, last |-> 0, lastEvent |-> 0, seen |-> -1]

Tracked == bucket # NoBucket

TypeOK ==
    /\ now \in 0..MaxTime
    /\ bucket \in [tokens : Int, last : 0..MaxTime, lastEvent : Int, seen : -1..MaxTime]
    /\ Enabled => bucket.tokens <= Full
    /\ pc \in [Handlers -> {"idle", "lookup", "reserve", "cancel"}]
    /\ at \in [Handlers -> 0..MaxTime] /\ act \in [Handlers -> Int]
    /\ since \in 0..MaxTime /\ admitted \in Nat /\ ordered \in BOOLEAN

Init ==
    /\ now = 0
    /\ bucket = NoBucket
    /\ pc = [h \in Handlers |-> "idle"]
    /\ at = [h \in Handlers |-> 0] /\ act = [h \in Handlers |-> 0]
    /\ since = 0 /\ admitted = 0 /\ ordered = TRUE

-----------------------------------------------------------------------------
(* The token bucket of x/time/rate *)

AtMost(x, y) == IF x < y THEN x ELSE y

\* Mutant: an idle bucket fills without end.
AdvanceUncapped(b, t) ==
    b.tokens + (IF t > b.last THEN (t - b.last) * Limit ELSE 0)

\* A time before the last one earns nothing.
Advance(b, t) ==
    AtMost(Full, b.tokens + (IF t > b.last THEN (t - b.last) * Limit ELSE 0))

Wait(tokens) == IF tokens < 0 THEN (-tokens) \div Limit ELSE 0

Reserved(b, t) ==
    LET tokens == Advance(b, t) - Second
    IN  [b EXCEPT !.tokens = tokens, !.last = t, !.lastEvent = t + Wait(tokens)]

\* What was reserved after this reservation is not restored with it.
Restore(b, a) == Second - (b.lastEvent - a) * Limit

Canceled(b, t, a) ==
    LET previous == a - Second \div Limit
    IN  IF Restore(b, a) <= 0
        THEN b
        ELSE [b EXCEPT !.tokens    = AtMost(Full, Advance(b, t) + Restore(b, a)),
                       !.last      = t,
                       !.lastEvent = IF a = @ /\ previous >= t THEN previous ELSE @]

-----------------------------------------------------------------------------
(* allow *)

ReadClock(h) ==
    /\ Enabled
    /\ pc[h] = "idle" /\ bucket.tokens >= -MaxDebt
    /\ pc' = [pc EXCEPT ![h] = "lookup"]
    /\ at' = [at EXCEPT ![h] = now]
    /\ UNCHANGED <<now, bucket, act, history>>

\* Mutant: only a new bucket is stamped.
LookupUnstamped(h) ==
    /\ pc[h] = "lookup"
    /\ bucket' = IF Tracked THEN bucket
                 ELSE [tokens |-> Full, last |-> at[h], lastEvent |-> at[h], seen |-> at[h]]
    /\ pc' = [pc EXCEPT ![h] = "reserve"]
    /\ UNCHANGED <<now, at, act, history>>

\* A new bucket is full from the time of its first handler on, in the library from
\* the zero time on: its tokens are the same, and only `ordered` is stricter here
\* about a handler with an older time that reserves first.
Lookup(h) ==
    /\ pc[h] = "lookup"
    /\ bucket' = IF Tracked THEN [bucket EXCEPT !.seen = at[h]]
                 ELSE [tokens |-> Full, last |-> at[h], lastEvent |-> at[h], seen |-> at[h]]
    /\ pc' = [pc EXCEPT ![h] = "reserve"]
    /\ UNCHANGED <<now, at, act, history>>

Reserve(h) ==
    LET after == Reserved(bucket, at[h])
        ready == Wait(after.tokens) = 0
    IN  /\ pc[h] = "reserve"
        /\ bucket' = after
        /\ pc' = [pc EXCEPT ![h] = IF ready THEN "idle" ELSE "cancel"]
        /\ act' = [act EXCEPT ![h] = after.lastEvent]
        /\ admitted' = admitted + (IF ready THEN 1 ELSE 0)
        /\ ordered' = (ordered /\ at[h] >= bucket.last)
        /\ UNCHANGED <<now, at, since>>

\* The request is refused, with a 429 and the delay as Retry-After.
Cancel(h) ==
    /\ pc[h] = "cancel"
    /\ bucket' = Canceled(bucket, at[h], act[h])
    /\ pc' = [pc EXCEPT ![h] = "idle"]
    /\ ordered' = (ordered /\ bucket'.last >= bucket.last)
    /\ UNCHANGED <<now, at, act, since, admitted>>

Allow(h) == ReadClock(h) \/ Lookup(h) \/ Reserve(h) \/ Cancel(h)

-----------------------------------------------------------------------------

\* Mutant: the sweeper drops every bucket it meets.
SweepAll ==
    /\ Tracked
    /\ bucket' = NoBucket
    /\ UNCHANGED <<now, pc, at, act, history>>

Sweep ==
    /\ Tracked
    /\ bucket.seen < now - TTL
    /\ bucket' = NoBucket
    /\ UNCHANGED <<now, pc, at, act, history>>

Tick ==
    /\ now < MaxTime
    /\ \A h \in Handlers : pc[h] # "idle" => now - at[h] < Lag
    /\ now' = now + 1
    /\ UNCHANGED <<bucket, pc, at, act, history>>

\* A new window begins, at any time: what is said of one holds for all.
OpenWindow ==
    /\ since' = now
    /\ admitted' = 0
    /\ UNCHANGED <<now, bucket, pc, at, act, ordered>>

Next == (\E h \in Handlers : Allow(h)) \/ Sweep \/ Tick \/ OpenWindow

Spec == Init /\ [][Next]_vars

-----------------------------------------------------------------------------
(* Properties *)

\* A bucket refills before it is swept, as the constants of the run have it.
\* Twice Lag: a handler may stamp a bucket Lag late and use a new one Lag early.
Refills == Full <= (TTL - 2 * Lag) * Limit

\* In no window does the client get more than its burst and the sustained rate
\* allow, however its requests interleave between reserving and canceling and
\* whenever the sweeper replaces its bucket by a full one.  It holds under two
\* conditions.  A bucket refills before it is swept.  And the handlers reach the
\* bucket in the order in which they read the clock: one that sets its time back
\* has ticks counted twice.  A request counts by the clock it read, up to Lag
\* before the window, and a delay of less than a tick is none: a token may be
\* lent for that long.
Budget ==
    Enabled /\ Refills /\ ordered =>
        admitted * Second < Full + (now - since + Lag + 1) * Limit

\* A bucket that a handler found in the map is still the client's when it
\* reserves and when it cancels: the sweeper does not drop it in between, so
\* no request is counted against a bucket nobody looks up again.  A handler may
\* stamp it with a time older than the others', hence twice Lag within TTL.
BucketInUse == \A h \in Handlers : pc[h] \in {"reserve", "cancel"} => Tracked
=============================================================================
