-------------------------- MODULE RateLimiterProofs -------------------------
(***************************************************************************)
(* The rate limiter for any number of handlers, any configuration and any  *)
(* length of time: types, a bucket that is never swept while in use, and   *)
(* the budget of a client.                                                 *)
(***************************************************************************)
EXTENDS RateLimiter, FiniteSetTheorems, TLAPS

\* A handler is in allow only of a limiter that is enabled, and leaves it within
\* Lag of the time it read.
ClockInv ==
    \A h \in Handlers :
        pc[h] # "idle" => Enabled /\ at[h] <= now /\ now - at[h] <= Lag

\* A bucket in the map carries the time it was last looked up.
StampInv == Tracked => bucket.seen >= 0

\* The bucket a handler works on is in the map, and was stamped no earlier than
\* Lag before the time that handler read.
UseInv ==
    \A h \in Handlers :
        pc[h] \in {"reserve", "cancel"} => bucket.seen >= 0 /\ bucket.seen >= at[h] - Lag

Inv == TypeOK /\ ClockInv /\ StampInv /\ UseInv

-----------------------------------------------------------------------------
(* The operators of the bucket *)

\* The effective configuration is a pair of integers.
LEMMA ConfigType == Limit \in Int /\ Burst \in Int /\ Full \in Int /\ (Enabled => Full > 0)
  <1>1. Limit \in Int /\ Burst \in Int
    BY LimiterAssumption DEF Limit, Burst
  <1>2. Full \in Int
    BY <1>1, LimiterAssumption DEF Full
  <1>3. Enabled => Full > 0
    <2>1. ASSUME NEW b \in Nat \ {0}, NEW s \in Nat \ {0} PROVE b * s > 0
      OBVIOUS
    <2>2. Enabled => Burst \in Nat \ {0}
      BY <1>1 DEF Enabled
    <2> QED
      BY <2>1, <2>2, LimiterAssumption DEF Full
  <1> QED
    BY <1>1, <1>2, <1>3

Bucket == [tokens : Int, last : 0..MaxTime, lastEvent : Int, seen : -1..MaxTime]

\* What a bucket has earned by some time is an integer, and never more than full.
LEMMA AdvanceType ==
    ASSUME NEW b \in Bucket, NEW t \in 0..MaxTime
    PROVE  Advance(b, t) \in Int /\ Advance(b, t) <= Full
  <1> DEFINE earned == IF t > b.last THEN (t - b.last) * Limit ELSE 0
  <1>1. b.tokens \in Int /\ b.last \in Int /\ t \in Int
    BY LimiterAssumption DEF Bucket
  <1>2. earned \in Int
    BY <1>1, ConfigType
  <1>3. b.tokens + earned \in Int
    BY <1>1, <1>2
  <1>4. Advance(b, t) = AtMost(Full, b.tokens + earned)
    BY DEF Advance
  <1> HIDE DEF earned
  <1> QED
    BY <1>3, <1>4, ConfigType DEF AtMost

\* The wait of an enabled limiter is a number of ticks.
LEMMA WaitType ==
    ASSUME NEW tokens \in Int, Enabled
    PROVE  Wait(tokens) \in Int
  BY ConfigType DEF Wait, Enabled

\* Reserving a token leaves a bucket that is not over full, and its stamp alone.
LEMMA ReservedType ==
    ASSUME NEW b \in Bucket, NEW t \in 0..MaxTime, Enabled
    PROVE  /\ Reserved(b, t) \in Bucket
           /\ Reserved(b, t).tokens <= Full
           /\ Reserved(b, t).seen = b.seen
  <1> DEFINE tokens == Advance(b, t) - Second
  <1>1. tokens \in Int /\ tokens <= Full
    BY AdvanceType, ConfigType, LimiterAssumption
  <1>2. t + Wait(tokens) \in Int
    BY <1>1, WaitType, LimiterAssumption
  <1>3. Reserved(b, t) =
          [b EXCEPT !.tokens = tokens, !.last = t, !.lastEvent = t + Wait(tokens)]
    BY DEF Reserved
  <1> HIDE DEF tokens
  <1> QED
    BY <1>1, <1>2, <1>3 DEF Bucket

\* Canceling does not fill a bucket over, and leaves its stamp alone.
LEMMA CanceledType ==
    ASSUME NEW b \in Bucket, b.tokens <= Full, NEW t \in 0..MaxTime, NEW a \in Int, Enabled
    PROVE  /\ Canceled(b, t, a) \in Bucket
           /\ Canceled(b, t, a).tokens <= Full
           /\ Canceled(b, t, a).seen = b.seen
  <1> DEFINE previous == a - Second \div Limit
             tokens == AtMost(Full, Advance(b, t) + Restore(b, a))
             event == IF a = b.lastEvent /\ previous >= t THEN previous ELSE b.lastEvent
  <1>1. b.lastEvent \in Int
    BY DEF Bucket
  <1>2. Restore(b, a) \in Int
    BY <1>1, ConfigType, LimiterAssumption DEF Restore
  <1>3. tokens \in Int /\ tokens <= Full
    BY <1>2, AdvanceType, ConfigType DEF AtMost
  <1>4. event \in Int
    BY <1>1, ConfigType, LimiterAssumption DEF Enabled
  <1>5. Canceled(b, t, a) =
          IF Restore(b, a) <= 0 THEN b
          ELSE [b EXCEPT !.tokens = tokens, !.last = t, !.lastEvent = event]
    BY DEF Canceled
  <1> HIDE DEF tokens, event
  <1> QED
    BY <1>3, <1>4, <1>5 DEF Bucket

-----------------------------------------------------------------------------
(* The steps *)

\* The limiter starts in the invariant.
LEMMA InitInv == Init => Inv
  BY ConfigType, LimiterAssumption
  DEF Init, Inv, TypeOK, ClockInv, StampInv, UseInv, NoBucket, Tracked

\* A handler reads the clock.
LEMMA ReadClockInv ==
    ASSUME Inv, NEW h \in Handlers, ReadClock(h)
    PROVE  Inv'
  BY LimiterAssumption
  DEF Inv, ReadClock, TypeOK, ClockInv, StampInv, UseInv, Tracked, history, NoBucket

\* A handler stamps the bucket, with a time that may be older than another's.
LEMMA LookupInv ==
    ASSUME Inv, NEW h \in Handlers, Lookup(h)
    PROVE  Inv'
  <1> USE DEF Inv
  <1>1. at[h] \in 0..MaxTime /\ at[h] <= now /\ now - at[h] <= Lag /\ Enabled
    BY DEF Lookup, TypeOK, ClockInv
  <1>2. bucket' \in Bucket /\ bucket'.tokens <= Full /\ bucket'.seen = at[h]
    <2>1. CASE Tracked
      BY <1>1, <2>1 DEF Lookup, TypeOK, Bucket
    <2>2. CASE ~Tracked
      BY <1>1, <2>2, ConfigType, LimiterAssumption DEF Lookup, Bucket
    <2> QED
      BY <2>1, <2>2
  <1>3. TypeOK'
    BY <1>2 DEF Lookup, TypeOK, Bucket, history
  <1>4. ClockInv' /\ StampInv'
    BY <1>1, <1>2 DEF Lookup, TypeOK, ClockInv, StampInv
  <1>5. UseInv'
    <2> SUFFICES ASSUME NEW k \in Handlers, pc'[k] \in {"reserve", "cancel"}
                 PROVE  bucket'.seen >= 0 /\ bucket'.seen >= at'[k] - Lag
      BY DEF UseInv
    <2>1. at'[k] = at[k] /\ at[k] \in 0..MaxTime /\ pc[k] # "idle"
      BY DEF Lookup, TypeOK
    <2>2. at[k] <= now
      BY <2>1 DEF ClockInv
    <2> QED
      BY <1>1, <1>2, <2>1, <2>2, LimiterAssumption DEF TypeOK
  <1> QED
    BY <1>3, <1>4, <1>5

\* Reserving and canceling leave the stamp alone.
LEMMA ReserveInv ==
    ASSUME Inv, NEW h \in Handlers, Reserve(h) \/ Cancel(h)
    PROVE  Inv'
  <1> USE DEF Inv
  <1>1. at[h] \in 0..MaxTime /\ act[h] \in Int /\ Enabled /\ bucket \in Bucket
        /\ bucket.tokens <= Full
    BY DEF Reserve, Cancel, TypeOK, ClockInv, Bucket
  <1>2. bucket' \in Bucket /\ bucket'.tokens <= Full /\ bucket'.seen = bucket.seen
    BY <1>1, ReservedType, CanceledType DEF Reserve, Cancel
  <1>3. act' \in [Handlers -> Int]
    <2>1. CASE Reserve(h)
      <3>1. Reserved(bucket, at[h]).lastEvent \in Int
        BY <1>1, ReservedType DEF Bucket
      <3> QED
        BY <2>1, <3>1 DEF Reserve, TypeOK
    <2>2. CASE Cancel(h)
      BY <2>2 DEF Cancel, TypeOK
    <2> QED
      BY <2>1, <2>2
  <1>4. /\ UNCHANGED <<now, at, since>>
        /\ admitted' \in Nat /\ ordered' \in BOOLEAN
        /\ pc' \in [Handlers -> {"idle", "lookup", "reserve", "cancel"}]
        /\ \A k \in Handlers : pc'[k] = pc[k] \/ (k = h /\ pc'[k] \in {"idle", "cancel"})
    <2>1. ordered' \in BOOLEAN
      BY Zenon DEF Reserve, Cancel
    <2>2. admitted' \in Nat
      BY DEF Reserve, Cancel, TypeOK
    <2> QED
      BY <2>1, <2>2 DEF Reserve, Cancel, TypeOK
  <1>5. TypeOK'
    BY <1>2, <1>3, <1>4 DEF TypeOK, Bucket
  <1>6. pc[h] \in {"reserve", "cancel"}
    BY DEF Reserve, Cancel
  <1>7. bucket.seen >= 0
    BY <1>6 DEF UseInv
  <1>8. ClockInv' /\ StampInv' /\ UseInv'
    BY <1>2, <1>4, <1>6, <1>7 DEF ClockInv, StampInv, UseInv
  <1> QED
    BY <1>5, <1>8

\* The sweeper drops a bucket only when no handler works on it: the bucket would
\* have been stamped within twice Lag, and TTL is no shorter.
LEMMA SweepInv ==
    ASSUME Inv, Sweep
    PROVE  Inv'
  <1> USE DEF Inv
  <1>1. \A h \in Handlers : pc[h] \notin {"reserve", "cancel"}
    <2> SUFFICES ASSUME NEW h \in Handlers, pc[h] \in {"reserve", "cancel"} PROVE FALSE
      OBVIOUS
    <2>1. bucket.seen >= at[h] - Lag /\ now - at[h] <= Lag /\ bucket.seen < now - TTL
      BY DEF UseInv, ClockInv, Sweep
    <2>2. bucket.seen \in Int /\ at[h] \in Int /\ now \in Int
      BY LimiterAssumption DEF TypeOK
    <2> QED
      BY <2>1, <2>2, LimiterAssumption
  <1>2. TypeOK'
    BY ConfigType, LimiterAssumption DEF Sweep, TypeOK, NoBucket, history
  <1> QED
    BY <1>1, <1>2 DEF Sweep, ClockInv, StampInv, UseInv, Tracked

\* Time passes, and windows begin.
LEMMA TickInv ==
    ASSUME Inv, Tick \/ OpenWindow
    PROVE  Inv'
  <1> USE DEF Inv
  <1>1. TypeOK'
    BY LimiterAssumption DEF Tick, OpenWindow, TypeOK, history
  <1>2. ClockInv'
    BY LimiterAssumption DEF Tick, OpenWindow, TypeOK, ClockInv
  <1>3. StampInv' /\ UseInv'
    BY DEF Tick, OpenWindow, StampInv, UseInv, Tracked
  <1> QED
    BY <1>1, <1>2, <1>3

\* Every step keeps the invariant.
LEMMA StepInv == Inv /\ [Next]_vars => Inv'
  <1> SUFFICES ASSUME Inv, [Next]_vars PROVE Inv'
    OBVIOUS
  <1>1. CASE UNCHANGED vars
    BY <1>1 DEF vars, history, Inv, TypeOK, ClockInv, StampInv, UseInv, Tracked
  <1>2. CASE Next
    BY <1>2, ReadClockInv, LookupInv, ReserveInv, SweepInv, TickInv DEF Next, Allow
  <1> QED
    BY <1>1, <1>2

\* The inductive invariant holds in every state of the limiter.
THEOREM Invariance == Spec => []Inv
  BY InitInv, StepInv, PTL DEF Spec

\* Every variable keeps its type; in particular no interleaving of reserving
\* and canceling fills a bucket over its burst.
THEOREM TypeCorrectness == Spec => []TypeOK
  BY Invariance, PTL DEF Inv

\* For any number of concurrent requests of a client: the bucket a handler found
\* is never swept from under it (ratelimit.go, sweep), as long as a handler
\* spends no more than half of the time an idle bucket is kept in allow.
THEOREM BucketIsKept == Spec => []BucketInUse
  <1>1. Inv => BucketInUse
    BY DEF Inv, TypeOK, UseInv, BucketInUse, Tracked, NoBucket
  <1> QED
    BY <1>1, Invariance, PTL

-----------------------------------------------------------------------------
(* Reservations that may be canceled *)

\* Two reservations in a row act at least so many ticks apart.
Gap == Second \div Limit

\* The others of the reservations V that act no earlier than k's.
Above(V, f, k) == {h \in V \ {k} : f[h] >= f[k]}

\* What the cancellation of the one just before k's may have given back, if it is
\* no longer there: the fraction of a token by which the delays were cut off.
Slack(V, f, k) ==
    IF Gap >= 1 /\ \A h \in V : f[h] # f[k] - Gap THEN Second - Gap * Limit ELSE 0

\* The reservations V of one instant t, acting at f, of a bucket that is left with
\* so many tokens and the last event e.  Each is behind the bucket's last event, they are a
\* gap apart, and the debt of the bucket pays for each and for those above it.
Stacked(V, f, t, tokens, e) ==
    /\ \A k \in V : f[k] > t /\ f[k] <= e
    /\ \A h, k \in V : h # k => f[h] - f[k] >= Gap \/ f[k] - f[h] >= Gap
    /\ \A k \in V :
          -tokens >= (f[k] - t) * Limit + Second * Cardinality(Above(V, f, k)) - Slack(V, f, k)

\* Multiplying by the rate, which is positive, keeps the order.
LEMMA RateIsMonotone ==
    ASSUME Enabled, NEW i \in Int, NEW j \in Int, i <= j
    PROVE  i * Limit <= j * Limit
  <1>1. ASSUME NEW n \in Int, n > 0 PROVE i * n <= j * n
    <2>1. (j - i) * n >= 0
      BY <1>1
    <2> QED
      BY <1>1, <2>1
  <1> QED
    BY <1>1, ConfigType DEF Enabled

\* The gap is a token's worth of ticks, rounded down.
LEMMA GapType ==
    ASSUME Enabled
    PROVE  /\ Gap \in Nat
           /\ Gap * Limit <= Second /\ Second < (Gap + 1) * Limit
  <1>1. ASSUME NEW s \in Nat, NEW n \in Nat, n > 0
        PROVE  s \div n \in Nat /\ (s \div n) * n <= s /\ s < (s \div n + 1) * n
    BY <1>1
  <1> QED
    BY <1>1, ConfigType, LimiterAssumption DEF Gap, Enabled

\* A wait is the debt's worth of ticks, rounded down.
LEMMA WaitBounds ==
    ASSUME Enabled, NEW tokens \in Int
    PROVE  /\ Wait(tokens) \in Nat
           /\ tokens < 0 => /\ Wait(tokens) * Limit <= -tokens
                            /\ -tokens < (Wait(tokens) + 1) * Limit
           /\ tokens > -(Wait(tokens) + 1) * Limit
  <1>1. ASSUME NEW s \in Nat, NEW n \in Nat, n > 0
        PROVE  s \div n \in Nat /\ (s \div n) * n <= s /\ s < (s \div n + 1) * n
    BY <1>1
  <1>2. Limit \in Nat /\ Limit > 0
    BY ConfigType DEF Enabled
  <1>3. CASE tokens < 0
    <2>1. -tokens \in Nat
      BY <1>3
    <2> QED
      BY <1>1, <1>2, <1>3, <2>1 DEF Wait
  <1>4. CASE tokens >= 0
    BY <1>2, <1>4 DEF Wait
  <1> QED
    BY <1>3, <1>4

\* A whole number of ticks that the debt pays for is no longer than the wait.
LEMMA WaitCovers ==
    ASSUME Enabled, NEW tokens \in Int, NEW i \in Int, i * Limit <= -tokens
    PROVE  i <= Wait(tokens)
  <1> SUFFICES ASSUME i > Wait(tokens) PROVE FALSE
    BY WaitBounds
  <1>1. (Wait(tokens) + 1) * Limit <= i * Limit
    BY RateIsMonotone, WaitBounds
  <1> QED
    BY <1>1, WaitBounds, ConfigType

\* A slack is a fraction of a token.
LEMMA SlackType ==
    ASSUME Enabled, NEW V, NEW f, NEW k
    PROVE  Slack(V, f, k) \in Nat /\ Slack(V, f, k) <= Second - Gap * Limit
  BY GapType, ConfigType, LimiterAssumption DEF Slack

\* The reservations above one are finitely many.
LEMMA AboveType ==
    ASSUME NEW V \in SUBSET Handlers, NEW f, NEW k
    PROVE  IsFiniteSet(Above(V, f, k)) /\ Cardinality(Above(V, f, k)) \in Nat
  <1>1. Above(V, f, k) \in SUBSET Handlers
    BY DEF Above
  <1> QED
    BY <1>1, FS_Subset, FS_CardinalityType, LimiterAssumption

\* With fewer reservations there are fewer above each, and no less slack.
LEMMA FewerAbove ==
    ASSUME Enabled, NEW V \in SUBSET Handlers, NEW W \in SUBSET V, NEW f, NEW k \in W
    PROVE  /\ Cardinality(Above(W, f, k)) <= Cardinality(Above(V, f, k))
           /\ Slack(W, f, k) >= Slack(V, f, k)
  <1>1. Above(W, f, k) \in SUBSET Above(V, f, k)
    BY DEF Above
  <1>2. Cardinality(Above(W, f, k)) <= Cardinality(Above(V, f, k))
    BY <1>1, AboveType, FS_Subset
  <1>3. Slack(W, f, k) >= Slack(V, f, k)
    BY SlackType, GapType, ConfigType, LimiterAssumption DEF Slack
  <1> QED
    BY <1>2, <1>3

\* A cancellation that gives nothing back leaves the other reservations stacked.
LEMMA StackedWithout ==
    ASSUME Enabled, NEW V \in SUBSET Handlers, NEW W \in SUBSET V, NEW f \in [Handlers -> Int],
           NEW t \in Int, NEW tokens \in Int, NEW e \in Int,
           Stacked(V, f, t, tokens, e)
    PROVE  Stacked(W, f, t, tokens, e)
  <1>1. ASSUME NEW k \in W
        PROVE  -tokens >= (f[k] - t) * Limit + Second * Cardinality(Above(W, f, k))
                            - Slack(W, f, k)
    <2> DEFINE n == Cardinality(Above(V, f, k))
               m == Cardinality(Above(W, f, k))
               debt == (f[k] - t) * Limit
    <2>1. n \in Nat /\ m \in Nat /\ m <= n
      BY AboveType, FewerAbove
    <2>2. Second * m <= Second * n
      BY <2>1, LimiterAssumption
    <2>3. debt \in Int /\ Second * n \in Int /\ Second * m \in Int
      BY <2>1, ConfigType, LimiterAssumption
    <2>4. -tokens >= debt + Second * n - Slack(V, f, k)
      BY DEF Stacked
    <2>5. Slack(W, f, k) >= Slack(V, f, k)
      BY FewerAbove
    <2> HIDE DEF n, m, debt
    <2>6. -tokens >= debt + Second * m - Slack(W, f, k)
      BY <2>2, <2>3, <2>4, <2>5, SlackType
    <2> QED
      BY <2>6 DEF debt, m
  <1> QED
    BY <1>1 DEF Stacked

\* The next reservation acts a gap after each that is there.
LEMMA NextIsBehind ==
    ASSUME Enabled, NEW V \in SUBSET Handlers, NEW f \in [Handlers -> Int],
           NEW t \in Int, NEW tokens \in Int, NEW e \in Int,
           Stacked(V, f, t, tokens, e), NEW k \in V
    PROVE  t + Wait(tokens - Second) >= f[k] + Gap
  <1> DEFINE n == Cardinality(Above(V, f, k))
             debt == (f[k] - t) * Limit
  <1>1. n \in Nat /\ Second * n >= 0 /\ Second * n \in Int
    BY AboveType, LimiterAssumption
  <1>2. -tokens >= debt + Second * n - Slack(V, f, k)
    BY DEF Stacked
  <1>3. debt \in Int /\ Gap * Limit \in Int
    BY ConfigType, GapType
  <1> HIDE DEF n, debt
  <1>4. debt + Gap * Limit <= -(tokens - Second)
    BY <1>1, <1>2, <1>3, SlackType, LimiterAssumption
  <1>5. (f[k] - t + Gap) * Limit = debt + Gap * Limit
    BY ConfigType, GapType DEF debt
  <1>6. f[k] - t + Gap <= Wait(tokens - Second)
    BY <1>4, <1>5, WaitCovers, GapType, LimiterAssumption
  <1> QED
    BY <1>6, WaitBounds, GapType, LimiterAssumption

\* The first reservation of an instant that has to wait.
LEMMA StackedAlone ==
    ASSUME Enabled, NEW h \in Handlers, NEW f \in [Handlers -> Int],
           NEW t \in Int, NEW tokens \in Int, Wait(tokens) # 0,
           f[h] = t + Wait(tokens)
    PROVE  Stacked({h}, f, t, tokens, t + Wait(tokens))
  <1>1. Wait(tokens) \in Nat /\ tokens < 0 /\ Wait(tokens) * Limit <= -tokens
    BY WaitBounds DEF Wait
  <1>2. Above({h}, f, h) = {}
    BY DEF Above
  <1>3. Second * Cardinality(Above({h}, f, h)) = 0
    <2>1. Cardinality(Above({h}, f, h)) = 0
      BY <1>2, FS_EmptySet
    <2> QED
      BY <2>1, LimiterAssumption
  <1>4. (f[h] - t) * Limit = Wait(tokens) * Limit
    BY <1>1
  <1>5. Wait(tokens) * Limit \in Int
    BY <1>1, ConfigType
  <1>6. -tokens >= (f[h] - t) * Limit + Second * Cardinality(Above({h}, f, h)) - Slack({h}, f, h)
    BY <1>1, <1>3, <1>4, <1>5, SlackType
  <1> QED
    BY <1>1, <1>6 DEF Stacked

\* One more reservation at the same instant goes on top of the others.
LEMMA StackedOnTop ==
    ASSUME Enabled, NEW V \in SUBSET Handlers, NEW h \in Handlers \ V,
           NEW f \in [Handlers -> Int], NEW g \in [Handlers -> Int],
           NEW t \in Int, NEW tokens \in Int, NEW e \in Int,
           Stacked(V, f, t, tokens, e), \A k \in V : g[k] = f[k],
           g[h] = t + Wait(tokens - Second), Wait(tokens - Second) # 0
    PROVE  Stacked(V \cup {h}, g, t, tokens - Second, t + Wait(tokens - Second))
  <1> DEFINE W == V \cup {h}
             w == Wait(tokens - Second)
  <1>1. w \in Nat /\ tokens - Second \in Int /\ w * Limit <= -(tokens - Second) /\ w * Limit \in Int
    BY WaitBounds, ConfigType, LimiterAssumption DEF Wait
  <1>2. \A k \in V : g[h] >= g[k] + Gap /\ g[k] = f[k] /\ k # h /\ g[k] > t
    BY NextIsBehind DEF Stacked
  <1>3. \A k \in W : g[k] \in Int /\ g[k] > t /\ g[k] <= t + w
    BY <1>1, <1>2, GapType
  <1>4. \A i, k \in W : i # k => g[i] - g[k] >= Gap \/ g[k] - g[i] >= Gap
    BY <1>2, <1>3, GapType DEF Stacked
  <1>5. ASSUME NEW k \in V
        PROVE  -(tokens - Second) >= (g[k] - t) * Limit + Second * Cardinality(Above(W, g, k))
                                       - Slack(W, g, k)
    <2> DEFINE n == Cardinality(Above(V, f, k))
               debt == (f[k] - t) * Limit
    <2>1. Above(W, g, k) = Above(V, f, k) \cup {h} /\ h \notin Above(V, f, k)
      BY <1>2, <1>3, GapType DEF Above
    <2>2. Cardinality(Above(W, g, k)) = n + 1 /\ n \in Nat
      BY <2>1, AboveType, FS_AddElement
    <2>3. Slack(W, g, k) = Slack(V, f, k)
      BY <1>2, <1>3, GapType DEF Slack
    <2>4. -tokens >= debt + Second * n - Slack(V, f, k)
      BY DEF Stacked
    <2>5. debt \in Int
      BY ConfigType
    <2> HIDE DEF n, debt, W
    <2>6. Second * (n + 1) = Second * n + Second /\ Second * n \in Int
      BY <2>2, LimiterAssumption
    <2>7. -(tokens - Second) >= debt + Second * (n + 1) - Slack(W, g, k)
      BY <2>3, <2>4, <2>5, <2>6, SlackType, LimiterAssumption
    <2> QED
      BY <1>2, <2>2, <2>7 DEF debt
  <1>6. -(tokens - Second) >= (g[h] - t) * Limit + Second * Cardinality(Above(W, g, h))
                                - Slack(W, g, h)
    <2>1. (g[h] - t) * Limit = w * Limit
      BY <1>1
    <2>2. CASE Above(W, g, h) = {}
      <3>1. Second * Cardinality(Above(W, g, h)) = 0
        <4>1. Cardinality(Above(W, g, h)) = 0
          BY <2>2, FS_EmptySet
        <4> QED
          BY <4>1, LimiterAssumption
      <3> QED
        BY <1>1, <2>1, <3>1, SlackType, LimiterAssumption
    <2>3. CASE Above(W, g, h) # {}
      <3>1. PICK k \in V : g[k] >= g[h]
        BY <2>3 DEF Above
      <3>2. Gap = 0 /\ g[k] = g[h] /\ f[k] = g[h]
        BY <1>2, <1>3, <3>1, GapType
      <3> DEFINE n == Cardinality(Above(V, f, k))
                 m == Cardinality(Above(W, g, h))
      <3>3. Above(W, g, h) \in SUBSET (Above(V, f, k) \cup {k}) /\ k \notin Above(V, f, k)
        BY <1>2, <3>2 DEF Above
      <3>4. n \in Nat /\ m \in Nat /\ m <= n + 1
        <4> DEFINE T == Above(V, f, k) \cup {k}
        <4>1. n \in Nat /\ IsFiniteSet(T) /\ Cardinality(T) = n + 1
          BY <3>3, AboveType, FS_AddElement
        <4>2. IsFiniteSet(Above(W, g, h)) /\ m <= Cardinality(T)
          BY <3>3, <4>1, FS_Subset
        <4> QED
          BY <4>1, <4>2, FS_CardinalityType
      <3>5. Second * m <= Second * n + Second /\ Second * m \in Int /\ Second * n \in Int
        <4>1. ASSUME NEW s \in Nat PROVE s * m <= s * n + s
          <5>1. s * (n + 1 - m) >= 0
            BY <3>4
          <5> QED
            BY <3>4, <5>1
        <4> QED
          BY <3>4, <4>1, LimiterAssumption
      <3>6. Slack(V, f, k) = 0 /\ Slack(W, g, h) = 0
        BY <3>2 DEF Slack
      <3>7. -tokens >= (f[k] - t) * Limit + Second * n - Slack(V, f, k)
        BY DEF Stacked
      <3>8. (f[k] - t) * Limit = w * Limit
        BY <1>1, <3>2
      <3> HIDE DEF n, m, w, W
      <3>9. -(tokens - Second) >= w * Limit + Second * m - Slack(W, g, h)
        BY <1>1, <3>5, <3>6, <3>7, <3>8, LimiterAssumption
      <3> QED
        BY <2>1, <3>9 DEF m
    <2> QED
      BY <2>2, <2>3
  <1> QED
    BY <1>3, <1>4, <1>5, <1>6 DEF Stacked

\* A cancellation that gives something back gives at most a token, and takes no
\* more of the debt than the other reservations can do without.  One of them
\* above h's is the bucket's last event, a gap away, and uses its slack.
LEMMA StackedCanceled ==
    ASSUME Enabled, NEW V \in SUBSET Handlers, NEW h \in V, NEW f \in [Handlers -> Int],
           NEW t \in Int, NEW tokens \in Int, NEW e \in Int,
           Stacked(V, f, t, tokens, e),
           NEW r \in Int, r = Second - (e - f[h]) * Limit, r > 0,
           NEW left \in Int, left <= tokens + r,
           NEW d \in Int, d = e \/ (f[h] = e /\ d = e - Gap)
    PROVE  r <= Second /\ Stacked(V \ {h}, f, t, left, d)
  <1> DEFINE W == V \ {h}
  <1>1. \A k \in V : f[k] \in Int /\ f[k] > t /\ f[k] <= e
    BY DEF Stacked
  <1>2. \A i, k \in V : i # k => f[i] - f[k] >= Gap \/ f[k] - f[i] >= Gap
    BY DEF Stacked
  <1>3. (e - f[h]) * Limit \in Int /\ (e - f[h]) * Limit >= 0
    BY <1>1, ConfigType, RateIsMonotone DEF Enabled
  <1>4. r <= Second
    BY <1>3, LimiterAssumption
  <1>5. \A k \in W : f[k] > t /\ f[k] <= d
    BY <1>1, <1>2, GapType
  <1>6. e - f[h] <= Gap
    <2> SUFFICES ASSUME e - f[h] >= Gap + 1 PROVE FALSE
      BY <1>1, GapType
    <2>1. (Gap + 1) * Limit <= (e - f[h]) * Limit
      BY <1>1, GapType, RateIsMonotone
    <2> QED
      BY <1>3, <2>1, GapType, ConfigType, LimiterAssumption
  <1>7. ASSUME NEW k \in W
        PROVE  -left >= (f[k] - t) * Limit + Second * Cardinality(Above(W, f, k))
                          - Slack(W, f, k)
    <2> DEFINE n == Cardinality(Above(V, f, k))
               m == Cardinality(Above(W, f, k))
               debt == (f[k] - t) * Limit
    <2>1. n \in Nat /\ m \in Nat
      BY AboveType
    <2>2. debt \in Int
      BY <1>1, ConfigType
    <2>3. -tokens >= debt + Second * n - Slack(V, f, k)
      BY DEF Stacked
    <2>4. Slack(W, f, k) >= Slack(V, f, k)
      BY FewerAbove
    <2>5. CASE f[h] >= f[k]
      <3>1. Above(W, f, k) = Above(V, f, k) \ {h} /\ h \in Above(V, f, k)
        BY <2>5 DEF Above
      <3>2. m = n - 1
        <4>1. IsFiniteSet(Above(V, f, k))
          BY AboveType
        <4>2. Cardinality(Above(V, f, k) \ {h}) = Cardinality(Above(V, f, k)) - 1
          BY <3>1, <4>1, FS_RemoveElement
        <4> QED
          BY <3>1, <4>2
      <3> HIDE DEF n, m, debt, W
      <3>3. Second * m = Second * n - Second /\ Second * n \in Int
        BY <2>1, <3>2, LimiterAssumption
      <3>4. -left >= debt + Second * m - Slack(W, f, k)
        BY <1>4, <2>2, <2>3, <2>4, <3>3, SlackType, LimiterAssumption
      <3> QED
        BY <3>4 DEF debt, m
    <2>6. CASE f[h] < f[k]
      <3>1. f[k] = e /\ f[h] = f[k] - Gap /\ Gap >= 1
        BY <1>1, <1>2, <1>6, <2>6, GapType
      <3>2. r = Second - Gap * Limit
        <4>1. e - f[h] = Gap
          BY <1>1, <3>1, GapType
        <4> QED
          BY <4>1
      <3>3. Above(W, f, k) = Above(V, f, k)
        BY <1>1, <2>6 DEF Above
      <3>4. Slack(V, f, k) = 0
        BY <3>1 DEF Slack
      <3>5. Slack(W, f, k) = r
        <4>1. \A i \in W : f[i] # f[k] - Gap
          BY <1>1, <1>2, <3>1, GapType
        <4> QED
          BY <3>1, <3>2, <4>1 DEF Slack
      <3> HIDE DEF n, m, debt, W
      <3>6. n = m
        BY <3>3 DEF n, m
      <3>7. Second * n \in Int
        BY <2>1, LimiterAssumption
      <3>8. -left >= debt + Second * m - Slack(W, f, k)
        BY <2>2, <2>3, <3>4, <3>5, <3>6, <3>7
      <3> QED
        BY <3>8 DEF debt, m
    <2> QED
      BY <1>1, <2>5, <2>6
  <1> QED
    BY <1>2, <1>4, <1>5, <1>7 DEF Stacked

-----------------------------------------------------------------------------
(* The budget *)

\* Windows and buckets are no later than the clock, and a bucket was last used no
\* more than Lag after its stamp.
TimeInv ==
    /\ since <= now /\ bucket.last <= now
    /\ Tracked => bucket.last <= bucket.seen + Lag

\* The reservations whose cancellation may still give something back: with
\* handlers in the order of their clocks, those of the instant the bucket is at.
Live == {h \in Handlers : pc[h] = "cancel" /\ at[h] = bucket.last}

\* What the bucket holds, and what it would hold if all of them were canceled.
Potential == bucket.tokens + Second * Cardinality(Live)

\* A pending cancellation is no later than the bucket.
OrderInv == \A h \in Handlers : pc[h] = "cancel" => at[h] <= bucket.last

StackInv == Stacked(Live, act, bucket.last, bucket.tokens, bucket.lastEvent)

\* What was admitted in the window, with what is left, comes from a full bucket
\* and from what was earned since; a bucket that was swept has been refilled.
WindowInv ==
    \/ admitted = 0
    \/ /\ Tracked
       /\ bucket.last >= since - Lag
       /\ admitted * Second + Potential <= Full + (bucket.last - since + Lag) * Limit
       /\ admitted * Second < Full + (bucket.last - since + Lag + 1) * Limit
    \/ ~Tracked /\ admitted * Second <= (now - since) * Limit

Budgeted == OrderInv /\ StackInv /\ Potential <= Full /\ WindowInv

BudgetInv == Enabled /\ Refills /\ ordered => Budgeted

\* The values the steps below work on.
LEMMA BucketType ==
    ASSUME Inv
    PROVE  /\ now \in Nat /\ since \in Nat /\ admitted \in Nat
           /\ bucket \in Bucket
           /\ bucket.tokens \in Int /\ bucket.last \in Nat /\ bucket.lastEvent \in Int
           /\ bucket.seen \in Int
           /\ at \in [Handlers -> 0..MaxTime] /\ act \in [Handlers -> Int]
           /\ \A h \in Handlers : at[h] \in Nat
  BY LimiterAssumption DEF Inv, TypeOK, Bucket

\* There are finitely many live reservations.
LEMMA LiveType ==
    Live \in SUBSET Handlers /\ IsFiniteSet(Live) /\ Cardinality(Live) \in Nat
  <1>1. Live \in SUBSET Handlers
    BY DEF Live
  <1> QED
    BY <1>1, FS_Subset, FS_CardinalityType, LimiterAssumption

\* What a bucket that is not over full has earned by a time no earlier than its own.
LEMMA AdvanceBounds ==
    ASSUME Enabled, NEW b \in Bucket, b.tokens <= Full, NEW t \in 0..MaxTime, t >= b.last
    PROVE  /\ Advance(b, t) \in Int /\ Advance(b, t) <= Full
           /\ Advance(b, t) <= b.tokens + (t - b.last) * Limit
           /\ t = b.last => Advance(b, t) = b.tokens
  <1>1. b.tokens \in Int /\ b.last \in Int /\ t \in Int
    BY LimiterAssumption DEF Bucket
  <1>2. Advance(b, t) \in Int /\ Advance(b, t) <= Full
    BY AdvanceType
  <1>3. CASE t = b.last
    <2>1. Advance(b, t) = b.tokens /\ (t - b.last) * Limit = 0
      BY <1>1, <1>3, ConfigType DEF Advance, AtMost
    <2> QED
      BY <1>1, <1>2, <2>1
  <1>4. CASE t > b.last
    <2> DEFINE earned == (t - b.last) * Limit
    <2>1. earned \in Int
      BY <1>1, ConfigType
    <2>2. Advance(b, t) = AtMost(Full, b.tokens + earned)
      BY <1>4 DEF Advance
    <2> HIDE DEF earned
    <2>3. Advance(b, t) <= b.tokens + earned
      BY <1>1, <2>1, <2>2, ConfigType DEF AtMost
    <2> QED
      BY <1>1, <1>2, <1>4, <2>3 DEF earned
  <1> QED
    BY <1>1, <1>3, <1>4

\* Without a live reservation there is nothing to pay for.
LEMMA NoneLive ==
    ASSUME NEW f, NEW t, NEW tokens, NEW e
    PROVE  Stacked({}, f, t, tokens, e) /\ Second * Cardinality({}) = 0
  <1>1. Cardinality({}) = 0
    BY FS_EmptySet
  <1>2. Second * Cardinality({}) = 0
    BY <1>1, LimiterAssumption
  <1> QED
    BY <1>2 DEF Stacked

\* What Reserve does to the bucket of handlers in order.
LEMMA ReserveEffect ==
    ASSUME Inv, TimeInv, OrderInv, Enabled, NEW h \in Handlers, Reserve(h), ordered'
    PROVE  LET t == at[h]
               tokens == Advance(bucket, t) - Second
           IN  /\ tokens \in Int /\ t >= bucket.last /\ t >= since - Lag
               /\ bucket'.tokens = tokens /\ bucket'.last = t
               /\ bucket'.lastEvent = t + Wait(tokens)
               /\ act' \in [Handlers -> Int] /\ act'[h] = t + Wait(tokens)
               /\ \A k \in Handlers \ {h} : act'[k] = act[k]
               /\ Tracked' /\ OrderInv'
               /\ Live' = (IF t = bucket.last THEN Live ELSE {})
                            \cup (IF Wait(tokens) = 0 THEN {} ELSE {h})
               /\ h \notin Live
  <1> DEFINE t == at[h]
             tokens == Advance(bucket, t) - Second
  <1>1. /\ t \in 0..MaxTime /\ bucket \in Bucket /\ bucket.tokens <= Full
        /\ t \in Nat /\ bucket.last \in Nat /\ now \in Nat /\ since \in Nat
    BY BucketType DEF Inv, TypeOK
  <1>2. tokens \in Int
    BY <1>1, AdvanceType, LimiterAssumption
  <1>3. t >= bucket.last
    BY DEF Reserve
  <1>4. t >= since - Lag
    <2>1. now - t <= Lag
      BY DEF Reserve, Inv, ClockInv
    <2> QED
      BY <1>1, <2>1, LimiterAssumption DEF TimeInv
  <1>5. bucket' = [bucket EXCEPT !.tokens = tokens, !.last = t, !.lastEvent = t + Wait(tokens)]
    BY DEF Reserve, Reserved
  <1>6. /\ bucket'.tokens = tokens /\ bucket'.last = t
        /\ bucket'.lastEvent = t + Wait(tokens) /\ bucket'.seen = bucket.seen
    BY <1>1, <1>5 DEF Bucket
  <1>7. Tracked'
    <2>1. bucket.seen >= 0 /\ bucket.seen \in Int
      BY BucketType DEF Inv, UseInv, Reserve
    <2> QED
      BY <1>6, <2>1 DEF Tracked, NoBucket
  <1>8. /\ act' = [act EXCEPT ![h] = t + Wait(tokens)]
        /\ pc' = [pc EXCEPT ![h] = IF Wait(tokens) = 0 THEN "idle" ELSE "cancel"]
        /\ pc[h] = "reserve" /\ at' = at
    BY <1>5, <1>6 DEF Reserve
  <1> HIDE DEF tokens
  <1>9. act' \in [Handlers -> Int] /\ act'[h] = t + Wait(tokens)
        /\ \A k \in Handlers \ {h} : act'[k] = act[k]
    BY <1>1, <1>2, <1>8, BucketType, WaitBounds
  <1>10. pc \in [Handlers -> {"idle", "lookup", "reserve", "cancel"}]
    BY DEF Inv, TypeOK
  <1>11. OrderInv'
    <2> SUFFICES ASSUME NEW k \in Handlers, pc'[k] = "cancel" PROVE at[k] <= t
      BY <1>6, <1>8 DEF OrderInv
    <2>1. CASE k = h
      BY <1>1, <2>1
    <2>2. CASE k # h
      <3>1. at[k] <= bucket.last /\ at[k] \in Nat
        BY <1>8, <1>10, <2>2, BucketType DEF OrderInv
      <3> QED
        BY <1>1, <1>3, <3>1
    <2> QED
      BY <2>1, <2>2
  <1>12. Live' = (IF t = bucket.last THEN Live ELSE {}) \cup (IF Wait(tokens) = 0 THEN {} ELSE {h})
    <2>1. \A k \in Handlers \ {h} : k \in Live' <=> pc[k] = "cancel" /\ at[k] = t
      BY <1>6, <1>8, <1>10 DEF Live
    <2>2. \A k \in Handlers : pc[k] = "cancel" /\ at[k] = t => t = bucket.last
      BY <1>1, <1>3 DEF OrderInv
    <2>3. h \in Live' <=> Wait(tokens) # 0
      BY <1>6, <1>8, <1>10 DEF Live
    <2>4. h \notin Live
      BY <1>8 DEF Live
    <2>5. Live' \in SUBSET Handlers /\ Live \in SUBSET Handlers
      BY DEF Live
    <2>6. \A k \in Handlers \ {h} : k \in Live <=> pc[k] = "cancel" /\ at[k] = bucket.last
      BY DEF Live
    <2> QED
      BY <2>1, <2>2, <2>3, <2>4, <2>5, <2>6
  <1>13. h \notin Live
    BY <1>8 DEF Live
  <1> QED
    BY <1>2, <1>3, <1>4, <1>6, <1>7, <1>9, <1>11, <1>12, <1>13 DEF tokens

\* A request that is admitted finds no live reservation: each has to wait, and
\* the next would wait longer.
LEMMA AdmittedAlone ==
    ASSUME Inv, TimeInv, OrderInv, StackInv, Enabled, NEW h \in Handlers, Reserve(h), ordered',
           Wait(Advance(bucket, at[h]) - Second) = 0
    PROVE  Live' = {}
  <1>1. /\ bucket \in Bucket /\ bucket.tokens <= Full /\ bucket.tokens \in Int
        /\ bucket.last \in Int /\ bucket.lastEvent \in Int /\ act \in [Handlers -> Int]
        /\ at[h] \in 0..MaxTime
    BY BucketType DEF Inv, TypeOK
  <1>2. CASE at[h] = bucket.last
    <2>1. Advance(bucket, at[h]) = bucket.tokens
      BY <1>1, <1>2, AdvanceBounds
    <2> SUFFICES ASSUME NEW k \in Live PROVE FALSE
      BY <1>2, ReserveEffect
    <2>2. bucket.last + Wait(bucket.tokens - Second) >= act[k] + Gap /\ act[k] > bucket.last
      BY <1>1, NextIsBehind, LiveType DEF StackInv, Stacked
    <2>3. act[k] \in Int
      BY <1>1, LiveType
    <2> QED
      BY <1>1, <2>1, <2>2, <2>3, GapType
  <1>3. CASE at[h] # bucket.last
    BY <1>3, ReserveEffect
  <1> QED
    BY <1>2, <1>3

\* Reserving leaves the other reservations of the instant stacked, and does not
\* raise the potential but by what was earned.
LEMMA ReserveStack ==
    ASSUME Inv, TimeInv, OrderInv, StackInv, Potential <= Full, Enabled,
           NEW h \in Handlers, Reserve(h), ordered'
    PROVE  LET ready == Wait(Advance(bucket, at[h]) - Second) = 0
           IN  /\ StackInv'
               /\ Potential' \in Int
               /\ Potential' + (IF ready THEN Second ELSE 0) <= Full
               /\ Potential' + (IF ready THEN Second ELSE 0)
                    <= Potential + (at[h] - bucket.last) * Limit
               /\ ready => Potential' > -Limit
  <1> DEFINE t == at[h]
             tokens == Advance(bucket, t) - Second
             earned == (t - bucket.last) * Limit
             count == Second * Cardinality(Live)
  <1>1. /\ bucket \in Bucket /\ bucket.tokens <= Full /\ bucket.tokens \in Int
        /\ bucket.last \in Int /\ bucket.lastEvent \in Int /\ act \in [Handlers -> Int]
        /\ t \in 0..MaxTime /\ t \in Int
    BY BucketType DEF Inv, TypeOK
  <1>2. /\ tokens \in Int /\ t >= bucket.last
        /\ bucket'.tokens = tokens /\ bucket'.last = t
        /\ bucket'.lastEvent = t + Wait(tokens)
        /\ act' \in [Handlers -> Int] /\ act'[h] = t + Wait(tokens)
        /\ \A k \in Handlers \ {h} : act'[k] = act[k]
        /\ h \notin Live
    BY ReserveEffect
  <1>3. /\ tokens + Second <= Full /\ tokens + Second <= bucket.tokens + earned
        /\ t = bucket.last => tokens = bucket.tokens - Second
        /\ earned \in Int
    BY <1>1, <1>2, AdvanceBounds, ConfigType, LimiterAssumption
  <1>4. count \in Int /\ count >= 0 /\ Potential = bucket.tokens + count
    BY LiveType, LimiterAssumption DEF Potential
  <1>5. Live' = (IF t = bucket.last THEN Live ELSE {}) \cup (IF Wait(tokens) = 0 THEN {} ELSE {h})
    BY ReserveEffect
  <1>6. CASE Wait(tokens) = 0
    <2>1. Live' = {}
      BY <1>6, AdmittedAlone
    <2>2. StackInv' /\ Potential' = tokens
      <3>1. Stacked({}, act', bucket'.last, bucket'.tokens, bucket'.lastEvent)
            /\ Second * Cardinality({}) = 0
        BY NoneLive
      <3>2. Second * Cardinality(Live') = 0
        BY <2>1, <3>1
      <3> QED
        BY <1>2, <2>1, <3>1, <3>2 DEF StackInv, Potential
    <2>3. tokens > -Limit
      BY <1>2, <1>6, WaitBounds, ConfigType
    <2> HIDE DEF tokens, earned, count
    <2>4. /\ Potential' \in Int /\ Potential' + Second <= Full
          /\ Potential' + Second <= Potential + earned /\ Potential' > -Limit
      BY <1>1, <1>2, <1>3, <1>4, <2>2, <2>3, ConfigType, LimiterAssumption
    <2> QED
      BY <1>6, <2>2, <2>4 DEF tokens, earned
  <1>7. CASE Wait(tokens) # 0 /\ t = bucket.last
    <2>1. Live' = Live \cup {h}
      BY <1>5, <1>7
    <2>2. StackInv'
      <3>1. Wait(tokens) = Wait(bucket.tokens - Second)
        BY <1>3, <1>7
      <3>2. Stacked(Live \cup {h}, act', t, bucket.tokens - Second,
                    t + Wait(bucket.tokens - Second))
        BY <1>1, <1>2, <1>7, <3>1, LiveType, StackedOnTop DEF StackInv
      <3> QED
        BY <1>2, <1>3, <1>7, <2>1, <3>2 DEF StackInv
    <2>3. Potential' = tokens + Second * (Cardinality(Live) + 1)
      BY <1>2, <2>1, LiveType, FS_AddElement DEF Potential
    <2>4. Second * (Cardinality(Live) + 1) = count + Second
      BY LiveType, LimiterAssumption
    <2>5. earned = 0
      BY <1>1, <1>7, ConfigType
    <2> HIDE DEF tokens, earned, count
    <2>6. Potential' \in Int /\ Potential' <= Full /\ Potential' <= Potential + earned
      BY <1>1, <1>2, <1>3, <1>4, <1>7, <2>3, <2>4, <2>5, LimiterAssumption
    <2> QED
      BY <1>7, <2>2, <2>6 DEF tokens, earned
  <1>8. CASE Wait(tokens) # 0 /\ t # bucket.last
    <2>1. Live' = {h}
      BY <1>5, <1>8
    <2>2. StackInv'
      <3>1. Stacked({h}, act', t, tokens, t + Wait(tokens))
        BY <1>1, <1>2, <1>8, StackedAlone
      <3> QED
        BY <1>2, <2>1, <3>1 DEF StackInv
    <2>3. Potential' = tokens + Second
      <3>1. Cardinality(Live') = 1
        BY <2>1, FS_Singleton
      <3>2. Second * Cardinality(Live') = Second
        BY <3>1, LimiterAssumption
      <3> QED
        BY <1>2, <3>2 DEF Potential
    <2> HIDE DEF tokens, earned, count
    <2>4. Potential' \in Int /\ Potential' <= Full /\ Potential' <= Potential + earned
      BY <1>1, <1>2, <1>3, <1>4, <2>3, LimiterAssumption
    <2> QED
      BY <1>8, <2>2, <2>4 DEF tokens, earned
  <1> QED
    BY <1>6, <1>7, <1>8

\* What is admitted is paid for from the potential, up to what is lent.
LEMMA ReserveBudget ==
    ASSUME Inv, TimeInv, Budgeted, Enabled, NEW h \in Handlers, Reserve(h), ordered'
    PROVE  Budgeted'
  <1> DEFINE t == at[h]
             ready == Wait(Advance(bucket, t) - Second) = 0
             taken == IF ready THEN Second ELSE 0
             earned == (t - bucket.last) * Limit
             before == (bucket.last - since + Lag) * Limit
             after == (t - since + Lag) * Limit
             more == (t - since + Lag + 1) * Limit
             A == admitted * Second
             B == admitted' * Second
  <1>1. /\ t \in Int /\ bucket.last \in Int /\ since \in Int /\ admitted \in Nat
        /\ t >= bucket.last /\ t >= since - Lag /\ Potential \in Int
    BY BucketType, LiveType, ReserveEffect, LimiterAssumption DEF Potential, Budgeted
  <1>2. /\ bucket'.last = t /\ Tracked' /\ OrderInv' /\ since' = since
    BY ReserveEffect DEF Reserve, Budgeted
  <1>3. /\ StackInv' /\ Potential' \in Int
        /\ Potential' + taken <= Full
        /\ Potential' + taken <= Potential + earned
        /\ ready => Potential' > -Limit
    BY ReserveStack DEF Budgeted
  <1>4. PICK p \in Int, q \in Int : p = Potential /\ q = Potential'
    BY <1>1, <1>3
  <1>5. /\ p \in Int /\ q \in Int
        /\ q + taken <= Full /\ q + taken <= p + earned
        /\ ready => q > -Limit
    BY <1>3, <1>4
  <1>6. admitted' = admitted + (IF ready THEN 1 ELSE 0)
    BY BucketType DEF Reserve, Reserved, Bucket
  <1>7. taken \in Nat /\ A \in Nat /\ B = A + taken
    BY <1>1, <1>6, LimiterAssumption
  <1>8. /\ earned \in Int /\ before \in Int /\ after \in Int /\ more \in Int
        /\ after = before + earned /\ more = after + Limit
    BY <1>1, ConfigType, LimiterAssumption
  <1>9. after >= 0
    <2>1. 0 * Limit <= after
      BY <1>1, RateIsMonotone, LimiterAssumption
    <2> QED
      BY <2>1, ConfigType
  <1>10. Limit > 0 /\ Limit \in Int /\ Full \in Int /\ Second \in Nat
    BY ConfigType, LimiterAssumption DEF Enabled
  <1>11. q <= Full
    <2> HIDE DEF taken
    <2> QED
      BY <1>5, <1>7, <1>10
  <1>12. ASSUME admitted' # 0
         PROVE  B + q <= Full + after /\ B < Full + more
    <2>1. CASE admitted = 0
      <3>1. ready /\ A = 0 /\ taken = Second
        BY <1>6, <1>12, <2>1, LimiterAssumption
      <3> HIDE DEF ready, taken, earned, before, after, more, A, B
      <3> QED
        BY <1>5, <1>7, <1>8, <1>9, <1>10, <3>1
    <2>2. CASE admitted # 0
      <3>1. A + p <= Full + before /\ A < Full + (bucket.last - since + Lag + 1) * Limit
        <4>1. Tracked
          BY DEF Inv, UseInv, Reserve, Tracked, NoBucket
        <4> QED
          BY <1>4, <2>2, <4>1 DEF Budgeted, WindowInv
      <3>2. (bucket.last - since + Lag + 1) * Limit <= more
        BY <1>1, RateIsMonotone, LimiterAssumption
      <3>3. (bucket.last - since + Lag + 1) * Limit \in Int
        BY <1>1, ConfigType, LimiterAssumption
      <3>4. taken = 0 \/ ready
        OBVIOUS
      <3> HIDE DEF ready, taken, earned, before, after, more, A, B
      <3>5. B + q <= Full + after
        BY <1>5, <1>7, <1>8, <1>10, <3>1
      <3>6. B < Full + more
        <4>1. CASE taken = 0
          BY <1>7, <1>8, <1>10, <3>1, <3>2, <3>3, <4>1
        <4>2. CASE ready
          BY <1>5, <1>7, <1>8, <1>10, <3>5, <4>2
        <4> QED
          BY <3>4, <4>1, <4>2
      <3> QED
        BY <3>5, <3>6
    <2> QED
      BY <2>1, <2>2
  <1>13. WindowInv'
    <2> HIDE DEF ready, taken
    <2> QED
      BY <1>1, <1>2, <1>4, <1>12 DEF WindowInv
  <1> QED
    BY <1>2, <1>3, <1>4, <1>11, <1>13 DEF Budgeted

\* Canceling leaves the others stacked, and raises the potential not at all: what
\* it gives back is no more than the token that was reserved.
LEMMA CancelBudget ==
    ASSUME Inv, TimeInv, Budgeted, Enabled, NEW h \in Handlers, Cancel(h), ordered'
    PROVE  Budgeted'
  <1> DEFINE t == at[h]
             r == Restore(bucket, act[h])
             e == bucket.lastEvent
  <1>1. /\ bucket \in Bucket /\ bucket.tokens <= Full /\ bucket.tokens \in Int
        /\ bucket.last \in Int /\ e \in Int /\ act \in [Handlers -> Int] /\ act[h] \in Int
        /\ t \in 0..MaxTime /\ t \in Int /\ since \in Int /\ admitted \in Nat
    BY BucketType DEF Inv, TypeOK
  <1>2. pc[h] = "cancel" /\ pc' = [pc EXCEPT ![h] = "idle"] /\ UNCHANGED <<now, at, act, since, admitted>>
    BY DEF Cancel
  <1>3. pc \in [Handlers -> {"idle", "lookup", "reserve", "cancel"}]
    BY DEF Inv, TypeOK
  <1>4. r \in Int /\ r = Second - (e - act[h]) * Limit
    BY <1>1, ConfigType, LimiterAssumption DEF Restore
  <1>5. /\ bucket'.last = bucket.last /\ (Tracked' <=> Tracked) /\ bucket'.tokens \in Int
        /\ Live' = Live \ {h}
        /\ StackInv'
        /\ bucket'.tokens + Second * Cardinality(Live \ {h}) <= Potential
    <2> DEFINE count == Cardinality(Live)
    <2>1. /\ IsFiniteSet(Live) /\ count \in Nat
          /\ Cardinality(Live \ {h}) = IF h \in Live THEN count - 1 ELSE count
      BY LiveType, FS_RemoveElement
    <2>2. Live \in SUBSET Handlers
      BY LiveType
    <2>3. CASE r <= 0
      <3>1. bucket' = bucket
        BY <2>3 DEF Cancel, Canceled
      <3>2. Live' = Live \ {h}
        BY <1>2, <1>3, <3>1 DEF Live
      <3>3. StackInv'
        <4>1. Stacked(Live \ {h}, act, bucket.last, bucket.tokens, e)
          BY <1>1, <2>2, StackedWithout DEF Budgeted, StackInv
        <4> QED
          BY <1>2, <3>1, <3>2, <4>1 DEF StackInv
      <3>4. Second * Cardinality(Live \ {h}) <= Second * count
        <4>1. ASSUME NEW s \in Nat PROVE s * (count - 1) <= s * count
          BY <2>1
        <4> QED
          BY <2>1, <4>1, LimiterAssumption
      <3>5. Second * Cardinality(Live \ {h}) \in Int /\ Second * count \in Int
        BY <2>1, LimiterAssumption
      <3>6. bucket.tokens + Second * Cardinality(Live \ {h}) <= Potential
        BY <1>1, <3>4, <3>5 DEF Potential
      <3> QED
        BY <1>1, <3>1, <3>2, <3>3, <3>6 DEF Tracked
    <2>4. CASE r > 0
      <3> DEFINE left == AtMost(Full, Advance(bucket, t) + r)
                 d == IF act[h] = e /\ act[h] - Gap >= t THEN act[h] - Gap ELSE e
      <3>1. bucket' = [bucket EXCEPT !.tokens = left, !.last = t, !.lastEvent = d]
        BY <1>1, <1>4, <2>4 DEF Cancel, Canceled, Gap, Bucket
      <3>2. /\ bucket'.tokens = left /\ bucket'.last = t /\ bucket'.lastEvent = d
            /\ bucket'.seen = bucket.seen
        BY <1>1, <3>1 DEF Bucket
      <3>3. t = bucket.last
        <4>1. t <= bucket.last
          BY <1>2 DEF Budgeted, OrderInv
        <4>2. bucket'.last >= bucket.last
          BY DEF Cancel
        <4> QED
          BY <1>1, <3>2, <4>1, <4>2
      <3>4. h \in Live
        BY <1>2, <3>3 DEF Live
      <3>5. left \in Int /\ left <= bucket.tokens + r
        BY <1>1, <1>4, <3>3, AdvanceBounds, ConfigType DEF AtMost
      <3>6. d \in Int /\ (d = e \/ (act[h] = e /\ d = e - Gap))
        BY <1>1, GapType
      <3> HIDE DEF left, d, r
      <3>7. r <= Second /\ Stacked(Live \ {h}, act, bucket.last, left, d)
        <4>1. Stacked(Live, act, bucket.last, bucket.tokens, e)
          BY DEF Budgeted, StackInv
        <4> HIDE DEF e
        <4> QED
          BY <1>1, <1>4, <2>2, <2>4, <3>4, <3>5, <3>6, <4>1, StackedCanceled
      <3>8. Live' = Live \ {h}
        BY <1>2, <1>3, <3>2, <3>3 DEF Live
      <3>9. StackInv'
        BY <1>2, <3>2, <3>3, <3>7, <3>8 DEF StackInv
      <3>10. Tracked' <=> Tracked
        <4>1. bucket.seen >= 0 /\ bucket.seen \in Int
          BY <1>2, BucketType DEF Inv, UseInv
        <4> QED
          BY <3>2, <4>1 DEF Tracked, NoBucket
      <3>11. left + Second * Cardinality(Live \ {h}) <= Potential
        <4>1. Second * Cardinality(Live \ {h}) = Second * count - Second /\ Second * count \in Int
          BY <2>1, <3>4, LimiterAssumption
        <4>2. Potential = bucket.tokens + Second * count
          BY DEF Potential
        <4> HIDE DEF count
        <4> QED
          BY <1>1, <1>4, <3>5, <3>7, <4>1, <4>2, LimiterAssumption
      <3> QED
        BY <3>2, <3>3, <3>5, <3>8, <3>9, <3>10, <3>11
    <2> QED
      BY <1>4, <2>3, <2>4
  <1>6. Potential' \in Int /\ Potential' <= Potential /\ Potential \in Int
    <2>1. Cardinality(Live \ {h}) \in Nat /\ Cardinality(Live) \in Nat
      BY LiveType, FS_RemoveElement, FS_CardinalityType
    <2>2. Second * Cardinality(Live \ {h}) \in Int /\ Second * Cardinality(Live) \in Int
      BY <2>1, LimiterAssumption
    <2>3. Potential' = bucket'.tokens + Second * Cardinality(Live \ {h})
      BY <1>5 DEF Potential
    <2>4. Potential \in Int
      BY <1>1, <2>2 DEF Potential
    <2> QED
      BY <1>5, <2>2, <2>3, <2>4
  <1>7. PICK p \in Int, q \in Int : p = Potential /\ q = Potential'
    BY <1>6
  <1>8. p \in Int /\ q \in Int /\ q <= p
    BY <1>6, <1>7
  <1>9. OrderInv'
    BY <1>2, <1>3, <1>5 DEF Budgeted, OrderInv
  <1>10. Potential' <= Full
    <2>1. p <= Full
      BY <1>7 DEF Budgeted
    <2>2. q <= Full
      BY <1>8, <2>1, ConfigType
    <2> QED
      BY <1>7, <2>2
  <1>11. WindowInv'
    <2> DEFINE A == admitted * Second
               B == (bucket.last - since + Lag) * Limit
    <2>1. A \in Int /\ B \in Int /\ Full \in Int
      BY <1>1, ConfigType, LimiterAssumption
    <2>2. ASSUME A + p <= Full + B PROVE A + q <= Full + B
      <3> HIDE DEF A, B
      <3> QED
        BY <1>8, <2>1, <2>2
    <2>3. CASE admitted = 0
      BY <1>2, <2>3 DEF WindowInv
    <2>4. CASE admitted # 0 /\ Tracked
      <3>1. /\ bucket.last >= since - Lag /\ A + p <= Full + B
            /\ A < Full + (bucket.last - since + Lag + 1) * Limit
        BY <1>7, <2>4 DEF Budgeted, WindowInv
      <3> QED
        BY <1>2, <1>5, <1>7, <2>2, <2>4, <3>1 DEF WindowInv
    <2>5. CASE ~Tracked
      BY <1>2, <1>5, <2>5 DEF Budgeted, WindowInv
    <2> QED
      BY <2>3, <2>4, <2>5
  <1> QED
    BY <1>5, <1>9, <1>10, <1>11 DEF Budgeted

\* A bucket that is found is stamped; a new one is full, and full of what has been
\* earned since the last was used.
LEMMA LookupBudget ==
    ASSUME Inv, TimeInv, Budgeted, Enabled, NEW h \in Handlers, Lookup(h)
    PROVE  Budgeted'
  <1>1. /\ bucket \in Bucket /\ bucket.tokens \in Int /\ bucket.last \in Int
        /\ at[h] \in Nat /\ now \in Nat /\ since \in Nat /\ admitted \in Nat
    BY BucketType
  <1>2. pc \in [Handlers -> {"idle", "lookup", "reserve", "cancel"}]
    BY DEF Inv, TypeOK
  <1>3. /\ pc[h] = "lookup" /\ pc' = [pc EXCEPT ![h] = "reserve"]
        /\ UNCHANGED <<now, at, act, since, admitted>>
    BY DEF Lookup, history
  <1>4. CASE Tracked
    <2>1. bucket' = [bucket EXCEPT !.seen = at[h]]
      BY <1>4 DEF Lookup
    <2>2. /\ bucket'.tokens = bucket.tokens /\ bucket'.last = bucket.last
          /\ bucket'.lastEvent = bucket.lastEvent /\ bucket'.seen >= 0
      BY <1>1, <2>1 DEF Bucket
    <2>3. Live' = Live /\ Tracked'
      BY <1>2, <1>3, <2>2 DEF Live, Tracked, NoBucket
    <2>4. OrderInv'
      BY <1>2, <1>3, <2>2 DEF Budgeted, OrderInv
    <2> QED
      BY <1>3, <1>4, <2>2, <2>3, <2>4 DEF Budgeted, StackInv, Potential, WindowInv
  <1>5. CASE ~Tracked
    <2>1. bucket' = [tokens |-> Full, last |-> at[h], lastEvent |-> at[h], seen |-> at[h]]
      BY <1>5 DEF Lookup
    <2>2. /\ bucket'.tokens = Full /\ bucket'.last = at[h] /\ bucket'.seen >= 0
      BY <1>1, <2>1
    <2>3. \A k \in Handlers : pc[k] # "cancel"
      BY <1>5 DEF Inv, UseInv, Tracked, NoBucket
    <2>4. \A k \in Handlers : pc'[k] # "cancel"
      BY <1>2, <1>3, <2>3
    <2>5. Live' = {} /\ OrderInv' /\ Tracked'
      BY <2>2, <2>4 DEF Live, OrderInv, Tracked, NoBucket
    <2>6. StackInv' /\ Potential' = Full
      <3>1. Stacked({}, act', bucket'.last, bucket'.tokens, bucket'.lastEvent)
            /\ Second * Cardinality({}) = 0
        BY NoneLive
      <3>2. Second * Cardinality(Live') = 0
        BY <2>5, <3>1
      <3> QED
        BY <2>2, <2>5, <3>1, <3>2, ConfigType DEF StackInv, Potential
    <2>7. WindowInv'
      <3> SUFFICES ASSUME admitted # 0 PROVE WindowInv'
        BY <1>3 DEF WindowInv
      <3> DEFINE A == admitted * Second
                 B == (at[h] - since + Lag) * Limit
                 C == (at[h] - since + Lag + 1) * Limit
      <3>1. A <= (now - since) * Limit
        BY <1>5 DEF Budgeted, WindowInv
      <3>2. now <= at[h] + Lag /\ since <= now
        BY <1>1, <1>3, LimiterAssumption DEF Inv, ClockInv, TimeInv
      <3>3. (now - since) * Limit <= B
        BY <1>1, <3>2, RateIsMonotone, LimiterAssumption
      <3>4. A \in Int /\ B \in Int /\ C \in Int /\ C = B + Limit /\ (now - since) * Limit \in Int
        BY <1>1, ConfigType, LimiterAssumption
      <3>5. A + Full <= Full + B /\ A < Full + C
        <4> HIDE DEF A, B, C
        <4> QED
          BY <3>1, <3>3, <3>4, ConfigType DEF Enabled
      <3>6. at[h] >= since - Lag
        BY <1>1, <3>2, LimiterAssumption
      <3> QED
        BY <1>3, <2>2, <2>5, <2>6, <3>5, <3>6 DEF WindowInv
    <2> QED
      BY <2>5, <2>6, <2>7, ConfigType DEF Budgeted
  <1> QED
    BY <1>4, <1>5

\* A bucket is swept after it could have been refilled.
LEMMA SweepBudget ==
    ASSUME Inv, TimeInv, Budgeted, Enabled, Refills, Sweep
    PROVE  Budgeted'
  <1>1. /\ bucket.last \in Int /\ bucket.seen \in Int
        /\ now \in Nat /\ since \in Nat /\ admitted \in Nat
    BY BucketType
  <1>2. /\ bucket' = NoBucket /\ UNCHANGED <<now, pc, at, act, since, admitted>>
        /\ Tracked /\ bucket.seen < now - TTL
    BY DEF Sweep, history
  <1>3. \A k \in Handlers : pc'[k] # "cancel"
    BY <1>2, SweepInv DEF Inv, UseInv, NoBucket
  <1>4. Live' = {} /\ OrderInv' /\ ~Tracked' /\ bucket'.tokens = 0
    BY <1>2, <1>3 DEF Live, OrderInv, Tracked, NoBucket
  <1>5. StackInv' /\ Potential' = 0
    <2>1. Stacked({}, act', bucket'.last, bucket'.tokens, bucket'.lastEvent)
          /\ Second * Cardinality({}) = 0
      BY NoneLive
    <2>2. Second * Cardinality(Live') = 0
      BY <1>4, <2>1
    <2> QED
      BY <1>4, <2>1, <2>2 DEF StackInv, Potential
  <1>6. WindowInv'
    <2> SUFFICES ASSUME admitted # 0 PROVE admitted * Second <= (now - since) * Limit
      BY <1>2, <1>4 DEF WindowInv
    <2> DEFINE A == admitted * Second
               B == (bucket.last - since + Lag + 1) * Limit
               C == (now - since - (TTL - 2 * Lag)) * Limit
               D == (TTL - 2 * Lag) * Limit
               E == (now - since) * Limit
    <2>1. A < Full + B
      BY <1>2 DEF Budgeted, WindowInv
    <2>2. bucket.last + Lag + 1 <= now - (TTL - 2 * Lag)
      BY <1>1, <1>2, LimiterAssumption DEF TimeInv
    <2>3. B <= C
      BY <1>1, <2>2, RateIsMonotone, LimiterAssumption
    <2>4. /\ A \in Int /\ B \in Int /\ C \in Int /\ D \in Int /\ E \in Int
          /\ E = C + D
      BY <1>1, ConfigType, LimiterAssumption
    <2>5. Full <= D
      BY DEF Refills
    <2> HIDE DEF A, B, C, D, E
    <2>6. A <= E
      BY <2>1, <2>3, <2>4, <2>5, ConfigType
    <2> QED
      BY <2>6 DEF A, E
  <1> QED
    BY <1>4, <1>5, <1>6, ConfigType DEF Budgeted

\* The other steps leave the bucket and its reservations alone.
LEMMA OtherBudget ==
    ASSUME Inv, TimeInv, Budgeted, Enabled,
           (\E h \in Handlers : ReadClock(h)) \/ Tick \/ OpenWindow
    PROVE  Budgeted'
  <1>1. /\ now \in Nat /\ since \in Nat /\ admitted \in Nat
    BY BucketType
  <1>2. pc \in [Handlers -> {"idle", "lookup", "reserve", "cancel"}]
    BY DEF Inv, TypeOK
  <1>3. bucket' = bucket /\ act' = act
    BY DEF ReadClock, Tick, OpenWindow
  <1>4. /\ \A k \in Handlers : pc'[k] = "cancel" <=> pc[k] = "cancel"
        /\ \A k \in Handlers : pc[k] = "cancel" => at'[k] = at[k]
    <2>1. CASE \E h \in Handlers : ReadClock(h)
      BY <1>2, <2>1, BucketType DEF ReadClock
    <2>2. CASE Tick \/ OpenWindow
      BY <2>2 DEF Tick, OpenWindow
    <2> QED
      BY <2>1, <2>2
  <1>5. Live' = Live
    BY <1>3, <1>4 DEF Live
  <1>6. OrderInv'
    BY <1>3, <1>4 DEF Budgeted, OrderInv
  <1>7. StackInv' /\ Potential' = Potential /\ (Tracked' <=> Tracked)
    BY <1>3, <1>5 DEF Budgeted, StackInv, Potential, Tracked
  <1>8. WindowInv'
    <2>1. CASE OpenWindow
      BY <2>1 DEF OpenWindow, WindowInv
    <2>2. CASE \E h \in Handlers : ReadClock(h)
      <3>1. now' = now /\ since' = since /\ admitted' = admitted
        BY <2>2 DEF ReadClock, history
      <3> QED
        BY <1>3, <1>7, <3>1 DEF Budgeted, WindowInv
    <2>3. CASE Tick
      <3>1. now' = now + 1 /\ since' = since /\ admitted' = admitted
        BY <2>3 DEF Tick, history
      <3>2. (now - since) * Limit <= (now + 1 - since) * Limit
        BY <1>1, RateIsMonotone
      <3>3. /\ (now - since) * Limit \in Int /\ (now + 1 - since) * Limit \in Int
            /\ admitted * Second \in Int
        BY <1>1, ConfigType, LimiterAssumption
      <3>4. ASSUME admitted * Second <= (now - since) * Limit
            PROVE  admitted * Second <= (now + 1 - since) * Limit
        <4> DEFINE A == admitted * Second
                   B == (now - since) * Limit
                   C == (now + 1 - since) * Limit
        <4> HIDE DEF A, B, C
        <4>1. A <= B /\ B <= C /\ A \in Int /\ B \in Int /\ C \in Int
          BY <3>2, <3>3, <3>4 DEF A, B, C
        <4>2. A <= C
          BY <4>1
        <4> QED
          BY <4>2 DEF A, C
      <3>5. CASE Tracked \/ admitted = 0
        BY <1>3, <1>7, <3>1, <3>5 DEF Budgeted, WindowInv
      <3>6. CASE ~Tracked /\ admitted # 0
        <4>1. admitted * Second <= (now - since) * Limit
          BY <3>6 DEF Budgeted, WindowInv
        <4>2. admitted' * Second <= (now' - since') * Limit
          <5>1. admitted * Second <= (now + 1 - since) * Limit
            BY <3>4, <4>1
          <5>2. now' - since' = now + 1 - since
            BY <1>1, <3>1
          <5> QED
            BY <3>1, <5>1, <5>2, Zenon
        <4> QED
          BY <1>7, <3>6, <4>2 DEF WindowInv
      <3> QED
        BY <3>5, <3>6
    <2> QED
      BY <2>1, <2>2, <2>3
  <1> QED
    BY <1>6, <1>7, <1>8 DEF Budgeted

\* Windows and buckets keep to the clock.
LEMMA StepTime ==
    ASSUME Inv, Inv', TimeInv, [Next]_vars
    PROVE  TimeInv'
  <1>1. /\ now \in Nat /\ since \in Nat /\ bucket.last \in Nat /\ bucket.seen \in Int
        /\ bucket \in Bucket /\ \A h \in Handlers : at[h] \in Nat
    BY BucketType
  <1>2. ASSUME NEW h \in Handlers, ReadClock(h)
        PROVE  TimeInv'
    BY <1>2 DEF ReadClock, history, TimeInv, Tracked
  <1>3. ASSUME NEW h \in Handlers, Lookup(h)
        PROVE  TimeInv'
    <2>1. at[h] <= now /\ now <= at[h] + Lag /\ now' = now /\ since' = since
      BY <1>1, <1>3, LimiterAssumption DEF Lookup, history, Inv, ClockInv
    <2>2. bucket'.seen = at[h] /\ (bucket'.last = bucket.last \/ bucket'.last = at[h])
      BY <1>1, <1>3 DEF Lookup, Bucket
    <2> QED
      BY <1>1, <2>1, <2>2, LimiterAssumption DEF TimeInv
  <1>4. ASSUME NEW h \in Handlers, Reserve(h) \/ Cancel(h)
        PROVE  TimeInv'
    <2>1. /\ at[h] <= now /\ bucket.seen >= at[h] - Lag /\ bucket.seen >= 0
          /\ now' = now /\ since' = since
      BY <1>4 DEF Reserve, Cancel, history, Inv, ClockInv, UseInv
    <2>2. bucket'.seen = bucket.seen /\ (bucket'.last = bucket.last \/ bucket'.last = at[h])
      <3>1. CASE Reserve(h)
        BY <1>1, <3>1 DEF Reserve, Reserved, Bucket
      <3>2. CASE Cancel(h)
        BY <1>1, <3>2 DEF Cancel, Canceled, Bucket
      <3> QED
        BY <1>4, <3>1, <3>2
    <2>3. Tracked
      BY <2>1 DEF Tracked, NoBucket
    <2> QED
      BY <1>1, <2>1, <2>2, <2>3, LimiterAssumption DEF TimeInv
  <1>5. ASSUME Sweep
        PROVE  TimeInv'
    BY <1>1, <1>5 DEF Sweep, history, TimeInv, Tracked, NoBucket
  <1>6. ASSUME Tick \/ OpenWindow
        PROVE  TimeInv'
    BY <1>1, <1>6 DEF Tick, OpenWindow, history, TimeInv, Tracked
  <1>7. ASSUME UNCHANGED vars
        PROVE  TimeInv'
    BY <1>7 DEF vars, history, TimeInv, Tracked
  <1> QED
    BY <1>2, <1>3, <1>4, <1>5, <1>6, <1>7 DEF Next, Allow

\* Every step keeps the budget, in a limiter that is enabled and refills its
\* buckets, as long as the handlers are in order.
LEMMA StepBudget ==
    ASSUME Inv, Inv', TimeInv, BudgetInv, [Next]_vars
    PROVE  BudgetInv'
  <1> SUFFICES ASSUME Enabled, Refills, ordered' PROVE Budgeted'
    BY DEF BudgetInv, Enabled, Refills, Limit, Burst, Full
  <1>1. ordered
    BY DEF Next, Allow, ReadClock, Lookup, Reserve, Cancel, Sweep, Tick, OpenWindow, vars, history
  <1>2. Budgeted
    BY <1>1 DEF BudgetInv
  <1>3. CASE UNCHANGED vars
    BY <1>2, <1>3 DEF vars, history, Budgeted, OrderInv, StackInv, Potential, WindowInv, Live,
                      Tracked
  <1>4. CASE Next
    BY <1>2, <1>4, ReserveBudget, CancelBudget, LookupBudget, SweepBudget, OtherBudget
    DEF Next, Allow
  <1> QED
    BY <1>3, <1>4

\* The limiter starts with no bucket and no window spent.
LEMMA InitBudget == Init => TimeInv /\ BudgetInv
  <1> SUFFICES ASSUME Init PROVE TimeInv /\ BudgetInv
    OBVIOUS
  <1>1. TimeInv
    BY LimiterAssumption DEF Init, TimeInv, Tracked, NoBucket
  <1>2. Live = {} /\ bucket.tokens = 0 /\ admitted = 0 /\ OrderInv
    BY DEF Init, Live, OrderInv, NoBucket
  <1>3. StackInv /\ Potential = 0
    <2>1. Stacked({}, act, bucket.last, bucket.tokens, bucket.lastEvent)
          /\ Second * Cardinality({}) = 0
      BY NoneLive
    <2>2. Second * Cardinality(Live) = 0
      BY <1>2, <2>1
    <2> QED
      BY <1>2, <2>1, <2>2 DEF StackInv, Potential
  <1>4. BudgetInv
    BY <1>2, <1>3, ConfigType DEF BudgetInv, Budgeted, WindowInv
  <1> QED
    BY <1>1, <1>4

\* What is left of the potential bounds what was admitted.
LEMMA BudgetFollows ==
    ASSUME Inv, TimeInv, BudgetInv
    PROVE  Budget
  <1> SUFFICES ASSUME Enabled, Refills, ordered
               PROVE  admitted * Second < Full + (now - since + Lag + 1) * Limit
    BY DEF Budget
  <1> DEFINE A == admitted * Second
             B == (bucket.last - since + Lag + 1) * Limit
             C == (now - since) * Limit
             D == (now - since + Lag + 1) * Limit
  <1>1. now \in Nat /\ since \in Nat /\ admitted \in Nat /\ bucket.last \in Nat
    BY BucketType
  <1>2. since <= now /\ bucket.last <= now
    BY DEF TimeInv
  <1>3. B <= D /\ C <= D /\ 0 * Limit <= D
    BY <1>1, <1>2, RateIsMonotone, LimiterAssumption
  <1>4. A \in Int /\ B \in Int /\ C \in Int /\ D \in Int /\ 0 * Limit = 0
    BY <1>1, ConfigType, LimiterAssumption
  <1>5. admitted = 0 \/ A < Full + B \/ A <= C
    BY DEF BudgetInv, Budgeted, WindowInv
  <1>6. A < Full + D
    <2>1. CASE admitted = 0
      <3>1. A = 0
        BY <2>1, LimiterAssumption
      <3> HIDE DEF A, D
      <3> QED
        BY <1>3, <1>4, <3>1, ConfigType
    <2>2. CASE A < Full + B \/ A <= C
      <3> HIDE DEF A, B, C, D
      <3> QED
        BY <1>3, <1>4, <2>2, ConfigType
    <2> QED
      BY <1>5, <2>1, <2>2
  <1> QED
    BY <1>6

\* For any number of concurrent requests of a client, any rate, burst and length
\* of time: no window admits more than the burst and the rate allow (allow of
\* ratelimit.go, with the reservations of x/time/rate), if a bucket refills
\* before it is swept and the handlers reach it in the order of their clocks.
THEOREM BudgetIsKept == Spec => []Budget
  <1>1. Inv /\ TimeInv /\ BudgetInv /\ [Next]_vars => (Inv /\ TimeInv /\ BudgetInv)'
    BY StepInv, StepTime, StepBudget
  <1>2. Init => Inv /\ TimeInv /\ BudgetInv
    BY InitInv, InitBudget
  <1>3. Inv /\ TimeInv /\ BudgetInv => Budget
    BY BudgetFollows
  <1> QED
    BY <1>1, <1>2, <1>3, PTL DEF Spec
=============================================================================
