---------------------------- MODULE JobPageProofs ---------------------------
(***************************************************************************)
(* What the page of the web client asks the server for, for any number of  *)
(* jobs, any timeouts and any gallery.                                     *)
(***************************************************************************)
EXTENDS JobPage, WellFoundedInduction, SequenceTheorems, TLAPS

\* There is one upload at a time, and none while a job is on screen.
UploadInv ==
    \A j \in Jobs : submit[j] = "uploading" =>
        /\ shown = NoJob
        /\ \A k \in Jobs \ {j} : submit[k] # "uploading"

\* Without a job on screen nothing is fetched, and no timer runs for a job that
\* has ended.
QueryInv ==
    /\ shown \in Jobs \cup {NoJob}
    /\ shown = NoJob => data = "none" /\ fetch = "idle"
    /\ timer = "on" => ~isTerminal(data)

SubmitType == submit \in [Jobs -> {"idle", "uploading", "thumbnail", "over"}]

Inv == SubmitType /\ UploadInv /\ QueryInv

\* The page starts with the form.
LEMMA InitInv == Init => Inv
  BY DEF Init, Inv, SubmitType, UploadInv, QueryInv

\* Whatever sets the interval turns it off for a job that has ended.
LEMMA IntervalEnds ==
    ASSUME SetInterval
    PROVE  timer' = "on" => ~isTerminal(data') /\ shown' # NoJob
  BY DEF SetInterval, refetchInterval, isTerminal

\* No fetch begins for a job that has ended, unless the browser comes back online.
Quiet ==
    isTerminal(data) /\ fetch = "idle" /\ fetch' # "idle" =>
        net = "offline" /\ net' # "offline"

\* Every step keeps the invariant, and is quiet.
LEMMA StepInv ==
    ASSUME Inv, [Next]_vars
    PROVE  Inv' /\ Quiet
  <1> USE DEF Inv, Quiet, queryVars, galleryVars, renderVars, serverVars
  <1>1. ASSUME NEW j \in Jobs, Submit(j)
        PROVE  Inv' /\ Quiet
    BY <1>1 DEF Submit, SubmitType, UploadInv, QueryInv
  <1>2. ASSUME NEW j \in Jobs, Uploaded(j)
        PROVE  Inv' /\ Quiet
    <2>1. shown = NoJob /\ data = "none"
      BY <1>2 DEF Uploaded, UploadInv, QueryInv
    <2>2. SubmitType' /\ \A k \in Jobs : submit'[k] # "uploading"
      BY <1>2 DEF Uploaded, SubmitType, UploadInv
    <2>3. QueryInv'
      BY <1>2, IntervalEnds, PageAssumption DEF Uploaded, Watch, QueryInv
    <2> QED
      BY <2>1, <2>2, <2>3 DEF UploadInv, isTerminal
  <1>3. ASSUME NEW j \in Jobs, UploadFails(j)
        PROVE  Inv' /\ Quiet
    BY <1>3 DEF UploadFails, SubmitType, UploadInv, QueryInv
  <1>4. ASSUME NEW j \in Jobs, AddEntry(j)
        PROVE  Inv' /\ Quiet
    BY <1>4 DEF AddEntry, SubmitType, UploadInv, QueryInv
  <1>5. CASE Poll \/ Focus
    <2>1. ~isTerminal(data)
      BY <1>5 DEF Poll, Focus, QueryInv
    <2>2. UNCHANGED <<submit, shown, data>> /\ shown # NoJob /\ SetInterval
      BY <1>5 DEF Poll, Focus, BeginFetch
    <2> QED
      BY <2>1, <2>2, IntervalEnds DEF SubmitType, UploadInv, QueryInv
  <1>6. CASE Answer
    <2>1. shown # NoJob /\ UNCHANGED <<submit, shown>> /\ fetch' = "idle" /\ SetInterval
      BY <1>6 DEF Answer, QueryInv
    <2> QED
      BY <2>1, IntervalEnds DEF SubmitType, UploadInv, QueryInv
  <1>7. CASE Failure \/ Pause
    <2>1. UNCHANGED <<submit, shown, data>> /\ fetch = "fetching" /\ SetInterval
      BY <1>7 DEF Failure, Pause
    <2> QED
      BY <2>1, IntervalEnds DEF SubmitType, UploadInv, QueryInv
  <1>8. CASE reset \/ Reload
    <2>1. shown' = NoJob /\ data' = "none" /\ fetch' = "idle" /\ SetInterval
      BY <1>8 DEF reset, Reload, Unwatch
    <2>2. SubmitType' /\ \A j \in Jobs : submit'[j] = "uploading" => submit[j] = "uploading"
      BY <1>8 DEF reset, Reload, SubmitType
    <2> QED
      BY <2>1, <2>2, IntervalEnds DEF UploadInv, QueryInv
  <1>9. CASE Forget \/ RunEffects \/ NetChanges \/ ServerMoves \/ Tick
    BY <1>9 DEF Forget, RunEffects, NetChanges, ServerMoves, Tick, SubmitType, UploadInv, QueryInv
  <1>10. CASE Render
    <2>1. UNCHANGED <<submit, shown, data, fetch>> /\ SetInterval
      BY <1>10 DEF Render
    <2> QED
      BY <2>1, IntervalEnds DEF SubmitType, UploadInv, QueryInv
  <1>11. CASE UNCHANGED vars
    BY <1>11 DEF vars, SubmitType, UploadInv, QueryInv
  <1>12. CASE Online
    <2>1. /\ net = "offline" /\ net' # "offline" /\ SetInterval
          /\ UNCHANGED <<submit, shown, data>> /\ (shown = NoJob => fetch' = "idle")
      BY <1>12 DEF Online
    <2> QED
      BY <2>1, IntervalEnds DEF SubmitType, UploadInv, QueryInv
  <1> QED
    BY <1>1, <1>2, <1>3, <1>4, <1>5, <1>6, <1>7, <1>8, <1>9, <1>10, <1>11, <1>12 DEF Next

\* The invariant holds in every reachable state.
THEOREM Invariance == Spec => []Inv
  <1>1. Inv /\ [Next]_vars => Inv'
    BY StepInv
  <1> QED
    BY <1>1, InitInv, PTL DEF Spec

\* A page that shows how a job ended does not ask the server for it again by its
\* timer nor when the window gets the focus: only coming back online does that.
THEOREM QuietOnceSettled == Spec => SettledIsQuiet
  <1>1. Inv /\ [Next]_vars => [Quiet]_vars
    BY StepInv
  <1>2. [Quiet]_vars => [isTerminal(data) /\ fetch = "idle" /\ fetch' # "idle" =>
                            net = "offline" /\ net' # "offline"]_vars
    BY DEF Quiet
  <1> QED
    BY <1>1, <1>2, Invariance, PTL DEF Spec, SettledIsQuiet

-----------------------------------------------------------------------------
(* Induction over the gallery *)

\* A set of natural numbers that is not empty has a least element.
LEMMA Least ==
    ASSUME NEW T \in SUBSET Nat, T # {}
    PROVE  \E m \in T : \A n \in T : m <= n
  <1> DEFINE R == OpToRel(<, Nat)
  <1>1. IsWellFoundedOn(R, Nat)
    BY NatLessThanWellFounded, Zenon
  <1>2. \A x, y \in Nat : x < y => <<x, y>> \in R
    BY DEF OpToRel
  <1> HIDE DEF R
  <1>3. PICK x \in T : \A y \in T : ~(<<y, x>> \in R)
    BY <1>1, WFMin, Zenon
  <1>4. \A y \in T : ~(y < x)
    BY <1>2, <1>3, Zenon
  <1> QED
    BY <1>4

\* Induction, on a set instead of a predicate.
LEMMA Induction ==
    ASSUME NEW T \in SUBSET Nat, 0 \in T, \A n \in T : n + 1 \in T
    PROVE  T = Nat
  <1> SUFFICES ASSUME Nat \ T # {} PROVE FALSE
    OBVIOUS
  <1>1. PICK m \in Nat \ T : \A n \in Nat \ T : m <= n
    BY Least
  <1>2. m # 0 /\ m - 1 \in Nat
    BY <1>1
  <1>3. m - 1 \in T
    BY <1>1, <1>2
  <1>4. (m - 1) + 1 \in T
    BY <1>3
  <1> QED
    BY <1>1, <1>2, <1>4

\* One step of the filter: what is kept of n entries, given what is kept of n - 1.
KeepNext(g, j, s, n) == IF g[n].id = j THEN s ELSE Append(s, g[n])

\* f says what is kept of the first n entries, for every n up to m.
IsKept(g, j, m, f) == f[0] = <<>> /\ \A n \in 1..m : f[n] = KeepNext(g, j, f[n - 1], n)

\* What is kept can be computed for any number of entries.
LEMMA KeptExists ==
    ASSUME NEW S, NEW g \in Seq(S), NEW j
    PROVE  \E f \in [0..Len(g) -> Seq(S)] : IsKept(g, j, Len(g), f)
  <1> DEFINE T == {m \in Nat : m <= Len(g) => \E f \in [0..m -> Seq(S)] : IsKept(g, j, m, f)}
  <1>1. 0 \in T
    <2> DEFINE f == [n \in 0..0 |-> <<>>]
    <2>1. f \in [0..0 -> Seq(S)] /\ IsKept(g, j, 0, f)
      BY DEF IsKept
    <2> QED
      BY <2>1
  <1>2. ASSUME NEW m \in T
        PROVE  m + 1 \in T
    <2> SUFFICES ASSUME m + 1 <= Len(g)
                 PROVE  \E f \in [0..m + 1 -> Seq(S)] : IsKept(g, j, m + 1, f)
      OBVIOUS
    <2>0. m \in Nat /\ Len(g) \in Nat
      OBVIOUS
    <2>1. PICK e \in [0..m -> Seq(S)] : IsKept(g, j, m, e)
      BY <2>0
    <2> DEFINE s == KeepNext(g, j, e[m], m + 1)
               f == [n \in 0..m + 1 |-> IF n <= m THEN e[n] ELSE s]
    <2>2. s \in Seq(S)
      BY <2>0 DEF KeepNext
    <2> HIDE DEF s
    <2>3. f \in [0..m + 1 -> Seq(S)]
      BY <2>0, <2>2
    <2>4. f[0] = <<>> /\ f[m + 1] = s /\ f[m] = e[m]
      BY <2>0, <2>1 DEF IsKept
    <2>5. ASSUME NEW n \in 1..m
          PROVE  f[n] = KeepNext(g, j, f[n - 1], n)
      <3>1. f[n] = e[n] /\ f[n - 1] = e[n - 1]
        BY <2>0
      <3> QED
        BY <2>1, <3>1 DEF IsKept
    <2>6. f[m + 1] = KeepNext(g, j, f[(m + 1) - 1], m + 1)
      <3>1. (m + 1) - 1 = m
        BY <2>0
      <3> QED
        BY <3>1, <2>4 DEF s
    <2> HIDE DEF f
    <2>7. IsKept(g, j, m + 1, f)
      BY <2>0, <2>4, <2>5, <2>6 DEF IsKept
    <2> QED
      BY <2>3, <2>7
  <1> HIDE DEF T
  <1>3. T = Nat
    <2>1. T \in SUBSET Nat
      BY DEF T
    <2> QED
      BY <1>1, <1>2, <2>1, Induction
  <1> QED
    BY <1>3 DEF T

\* The filter computes what it is meant to: it begins with nothing, and keeps
\* each entry that is not the job's.
LEMMA KeptUnfolds ==
    ASSUME NEW S, NEW g \in Seq(S), NEW j
    PROVE  \E f : DOMAIN f = 0..Len(g) /\ IsKept(g, j, Len(g), f) /\ Without(g, j) = f[Len(g)]
  <1> DEFINE L == Len(g)
             Eq(f) == [n \in 0..L |->
                          IF n = 0 THEN <<>>
                          ELSE IF g[n].id = j THEN f[n - 1] ELSE Append(f[n - 1], g[n])]
             kept == CHOOSE f : f = Eq(f)
  <1>1. PICK e \in [0..L -> Seq(S)] : IsKept(g, j, L, e)
    BY KeptExists
  <1>2. e = Eq(e)
    <2>1. ASSUME NEW n \in 0..L
          PROVE  e[n] = Eq(e)[n]
      <3>1. CASE n = 0
        BY <1>1, <3>1 DEF IsKept
      <3>2. CASE n \in 1..L
        <4>1. e[n] = KeepNext(g, j, e[n - 1], n)
          BY <1>1, <3>2 DEF IsKept
        <4> QED
          BY <3>2, <4>1 DEF KeepNext
      <3> QED
        BY <3>1, <3>2
    <2> HIDE DEF Eq
    <2>2. DOMAIN Eq(e) = 0..L /\ Eq(e) = [n \in 0..L |-> Eq(e)[n]]
      BY DEF Eq
    <2> QED
      BY <2>1, <2>2
  <1>3. kept = Eq(kept)
    BY <1>2
  <1>4. Without(g, j) = kept[L]
    BY DEF Without
  <1> HIDE DEF kept
  <1>5. DOMAIN kept = 0..L /\ kept[0] = <<>>
    BY <1>3
  <1>6. ASSUME NEW n \in 1..L
        PROVE  kept[n] = KeepNext(g, j, kept[n - 1], n)
    <2>1. n # 0 /\ n \in 0..L
      OBVIOUS
    <2>2. kept[n] = Eq(kept)[n]
      BY <1>3, Zenon
    <2> QED
      BY <2>1, <2>2 DEF KeepNext
  <1> QED
    BY <1>4, <1>5, <1>6 DEF IsKept

\* No two entries have the same job.
Distinct(g) == \A i, k \in 1..Len(g) : g[i].id = g[k].id => i = k

\* s is what is kept of the first n entries: all that are not the job's, and
\* nothing else.
Kept(S, g, j, s, n) ==
    /\ s \in Seq(S) /\ Len(s) <= n
    /\ \A k \in 1..Len(s) : \E i \in 1..n : s[k] = g[i] /\ g[i].id # j
    /\ \A i \in 1..n : g[i].id # j => \E k \in 1..Len(s) : s[k] = g[i]
    /\ Distinct(g) => Distinct(s)

\* The step of the filter keeps what it should.
LEMMA KeptNext ==
    ASSUME NEW S, NEW g \in Seq(S), NEW j, NEW s, NEW n \in Nat, n + 1 <= Len(g),
           Kept(S, g, j, s, n)
    PROVE  Kept(S, g, j, KeepNext(g, j, s, n + 1), n + 1)
  <1> DEFINE e == g[n + 1]
             u == Append(s, e)
             L == Len(s)
  <1>1. n + 1 \in 1..Len(g) /\ e \in S /\ s \in Seq(S) /\ L \in Nat /\ L <= n
    BY DEF Kept
  <1>2. /\ \A k \in 1..L : \E i \in 1..n : s[k] = g[i] /\ g[i].id # j
        /\ \A i \in 1..n : g[i].id # j => \E k \in 1..L : s[k] = g[i]
        /\ Distinct(g) => Distinct(s)
    BY DEF Kept
  <1>3. \A i \in 1..n + 1 : i \in 1..n \/ i = n + 1
    OBVIOUS
  <1>3a. \A i \in 1..n : i \in 1..n + 1
    OBVIOUS
  <1>4. CASE e.id = j
    <2>1. KeepNext(g, j, s, n + 1) = s /\ L <= n + 1
      BY <1>1, <1>4 DEF KeepNext
    <2> HIDE DEF L
    <2>2. \A k \in 1..L : \E i \in 1..n + 1 : s[k] = g[i] /\ g[i].id # j
      BY <1>2, <1>3a, Zenon
    <2>3. \A i \in 1..n + 1 : g[i].id # j => \E k \in 1..L : s[k] = g[i]
      BY <1>2, <1>3, <1>4, Zenon
    <2> QED
      BY <1>1, <1>2, <2>1, <2>2, <2>3 DEF Kept, L
  <1>5. CASE e.id # j
    <2>1. KeepNext(g, j, s, n + 1) = u
      BY <1>5 DEF KeepNext
    <2>2. /\ u \in Seq(S) /\ Len(u) = L + 1 /\ u[L + 1] = e
          /\ \A k \in 1..L : u[k] = s[k]
      BY <1>1
    <2>3. \A k \in 1..L + 1 : k \in 1..L \/ k = L + 1
      BY <1>1
    <2>4. L + 1 \in 1..L + 1 /\ \A k \in 1..L : k \in 1..L + 1
      BY <1>1
    <2>5. n + 1 \in 1..n + 1 /\ L + 1 <= n + 1
      BY <1>1
    <2> HIDE DEF L, u
    <2>6. \A k \in 1..L + 1 : \E i \in 1..n + 1 : u[k] = g[i] /\ g[i].id # j
      <3> SUFFICES ASSUME NEW k \in 1..L + 1
                   PROVE  \E i \in 1..n + 1 : u[k] = g[i] /\ g[i].id # j
        OBVIOUS
      <3>1. CASE k = L + 1
        BY <1>5, <2>2, <2>5, <3>1, Zenon
      <3>2. CASE k \in 1..L
        <4>1. PICK i \in 1..n : s[k] = g[i] /\ g[i].id # j
          BY <1>2, <3>2
        <4> QED
          BY <1>3a, <2>2, <3>2, <4>1, Zenon
      <3> QED
        BY <2>3, <3>1, <3>2
    <2>7. \A i \in 1..n + 1 : g[i].id # j => \E k \in 1..L + 1 : u[k] = g[i]
      <3> SUFFICES ASSUME NEW i \in 1..n + 1, g[i].id # j
                   PROVE  \E k \in 1..L + 1 : u[k] = g[i]
        OBVIOUS
      <3>1. CASE i = n + 1
        BY <2>2, <2>4, <3>1, Zenon
      <3>2. CASE i \in 1..n
        <4>1. PICK k \in 1..L : s[k] = g[i]
          BY <1>2, <3>2
        <4> QED
          BY <2>2, <2>4, <4>1, Zenon
      <3> QED
        BY <1>3, <3>1, <3>2
    <2>8. ASSUME Distinct(g)
          PROVE  Distinct(u)
      <3>1. ASSUME NEW k \in 1..L
            PROVE  s[k].id # e.id
        <4>1. PICK i \in 1..n : s[k] = g[i]
          BY <1>2
        <4>2. i \in 1..Len(g) /\ i # n + 1
          BY <1>1
        <4> QED
          BY <1>1, <2>8, <4>1, <4>2 DEF Distinct
      <3>2. \A k, l \in 1..L : s[k].id = s[l].id => k = l
        BY <1>2, <2>8 DEF Distinct, L
      <3> HIDE DEF e
      <3>3. \A k, l \in 1..L + 1 : u[k].id = u[l].id => k = l
        <4> SUFFICES ASSUME NEW k \in 1..L + 1, NEW l \in 1..L + 1, u[k].id = u[l].id
                     PROVE  k = l
          OBVIOUS
        <4>1. CASE k \in 1..L /\ l \in 1..L
          BY <2>2, <3>2, <4>1, Zenon
        <4>2. CASE k \in 1..L /\ l = L + 1
          BY <2>2, <3>1, <4>2, Zenon
        <4>3. CASE k = L + 1 /\ l \in 1..L
          BY <2>2, <3>1, <4>3, Zenon
        <4> QED
          BY <2>3, <4>1, <4>2, <4>3
      <3> QED
        BY <2>2, <3>3 DEF Distinct
    <2> QED
      BY <2>1, <2>2, <2>5, <2>6, <2>7, <2>8 DEF Kept
  <1> QED
    BY <1>4, <1>5

\* A filter keeps the entries that are not the job's, all of them and nothing
\* else, and lists no job twice that was listed once.
LEMMA WithoutKeeps ==
    ASSUME NEW S, NEW g \in Seq(S), NEW j
    PROVE  Kept(S, g, j, Without(g, j), Len(g))
  <1>1. PICK f : DOMAIN f = 0..Len(g) /\ IsKept(g, j, Len(g), f) /\ Without(g, j) = f[Len(g)]
    BY KeptUnfolds
  <1> DEFINE T == {n \in Nat : n <= Len(g) => Kept(S, g, j, f[n], n)}
  <1>2. 0 \in T
    <2>1. f[0] = <<>>
      BY <1>1 DEF IsKept
    <2>2. Kept(S, g, j, <<>>, 0)
      BY DEF Kept, Distinct
    <2> QED
      BY <2>1, <2>2
  <1>3. ASSUME NEW n \in T
        PROVE  n + 1 \in T
    <2> SUFFICES ASSUME n + 1 <= Len(g)
                 PROVE  Kept(S, g, j, f[n + 1], n + 1)
      OBVIOUS
    <2>1. n \in Nat /\ n + 1 \in 1..Len(g) /\ (n + 1) - 1 = n /\ Kept(S, g, j, f[n], n)
      OBVIOUS
    <2>2. f[n + 1] = KeepNext(g, j, f[n], n + 1)
      BY <1>1, <2>1 DEF IsKept
    <2> HIDE DEF T
    <2> QED
      BY <2>1, <2>2, KeptNext
  <1> HIDE DEF T
  <1>4. T = Nat
    <2>1. T \in SUBSET Nat
      BY DEF T
    <2> QED
      BY <1>2, <1>3, <2>1, Induction
  <1> QED
    BY <1>1, <1>4 DEF T

-----------------------------------------------------------------------------
(* The gallery *)

\* A new entry goes in front of the others, and the oldest ones fall out.
LEMMA AddKeeps ==
    ASSUME NEW S, NEW g \in Seq(S), NEW j, [id |-> j, status |-> "pending"] \in S
    PROVE  /\ add(g, j) \in Seq(S) /\ Len(add(g, j)) <= MaxEntries
           /\ Distinct(g) => Distinct(add(g, j))
  <1> DEFINE longer == <<[id |-> j, status |-> "pending"]>> \o Without(g, j)
             n == IF Len(longer) > MaxEntries THEN MaxEntries ELSE Len(longer)
  <1>1. Without(g, j) \in Seq(S)
    BY WithoutKeeps DEF Kept
  <1>2. longer \in Seq(S)
    BY <1>1
  <1>3. add(g, j) = SubSeq(longer, 1, n)
    BY DEF add
  <1>4. n \in Nat /\ n <= Len(longer) /\ n <= MaxEntries
    BY <1>2, PageAssumption
  <1>5. SubSeq(longer, 1, n) \in Seq(S) /\ Len(SubSeq(longer, 1, n)) = n
    BY <1>2, <1>4
  <1>6. ASSUME NEW i \in 1..n
        PROVE  SubSeq(longer, 1, n)[i] = longer[i] /\ i \in 1..Len(longer)
    BY <1>2, <1>4
  <1>7. ASSUME Distinct(g)
        PROVE  Distinct(SubSeq(longer, 1, n))
    <2> DEFINE w == Without(g, j)
    <2>1. \A i, k \in 1..Len(w) : w[i].id = w[k].id => i = k
      BY <1>7, WithoutKeeps DEF Kept, Distinct
    <2>2. \A k \in 1..Len(w) : w[k].id # j
      BY WithoutKeeps DEF Kept
    <2>3. longer[1].id = j
      BY <1>1
    <2>4. \A i \in 1..Len(longer) : i # 1 => i - 1 \in 1..Len(w) /\ longer[i] = w[i - 1]
      BY <1>1
    <2> HIDE DEF longer, w
    <2>5. ASSUME NEW i \in 1..Len(longer), NEW k \in 1..Len(longer), longer[i].id = longer[k].id
          PROVE  i = k
      <3>1. CASE i = 1 /\ k # 1
        BY <2>2, <2>3, <2>4, <2>5, <3>1, Zenon
      <3>2. CASE i # 1 /\ k = 1
        BY <2>2, <2>3, <2>4, <2>5, <3>2, Zenon
      <3>3. CASE i # 1 /\ k # 1
        <4>1. /\ i - 1 \in 1..Len(w) /\ longer[i] = w[i - 1]
              /\ k - 1 \in 1..Len(w) /\ longer[k] = w[k - 1]
          BY <2>4, <3>3
        <4>2. w[i - 1].id = w[k - 1].id
          BY <2>5, <4>1
        <4>3. i - 1 = k - 1
          BY <2>1, <4>1, <4>2
        <4> QED
          BY <4>3
      <3> QED
        BY <3>1, <3>2, <3>3
    <2> HIDE DEF n
    <2> QED
      BY <1>5, <1>6, <2>5 DEF Distinct
  <1> HIDE DEF longer, n
  <1> QED
    BY <1>3, <1>4, <1>5, <1>7

WithStatus(e, s) == [e EXCEPT !.status = s]

\* An update changes no entry but the job's.
LEMMA UpdateKeeps ==
    ASSUME NEW S, NEW g \in Seq(S), NEW j, NEW s,
           \A e \in S : e.id = j => WithStatus(e, s) \in S /\ WithStatus(e, s).id = j
    PROVE  /\ update(g, j, s) \in Seq(S) /\ Len(update(g, j, s)) = Len(g)
           /\ Distinct(g) => Distinct(update(g, j, s))
  <1>1. ASSUME NEW i \in DOMAIN g
        PROVE  (IF First(g, j, i) THEN [g[i] EXCEPT !.status = s] ELSE g[i]) \in S
    BY DEF First, WithStatus
  <1> DEFINE u == update(g, j, s)
  <1>2. u \in [1..Len(g) -> S]
    BY <1>1 DEF update
  <1>3. u \in Seq(S) /\ Len(u) = Len(g)
    BY <1>2
  <1>4. ASSUME NEW i \in 1..Len(g)
        PROVE  u[i].id = g[i].id
    <2>1. g[i] \in S /\ i \in DOMAIN g
      OBVIOUS
    <2>2. CASE First(g, j, i)
      <3>1. u[i] = WithStatus(g[i], s) /\ g[i].id = j
        BY <2>1, <2>2 DEF update, First, WithStatus
      <3> QED
        BY <2>1, <3>1
    <2>3. CASE ~First(g, j, i)
      BY <2>1, <2>3 DEF update
    <2> QED
      BY <2>2, <2>3
  <1> HIDE DEF u
  <1>5. Distinct(g) => Distinct(u)
    BY <1>3, <1>4 DEF Distinct
  <1> QED
    BY <1>3, <1>5 DEF u

-----------------------------------------------------------------------------
(* The page *)

\* An entry whose outcome, if it has one, is the job's.  With redelivery the
\* server may go back on an outcome: then this says no more than Entry.
Sound ==
    {e \in Entry : isTerminal(e.status) /\ ~Redelivery =>
                       e.id \in Jobs /\ e.status = status[e.id]}

\* A gallery of such entries that lists no job twice.
IsSound(g) == g \in Seq(Sound) /\ Len(g) <= MaxEntries /\ Distinct(g)

\* What is shown of a job on screen, now or in an earlier render.
SoundData(id, d) ==
    /\ id \in Jobs \cup {NoJob} /\ d \in Status \cup {"none"}
    /\ d = "none" <=> id = NoJob
    /\ id \in Jobs => status[id] # "absent"
    /\ isTerminal(d) /\ ~Redelivery => d = status[id]

SoundDraw(d) == d \in Draws /\ SoundData(d.id, d.data) /\ IsSound(d.entries)

ServerType == status \in [Jobs -> Status \cup {"absent"}] /\ published \in SUBSET Jobs

QueryType ==
    /\ net \in {"up", "down", "offline"} /\ age \in 0..Timeout + 1
    /\ fetch \in {"idle", "fetching", "paused"} /\ failures \in 0..Retries
    /\ error \in BOOLEAN /\ timer \in {"on", "off"}
    /\ dirty \in BOOLEAN

GalleryInv == IsSound(entries) /\ IsSound(saved)

DrawnInv == drawn = {} \/ \E d \in drawn : SoundDraw(d) /\ drawn = {d}

PageInv ==
    /\ Inv /\ ServerType /\ QueryType
    /\ SoundData(shown, data) /\ GalleryInv /\ DrawnInv

\* The invariant has the types and, where jobs are delivered once, the outcomes.
LEMMA PageInvImplies == PageInv => TypeOK /\ (~Redelivery => OutcomeIsTrue)
  <1> SUFFICES ASSUME PageInv
               PROVE  TypeOK /\ (~Redelivery => OutcomeIsTrue)
    OBVIOUS
  <1>1. \A g : IsSound(g) => IsGallery(g)
    <2>1. Sound \subseteq Entry
      BY DEF Sound
    <2> QED
      BY <2>1, SeqMonotonic DEF IsSound, IsGallery
  <1>2. drawn = {} \/ \E d \in drawn : d \in Draws /\ drawn = {d}
    BY DEF PageInv, DrawnInv, SoundDraw
  <1>3. TypeOK
    BY <1>1, <1>2 DEF PageInv, Inv, SubmitType, ServerType, QueryType, SoundData, GalleryInv, TypeOK
  <1>4. ASSUME ~Redelivery, NEW g, IsSound(g), NEW i \in DOMAIN g, isTerminal(g[i].status)
        PROVE  g[i].id \in Jobs /\ g[i].status = status[g[i].id]
    <2>1. g[i] \in Sound
      BY <1>4 DEF IsSound
    <2> QED
      BY <1>4, <2>1 DEF Sound
  <1>5. ~Redelivery => OutcomeIsTrue
    BY <1>4 DEF PageInv, SoundData, GalleryInv, OutcomeIsTrue
  <1> QED
    BY <1>3, <1>5

\* A record that exists goes on existing, and an outcome stays unless the job
\* can be delivered again.
ServerKeeps ==
    \A j \in Jobs :
        /\ status[j] # "absent" => status'[j] # "absent"
        /\ isTerminal(status[j]) /\ ~Redelivery => status'[j] = status[j]

\* The server's steps, as the page lets them happen.
LEMMA ServerStep ==
    ASSUME ServerType,
           \/ UNCHANGED serverVars
           \/ \E j \in Jobs : \/ Server!Create(j) \/ Server!Start(j)
                              \/ Server!Publish(j) \/ Server!GiveUp(j)
    PROVE  ServerType' /\ ServerKeeps
  <1> USE DEF ServerType, ServerKeeps, Status, isTerminal
  <1>1. CASE UNCHANGED serverVars
    BY <1>1 DEF serverVars
  <1>2. ASSUME NEW j \in Jobs, Server!Create(j)
        PROVE  ServerType' /\ ServerKeeps
    BY <1>2 DEF Server!Create, Server!Exists
  <1>3. ASSUME NEW j \in Jobs, Server!Start(j)
        PROVE  ServerType' /\ ServerKeeps
    BY <1>3 DEF Server!Start, Server!Exists
  <1>4. ASSUME NEW j \in Jobs, Server!Publish(j)
        PROVE  ServerType' /\ ServerKeeps
    BY <1>4 DEF Server!Publish, Server!Exists
  <1>5. ASSUME NEW j \in Jobs, Server!GiveUp(j)
        PROVE  ServerType' /\ ServerKeeps
    BY <1>5 DEF Server!GiveUp, Server!Exists
  <1> QED
    BY <1>1, <1>2, <1>3, <1>4, <1>5

\* What was sound stays sound.
LEMMA StaysSound ==
    ASSUME ServerType, ServerKeeps
    PROVE  /\ \A g : IsSound(g) => IsSound(g)'
           /\ \A id, d : SoundData(id, d) => SoundData(id, d)'
           /\ \A d : SoundDraw(d) => SoundDraw(d)'
  <1>1. Sound \subseteq Sound'
    BY DEF ServerKeeps, Sound
  <1>2. ASSUME NEW g, IsSound(g)
        PROVE  IsSound(g)'
    BY <1>1, <1>2, SeqMonotonic DEF IsSound
  <1>3. ASSUME NEW id, NEW d, SoundData(id, d)
        PROVE  SoundData(id, d)'
    <2>1. isTerminal(d) => id \in Jobs
      BY <1>3 DEF SoundData, isTerminal, Status
    <2> QED
      BY <1>3, <2>1 DEF SoundData, ServerKeeps
  <1> QED
    BY <1>2, <1>3 DEF SoundDraw

\* An entry of a job just accepted is sound, and so is one updated with what a
\* render saw of the job.
LEMMA EntrySound ==
    /\ \A j \in Jobs : [id |-> j, status |-> "pending"] \in Sound
    /\ \A id, d : id # NoJob /\ SoundData(id, d) =>
          \A e \in Sound : e.id = id => WithStatus(e, d) \in Sound /\ WithStatus(e, d).id = id
  <1>1. ASSUME NEW j \in Jobs
        PROVE  [id |-> j, status |-> "pending"] \in Sound
    BY DEF Sound, Entry, Status, isTerminal
  <1>2. ASSUME NEW id, NEW d, id # NoJob, SoundData(id, d), NEW e \in Sound, e.id = id
        PROVE  WithStatus(e, d) \in Sound /\ WithStatus(e, d).id = id
    <2>1. id \in Jobs /\ d \in Status /\ (isTerminal(d) /\ ~Redelivery => d = status[id])
      BY <1>2 DEF SoundData
    <2>2. e \in Entry
      BY DEF Sound
    <2> DEFINE u == WithStatus(e, d)
    <2>3. u = [id |-> id, status |-> d]
      BY <1>2, <2>2 DEF Entry, WithStatus
    <2>4. u \in Entry /\ u.id = id /\ u.status = d
      BY <2>1, <2>3 DEF Entry
    <2> HIDE DEF u
    <2>5. u \in Sound
      BY <2>1, <2>4 DEF Sound
    <2> QED
      BY <2>4, <2>5 DEF u
  <1> QED
    BY <1>1, <1>2

\* The page starts with what earlier visits left, all of it pending.
LEMMA InitPage == Init => PageInv
  <1> SUFFICES ASSUME Init
               PROVE  PageInv
    OBVIOUS
  <1>1. Inv
    BY InitInv
  <1>2. ServerType /\ QueryType
    <2>1. ServerType
      BY DEF Init, Server!Init, ServerType
    <2>2. 0 \in 0..Timeout + 1 /\ 0 \in 0..Retries
      BY PageAssumption
    <2> QED
      BY <2>1, <2>2, Zenon DEF Init, QueryType
  <1>3. SoundData(shown, data)
    BY PageAssumption DEF Init, SoundData, isTerminal
  <1>4. PICK n \in 0..MaxEntries : saved \in [1..n -> [id : Past, status : {"pending"}]]
    BY DEF Init, Left
  <1>5. [id : Past, status : {"pending"}] \subseteq Sound
    BY DEF Sound, Entry, Status, isTerminal
  <1>6. n \in Nat /\ n <= MaxEntries
    BY PageAssumption
  <1>7. saved \in [1..n -> Sound]
    BY <1>4, <1>5
  <1>8. Distinct(saved)
    <2>1. \A i, k \in 1..n : saved[i] = saved[k] => i = k
      BY <1>4 DEF Init, Left
    <2>2. \A i \in 1..n : saved[i] = [id |-> saved[i].id, status |-> "pending"]
      BY <1>4
    <2>3. Len(saved) = n
      BY <1>6, <1>7
    <2>4. \A i, k \in 1..n : saved[i].id = saved[k].id => i = k
      BY <2>1, <2>2, Zenon
    <2> QED
      BY <2>3, <2>4 DEF Distinct
  <1>9. IsSound(saved)
    BY <1>6, <1>7, <1>8 DEF IsSound
  <1> QED
    BY <1>1, <1>2, <1>3, <1>9 DEF Init, PageInv, GalleryInv, DrawnInv

\* The interval is on or off.
LEMMA IntervalType == SetInterval => timer' \in {"on", "off"}
  BY DEF SetInterval, refetchInterval

\* Time does not grow beyond what the page tells apart.
LEMMA OlderType == QueryType => Older \in 0..Timeout + 1
  <1> SUFFICES ASSUME age \in 0..Timeout + 1
               PROVE  Older \in 0..Timeout + 1
    BY DEF QueryType
  <1> QED
    BY PageAssumption DEF Older

\* Every step of the page leaves the server's records alone or is a step of the
\* job lifecycle.
LEMMA ServerSound ==
    ASSUME ServerType, [Next]_vars
    PROVE  ServerType' /\ ServerKeeps
  <1>1. \/ UNCHANGED serverVars
        \/ \E j \in Jobs : \/ Server!Create(j) \/ Server!Start(j)
                           \/ Server!Publish(j) \/ Server!GiveUp(j)
    <2>1. ASSUME NEW j \in Jobs, Submit(j) \/ Uploaded(j) \/ UploadFails(j) \/ AddEntry(j)
          PROVE  UNCHANGED serverVars \/ Server!Create(j)
      BY <2>1, Zenon DEF Submit, Uploaded, UploadFails, AddEntry
    <2>2. CASE Poll \/ Focus \/ Online \/ Answer \/ Failure \/ Pause
      BY <2>2, Zenon DEF Poll, Focus, BeginFetch, Online, Answer, Failure, Pause
    <2>3. CASE reset \/ Forget \/ Reload \/ Render \/ RunEffects \/ Tick \/ NetChanges
      BY <2>3, Zenon DEF reset, Forget, Reload, Render, RunEffects, Tick, NetChanges
    <2>4. CASE ServerMoves
      BY <2>4, Zenon DEF ServerMoves
    <2>5. CASE UNCHANGED vars
      BY <2>5, Zenon DEF vars
    <2> QED
      BY <2>1, <2>2, <2>3, <2>4, <2>5 DEF Next
  <1> QED
    BY <1>1, ServerStep

\* Time, requests, failures and renders stay within what the page tells apart.
LEMMA QuerySound ==
    ASSUME QueryType, [Next]_vars
    PROVE  QueryType'
  <1> USE DEF queryVars, galleryVars, renderVars
  <1>0. 0 \in 0..Timeout + 1 /\ 0 \in 0..Retries
    BY PageAssumption
  <1>1. ASSUME NEW j \in Jobs, Submit(j) \/ UploadFails(j) \/ AddEntry(j)
        PROVE  QueryType'
    BY <1>1, Zenon DEF Submit, UploadFails, AddEntry, QueryType
  <1>2. ASSUME NEW j \in Jobs, Uploaded(j)
        PROVE  QueryType'
    BY <1>0, <1>2, IntervalType, Zenon DEF Uploaded, Watch, QueryType
  <1>3. CASE Poll \/ Focus
    BY <1>0, <1>3, IntervalType, OlderType, Zenon DEF Poll, Focus, BeginFetch, QueryType
  <1>4. CASE Answer
    BY <1>0, <1>4, IntervalType, Zenon DEF Answer, QueryType
  <1>5. CASE Failure
    <2>1. failures' \in 0..Retries
      BY <1>5, PageAssumption DEF Failure, QueryType
    <2> QED
      BY <1>5, <2>1, IntervalType, Zenon DEF Failure, QueryType
  <1>6. CASE reset \/ Reload
    BY <1>0, <1>6, IntervalType, Zenon DEF reset, Reload, Unwatch, QueryType
  <1>7. CASE Forget \/ RunEffects
    BY <1>7, Zenon DEF Forget, RunEffects, QueryType
  <1>8. CASE Render
    BY <1>8, IntervalType, Zenon DEF Render, QueryType
  <1>9. CASE Tick
    BY <1>9, OlderType, Zenon DEF Tick, QueryType
  <1>10. CASE NetChanges \/ ServerMoves \/ UNCHANGED vars
    BY <1>10, Zenon DEF NetChanges, ServerMoves, vars, QueryType
  <1>11. CASE Online
    <2>1. failures' \in 0..Retries
      BY <1>0, <1>11, Zenon DEF Online, QueryType
    <2> QED
      BY <1>11, <2>1, IntervalType, Zenon DEF Online, QueryType
  <1>12. CASE Pause
    BY <1>12, IntervalType, Zenon DEF Pause, QueryType
  <1> QED
    BY <1>1, <1>2, <1>3, <1>4, <1>5, <1>6, <1>7, <1>8, <1>9, <1>10, <1>11, <1>12 DEF Next

\* What is shown of a job is what the server said of it, and an outcome is what
\* it still says.
LEMMA DataSound ==
    ASSUME PageInv, [Next]_vars
    PROVE  SoundData(shown, data)'
  <1> USE DEF queryVars
  <1>1. ServerType /\ ServerType' /\ ServerKeeps
    BY ServerSound DEF PageInv
  <1>2. CASE UNCHANGED <<shown, data>>
    BY <1>1, <1>2, StaysSound DEF PageInv
  <1>3. CASE shown' = NoJob /\ data' = "none"
    BY <1>3, PageAssumption DEF SoundData, isTerminal
  <1>4. ASSUME NEW j \in Jobs, Uploaded(j)
        PROVE  SoundData(shown, data)'
    <2>1. shown' = j /\ data' = "pending" /\ status'[j] # "absent"
      BY <1>1, <1>4 DEF Uploaded, Watch, Server!Create, ServerType
    <2> QED
      BY <2>1, PageAssumption DEF SoundData, isTerminal, Status
  <1>5. CASE Answer
    <2>1. shown' = shown /\ status' = status /\ data' = status[shown]
      BY <1>5 DEF Answer, serverVars
    <2>2. shown \in Jobs
      BY <1>5 DEF Answer, PageInv, Inv, QueryInv
    <2>3. status[shown] \in Status
      BY <1>1, <2>2 DEF PageInv, SoundData, ServerType
    <2> QED
      BY <2>1, <2>2, <2>3, PageAssumption DEF PageInv, SoundData, Status
  <1>6. ASSUME NEW j \in Jobs, Submit(j) \/ UploadFails(j) \/ AddEntry(j)
        PROVE  UNCHANGED <<shown, data>>
    BY <1>6 DEF Submit, UploadFails, AddEntry
  <1>7. CASE Poll \/ Focus \/ Online \/ Failure \/ Pause \/ Forget \/ Render \/ RunEffects
             \/ Tick \/ NetChanges \/ ServerMoves \/ UNCHANGED vars
    BY <1>2, <1>7, Zenon DEF Poll, Focus, BeginFetch, Online, Failure, Pause, Forget, Render,
                      RunEffects, Tick, NetChanges, ServerMoves, vars
  <1>8. CASE reset \/ Reload
    BY <1>3, <1>8 DEF reset, Reload, Unwatch
  <1> QED
    BY <1>2, <1>4, <1>5, <1>6, <1>7, <1>8 DEF Next

\* The gallery has the entries that were added, with outcomes that are true.
LEMMA GallerySound ==
    ASSUME PageInv, [Next]_vars
    PROVE  GalleryInv'
  <1> USE DEF queryVars, galleryVars
  <1>1. ServerType /\ ServerKeeps
    BY ServerSound DEF PageInv
  <1>2. IsSound(entries) /\ IsSound(saved)
    BY DEF PageInv, GalleryInv
  <1>3. SUFFICES \A g : g \in {entries', saved'} => IsSound(g)
    BY <1>1, StaysSound DEF GalleryInv, IsSound
  <1>4. CASE UNCHANGED galleryVars
    BY <1>2, <1>4
  <1>5. ASSUME NEW j \in Jobs, AddEntry(j)
        PROVE  IsSound(entries') /\ saved' = saved
    BY <1>2, <1>5, AddKeeps, EntrySound DEF AddEntry, IsSound
  <1>6. CASE Forget
    <2>1. saved' = saved
      BY <1>6 DEF Forget
    <2>2. ASSUME entries' = <<>>
          PROVE  IsSound(entries')
      BY <2>2, PageAssumption DEF IsSound, Distinct
    <2>3. ASSUME NEW j, entries' = Without(entries, j)
          PROVE  IsSound(entries')
      BY <1>2, <2>3, WithoutKeeps, PageAssumption DEF IsSound, Kept
    <2> QED
      BY <1>2, <1>6, <2>1, <2>2, <2>3 DEF Forget
  <1>7. CASE RunEffects
    <2>1. PICK d \in drawn :
             /\ Save(d.entries)
             /\ entries' = IF d.id = NoJob THEN entries ELSE update(entries, d.id, d.data)
      BY <1>7 DEF RunEffects
    <2>2. SoundDraw(d)
      BY <2>1 DEF PageInv, DrawnInv
    <2>3. IsSound(saved')
      BY <1>2, <2>1, <2>2 DEF Save, SoundDraw
    <2>4. ASSUME d.id # NoJob
          PROVE  IsSound(update(entries, d.id, d.data))
      <3>1. \A e \in Sound : e.id = d.id =>
               WithStatus(e, d.data) \in Sound /\ WithStatus(e, d.data).id = d.id
        BY <2>2, <2>4, EntrySound DEF SoundDraw
      <3> QED
        BY <1>2, <3>1, UpdateKeeps DEF IsSound
    <2> QED
      BY <1>2, <2>1, <2>3, <2>4
  <1>8. CASE Reload
    BY <1>2, <1>8 DEF Reload
  <1>9. ASSUME NEW j \in Jobs, Submit(j) \/ Uploaded(j) \/ UploadFails(j)
        PROVE  UNCHANGED galleryVars
    BY <1>9 DEF Submit, Uploaded, UploadFails
  <1>10. CASE Poll \/ Focus \/ Online \/ Answer \/ Failure \/ Pause \/ reset \/ Render \/ Tick
              \/ NetChanges \/ ServerMoves \/ UNCHANGED vars
    BY <1>4, <1>10, Zenon DEF Poll, Focus, BeginFetch, Online, Answer, Failure, Pause, reset,
                       Render, Tick, NetChanges, ServerMoves, vars
  <1> QED
    BY <1>2, <1>4, <1>5, <1>6, <1>7, <1>8, <1>9, <1>10 DEF Next

\* What a render saw is sound for as long as its effects have yet to run.
LEMMA DrawnSound ==
    ASSUME PageInv, [Next]_vars
    PROVE  DrawnInv'
  <1> USE DEF renderVars
  <1>1. ServerType /\ ServerKeeps
    BY ServerSound DEF PageInv
  <1>2. CASE UNCHANGED drawn
    BY <1>1, <1>2, StaysSound DEF PageInv, DrawnInv
  <1>3. CASE drawn' = {}
    BY <1>3 DEF DrawnInv
  <1>4. CASE Render
    <2> DEFINE d == [id |-> shown, data |-> data, entries |-> entries]
    <2>1. drawn' = {d}
      BY <1>4 DEF Render
    <2>2. SoundData(shown, data) /\ IsSound(entries)
      BY DEF PageInv, GalleryInv
    <2>3. entries \in Seq(Entry)
      BY <2>2, SeqMonotonic DEF IsSound, Sound
    <2>4. d \in Draws
      BY <2>2, <2>3 DEF SoundData, Draws
    <2>5. SoundDraw(d)
      BY <2>2, <2>4 DEF SoundDraw
    <2> HIDE DEF d
    <2>6. \E e : drawn' = {e} /\ SoundDraw(e)
      BY <2>1, <2>5
    <2> QED
      BY <1>1, <2>6, StaysSound DEF DrawnInv
  <1>5. ASSUME NEW j \in Jobs, Submit(j) \/ Uploaded(j) \/ UploadFails(j) \/ AddEntry(j)
        PROVE  UNCHANGED drawn
    BY <1>5 DEF Submit, Uploaded, UploadFails, AddEntry
  <1>6. CASE RunEffects \/ Reload
    BY <1>3, <1>6 DEF RunEffects, Reload
  <1>7. CASE Poll \/ Focus \/ Online \/ Answer \/ Failure \/ Pause \/ reset \/ Forget \/ Tick
             \/ NetChanges \/ ServerMoves \/ UNCHANGED vars
    BY <1>2, <1>7, Zenon DEF Poll, Focus, BeginFetch, Online, Answer, Failure, Pause, reset, Forget,
                      Tick, NetChanges, ServerMoves, vars
  <1> QED
    BY <1>2, <1>4, <1>5, <1>6, <1>7 DEF Next

\* The page is sound in every reachable state.
THEOREM PageInvariance == Spec => []PageInv
  <1>1. PageInv /\ [Next]_vars => PageInv'
    <2> SUFFICES ASSUME PageInv, [Next]_vars
                 PROVE  PageInv'
      OBVIOUS
    <2>1. Inv' /\ ServerType' /\ QueryType'
      BY StepInv, ServerSound, QuerySound DEF PageInv
    <2> QED
      BY <2>1, DataSound, GallerySound, DrawnSound DEF PageInv
  <1> QED
    BY <1>1, InitPage, PTL DEF Spec

\* Every variable of the page keeps its type; the gallery and its copy in
\* localStorage never exceed MaxEntries entries.
THEOREM TypeCorrectness == Spec => []TypeOK
  <1>1. PageInv => TypeOK
    BY PageInvImplies
  <1> QED
    BY <1>1, PageInvariance, PTL

\* Where the queue delivers a job once, no outcome on the page, in the gallery or
\* in localStorage is another job's or one that the server no longer has.
THEOREM OutcomesAreTrue ==
    ASSUME ~Redelivery
    PROVE  Spec => []OutcomeIsTrue
  <1>1. PageInv => OutcomeIsTrue
    BY PageInvImplies
  <1> QED
    BY <1>1, PageInvariance, PTL

\* The gallery lists a job once, on the page and in localStorage, whatever is
\* added, updated, removed and loaded again: the remove button takes away one
\* entry, and update, which stops at the first match, misses none.
THEOREM ListedOnce == Spec => [](Distinct(entries) /\ Distinct(saved))
  <1>1. PageInv => Distinct(entries) /\ Distinct(saved)
    BY DEF PageInv, GalleryInv, IsSound
  <1> QED
    BY <1>1, PageInvariance, PTL
=============================================================================
