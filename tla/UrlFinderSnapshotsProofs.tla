------------------------ MODULE UrlFinderSnapshotsProofs ------------------------
(***************************************************************************)
(* Proofs about UrlFinderSnapshots, for every set of providers and deals,  *)
(* every size of chunks, slices and window, and every number of days and   *)
(* failures.                                                               *)
(*                                                                         *)
(* The job and the runner share nothing but the calendar, so the invariant *)
(* is of two halves, each kept by the steps of the other.                  *)
(***************************************************************************)
EXTENDS UrlFinderSnapshots, FiniteSetTheorems, WellFoundedInduction, TLAPS

-----------------------------------------------------------------------------
(* The inductive invariant: the provider job *)

\* The metrics of a test.
MetricsOf(provider, tested) ==
  BaseMetrics \cup (IF <<provider, tested>> \in Measured THEN PerformanceMetrics ELSE {})

\* No snapshot is of a day to come, and none is of the same provider and day as another.
OnePerDay ==
  /\ \A s \in snapshots : s.date <= day
  /\ \A s, t \in snapshots : s.provider = t.provider /\ s.date = t.date => s = t

\* Has the run of the job a reason for what it has of a provider?
Accounted(p) ==
  \/ \E a \in job.rows : a.provider = p
  \/ <<p, job.date>> \in unanswered
  \/ \A t \in tests[p] : t >= job.date

\* The job stores a day that no snapshot is of, and accounts for every provider it has asked for.
JobFits ==
  /\ job.stage = "providers" => \A s \in snapshots : s.date < day
  /\ job.stage \in {"fetch", "store"} =>
       /\ job.date \in Days /\ job.date <= day
       /\ \A s \in snapshots : s.date < job.date
       /\ job.left \subseteq providers
       /\ \A a \in job.rows : a.provider \in providers \ job.left
       /\ \A a, b \in job.rows : a.provider = b.provider => a = b
       /\ \A p \in providers \ job.left : Accounted(p)
  /\ job.stage = "store" => job.left = {}

\* A day that is stored lacks a provider only for a reason.
DaysFilled ==
  \A s \in snapshots, p \in providers :
    (\E t \in tests[p] : t < s.date) =>
       (\E r \in snapshots : r.provider = p /\ r.date = s.date) \/ <<p, s.date>> \in unanswered

\* The test a value is of has a first snapshot, which the value belongs to; every metric
\* of every test in a snapshot has one value.
ValuesFit ==
  /\ \A v \in values :
       /\ \E s \in snapshots : s.provider = v.provider /\ s.tested = v.tested /\ s.date = v.of
       /\ \A s \in snapshots : s.provider = v.provider /\ s.tested = v.tested => v.of <= s.date
  /\ \A v, w \in values :
       v.provider = w.provider /\ v.metric = w.metric /\ v.tested = w.tested => v = w
  /\ \A s \in snapshots : \A m \in MetricsOf(s.provider, s.tested) :
       \E v \in values : v.provider = s.provider /\ v.metric = m /\ v.tested = s.tested

ProvidersInv == OnePerDay /\ JobFits /\ DaysFilled /\ ValuesFit

-----------------------------------------------------------------------------
(* The inductive invariant: the runner of deal snapshots *)

\* The snapshots of a deal in the window from a day up to a date.
Before(S, d, date, first) == {r \in S : r.deal = d /\ r.date < date /\ r.date >= first}
ShareOf(S) == <<Cardinality({r \in S : r.success}), Cardinality(S)>>

\* A share is of all snapshots in a window before the date.
FromHistory(S, d, date, share) ==
  \E first \in (date - Window - 1)..(date - Window + 1) : share = ShareOf(Before(S, d, date, first))

\* No deal's snapshot is of a day to come.
DealDates == \A s \in dealSnapshots : s.date <= day

\* No two snapshots are of the same deal and day.
OnePerDealDay == \A s, t \in dealSnapshots : s.deal = t.deal /\ s.date = t.date => s = t

\* The deals the runner has yet to store have no snapshot of that date, and the shares
\* it has read are still those of their history.
RunnerFits ==
  /\ runner.stage = "active" =>
       /\ \A s \in dealSnapshots : s.date <= runner.latest[s.deal]
       /\ \A d \in Deals : runner.latest[d] <= day
  /\ runner.stage \in {"types", "counts"} =>
       \A s \in dealSnapshots : s.deal \in runner.left => s.date < day
  /\ runner.stage = "counts" => runner.from \in (day - Window - 1)..(day - Window)
  /\ runner.stage = "slices" =>
       /\ runner.date \in Days /\ runner.date <= day
       /\ \A s \in dealSnapshots : s.deal \in runner.left => s.date < runner.date
       /\ \A d \in runner.left : FromHistory(dealSnapshots, d, runner.date, runner.indexing[d])

SharesFromHistory == \A s \in dealSnapshots : FromHistory(dealSnapshots, s.deal, s.date, s.indexing)

DealsInv == DealDates /\ OnePerDealDay /\ RunnerFits /\ SharesFromHistory

\* The inductive invariant.
IInv == TypeOK /\ ProvidersInv /\ DealsInv

-----------------------------------------------------------------------------
(* Facts about numbers and about the operators of the model *)

\* A set of natural numbers has a least element: what induction is for.
LEMMA Smallest ==
  ASSUME NEW T \in SUBSET Nat, T # {}
  PROVE  \E x \in T : \A y \in T : x <= y
<1> DEFINE R == {ss \in Nat \X Nat : ss[1] < ss[2]}
<1>1. IsWellFoundedOn(R, Nat)
  BY NatLessThanWellFounded DEF OpToRel
<1>2. \A x, y \in Nat : y < x => <<y, x>> \in R
  OBVIOUS
<1> HIDE DEF R
<1>3. PICK x \in T : \A y \in T : ~(<<y, x>> \in R)
  BY <1>1, WFMin
<1>4. \A y \in T : ~(y < x)
  BY <1>2, <1>3
<1> QED
  BY <1>4

\* Days are natural numbers, and there are finitely many of them.
LEMMA DaysTyped ==
  /\ MaxDay \in Nat /\ MaxEvents \in Nat /\ Window \in Nat \ {0}
  /\ Days \subseteq Nat /\ IsFiniteSet(Days) /\ \A d \in Days : d <= MaxDay
<1>1. MaxDay \in Nat /\ MaxEvents \in Nat /\ Window \in Nat \ {0}
  BY ConstantsAssumption
<1>2. IsFiniteSet(0..MaxDay)
  BY <1>1, FS_Interval
<1> QED
  BY <1>1, <1>2 DEF Days

\* The earliest of some days.
LEMMA MinIs ==
  ASSUME NEW S \in SUBSET Days, S # {}
  PROVE  Min(S) \in S /\ \A y \in S : Min(S) <= y
<1>1. \E x \in S : \A y \in S : x <= y
  BY DaysTyped, Smallest
<1> QED
  BY <1>1 DEF Min

\* The latest of some days.
LEMMA MaxIs ==
  ASSUME NEW S \in SUBSET Days, S # {}
  PROVE  Max(S) \in S /\ \A y \in S : Max(S) >= y
<1> DEFINE T == {MaxDay - x : x \in S}
<1>1. T \in SUBSET Nat /\ T # {} /\ \A x \in S : x \in Nat
  <2>1. \A x \in S : x \in Nat /\ x <= MaxDay /\ MaxDay \in Nat
    BY DaysTyped
  <2>2. \A x \in S : MaxDay - x \in Nat
    BY <2>1
  <2> QED
    BY <2>1, <2>2
<1>2. PICK t \in T : \A u \in T : t <= u
  BY <1>1, Smallest
<1>3. PICK x \in S : t = MaxDay - x
  BY <1>2
<1>4. \A y \in S : MaxDay - x <= MaxDay - y
  BY <1>2, <1>3
<1>5. \A y \in S : x >= y
  BY <1>1, <1>4, DaysTyped
<1> QED
  BY <1>5 DEF Max

\* A chunk is a part of what is left.
LEMMA ChunkIs ==
  ASSUME NEW left, IsFiniteSet(left), NEW size \in Nat \ {0}
  PROVE  NextChunk(left, size) \subseteq left
<1> DEFINE n == Cardinality(left)
           m == Min({size, n})
<1>1. n \in Nat
  BY FS_CardinalityType
<1>2. m \in {size, n} /\ m <= n /\ m \in Nat
  <2>1. \E x \in {size, n} : \A y \in {size, n} : x <= y
    BY <1>1
  <2>2. m \in {size, n} /\ \A y \in {size, n} : m <= y
    BY <2>1 DEF Min
  <2> QED
    BY <1>1, <2>2
<1>3. PICK f : f \in Bijection(1..n, left)
  BY FS_CardinalityType DEF ExistsBijection
<1> HIDE DEF n, m
<1>4. \E c \in SUBSET left : Cardinality(c) = m
  <2> DEFINE c == {f[i] : i \in 1..m}
             g == [i \in 1..m |-> f[i]]
  <2>1. 1..m \subseteq 1..n
    BY <1>1, <1>2
  <2>2. c \subseteq left
    BY <1>3, <2>1 DEF Bijection, Injection, Surjection
  <2>3. g \in Bijection(1..m, c)
    BY <1>3, <2>1 DEF Bijection, Injection, Surjection, IsInjective
  <2>4. IsFiniteSet(1..m) /\ Cardinality(1..m) = m
    BY <1>2, FS_Interval
  <2>5. Cardinality(c) = m
    BY <2>3, <2>4, FS_Bijection DEF ExistsBijection
  <2> QED
    BY <2>2, <2>5
<1> QED
  BY <1>4 DEF NextChunk, m, n

-----------------------------------------------------------------------------
(* The first state, and what each half keeps of the other *)

\* The parts of the invariant that most steps use.
LEMMA Parts ==
  ASSUME IInv
  PROVE  /\ day \in Days /\ day \in Nat /\ midnight \in BOOLEAN /\ events \in 0..MaxEvents
         /\ providers \subseteq Providers /\ tests \in [Providers -> SUBSET Days]
         /\ snapshots \subseteq Snapshot /\ values \subseteq Value /\ job \in Job
         /\ active \subseteq Deals /\ dealSnapshots \subseteq DealSnapshot
         /\ runner \in Runner /\ unanswered \subseteq (Providers \X Days)
         /\ \A s \in snapshots : s.provider \in Providers /\ s.date \in Nat /\ s.tested \in Days
         /\ \A s \in dealSnapshots : s.deal \in Deals /\ s.date \in Nat /\ s.date \in Days
         /\ \A v \in values : v.of \in Nat
         /\ OnePerDay /\ JobFits /\ DaysFilled /\ ValuesFit
         /\ DealDates /\ OnePerDealDay /\ RunnerFits /\ SharesFromHistory
<1>1. TypeOK /\ ProvidersInv /\ DealsInv
  BY DEF IInv
<1>2. /\ \A s \in snapshots : s.provider \in Providers /\ s.date \in Nat /\ s.tested \in Days
      /\ \A s \in dealSnapshots : s.deal \in Deals /\ s.date \in Nat /\ s.date \in Days
      /\ \A v \in values : v.of \in Nat
      /\ day \in Nat
  BY <1>1, DaysTyped DEF TypeOK, Snapshot, DealSnapshot, Value
<1> QED
  BY <1>1, <1>2 DEF TypeOK, ProvidersInv, DealsInv

\* A run that is over, of the job or of the runner, has its type.
LEMMA NoRunTyped == NoJob \in Job /\ NoRunner \in Runner
<1>1. Null \in Share
  BY DaysTyped DEF Null, Share
<1>2. 0 \in Int
  OBVIOUS
<1> HIDE DEF Null, Share
<1> QED
  BY <1>1, <1>2 DEF NoJob, Job, NoRunner, Runner

\* What the first state satisfies.
LEMMA InitIInv == Init => IInv
<1> SUFFICES ASSUME Init PROVE IInv
  OBVIOUS
<1>1. /\ day = 0 /\ midnight = TRUE /\ events = 0
      /\ providers \in {{}, Providers} /\ tests \in [Providers -> {{}, {0}}]
      /\ snapshots = {} /\ values = {} /\ job = NoJob /\ active \in SUBSET Deals
      /\ dealSnapshots = {} /\ runner = NoRunner /\ unanswered = {}
  BY DEF Init
<1>2. 0 \in Days /\ 0 \in 0..MaxEvents
  BY DaysTyped DEF Days
<1>3. tests \in [Providers -> SUBSET Days]
  <2>1. {{}, {0}} \subseteq SUBSET Days
    BY <1>2
  <2> QED
    BY <1>1, <2>1
<1>4. TypeOK
  BY <1>1, <1>2, <1>3, NoRunTyped DEF TypeOK
<1>5. ProvidersInv
  BY <1>1 DEF ProvidersInv, OnePerDay, JobFits, DaysFilled, ValuesFit, NoJob
<1>6. DealsInv
  BY <1>1 DEF DealsInv, DealDates, OnePerDealDay, RunnerFits, SharesFromHistory, NoRunner
<1> QED
  BY <1>4, <1>5, <1>6 DEF IInv

\* A step of the provider job keeps what is known of the runner.
LEMMA JobStep ==
  ASSUME IInv, UNCHANGED dealVars, UNCHANGED <<day, providers, tests, active>>,
         events' \in 0..MaxEvents, midnight' \in BOOLEAN, snapshots' \subseteq Snapshot,
         values' \subseteq Value, job' \in Job, unanswered' \subseteq (Providers \X Days),
         ProvidersInv'
  PROVE  IInv'
<1>1. TypeOK'
  BY Parts DEF TypeOK, dealVars
<1>2. DealsInv'
  BY DEF IInv, DealsInv, DealDates, OnePerDealDay, RunnerFits, SharesFromHistory, dealVars
<1> QED
  BY <1>1, <1>2 DEF IInv

\* A step of the runner keeps what is known of the provider job.
LEMMA RunnerStep ==
  ASSUME IInv, UNCHANGED providerVars, UNCHANGED <<day, providers, tests, active>>,
         events' \in 0..MaxEvents, dealSnapshots' \subseteq DealSnapshot, runner' \in Runner,
         DealsInv'
  PROVE  IInv'
<1>1. TypeOK'
  BY Parts DEF TypeOK, providerVars
<1>2. ProvidersInv'
  BY DEF IInv, ProvidersInv, OnePerDay, JobFits, Accounted, DaysFilled, ValuesFit, providerVars
<1> QED
  BY <1>1, <1>2 DEF IInv

-----------------------------------------------------------------------------
(* The provider job *)

\* A step of the job that stores nothing.
LEMMA OwnJobStep ==
  ASSUME IInv, UNCHANGED dealVars, UNCHANGED <<day, providers, tests, active>>,
         events' \in 0..MaxEvents, midnight' \in BOOLEAN, job' \in Job,
         UNCHANGED <<snapshots, values>>, unanswered \subseteq unanswered',
         unanswered' \subseteq (Providers \X Days), JobFits'
  PROVE  IInv'
<1>1. OnePerDay' /\ ValuesFit'
  BY Parts DEF OnePerDay, ValuesFit
<1>2. DaysFilled'
  BY Parts DEF DaysFilled
<1>3. ProvidersInv'
  BY <1>1, <1>2 DEF ProvidersInv
<1> QED
  BY <1>3, Parts, JobStep

\* The run ends.
LEMMA EndJobIInv ==
  ASSUME IInv, UNCHANGED dealVars, UNCHANGED <<day, providers, tests, active>>,
         events' \in 0..MaxEvents, midnight' \in BOOLEAN, job' = NoJob,
         UNCHANGED <<snapshots, values>>, unanswered \subseteq unanswered',
         unanswered' \subseteq (Providers \X Days)
  PROVE  IInv'
<1>1. JobFits'
  BY DEF JobFits, NoJob
<1> QED
  BY <1>1, NoRunTyped, OwnJobStep

\* The timer goes off.
LEMMA FetchLastMetricSnapshotIInv ==
  ASSUME IInv, UNCHANGED dealVars, World, FetchLastMetricSnapshot
  PROVE  IInv'
<1>1. /\ UNCHANGED <<day, providers, tests, active>> /\ midnight' \in BOOLEAN
      /\ UNCHANGED <<snapshots, values, unanswered>> /\ events' \in 0..MaxEvents
  BY Parts DEF World, FetchLastMetricSnapshot
<1>2. CASE job.stage = "off"
  <2>1. job' = [NoJob EXCEPT !.stage = "latest"]
    BY <1>2 DEF FetchLastMetricSnapshot, At
  <2>2. job' \in Job /\ job'.stage = "latest"
    BY <2>1 DEF NoJob, Job
  <2>3. JobFits'
    BY <2>2 DEF JobFits
  <2> QED
    BY <1>1, <2>2, <2>3, Parts, OwnJobStep
<1>3. CASE job.stage # "off"
  <2>1. job' = job
    BY <1>3 DEF FetchLastMetricSnapshot, At
  <2>2. JobFits'
    BY <1>1, <2>1, Parts DEF JobFits, Accounted
  <2> QED
    BY <1>1, <2>1, <2>2, Parts, OwnJobStep
<1> QED
  BY <1>2, <1>3

\* No snapshot is of today, unless the run ends.
LEMMA ReadLatestIInv ==
  ASSUME IInv, UNCHANGED dealVars, World, ReadLatest
  PROVE  IInv'
<1>1. /\ UNCHANGED <<day, providers, tests, active>> /\ midnight' \in BOOLEAN
      /\ UNCHANGED <<snapshots, values, unanswered>> /\ events' \in 0..MaxEvents
  BY Parts DEF World, ReadLatest
<1>2. CASE SkipToday
  BY <1>1, <1>2, Parts, EndJobIInv DEF ReadLatest
<1>3. CASE ~SkipToday
  <2>1. job' = [job EXCEPT !.stage = "providers"]
    BY <1>3 DEF ReadLatest, Goto
  <2>2. job' \in Job /\ job'.stage = "providers"
    BY <2>1, Parts DEF Job
  <2>3. \A s \in snapshots : s.date < day
    <3> SUFFICES ASSUME NEW s \in snapshots PROVE s.date < day
      OBVIOUS
    <3> DEFINE D == {t.date : t \in snapshots}
    <3>1. D \in SUBSET Days /\ D # {} /\ s.date \in D
      BY Parts DEF Snapshot
    <3>2. Max(D) \in D /\ Max(D) >= s.date
      BY <3>1, MaxIs
    <3>3. Max(D) # day
      BY <1>3 DEF SkipToday
    <3>4. Max(D) <= day /\ Max(D) \in Nat
      BY <3>2, Parts DEF OnePerDay
    <3> HIDE DEF D
    <3> QED
      BY <3>2, <3>3, <3>4, Parts
  <2>4. JobFits'
    BY <1>1, <2>2, <2>3 DEF JobFits
  <2> QED
    BY <1>1, <2>2, <2>4, Parts, OwnJobStep
<1> QED
  BY <1>2, <1>3

\* The date of the snapshots is of a day that has none.
LEMMA ReadProvidersIInv ==
  ASSUME IInv, UNCHANGED dealVars, World, ReadProviders
  PROVE  IInv'
<1>1. /\ UNCHANGED <<day, providers, tests, active>> /\ midnight' \in BOOLEAN
      /\ UNCHANGED <<snapshots, values, unanswered>> /\ events' \in 0..MaxEvents
  BY Parts DEF World, ReadProviders
<1>2. CASE providers = {}
  BY <1>1, <1>2, Parts, EndJobIInv DEF ReadProviders
<1>3. CASE providers # {}
  <2>1. job' = [stage |-> "fetch", date |-> day, left |-> providers, rows |-> {}]
    BY <1>3 DEF ReadProviders
  <2>2. job' \in Job
    BY <2>1, Parts DEF Job
  <2>3. job'.stage = "fetch" /\ job'.date = day /\ job'.left = providers /\ job'.rows = {}
    BY <2>1
  <2>4. \A s \in snapshots : s.date < day
    BY Parts DEF ReadProviders, At, JobFits
  <2>5. JobFits'
    BY <1>1, <2>3, <2>4, Parts DEF JobFits
  <2> QED
    BY <1>1, <2>2, <2>5, Parts, OwnJobStep
<1> QED
  BY <1>2, <1>3

\* A chunk is dealt with: every provider in it is accounted for.
LEMMA FetchedIInv ==
  ASSUME IInv, UNCHANGED dealVars, UNCHANGED <<day, providers, tests, active>>,
         events' \in 0..MaxEvents, UNCHANGED <<midnight, snapshots, values>>,
         unanswered \subseteq unanswered', unanswered' \subseteq (Providers \X Days),
         job.stage = "fetch", NEW chunk \in SUBSET job.left, NEW rows \in SUBSET Answered,
         Fetched(job.left \ chunk, rows),
         job.rows \subseteq rows, \A a \in rows : a \in job.rows \/ a.provider \in chunk,
         \A a, b \in rows : a.provider = b.provider => a = b,
         \A p \in chunk : \/ \E a \in rows : a.provider = p
                          \/ <<p, job.date>> \in unanswered'
                          \/ \A t \in tests[p] : t >= job.date
  PROVE  IInv'
<1> DEFINE left == job.left \ chunk
<1>1. /\ job \in Job /\ providers \subseteq Providers
      /\ job.date \in Days /\ job.date <= day /\ \A s \in snapshots : s.date < job.date
      /\ job.left \subseteq providers
      /\ \A a \in job.rows : a.provider \in providers \ job.left
      /\ \A p \in providers \ job.left : Accounted(p)
  BY Parts DEF JobFits
<1>2. CASE job' = NoJob
  BY <1>2, Parts, EndJobIInv
<1>3. ASSUME NEW stage \in {"fetch", "store"}, stage = "store" => left = {},
             job' = [job EXCEPT !.left = left, !.rows = rows, !.stage = stage]
      PROVE  IInv'
  <2>1. left \in SUBSET Providers
    BY <1>1
  <2>2. /\ job' \in Job
        /\ job'.stage = stage /\ job'.left = left /\ job'.rows = rows /\ job'.date = job.date
    <3> HIDE DEF left
    <3> QED
      BY <1>1, <1>3, <2>1 DEF Job
  <2>3. \A a \in rows : a.provider \in providers \ left
    BY <1>1
  <2>4. \A p \in providers \ left : Accounted(p)'
    <3> SUFFICES ASSUME NEW p \in providers \ left PROVE Accounted(p)'
      OBVIOUS
    <3>1. CASE p \in chunk
      BY <2>2, <3>1 DEF Accounted
    <3>2. CASE p \notin job.left
      <4>1. Accounted(p)
        BY <1>1, <3>2
      <4> QED
        BY <2>2, <4>1 DEF Accounted
    <3> QED
      BY <3>1, <3>2
  <2>5. left \subseteq providers
    BY <1>1
  <2> HIDE DEF left
  <2>6. JobFits'
    BY <1>1, <1>3, <2>2, <2>3, <2>4, <2>5 DEF JobFits
  <2> QED
    BY <2>2, <2>6, Parts, OwnJobStep
<1>4. CASE left # {}
  <2>1. job' = [job EXCEPT !.left = left, !.rows = rows]
    BY <1>4 DEF Fetched
  <2>2. job' = [job EXCEPT !.left = left, !.rows = rows, !.stage = "fetch"]
    <3> HIDE DEF left
    <3> QED
      BY <1>1, <2>1 DEF Job
  <2> QED
    BY <1>3, <2>2
<1>5. CASE left = {} /\ rows # {}
  <2>1. job' = [job EXCEPT !.left = left, !.rows = rows, !.stage = "store"]
    BY <1>5 DEF Fetched
  <2> QED
    BY <1>3, <1>5, <2>1
<1>6. CASE left = {} /\ rows = {}
  BY <1>2, <1>6 DEF Fetched
<1> QED
  BY <1>4, <1>5, <1>6

\* The next chunk of the run is a part of the providers it has left.
LEMMA NextChunkOfJob ==
  ASSUME IInv, job.stage = "fetch"
  PROVE  NextChunk(job.left, ChunkSize) \in SUBSET job.left
<1>1. job.left \subseteq Providers
  BY Parts DEF JobFits
<1>2. IsFiniteSet(job.left) /\ ChunkSize \in Nat \ {0}
  BY <1>1, ConstantsAssumption, FS_Subset
<1> QED
  BY <1>2, ChunkIs

\* The answers: one test of each provider in the chunk that has been tested.
LEMMA FetchInBulkIInv ==
  ASSUME IInv, UNCHANGED dealVars, World, FetchInBulk
  PROVE  IInv'
<1> DEFINE chunk == NextChunk(job.left, ChunkSize)
<1>1. /\ UNCHANGED <<day, providers, tests, active>> /\ events' \in 0..MaxEvents
      /\ UNCHANGED <<midnight, snapshots, values, unanswered>> /\ job.stage = "fetch"
  BY Parts DEF World, FetchInBulk, At
<1>2. PICK answer \in Answers(chunk) : Fetched(job.left \ chunk, job.rows \cup answer)
  BY DEF FetchInBulk
<1>3. chunk \in SUBSET job.left
  BY <1>1, NextChunkOfJob
<1> HIDE DEF chunk
<1>4. /\ job \in Job /\ job.left \subseteq providers /\ providers \subseteq Providers
      /\ \A a \in job.rows : a.provider \in providers \ job.left
      /\ \A a, b \in job.rows : a.provider = b.provider => a = b
  BY <1>1, Parts DEF JobFits
<1>5. /\ answer \in SUBSET Answered /\ \A a \in answer : a.provider \in chunk
      /\ \A p \in chunk : Cardinality({a \in answer : a.provider = p}) = IF tests[p] = {} THEN 0 ELSE 1
  BY <1>2 DEF Answers
<1>6. \A p \in chunk : \/ tests[p] = {}
                       \/ \E a \in answer : {b \in answer : b.provider = p} = {a}
  <2> SUFFICES ASSUME NEW p \in chunk, tests[p] # {}
               PROVE  \E a \in answer : {b \in answer : b.provider = p} = {a}
    OBVIOUS
  <2> DEFINE of == {b \in answer : b.provider = p}
  <2>1. IsFiniteSet(of)
    <3>1. IsFiniteSet(Providers \X Days)
      BY ConstantsAssumption, DaysTyped, FS_Product
    <3>2. [b \in of |-> <<b.provider, b.tested>>] \in Injection(of, Providers \X Days)
      BY <1>5 DEF Answered, Injection, IsInjective
    <3> QED
      BY <3>1, <3>2, FS_Injection
  <2>2. Cardinality(of) = 1
    BY <1>5
  <2>3. PICK a : of = {a}
    BY <2>1, <2>2, FS_Singleton
  <2> QED
    BY <2>3
<1>7. \A a, b \in answer : a.provider = b.provider => a = b
  <2> SUFFICES ASSUME NEW a \in answer, NEW b \in answer, a.provider = b.provider PROVE a = b
    OBVIOUS
  <2>1. a.provider \in chunk /\ a \in {x \in answer : x.provider = a.provider}
        /\ b \in {x \in answer : x.provider = a.provider}
    BY <1>5
  <2>2. CASE tests[a.provider] = {}
    <3>1. Cardinality({x \in answer : x.provider = a.provider}) = 0
      BY <1>5, <2>1, <2>2
    <3>2. IsFiniteSet({x \in answer : x.provider = a.provider})
      <4>1. {x \in answer : x.provider = a.provider} \subseteq {[provider |-> a.provider, tested |-> t] : t \in Days}
        BY <1>5 DEF Answered
      <4>2. [x \in {x \in answer : x.provider = a.provider} |-> x.tested]
              \in Injection({x \in answer : x.provider = a.provider}, Days)
        BY <1>5 DEF Answered, Injection, IsInjective
      <4> QED
        BY <4>2, DaysTyped, FS_Injection
    <3> QED
      BY <2>1, <3>1, <3>2, FS_EmptySet
  <2> QED
    BY <1>6, <2>1, <2>2
<1> DEFINE rows == job.rows \cup answer
<1>8. rows \in SUBSET Answered
  BY <1>4, <1>5 DEF Job
<1>9. \A a, b \in rows : a.provider = b.provider => a = b
  BY <1>3, <1>4, <1>5, <1>7
<1>10. \A p \in chunk : \/ \E a \in rows : a.provider = p
                        \/ <<p, job.date>> \in unanswered'
                        \/ \A t \in tests[p] : t >= job.date
  <2> SUFFICES ASSUME NEW p \in chunk, tests[p] # {} PROVE \E a \in rows : a.provider = p
    OBVIOUS
  <2>1. PICK a \in answer : {b \in answer : b.provider = p} = {a}
    BY <1>6
  <2> QED
    BY <2>1
<1>11. /\ job.rows \subseteq rows /\ \A a \in rows : a \in job.rows \/ a.provider \in chunk
       /\ Fetched(job.left \ chunk, rows)
  BY <1>2, <1>5
<1>12. unanswered \subseteq unanswered' /\ unanswered' \subseteq (Providers \X Days)
  BY <1>1, Parts
<1> HIDE DEF rows
<1>13. UNCHANGED <<day, providers, tests, active>> /\ UNCHANGED <<midnight, snapshots, values>>
  BY <1>1
<1> QED
  BY <1>1, <1>3, <1>8, <1>9, <1>10, <1>11, <1>12, <1>13, FetchedIInv

\* No answer: the providers in the chunk are remembered as unanswered.
LEMMA FetchRejectedIInv ==
  ASSUME IInv, UNCHANGED dealVars, UNCHANGED <<day, providers, tests, active>>,
         events' \in 0..MaxEvents, FetchRejected
  PROVE  IInv'
<1> DEFINE chunk == NextChunk(job.left, ChunkSize)
<1>1. /\ UNCHANGED <<midnight, snapshots, values>> /\ job.stage = "fetch"
      /\ Fetched(job.left \ chunk, job.rows)
      /\ unanswered' = unanswered \cup (chunk \X {job.date})
  BY DEF FetchRejected, At
<1>2. chunk \in SUBSET job.left
  BY <1>1, NextChunkOfJob
<1> HIDE DEF chunk
<1>3. /\ job \in Job /\ job.left \subseteq Providers /\ job.date \in Days
      /\ \A a, b \in job.rows : a.provider = b.provider => a = b
      /\ unanswered \subseteq (Providers \X Days)
  BY <1>1, Parts DEF JobFits
<1>4. unanswered \subseteq unanswered' /\ unanswered' \subseteq (Providers \X Days)
  BY <1>1, <1>2, <1>3
<1>5. \A p \in chunk : <<p, job.date>> \in unanswered'
  BY <1>1
<1>6. job.rows \in SUBSET Answered
  BY <1>3 DEF Job
<1> QED
  BY <1>1, <1>2, <1>3, <1>4, <1>5, <1>6, FetchedIInv

\* A day is stored: one snapshot of every provider that was answered for, and of every
\* test that is new its values.
LEMMA StoreSnapshotMetricsIInv ==
  ASSUME IInv, UNCHANGED dealVars, World, StoreSnapshotMetrics
  PROVE  IInv'
<1> DEFINE date == job.date
           of(row) == [provider |-> row.provider, date |-> date, tested |-> row.tested]
           new == NewSnapshots
           some == {v \in UNION {ValuesOf(row) : row \in job.rows} : ~Duplicate(v)}
<1>1. /\ UNCHANGED <<day, providers, tests, active, midnight, unanswered>> /\ events' \in 0..MaxEvents
      /\ job.stage = "store" /\ job' = NoJob /\ midnight' \in BOOLEAN
  BY Parts DEF World, StoreSnapshotMetrics, At
<1>2. /\ job \in Job /\ providers \subseteq Providers /\ date \in Days /\ date <= day
      /\ \A s \in snapshots : s.date < date
      /\ job.left = {} /\ \A a \in job.rows : a.provider \in providers /\ a.tested \in Days
      /\ \A a, b \in job.rows : a.provider = b.provider => a = b
      /\ \A p \in providers : Accounted(p)
  BY <1>1, Parts DEF JobFits, Job, Answered
<1>3. CASE ~Unique
  <2>1. UNCHANGED <<snapshots, values>>
    BY <1>3 DEF StoreSnapshotMetrics
  <2> QED
    BY <1>1, <2>1, Parts, EndJobIInv
<1>4. CASE Unique
  <2>1. snapshots' = snapshots \cup new /\ values' = values \cup some
    BY <1>4 DEF StoreSnapshotMetrics
  <2>2. /\ new = {of(row) : row \in job.rows}
        /\ \A s \in new : /\ s.date = date
                          /\ \E row \in job.rows : row.provider = s.provider /\ row.tested = s.tested
        /\ \A row \in job.rows : /\ of(row) \in new /\ of(row).provider = row.provider
                                 /\ of(row).tested = row.tested /\ of(row).date = date
    BY DEF NewSnapshots
  <2>3. \A s \in new : s \in Snapshot
    BY <1>2, <2>2 DEF Snapshot
  <2>4. \A s, t \in new : s.provider = t.provider => s = t
    BY <1>2, <2>2
  <2>5. \A v : v \in some <=>
           /\ \E row \in job.rows : \E m \in MetricsOf(row.provider, row.tested) :
                v = [provider |-> row.provider, metric |-> m, tested |-> row.tested, of |-> date]
           /\ ~Duplicate(v)
    BY DEF ValuesOf, MetricsOf
  <2>6. \A v \in some : v \in Value
    <3>1. \A row \in job.rows : MetricsOf(row.provider, row.tested) \subseteq BaseMetrics \cup PerformanceMetrics
      BY DEF MetricsOf
    <3> HIDE DEF some
    <3> QED
      BY <1>2, <2>5, <3>1 DEF Value
  <2> HIDE DEF new, some
  <2>7. snapshots' \subseteq Snapshot /\ values' \subseteq Value
    BY <2>1, <2>3, <2>6, Parts
  <2>8. OnePerDay'
    <3>1. \A s \in snapshots' : s.date <= day
      BY <1>2, <2>1, <2>2, Parts DEF OnePerDay
    <3>2. ASSUME NEW s \in snapshots', NEW t \in snapshots', s.provider = t.provider, s.date = t.date
          PROVE  s = t
      <4>1. CASE s \in snapshots /\ t \in snapshots
        BY <3>2, <4>1, Parts DEF OnePerDay
      <4>2. CASE s \in new /\ t \in new
        BY <2>4, <3>2, <4>2
      <4>3. \A x \in snapshots, y \in new : x.date # y.date
        BY <1>2, <2>2, Parts
      <4> QED
        BY <2>1, <3>2, <4>1, <4>2, <4>3
    <3> QED
      BY <1>1, <3>1, <3>2 DEF OnePerDay
  <2>9. DaysFilled'
    <3> SUFFICES ASSUME NEW s \in snapshots', NEW p \in providers, NEW t \in tests[p], t < s.date
                 PROVE  \/ \E r \in snapshots' : r.provider = p /\ r.date = s.date
                        \/ <<p, s.date>> \in unanswered
      BY <1>1 DEF DaysFilled
    <3>1. CASE s \in snapshots
      BY <2>1, <3>1, Parts DEF DaysFilled
    <3>2. CASE s \in new
      <4>1. s.date = date /\ Accounted(p)
        BY <1>2, <2>2, <3>2
      <4>2. CASE \E row \in job.rows : row.provider = p
        BY <2>1, <2>2, <4>1, <4>2
      <4>3. ~(t >= date)
        <5>1. p \in Providers /\ t \in Nat /\ date \in Nat
          BY <1>2, Parts, DaysTyped
        <5> QED
          BY <4>1, <5>1
      <4> QED
        BY <4>1, <4>2, <4>3 DEF Accounted
    <3> QED
      BY <2>1, <3>1, <3>2
  <2>10. ValuesFit'
    <3>1. ASSUME NEW v \in some
          PROVE  /\ \E s \in new : s.provider = v.provider /\ s.tested = v.tested /\ s.date = v.of
                 /\ v.of = date
                 /\ \A s \in snapshots : ~(s.provider = v.provider /\ s.tested = v.tested)
      <4>1. PICK row \in job.rows : \E m \in MetricsOf(row.provider, row.tested) :
              v = [provider |-> row.provider, metric |-> m, tested |-> row.tested, of |-> date]
        BY <2>5
      <4>2. /\ v.provider = row.provider /\ v.tested = row.tested /\ v.of = date
            /\ v.metric \in MetricsOf(row.provider, row.tested)
        BY <4>1
      <4>3. ~Duplicate(v)
        BY <2>5
      <4>4. \A s \in snapshots : ~(s.provider = v.provider /\ s.tested = v.tested)
        BY <4>2, <4>3, Parts DEF Duplicate, ValuesFit
      <4> QED
        BY <2>2, <4>2, <4>4
    <3>2. \A v \in values' :
            /\ \E s \in snapshots' : s.provider = v.provider /\ s.tested = v.tested /\ s.date = v.of
            /\ \A s \in snapshots' : s.provider = v.provider /\ s.tested = v.tested => v.of <= s.date
      <4> SUFFICES ASSUME NEW v \in values'
                   PROVE  /\ \E s \in snapshots' : s.provider = v.provider /\ s.tested = v.tested /\ s.date = v.of
                          /\ \A s \in snapshots' : s.provider = v.provider /\ s.tested = v.tested => v.of <= s.date
        OBVIOUS
      <4>1. CASE v \in values
        <5>1. /\ \E s \in snapshots : s.provider = v.provider /\ s.tested = v.tested /\ s.date = v.of
              /\ \A s \in snapshots : s.provider = v.provider /\ s.tested = v.tested => v.of <= s.date
          BY <4>1, Parts DEF ValuesFit
        <5>2. v.of < date /\ v.of \in Nat /\ date \in Nat
          BY <1>2, <4>1, <5>1, Parts, DaysTyped
        <5>3. \A s \in new : v.of <= s.date
          BY <2>2, <5>2
        <5> QED
          BY <2>1, <5>1, <5>3
      <4>2. CASE v \in some
        <5>1. date <= date
          <6>1. date \in Nat
            BY <1>2, DaysTyped
          <6> HIDE DEF date
          <6> QED
            BY <6>1
        <5>2. v.of = date /\ \A s \in snapshots' : s \in snapshots \/ s.date = date
          BY <2>1, <2>2, <3>1, <4>2
        <5> HIDE DEF date
        <5> QED
          BY <2>1, <3>1, <4>2, <5>1, <5>2
      <4> QED
        BY <2>1, <4>1, <4>2
    <3>3. ASSUME NEW v \in values', NEW w \in values',
                 v.provider = w.provider, v.metric = w.metric, v.tested = w.tested
          PROVE  v = w
      <4>1. CASE v \in values /\ w \in values
        BY <3>3, <4>1, Parts DEF ValuesFit
      <4>2. CASE v \in some /\ w \in some
        BY <2>5, <3>3, <4>2
      <4>3. \A x \in values, y \in some :
               ~(x.provider = y.provider /\ x.metric = y.metric /\ x.tested = y.tested)
        BY <2>5 DEF Duplicate
      <4> QED
        BY <2>1, <3>3, <4>1, <4>2, <4>3
    <3>4. ASSUME NEW s \in snapshots', NEW m \in MetricsOf(s.provider, s.tested)
          PROVE  \E v \in values' : v.provider = s.provider /\ v.metric = m /\ v.tested = s.tested
      <4>1. CASE s \in snapshots
        BY <2>1, <3>4, <4>1, Parts DEF ValuesFit
      <4>2. CASE s \in new
        <5>1. PICK row \in job.rows : row.provider = s.provider /\ row.tested = s.tested
          BY <2>2, <4>2
        <5> DEFINE v == [provider |-> row.provider, metric |-> m, tested |-> row.tested, of |-> date]
        <5>2. v.provider = s.provider /\ v.metric = m /\ v.tested = s.tested
          BY <5>1
        <5>3. m \in MetricsOf(row.provider, row.tested)
          BY <5>1
        <5>4. CASE Duplicate(v)
          <6> HIDE DEF v
          <6> QED
            BY <2>1, <5>2, <5>4 DEF Duplicate
        <5>5. CASE ~Duplicate(v)
          <6>1. v \in some
            BY <2>5, <5>3, <5>5
          <6> HIDE DEF v
          <6> QED
            BY <2>1, <5>2, <6>1
        <5> QED
          BY <5>4, <5>5
      <4> QED
        BY <2>1, <4>1, <4>2
    <3> QED
      BY <3>2, <3>3, <3>4 DEF ValuesFit, MetricsOf
  <2>11. JobFits'
    BY <1>1 DEF JobFits, NoJob
  <2>12. ProvidersInv'
    BY <2>8, <2>9, <2>10, <2>11 DEF ProvidersInv
  <2> QED
    BY <1>1, <2>7, <2>12, NoRunTyped, Parts, JobStep
<1> QED
  BY <1>3, <1>4

-----------------------------------------------------------------------------
(* The runner of deal snapshots *)

\* Snapshots of other deals, or of that date and later, are in no window before the date.
LEMMA HistoryKept ==
  ASSUME NEW S, NEW N, NEW d, NEW date, NEW share, FromHistory(S, d, date, share),
         \A r \in N : r.deal = d => ~(r.date < date)
  PROVE  FromHistory(S \cup N, d, date, share)
<1>1. \A first \in (date - Window - 1)..(date - Window + 1) : Before(S \cup N, d, date, first) = Before(S, d, date, first)
  BY DEF Before
<1> QED
  BY <1>1 DEF FromHistory

\* A step of the runner that stores nothing.
LEMMA OwnRunnerStep ==
  ASSUME IInv, UNCHANGED providerVars, UNCHANGED <<day, providers, tests, active>>,
         events' \in 0..MaxEvents, UNCHANGED dealSnapshots, runner' \in Runner, RunnerFits'
  PROVE  IInv'
<1>1. DealsInv'
  BY DEF IInv, DealsInv, DealDates, OnePerDealDay, SharesFromHistory
<1> QED
  BY <1>1, Parts, RunnerStep

\* The run ends, well or not.
LEMMA EndRunIInv ==
  ASSUME IInv, UNCHANGED providerVars, UNCHANGED <<day, providers, tests, active>>,
         events' \in 0..MaxEvents, UNCHANGED dealSnapshots, runner' = NoRunner
  PROVE  IInv'
<1>1. RunnerFits'
  BY DEF RunnerFits, NoRunner
<1> QED
  BY <1>1, NoRunTyped, OwnRunnerStep

\* The aggregation starts the runner.
LEMMA RunIInv ==
  ASSUME IInv, UNCHANGED providerVars, World, Run
  PROVE  IInv'
<1>1. runner' = [NoRunner EXCEPT !.stage = "latest"] /\ UNCHANGED dealSnapshots
      /\ UNCHANGED <<day, providers, tests, active>> /\ events' \in 0..MaxEvents
  BY Parts DEF World, Run
<1>2. runner'.stage = "latest"
  BY <1>1 DEF NoRunner
<1>3. runner' \in Runner
  <2> DEFINE r == NoRunner
  <2>1. r \in Runner
    BY NoRunTyped
  <2>2. runner' = [r EXCEPT !.stage = "latest"]
    BY <1>1
  <2> HIDE DEF r
  <2> QED
    BY <2>1, <2>2 DEF Runner
<1>4. RunnerFits'
  BY <1>2 DEF RunnerFits
<1> QED
  BY <1>1, <1>3, <1>4, OwnRunnerStep

\* The latest date of every deal is read.
LEMMA ReadLatestPerDealIInv ==
  ASSUME IInv, UNCHANGED providerVars, World, ReadLatestPerDeal
  PROVE  IInv'
<1>1. runner' = [runner EXCEPT !.stage = "active", !.latest = LatestDates] /\ UNCHANGED dealSnapshots
      /\ UNCHANGED <<day, providers, tests, active>> /\ events' \in 0..MaxEvents
  BY Parts DEF World, ReadLatestPerDeal
<1>2. ASSUME NEW d \in Deals
      PROVE  /\ LatestDates[d] \in Days \cup {None} /\ LatestDates[d] <= day
             /\ \A s \in dealSnapshots : s.deal = d => s.date <= LatestDates[d]
  <2> DEFINE D == {s.date : s \in SnapshotsOf(d)}
  <2>1. D \in SUBSET Days /\ \A x \in D : x <= day /\ x \in Nat
    BY Parts DEF SnapshotsOf, DealDates
  <2>2. \A s \in dealSnapshots : s.deal = d => s.date \in D /\ SnapshotsOf(d) # {}
    BY DEF SnapshotsOf
  <2>3. CASE SnapshotsOf(d) = {}
    BY <2>2, <2>3, Parts DEF LatestDates, None
  <2>4. CASE SnapshotsOf(d) # {}
    <3>1. D # {} /\ LatestDates[d] = Max(D)
      BY <2>4 DEF LatestDates
    <3> HIDE DEF D
    <3>2. Max(D) \in D /\ \A y \in D : Max(D) >= y
      BY <2>1, <3>1, MaxIs
    <3>3. \A y \in D : y <= Max(D)
      BY <2>1, <3>2
    <3> QED
      BY <2>1, <2>2, <3>1, <3>2, <3>3
  <2> QED
    BY <2>3, <2>4
<1>3. LatestDates \in [Deals -> Days \cup {None}]
  BY <1>2 DEF LatestDates
<1> DEFINE latest == LatestDates
<1>4. latest \in [Deals -> Days \cup {None}]
  BY <1>3
<1>5. runner' = [runner EXCEPT !.stage = "active", !.latest = latest]
  BY <1>1
<1>6. /\ \A d \in Deals : latest[d] <= day
      /\ \A s \in dealSnapshots : s.date <= latest[s.deal]
  BY <1>2, Parts
<1> HIDE DEF latest
<1>7. runner' \in Runner /\ runner'.stage = "active" /\ runner'.latest = latest
  BY <1>4, <1>5, Parts DEF Runner
<1>8. RunnerFits'
  BY <1>1, <1>6, <1>7 DEF RunnerFits
<1> QED
  BY <1>1, <1>7, <1>8, OwnRunnerStep

\* The deals to do have no snapshot of today.
LEMMA ReadActiveDealsIInv ==
  ASSUME IInv, UNCHANGED providerVars, World, ReadActiveDeals
  PROVE  IInv'
<1> DEFINE left == {d \in active : Due(d)}
<1>1. runner' = [runner EXCEPT !.stage = "types", !.left = left] /\ UNCHANGED dealSnapshots
      /\ UNCHANGED <<day, providers, tests, active>> /\ events' \in 0..MaxEvents
      /\ runner.stage = "active"
  BY Parts DEF World, ReadActiveDeals, RunnerAt
<1>2. left \in SUBSET Deals
  BY Parts
<1>3. \A s \in dealSnapshots : s.deal \in left => s.date < day
  <2> SUFFICES ASSUME NEW s \in dealSnapshots, s.deal \in left PROVE s.date < day
    OBVIOUS
  <2> DEFINE l == runner.latest[s.deal]
  <2>1. s.date <= l /\ l <= day /\ l # day
    BY <1>1, Parts DEF RunnerFits, Due
  <2>2. l \in Int
    <3>1. l \in Days \cup {None}
      BY Parts DEF Runner
    <3> HIDE DEF l
    <3> QED
      BY <3>1, DaysTyped DEF None
  <2>3. s.date \in Nat /\ day \in Nat
    BY Parts
  <2> HIDE DEF l
  <2> QED
    BY <2>1, <2>2, <2>3
<1> HIDE DEF left
<1>4. runner' \in Runner /\ runner'.stage = "types" /\ runner'.left = left
  BY <1>1, <1>2, Parts DEF Runner
<1>5. RunnerFits'
  BY <1>1, <1>3, <1>4 DEF RunnerFits
<1> QED
  BY <1>1, <1>4, <1>5, OwnRunnerStep

\* The window is computed.
LEMMA EnsureDealSLITypesExistIInv ==
  ASSUME IInv, UNCHANGED providerVars, World, EnsureDealSLITypesExist
  PROVE  IInv'
<1>1. runner' = [runner EXCEPT !.stage = "counts", !.from = day - Window] /\ UNCHANGED dealSnapshots
      /\ UNCHANGED <<day, providers, tests, active>> /\ events' \in 0..MaxEvents
      /\ runner.stage = "types"
  BY Parts DEF World, EnsureDealSLITypesExist, RunnerAt
<1>2. day - Window \in Int /\ day - Window \in (day - Window - 1)..(day - Window)
  BY Parts, DaysTyped
<1>3. /\ runner' \in Runner /\ runner'.stage = "counts" /\ runner'.from = day - Window
      /\ runner'.left = runner.left
  BY <1>1, <1>2, Parts DEF Runner
<1>4. RunnerFits'
  BY <1>1, <1>2, <1>3, Parts DEF RunnerFits
<1> QED
  BY <1>1, <1>3, <1>4, OwnRunnerStep

\* A deal without a snapshot of today has at most one for every day before.
LEMMA CountsTyped ==
  ASSUME IInv, NEW d \in Deals, NEW first, \A s \in dealSnapshots : s.deal = d => s.date < day
  PROVE  IndexingShare(d, first) \in Share
<1> DEFINE C == Counted(d, first)
           T == {s \in C : s.success}
           f == [s \in C |-> s.date]
<1>1. /\ day \in Nat /\ day <= MaxDay /\ MaxDay \in Nat
      /\ \A s \in C : s \in dealSnapshots /\ s.deal = d /\ s.date \in Nat /\ s.date < day
  BY Parts, DaysTyped DEF Counted, SnapshotsOf
<1>2. \A s, t \in C : s.date = t.date => s = t
  BY <1>1, Parts DEF OnePerDealDay
<1>3. f \in Injection(C, 0..(day - 1))
  <2>1. \A s \in C : s.date \in 0..(day - 1)
    BY <1>1
  <2> HIDE DEF C
  <2> QED
    BY <1>2, <2>1 DEF Injection, IsInjective
<1>4. IsFiniteSet(0..(day - 1)) /\ Cardinality(0..(day - 1)) = day
  <2>1. 0 \in Int /\ day - 1 \in Int
    BY <1>1
  <2>2. /\ IsFiniteSet(0..(day - 1))
        /\ Cardinality(0..(day - 1)) = IF 0 > day - 1 THEN 0 ELSE (day - 1) - 0 + 1
    BY <2>1, FS_Interval
  <2> QED
    BY <1>1, <2>2
<1>5. IsFiniteSet(C) /\ Cardinality(C) <= day
  <2> HIDE DEF C, f
  <2> QED
    BY <1>3, <1>4, FS_Injection
<1>6. IsFiniteSet(T) /\ Cardinality(T) <= Cardinality(C)
  <2>1. T \subseteq C
    OBVIOUS
  <2> HIDE DEF C, T
  <2> QED
    BY <1>5, <2>1, FS_Subset
<1>7. Cardinality(C) \in Nat /\ Cardinality(T) \in Nat
  BY <1>5, <1>6, FS_CardinalityType
<1>8. IndexingShare(d, first) = <<Cardinality(T), Cardinality(C)>>
  BY DEF IndexingShare
<1> DEFINE nc == Cardinality(C)
           nt == Cardinality(T)
<1>9. nc \in Nat /\ nt \in Nat /\ nc <= day /\ nt <= nc /\ IndexingShare(d, first) = <<nt, nc>>
  BY <1>5, <1>6, <1>7, <1>8
<1> HIDE DEF nc, nt
<1>10. nc \in 0..MaxDay /\ nt \in 0..MaxDay
  BY <1>1, <1>9
<1> QED
  BY <1>9, <1>10 DEF Share

\* The shares are read, of the histories up to the date of the snapshots.
LEMMA ReadCountsIInv ==
  ASSUME IInv, UNCHANGED providerVars, World, ReadCounts
  PROVE  IInv'
<1>1. UNCHANGED dealSnapshots /\ UNCHANGED <<day, providers, tests, active>> /\ events' \in 0..MaxEvents
      /\ runner.stage = "counts" /\ runner \in Runner /\ day \in Days /\ day \in Nat
  BY Parts DEF World, ReadCounts, RunnerAt
<1>2. /\ \A s \in dealSnapshots : s.deal \in runner.left => s.date < day
      /\ runner.from \in (day - Window - 1)..(day - Window) /\ runner.left \subseteq Deals
  BY <1>1, Parts DEF RunnerFits, Runner
<1>3. PICK first \in {runner.from, runner.from + 1} :
        runner' = IF runner.left = {} THEN NoRunner
                 ELSE [runner EXCEPT !.stage = "slices", !.date = day,
                         !.indexing = [d \in Deals |-> IF d \in runner.left THEN IndexingShare(d, first) ELSE Null]]
  BY DEF ReadCounts
<1>4. first \in (day - Window - 1)..(day - Window + 1)
  BY <1>1, <1>2, DaysTyped
<1>5. CASE runner.left = {}
  BY <1>1, <1>3, <1>5, EndRunIInv
<1>6. CASE runner.left # {}
  <2> DEFINE shares == [d \in Deals |-> IF d \in runner.left THEN IndexingShare(d, first) ELSE Null]
  <2>1. \A d \in runner.left : IndexingShare(d, first) \in Share
    BY <1>2, CountsTyped
  <2>2. Null \in Share
    BY DaysTyped DEF Null, Share
  <2>3. shares \in [Deals -> Share]
    BY <2>1, <2>2
  <2>4. \A d \in runner.left : shares[d] = IndexingShare(d, first)
    BY <1>2
  <2>5. runner' = [runner EXCEPT !.stage = "slices", !.date = day, !.indexing = shares]
    BY <1>3, <1>6
  <2> HIDE DEF shares
  <2>6. /\ runner' \in Runner /\ runner'.stage = "slices" /\ runner'.date = day
        /\ runner'.left = runner.left /\ runner'.indexing = shares
    BY <1>1, <2>3, <2>5 DEF Runner
  <2>7. \A d \in runner.left : FromHistory(dealSnapshots, d, day, shares[d])
    <3> SUFFICES ASSUME NEW d \in runner.left PROVE FromHistory(dealSnapshots, d, day, shares[d])
      OBVIOUS
    <3>1. Counted(d, first) = Before(dealSnapshots, d, day, first)
      BY <1>2 DEF Counted, SnapshotsOf, Before
    <3>2. shares[d] = ShareOf(Before(dealSnapshots, d, day, first))
      BY <2>4, <3>1 DEF IndexingShare, ShareOf
    <3> QED
      BY <1>4, <3>2 DEF FromHistory
  <2>8. day <= day
    BY <1>1
  <2>9. RunnerFits'
    BY <1>1, <1>2, <2>6, <2>7, <2>8 DEF RunnerFits
  <2> QED
    BY <1>1, <2>6, <2>9, OwnRunnerStep
<1> QED
  BY <1>5, <1>6

\* A slice is stored: its snapshots are the first of their deals on that date, and later
\* than all the others.
LEMMA SliceStored ==
  ASSUME IInv, UNCHANGED day, runner.stage = "slices", NEW slice \in SUBSET runner.left, NEW successes,
         dealSnapshots' = dealSnapshots \cup SliceRows(slice, successes)
  PROVE  /\ dealSnapshots' \subseteq DealSnapshot
         /\ DealDates' /\ OnePerDealDay' /\ SharesFromHistory'
         /\ \A s \in dealSnapshots' : s \in dealSnapshots \/ s.deal \in slice
         /\ \A d \in runner.left \ slice : FromHistory(dealSnapshots', d, runner.date, runner.indexing[d])
<1> DEFINE date == runner.date
           new == SliceRows(slice, successes)
<1>1. /\ runner \in Runner /\ runner.left \subseteq Deals /\ date \in Days /\ date <= day /\ date \in Nat
      /\ \A s \in dealSnapshots : s.deal \in runner.left => s.date < date
      /\ \A d \in runner.left : FromHistory(dealSnapshots, d, date, runner.indexing[d])
  BY Parts, DaysTyped DEF RunnerFits, Runner
<1>2. \A s \in new : /\ s \in DealSnapshot /\ s.deal \in slice /\ s.date = date
                     /\ s.indexing = runner.indexing[s.deal]
  <2>1. \A d \in slice : runner.indexing[d] \in Share /\ d \in Deals
    BY <1>1 DEF Runner
  <2> SUFFICES ASSUME NEW s \in new
               PROVE  /\ s \in DealSnapshot /\ s.deal \in slice /\ s.date = date
                      /\ s.indexing = runner.indexing[s.deal]
    OBVIOUS
  <2>2. PICK d \in slice :
          s = [deal |-> d, date |-> date, success |-> d \in successes, indexing |-> runner.indexing[d]]
    BY DEF SliceRows
  <2> DEFINE success == d \in successes
             indexing == runner.indexing[d]
  <2>3. success \in BOOLEAN /\ indexing \in Share /\ d \in Deals /\ date \in Days
    BY <1>1, <2>1
  <2>4. s = [deal |-> d, date |-> date, success |-> success, indexing |-> indexing]
    BY <2>2
  <2>5. s.deal = d /\ s.date = date /\ s.indexing = indexing
    BY <2>4
  <2> HIDE DEF success, indexing, date, new
  <2>6. s \in DealSnapshot
    BY <2>3, <2>4 DEF DealSnapshot
  <2> QED
    BY <2>5, <2>6 DEF indexing
<1>3. \A s, t \in new : s.deal = t.deal => s = t
  BY DEF SliceRows
<1> HIDE DEF new
<1>4. dealSnapshots' = dealSnapshots \cup new
  BY DEF new
<1>5. \A s \in dealSnapshots, t \in new : s.deal = t.deal => s.date < t.date
  BY <1>1, <1>2
<1>6. DealDates'
  BY <1>1, <1>2, <1>4, Parts DEF DealDates
<1>7. OnePerDealDay'
  <2> SUFFICES ASSUME NEW s \in dealSnapshots', NEW t \in dealSnapshots', s.deal = t.deal, s.date = t.date
               PROVE  s = t
    BY DEF OnePerDealDay
  <2>1. CASE s \in dealSnapshots /\ t \in dealSnapshots
    BY <2>1, Parts DEF OnePerDealDay
  <2>2. CASE s \in new /\ t \in new
    BY <1>3, <2>2
  <2>3. \A x \in dealSnapshots, y \in new : x.deal = y.deal => x.date # y.date
    BY <1>1, <1>2, <1>5, Parts
  <2> QED
    BY <1>4, <2>1, <2>2, <2>3
<1>8. SharesFromHistory'
  <2> SUFFICES ASSUME NEW s \in dealSnapshots'
               PROVE  FromHistory(dealSnapshots \cup new, s.deal, s.date, s.indexing)
    BY <1>4 DEF SharesFromHistory
  <2>1. CASE s \in dealSnapshots
    <3>1. \A r \in new : r.deal = s.deal => ~(r.date < s.date)
      BY <1>1, <1>2, <1>5, <2>1, Parts
    <3>2. FromHistory(dealSnapshots, s.deal, s.date, s.indexing)
      BY <2>1, Parts DEF SharesFromHistory
    <3> QED
      BY <3>1, <3>2, HistoryKept
  <2>2. CASE s \in new
    <3>1. FromHistory(dealSnapshots, s.deal, s.date, s.indexing)
      BY <1>1, <1>2, <2>2
    <3>2. \A r \in new : ~(r.date < s.date)
      BY <1>1, <1>2, <2>2
    <3> QED
      BY <3>1, <3>2, HistoryKept
  <2> QED
    BY <1>4, <2>1, <2>2
<1>9. \A d \in runner.left \ slice : FromHistory(dealSnapshots \cup new, d, date, runner.indexing[d])
  <2> SUFFICES ASSUME NEW d \in runner.left \ slice
               PROVE  FromHistory(dealSnapshots \cup new, d, date, runner.indexing[d])
    OBVIOUS
  <2>1. \A r \in new : r.deal # d
    BY <1>2
  <2>2. FromHistory(dealSnapshots, d, date, runner.indexing[d])
    BY <1>1
  <2> QED
    BY <2>1, <2>2, HistoryKept
<1>10. dealSnapshots' \subseteq DealSnapshot
  BY <1>2, <1>4, Parts
<1> QED
  BY <1>2, <1>4, <1>6, <1>7, <1>8, <1>9, <1>10

\* The next slice of the run is a part of the deals it has left.
LEMMA NextSliceOfRun ==
  ASSUME IInv
  PROVE  NextChunk(runner.left, SliceSize) \in SUBSET runner.left
<1>1. runner.left \subseteq Deals
  BY Parts DEF Runner
<1>2. IsFiniteSet(runner.left) /\ SliceSize \in Nat \ {0}
  BY <1>1, ConstantsAssumption, FS_Subset
<1> QED
  BY <1>2, ChunkIs

\* A slice is stored, and the run goes on with the others.
LEMMA StoreSliceIInv ==
  ASSUME IInv, UNCHANGED providerVars, World, StoreSlice
  PROVE  IInv'
<1> DEFINE slice == NextChunk(runner.left, SliceSize)
<1>1. UNCHANGED <<day, providers, tests, active>> /\ events' \in 0..MaxEvents
      /\ runner.stage = "slices" /\ runner \in Runner
  BY Parts DEF World, StoreSlice, RunnerAt
<1>2. slice \in SUBSET runner.left
  BY NextSliceOfRun
<1>3. \/ /\ \E successes \in SUBSET slice : dealSnapshots' = dealSnapshots \cup SliceRows(slice, successes)
         /\ NextSlice(slice)
      \/ UNCHANGED dealSnapshots /\ runner' = NoRunner
  BY DEF StoreSlice
<1> HIDE DEF slice
<1>4. CASE UNCHANGED dealSnapshots /\ runner' = NoRunner
  BY <1>1, <1>4, EndRunIInv
<1>5. ASSUME NEW successes \in SUBSET slice,
             dealSnapshots' = dealSnapshots \cup SliceRows(slice, successes), NextSlice(slice)
      PROVE  IInv'
  <2>1. /\ dealSnapshots' \subseteq DealSnapshot
        /\ DealDates' /\ OnePerDealDay' /\ SharesFromHistory'
        /\ \A s \in dealSnapshots' : s \in dealSnapshots \/ s.deal \in slice
        /\ \A d \in runner.left \ slice : FromHistory(dealSnapshots', d, runner.date, runner.indexing[d])
    BY <1>1, <1>2, <1>5, SliceStored
  <2>2. CASE runner' = NoRunner
    <3>1. RunnerFits'
      BY <2>2 DEF RunnerFits, NoRunner
    <3>2. DealsInv'
      BY <2>1, <3>1 DEF DealsInv
    <3> QED
      BY <1>1, <2>1, <2>2, <3>2, NoRunTyped, RunnerStep
  <2>3. CASE runner' = [runner EXCEPT !.left = @ \ slice]
    <3>1. /\ runner' \in Runner /\ runner'.stage = "slices" /\ runner'.date = runner.date
          /\ runner'.left = runner.left \ slice /\ runner'.indexing = runner.indexing
      BY <1>1, <2>3 DEF Runner
    <3>2. /\ runner.date \in Days /\ runner.date <= day
          /\ \A s \in dealSnapshots : s.deal \in runner.left => s.date < runner.date
      BY <1>1, Parts DEF RunnerFits
    <3>3. \A s \in dealSnapshots' : s.deal \in runner.left \ slice => s.date < runner.date
      BY <2>1, <3>2
    <3>4. RunnerFits'
      BY <1>1, <2>1, <3>1, <3>2, <3>3 DEF RunnerFits
    <3>5. DealsInv'
      BY <2>1, <3>4 DEF DealsInv
    <3> QED
      BY <1>1, <2>1, <3>1, <3>5, RunnerStep
  <2> QED
    BY <1>5, <2>2, <2>3 DEF NextSlice
<1> QED
  BY <1>3, <1>4, <1>5

\* A slice is stored, and the run fails nevertheless.
LEMMA StoreSliceUnacknowledgedIInv ==
  ASSUME IInv, UNCHANGED providerVars, UNCHANGED <<day, providers, tests, active>>,
         events' \in 0..MaxEvents, StoreSliceUnacknowledged
  PROVE  IInv'
<1> DEFINE slice == NextChunk(runner.left, SliceSize)
<1>1. runner.stage = "slices" /\ runner' = NoRunner
  BY DEF StoreSliceUnacknowledged, RunnerAt
<1>2. slice \in SUBSET runner.left
  BY NextSliceOfRun
<1>3. PICK successes \in SUBSET slice : dealSnapshots' = dealSnapshots \cup SliceRows(slice, successes)
  BY DEF StoreSliceUnacknowledged
<1> HIDE DEF slice
<1>4. dealSnapshots' \subseteq DealSnapshot /\ DealDates' /\ OnePerDealDay' /\ SharesFromHistory'
  BY <1>1, <1>2, <1>3, SliceStored
<1>5. RunnerFits'
  BY <1>1 DEF RunnerFits, NoRunner
<1>6. DealsInv'
  BY <1>4, <1>5 DEF DealsInv
<1> QED
  BY <1>1, <1>4, <1>6, NoRunTyped, RunnerStep

-----------------------------------------------------------------------------
(* The world *)

\* A day begins: what was not after today still is not.
LEMMA NextDayIInv ==
  ASSUME IInv, NextDay
  PROVE  IInv'
<1>1. /\ day < MaxDay /\ day' = day + 1 /\ midnight' = TRUE
      /\ runner.stage = "counts" => runner.from = day - Window
      /\ UNCHANGED <<providers, tests, active, events, snapshots, values, job, unanswered>>
      /\ UNCHANGED <<dealSnapshots, runner>>
  BY DEF NextDay, dealVars, RunnerAt
<1>2. day \in Nat /\ day' \in Nat /\ day <= day' /\ day' \in Days
  BY <1>1, Parts, DaysTyped DEF Days
<1>3. TypeOK'
  BY <1>1, <1>2, Parts DEF TypeOK
<1>4. OnePerDay' /\ DaysFilled' /\ ValuesFit'
  BY <1>1, <1>2, Parts DEF OnePerDay, DaysFilled, ValuesFit
<1>5. JobFits'
  <2>1. job.stage \in {"fetch", "store"} => job.date <= day'
    <3>1. SUFFICES ASSUME job.stage \in {"fetch", "store"} PROVE job.date <= day'
      OBVIOUS
    <3>2. job.date \in Nat /\ job.date <= day
      BY <3>1, Parts, DaysTyped DEF JobFits
    <3> QED
      BY <1>2, <3>2
  <2>2. job.stage = "providers" => \A s \in snapshots : s.date < day'
    BY <1>2, Parts DEF JobFits
  <2>3. \A p : Accounted(p)' <=> Accounted(p)
    BY <1>1 DEF Accounted
  <2> QED
    BY <1>1, <2>1, <2>2, <2>3, Parts DEF JobFits
<1>6. DealDates' /\ OnePerDealDay' /\ SharesFromHistory'
  BY <1>1, <1>2, Parts DEF DealDates, OnePerDealDay, SharesFromHistory
<1>7. RunnerFits'
  <2>1. runner.stage = "active" => \A d \in Deals : runner.latest[d] <= day'
    <3> SUFFICES ASSUME runner.stage = "active", NEW d \in Deals PROVE runner.latest[d] <= day'
      OBVIOUS
    <3>1. runner.latest \in [Deals -> Days \cup {None}]
      BY Parts DEF Runner
    <3>2. runner.latest[d] <= day
      BY Parts DEF RunnerFits
    <3>3. runner.latest[d] \in Days \cup {-1}
      BY <3>1 DEF None
    <3>4. Days \subseteq Nat
      BY DaysTyped
    <3>5. runner.latest[d] \in Nat \/ runner.latest[d] = -1
      BY <3>3, <3>4
    <3>6. runner.latest[d] \in Int
      BY <3>5
    <3> QED
      BY <1>2, <3>2, <3>6
  <2>2. runner.stage \in {"types", "counts"} => \A s \in dealSnapshots : s.deal \in runner.left => s.date < day'
    BY <1>2, Parts DEF RunnerFits
  <2>3. runner.stage = "counts" => runner.from \in (day' - Window - 1)..(day' - Window)
    <3>1. day' = day + 1 /\ day \in Int /\ Window \in Int
      BY <1>1, <1>2, DaysTyped
    <3>2. runner.stage = "counts" => runner.from = day - Window
      BY <1>1
    <3> QED
      BY <3>1, <3>2
  <2>4. runner.stage = "slices" => runner.date <= day'
    <3>1. SUFFICES ASSUME runner.stage = "slices" PROVE runner.date <= day'
      OBVIOUS
    <3>2. runner.date \in Nat /\ runner.date <= day
      BY <3>1, Parts, DaysTyped DEF RunnerFits
    <3> QED
      BY <1>2, <3>2
  <2> QED
    BY <1>1, <2>1, <2>2, <2>3, <2>4, Parts DEF RunnerFits
<1> QED
  BY <1>3, <1>4, <1>5, <1>6, <1>7 DEF IInv, ProvidersInv, DealsInv

\* A provider is tested today, which is before no date of a snapshot.
LEMMA TestProviderIInv ==
  ASSUME IInv, NEW p \in Providers, TestProvider(p)
  PROVE  IInv'
<1>1. /\ tests' = [tests EXCEPT ![p] = @ \cup {day}]
      /\ UNCHANGED <<day, providers, active, events, midnight, snapshots, values, job, unanswered>>
      /\ UNCHANGED <<dealSnapshots, runner>>
  BY DEF TestProvider, providerVars, dealVars
<1>2. /\ tests' \in [Providers -> SUBSET Days]
      /\ \A q \in Providers : \A t \in tests'[q] : t \in tests[q] \/ t = day
  BY <1>1, Parts
<1>3. TypeOK'
  BY <1>1, <1>2, Parts DEF TypeOK
<1>4. OnePerDay' /\ ValuesFit'
  BY <1>1, Parts DEF OnePerDay, ValuesFit
<1>5. DaysFilled'
  <2> SUFFICES ASSUME NEW s \in snapshots, NEW q \in providers, NEW t \in tests'[q], t < s.date
               PROVE  \/ \E r \in snapshots : r.provider = q /\ r.date = s.date
                      \/ <<q, s.date>> \in unanswered
    BY <1>1 DEF DaysFilled
  <2>1. ~(day < s.date)
    BY Parts DEF OnePerDay
  <2>2. t \in tests[q]
    BY <1>2, <2>1, Parts
  <2> QED
    BY <2>2, Parts DEF DaysFilled
<1>6. JobFits'
  <2>1. ASSUME job.stage \in {"fetch", "store"}, NEW q \in providers \ job.left
        PROVE  Accounted(q)'
    <3>1. Accounted(q) /\ day >= job.date /\ q \in Providers
      BY <2>1, Parts, DaysTyped DEF JobFits
    <3>2. (\A t \in tests[q] : t >= job.date) => \A t \in tests'[q] : t >= job.date
      BY <1>2, <3>1
    <3> QED
      BY <1>1, <3>1, <3>2 DEF Accounted
  <2> QED
    BY <1>1, <2>1, Parts DEF JobFits
<1>7. DealsInv'
  BY <1>1 DEF IInv, DealsInv, DealDates, OnePerDealDay, RunnerFits, SharesFromHistory
<1> QED
  BY <1>3, <1>4, <1>5, <1>6, <1>7 DEF IInv, ProvidersInv

\* The process stops: the runs of both are over.
LEMMA CrashIInv ==
  ASSUME IInv, Crash, UNCHANGED <<day, providers, tests, active>>, events' \in 0..MaxEvents
  PROVE  IInv'
<1>1. /\ midnight' = FALSE /\ job' = NoJob /\ runner' = NoRunner
      /\ UNCHANGED <<snapshots, values, unanswered, dealSnapshots>>
  BY DEF Crash
<1>2. TypeOK'
  BY <1>1, NoRunTyped, Parts DEF TypeOK
<1>3. OnePerDay' /\ DaysFilled' /\ ValuesFit'
  BY <1>1, Parts DEF OnePerDay, DaysFilled, ValuesFit
<1>4. JobFits' /\ RunnerFits'
  BY <1>1 DEF JobFits, RunnerFits, NoJob, NoRunner
<1>5. DealDates' /\ OnePerDealDay' /\ SharesFromHistory'
  BY <1>1, Parts DEF DealDates, OnePerDealDay, SharesFromHistory
<1> QED
  BY <1>2, <1>3, <1>4, <1>5 DEF IInv, ProvidersInv, DealsInv

\* A rejection or a crash.
LEMMA FaultIInv ==
  ASSUME IInv, Fault
  PROVE  IInv'
<1>1. events' \in 0..MaxEvents /\ UNCHANGED <<day, providers, tests, active>>
  BY Parts, DaysTyped DEF Fault
<1>2. CASE JobFails /\ UNCHANGED dealVars
  BY <1>1, <1>2, Parts, EndJobIInv DEF JobFails
<1>3. CASE FetchRejected /\ UNCHANGED dealVars
  BY <1>1, <1>3, FetchRejectedIInv
<1>4. CASE RunFails /\ UNCHANGED providerVars
  BY <1>1, <1>4, EndRunIInv DEF RunFails
<1>5. CASE StoreSliceUnacknowledged /\ UNCHANGED providerVars
  BY <1>1, <1>5, StoreSliceUnacknowledgedIInv
<1>6. CASE Crash
  BY <1>1, <1>6, CrashIInv
<1> QED
  BY <1>2, <1>3, <1>4, <1>5, <1>6 DEF Fault

\* A step that changes no more than which deals are active.
LEMMA DealsChange ==
  ASSUME IInv, UNCHANGED <<day, providers, tests, providerVars, dealVars>>,
         active' \subseteq Deals, events' \in 0..MaxEvents
  PROVE  IInv'
<1>1. TypeOK'
  BY Parts DEF TypeOK, providerVars, dealVars
<1>2. ProvidersInv'
  BY DEF IInv, ProvidersInv, OnePerDay, JobFits, Accounted, DaysFilled, ValuesFit, providerVars
<1>3. DealsInv'
  BY DEF IInv, DealsInv, DealDates, OnePerDealDay, RunnerFits, SharesFromHistory, dealVars
<1> QED
  BY <1>1, <1>2, <1>3 DEF IInv

\* Every step keeps the invariant.
LEMMA NextIInv ==
  ASSUME IInv, Next
  PROVE  IInv'
<1>1. CASE ProviderStep /\ UNCHANGED dealVars /\ World
  BY <1>1, FetchLastMetricSnapshotIInv, ReadLatestIInv, ReadProvidersIInv, FetchInBulkIInv,
     StoreSnapshotMetricsIInv DEF ProviderStep
<1>2. CASE DealStep /\ UNCHANGED providerVars /\ World
  BY <1>2, RunIInv, ReadLatestPerDealIInv, ReadActiveDealsIInv, EnsureDealSLITypesExistIInv,
     ReadCountsIInv, StoreSliceIInv DEF DealStep
<1>3. CASE NextDay \/ Fault
  BY <1>3, NextDayIInv, FaultIInv
<1>4. ASSUME NEW p \in Providers, TestProvider(p) PROVE IInv'
  BY <1>4, TestProviderIInv
<1>5. ASSUME NEW d \in Deals, ChangeDeal(d) PROVE IInv'
  <2>1. active' \subseteq Deals /\ events' \in 0..MaxEvents
    BY <1>5, Parts, DaysTyped DEF ChangeDeal
  <2> QED
    BY <1>5, <2>1, DealsChange DEF ChangeDeal
<1> QED
  BY <1>1, <1>2, <1>3, <1>4, <1>5 DEF Next

-----------------------------------------------------------------------------
\* The inductive invariant: what the job and the runner hold fits the tables at every step,
\* whatever is rejected, whenever midnight comes and the process stops.
THEOREM Invariance == Spec => []IInv
<1>1. Init => IInv
  BY InitIInv
<1>2. IInv /\ [Next]_vars => IInv'
  <2>1. ASSUME IInv, UNCHANGED vars PROVE IInv'
    BY <2>1, Parts, DealsChange DEF vars
  <2> QED
    BY <2>1, NextIInv
<1> QED
  BY <1>1, <1>2, PTL DEF Spec

\* A stored day lacks no provider that was tested before and whose request was answered,
\* and no provider is in it twice (storeSnapshotMetrics(), its guard and its transaction).
THEOREM DayLacksOnlyUnansweredCorrect == Spec => []DayLacksOnlyUnanswered
<1>1. IInv => DayLacksOnlyUnanswered
  <2> SUFFICES ASSUME IInv, NEW s \in snapshots, NEW p \in providers, NEW t \in tests[p], t < s.date
               PROVE  \/ Cardinality({r \in snapshots : r.provider = p /\ r.date = s.date}) = 1
                      \/ <<p, s.date>> \in unanswered /\ \A r \in snapshots : r.provider = p => r.date # s.date
    BY DEF DayLacksOnlyUnanswered, IInv
  <2>1. CASE \E r \in snapshots : r.provider = p /\ r.date = s.date
    <3>1. PICK r \in snapshots : r.provider = p /\ r.date = s.date
      BY <2>1
    <3>2. {x \in snapshots : x.provider = p /\ x.date = s.date} = {r}
      BY <3>1, Parts DEF OnePerDay
    <3> QED
      BY <3>2, FS_Singleton
  <2>2. CASE \A r \in snapshots : r.provider = p => r.date # s.date
    BY <2>2, Parts DEF DaysFilled
  <2> QED
    BY <2>1, <2>2
<1> QED
  BY <1>1, Invariance, PTL

\* Every metric of every test has one value, of the first snapshot that has the test
\* (createMany with skipDuplicates in storeSnapshotMetrics()).
THEOREM ValuesOfEveryTestCorrect == Spec => []ValuesOfEveryTest
<1>1. IInv => ValuesOfEveryTest
  <2> SUFFICES ASSUME IInv, NEW s \in snapshots, NEW m \in BaseMetrics
               PROVE  LET found == {v \in values : v.provider = s.provider /\ v.metric = m /\ v.tested = s.tested}
                      IN  /\ Cardinality(found) = 1
                          /\ \A v \in found : v.of = Min({r.date : r \in {x \in snapshots : x.provider = s.provider
                                                                                         /\ x.tested = s.tested}})
    BY DEF ValuesOfEveryTest
  <2> DEFINE found == {v \in values : v.provider = s.provider /\ v.metric = m /\ v.tested = s.tested}
             D == {r.date : r \in {x \in snapshots : x.provider = s.provider /\ x.tested = s.tested}}
  <2>1. m \in MetricsOf(s.provider, s.tested)
    BY DEF MetricsOf
  <2>2. PICK v \in values : v.provider = s.provider /\ v.metric = m /\ v.tested = s.tested
    BY <2>1, Parts DEF ValuesFit
  <2>3. found = {v}
    BY <2>2, Parts DEF ValuesFit
  <2>4. Cardinality(found) = 1
    BY <2>3, FS_Singleton
  <2>5. v.of \in D /\ \A y \in D : v.of <= y
    BY <2>2, Parts DEF ValuesFit
  <2>6. D \in SUBSET Days /\ v.of \in Nat /\ \A y \in D : y \in Nat
    BY Parts DEF Snapshot
  <2> HIDE DEF D
  <2>7. Min(D) \in D /\ \A y \in D : Min(D) <= y
    BY <2>5, <2>6, MinIs
  <2>8. v.of = Min(D)
    BY <2>5, <2>6, <2>7
  <2> QED
    BY <2>3, <2>4, <2>8 DEF D
<1> QED
  BY <1>1, Invariance, PTL

\* The indexing share of a deal's snapshot is of the whole history in its window, whatever
\* failed, was repeated or ran over midnight (the runner of deal snapshots).
THEOREM IndexingFromHistoryCorrect == Spec => []IndexingFromHistory
<1>1. IInv => IndexingFromHistory
  BY DEF IInv, DealsInv, SharesFromHistory, FromHistory, Before, ShareOf, IndexingFromHistory
<1> QED
  BY <1>1, Invariance, PTL
================================================================================
