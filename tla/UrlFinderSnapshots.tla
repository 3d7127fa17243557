-------------------------- MODULE UrlFinderSnapshots --------------------------
(***************************************************************************)
(* The daily snapshots of what URL Finder says: of every storage provider  *)
(* by a job at midnight, of every active PoRep deal by a runner of the     *)
(* hourly aggregation.  Both keep at most one row per subject and day,     *)
(* both wait at awaits while midnight may pass, both live in a process     *)
(* that may stop, and neither asks again for what it could not get.        *)
(*                                                                         *)
(* A day is a number.  A test of a provider is the day it was made on; its *)
(* results are left out, but for which metrics it has.                     *)
(***************************************************************************)
EXTENDS Integers, Sequences, FiniteSets, FiniteSetsExt

CONSTANTS Providers, Deals,
          ChunkSize,   \* providers per request to URL Finder
          SliceSize,   \* deals per transaction
          Window,      \* days of history the indexing share is computed from
          Measured,    \* <<provider, day>>: a performance test the same day as the test
          MaxDay,      \* bound: the last day
          MaxEvents    \* bound: rejections and crashes

ASSUME ConstantsAssumption ==
  /\ IsFiniteSet(Providers) /\ IsFiniteSet(Deals)
  /\ ChunkSize \in Nat \ {0} /\ SliceSize \in Nat \ {0} /\ Window \in Nat \ {0}
  /\ MaxDay \in Nat /\ MaxEvents \in Nat

VARIABLES day,           \* today, UTC
          midnight,      \* the timer of the provider job has gone off
          providers,     \* the provider table
          tests,         \* per provider, the days URL Finder has tested it on
          snapshots,     \* storage_provider_url_finder_daily_snapshot
          values,        \* storage_provider_url_finder_metric_value
          job,           \* the provider job: where it is and what it holds
          active,        \* the active deals of the PoRep market
          dealSnapshots, \* storage_provider_url_finder_deal_daily_snapshot
          runner,        \* the runner of deal snapshots
          events,        \* events so far
          unanswered     \* <<provider, date>> whose request was rejected (history)

providerVars == <<midnight, snapshots, values, job, unanswered>>
dealVars == <<dealSnapshots, runner>>
vars == <<day, providers, tests, active, events, providerVars, dealVars>>

None == -1
Days == 0..MaxDay
BaseMetrics == {"RPA_RETRIEVABILITY", "CAR_FILES"}
PerformanceMetrics == {"TTFB", "BANDWIDTH"}

Snapshot == [provider : Providers, date : Days, tested : Days]
\* The snapshot a value belongs to is named by its date.
Value == [provider : Providers, metric : BaseMetrics \cup PerformanceMetrics, tested : Days, of : Days]
\* What is kept of an answer until the day is stored.
Answered == [provider : Providers, tested : Days]
Job == [stage : {"off", "latest", "providers", "fetch", "store"}, date : Days \cup {None},
        left : SUBSET Providers, rows : SUBSET Answered]
NoJob == [stage |-> "off", date |-> None, left |-> {}, rows |-> {}]

\* The indexing share is a pair: successful snapshots, all snapshots; of none it is null.
Share == (0..MaxDay) \X (0..MaxDay)
Null == <<0, 0>>
DealSnapshot == [deal : Deals, date : Days, success : BOOLEAN, indexing : Share]
Runner == [stage : {"off", "latest", "active", "types", "counts", "slices"},
           latest : [Deals -> Days \cup {None}], left : SUBSET Deals, from : Int,
           date : Days \cup {None}, indexing : [Deals -> Share]]
NoRunner == [stage |-> "off", latest |-> [d \in Deals |-> None], left |-> {}, from |-> 0,
             date |-> None, indexing |-> [d \in Deals |-> Null]]

Init == /\ day = 0 /\ midnight = TRUE /\ events = 0
        /\ providers \in {{}, Providers}
        /\ tests \in [Providers -> {{}, {0}}] /\ \A p \in Providers \ providers : tests[p] = {}
        /\ snapshots = {} /\ values = {} /\ job = NoJob
        /\ active \in SUBSET Deals
        /\ dealSnapshots = {} /\ runner = NoRunner
        /\ unanswered = {}

\* The next chunk, in the order of the table, whatever that is.
NextChunk(left, size) == CHOOSE c \in SUBSET left : Cardinality(c) = Min({size, Cardinality(left)})

-----------------------------------------------------------------------------
(* The provider job *)

At(stage) == job.stage = stage
Goto(stage) == job' = [job EXCEPT !.stage = stage]

\* A timer that goes off during a run does nothing.
FetchLastMetricSnapshot ==
  /\ midnight
  /\ midnight' = FALSE
  /\ job' = IF At("off") THEN [NoJob EXCEPT !.stage = "latest"] ELSE job
  /\ UNCHANGED <<snapshots, values, unanswered>>

\* A day that has any snapshot is done.
SkipToday == snapshots # {} /\ Max({s.date : s \in snapshots}) = day

ReadLatest ==
  /\ At("latest")
  /\ IF SkipToday THEN job' = NoJob ELSE Goto("providers")
  /\ UNCHANGED <<midnight, snapshots, values, unanswered>>

ReadProviders ==
  /\ At("providers")
  /\ job' = IF providers = {} THEN NoJob
            ELSE [stage |-> "fetch", date |-> day, left |-> providers, rows |-> {}]
  /\ UNCHANGED <<midnight, snapshots, values, unanswered>>

\* URL Finder answers with a test of each provider it has tested, not always the newest.
Answers(chunk) ==
  {rows \in SUBSET {a \in Answered : a.provider \in chunk /\ a.tested \in tests[a.provider]} :
     \A p \in chunk : Cardinality({a \in rows : a.provider = p}) = IF tests[p] = {} THEN 0 ELSE 1}

\* Mutant: the rows of a chunk replace those of the chunks before it.
Fetched_LastOnly(left, rows) ==
  job' = IF left # {} THEN [job EXCEPT !.left = left, !.rows = rows \ job.rows]
         ELSE IF rows # {} THEN [job EXCEPT !.left = {}, !.rows = rows \ job.rows, !.stage = "store"]
         ELSE NoJob

\* Nothing to store ends the job; a failed chunk ends nothing.
Fetched(left, rows) ==
  job' = IF left # {} THEN [job EXCEPT !.left = left, !.rows = rows]
         ELSE IF rows # {} THEN [job EXCEPT !.left = {}, !.rows = rows, !.stage = "store"]
         ELSE NoJob

FetchInBulk ==
  /\ At("fetch")
  /\ LET chunk == NextChunk(job.left, ChunkSize)
     IN  \E rows \in Answers(chunk) : Fetched(job.left \ chunk, job.rows \cup rows)
  /\ UNCHANGED <<midnight, snapshots, values, unanswered>>

FetchRejected ==
  /\ At("fetch")
  /\ LET chunk == NextChunk(job.left, ChunkSize)
     IN  /\ Fetched(job.left \ chunk, job.rows)
         /\ unanswered' = unanswered \cup (chunk \X {job.date})
  /\ UNCHANGED <<midnight, snapshots, values>>

\* One value per provider, metric and test; those there already are skipped.
ValuesOf(row) ==
  {[provider |-> row.provider, metric |-> m, tested |-> row.tested, of |-> job.date] :
     m \in BaseMetrics
           \cup (IF <<row.provider, row.tested>> \in Measured THEN PerformanceMetrics ELSE {})}
\* Mutant: nothing is skipped.
Duplicate_Never(v) == FALSE

Duplicate(v) ==
  \E w \in values : w.provider = v.provider /\ w.metric = v.metric /\ w.tested = v.tested

NewSnapshots == {[provider |-> row.provider, date |-> job.date, tested |-> row.tested] : row \in job.rows}

\* At most one snapshot per provider and date, or the transaction is rejected.
Unique == \A s \in snapshots, t \in NewSnapshots : s.provider = t.provider => s.date # t.date

StoreSnapshotMetrics ==
  /\ At("store")
  /\ IF Unique
     THEN /\ snapshots' = snapshots \cup NewSnapshots
          /\ values' = values \cup {v \in UNION {ValuesOf(row) : row \in job.rows} : ~Duplicate(v)}
     ELSE UNCHANGED <<snapshots, values>>
  /\ job' = NoJob
  /\ UNCHANGED <<midnight, unanswered>>

\* A database call is rejected: the job ends, until next midnight.
JobFails == /\ job.stage \in {"latest", "providers", "store"}
            /\ job' = NoJob
            /\ UNCHANGED <<midnight, snapshots, values, unanswered>>

ProviderStep == FetchLastMetricSnapshot \/ ReadLatest \/ ReadProviders \/ FetchInBulk
                \/ StoreSnapshotMetrics

-----------------------------------------------------------------------------
(* The runner of deal snapshots *)

RunnerAt(stage) == runner.stage = stage
SnapshotsOf(d) == {s \in dealSnapshots : s.deal = d}

\* The aggregation starts the runner every hour, and up to three times when it fails.
Run == /\ RunnerAt("off")
       /\ runner' = [NoRunner EXCEPT !.stage = "latest"]
       /\ UNCHANGED dealSnapshots

LatestDates ==
  [d \in Deals |-> IF SnapshotsOf(d) = {} THEN None ELSE Max({s.date : s \in SnapshotsOf(d)})]

ReadLatestPerDeal == /\ RunnerAt("latest")
                     /\ runner' = [runner EXCEPT !.stage = "active", !.latest = LatestDates]
                     /\ UNCHANGED dealSnapshots

\* Mutant: a snapshot of any day will do.
Due_Once(d) == runner.latest[d] = None

Due(d) == runner.latest[d] # day

ReadActiveDeals ==
  /\ RunnerAt("active")
  /\ runner' = [runner EXCEPT !.stage = "types", !.left = {d \in active : Due(d)}]
  /\ UNCHANGED dealSnapshots

\* The types of the values are there before the window of the history is computed.
EnsureDealSLITypesExist ==
  /\ RunnerAt("types")
  /\ runner' = [runner EXCEPT !.stage = "counts", !.from = day - Window]
  /\ UNCHANGED dealSnapshots

\* The window begins at a time of day: its first day may be left out.
\* Mutant: the window has no beginning.
Counted_Ever(d, first) == SnapshotsOf(d)
Counted(d, first) == {s \in SnapshotsOf(d) : s.date >= first}
\* Mutant: the counts are not grouped by deal.
IndexingShare_OfAll(d, first) ==
  LET counted == UNION {Counted(e, first) : e \in Deals}
  IN  <<Cardinality({s \in counted : s.success}), Cardinality(counted)>>

IndexingShare(d, first) ==
  <<Cardinality({s \in Counted(d, first) : s.success}), Cardinality(Counted(d, first))>>

\* The date of the snapshots is taken when the counts are there.
ReadCounts ==
  /\ RunnerAt("counts")
  /\ \E first \in {runner.from, runner.from + 1} :
       runner' = IF runner.left = {} THEN NoRunner
                 ELSE [runner EXCEPT !.stage = "slices", !.date = day,
                         !.indexing = [d \in Deals |-> IF d \in runner.left THEN IndexingShare(d, first) ELSE Null]]
  /\ UNCHANGED dealSnapshots

\* URL Finder answers with success or not, or not at all, which counts as an error.
SliceRows(slice, successes) ==
  {[deal |-> d, date |-> runner.date, success |-> d \in successes, indexing |-> runner.indexing[d]] :
     d \in slice}
UniqueDeals(slice) == \A s \in dealSnapshots : s.deal \in slice => s.date # runner.date
NextSlice(slice) ==
  runner' = IF runner.left = slice THEN NoRunner ELSE [runner EXCEPT !.left = @ \ slice]

StoreSlice ==
  /\ RunnerAt("slices")
  /\ LET slice == NextChunk(runner.left, SliceSize)
     IN  IF UniqueDeals(slice)
         THEN /\ \E successes \in SUBSET slice : dealSnapshots' = dealSnapshots \cup SliceRows(slice, successes)
              /\ NextSlice(slice)
         ELSE UNCHANGED dealSnapshots /\ runner' = NoRunner

\* A slice is stored but the answer is lost: the run fails as well.
StoreSliceUnacknowledged ==
  /\ RunnerAt("slices")
  /\ LET slice == NextChunk(runner.left, SliceSize)
     IN  /\ UniqueDeals(slice)
         /\ \E successes \in SUBSET slice : dealSnapshots' = dealSnapshots \cup SliceRows(slice, successes)
  /\ runner' = NoRunner

\* Rejected at any of its awaits.
RunFails == ~RunnerAt("off") /\ runner' = NoRunner /\ UNCHANGED dealSnapshots

DealStep == Run \/ ReadLatestPerDeal \/ ReadActiveDeals \/ EnsureDealSLITypesExist \/ ReadCounts
            \/ StoreSlice

-----------------------------------------------------------------------------
(* The world *)

\* Counting the snapshots takes less than a day.
NextDay == /\ day < MaxDay
           /\ RunnerAt("counts") => runner.from = day - Window
           /\ day' = day + 1 /\ midnight' = TRUE
           /\ UNCHANGED <<providers, tests, active, events, snapshots, values, job, unanswered, dealVars>>

TestProvider(p) == /\ p \in providers /\ day \notin tests[p]
                   /\ tests' = [tests EXCEPT ![p] = @ \cup {day}]
                   /\ UNCHANGED <<day, providers, active, events, providerVars, dealVars>>

ChangeDeal(d) == /\ active' = IF d \in active THEN active \ {d} ELSE active \cup {d}
                 /\ events < MaxEvents /\ events' = events + 1
                 /\ UNCHANGED <<day, providers, tests, providerVars, dealVars>>

\* The process stops and a new one starts: a timer that went off meanwhile is lost.
Crash == /\ midnight' = FALSE /\ job' = NoJob /\ runner' = NoRunner
         /\ UNCHANGED <<snapshots, values, unanswered, dealSnapshots>>

Fault == /\ events < MaxEvents
         /\ events' = events + 1
         /\ \/ (JobFails \/ FetchRejected) /\ UNCHANGED dealVars
            \/ (RunFails \/ StoreSliceUnacknowledged) /\ UNCHANGED providerVars
            \/ Crash
         /\ UNCHANGED <<day, providers, tests, active>>

World == UNCHANGED <<day, providers, tests, active, events>>

Next == \/ ProviderStep /\ UNCHANGED dealVars /\ World
        \/ DealStep /\ UNCHANGED providerVars /\ World
        \/ NextDay \/ Fault
        \/ \E p \in Providers : TestProvider(p)
        \/ \E d \in Deals : ChangeDeal(d)

Spec == Init /\ [][Next]_vars

\* The cron of the aggregation comes every hour, and what is awaited answers.
FairSpec == Spec /\ WF_vars(DealStep /\ UNCHANGED providerVars /\ World)

-----------------------------------------------------------------------------
(* Properties *)

\* Type correctness.
TypeOK == /\ day \in Days /\ midnight \in BOOLEAN /\ events \in 0..MaxEvents
          /\ providers \subseteq Providers /\ tests \in [Providers -> SUBSET Days]
          /\ snapshots \subseteq Snapshot /\ values \subseteq Value /\ job \in Job
          /\ active \subseteq Deals /\ dealSnapshots \subseteq DealSnapshot
          /\ runner \in Runner /\ unanswered \subseteq (Providers \X Days)

\* The state is typed, and a day that is stored lacks only the providers whose request was rejected and those
\* not tested before that day: the job fills a day at once or not at all, never a second
\* time, and has no other reason to leave a provider out.
DayLacksOnlyUnanswered == TypeOK /\
  \A s \in snapshots, p \in providers :
    (\E t \in tests[p] : t < s.date) =>
       \/ Cardinality({r \in snapshots : r.provider = p /\ r.date = s.date}) = 1
       \/ <<p, s.date>> \in unanswered /\ \A r \in snapshots : r.provider = p => r.date # s.date

\* The values of a test are there once, with the first snapshot that reports the test,
\* however often URL Finder sends the same or an older test again.
ValuesOfEveryTest ==
  \A s \in snapshots, m \in BaseMetrics :
    LET found == {v \in values : v.provider = s.provider /\ v.metric = m /\ v.tested = s.tested}
    IN  /\ Cardinality(found) = 1
        /\ \A v \in found : v.of = Min({r.date : r \in {x \in snapshots : x.provider = s.provider
                                                                        /\ x.tested = s.tested}})

\* The indexing share stored for a deal, which the service level reports take as the
\* truth, is of all the snapshots of the deal in the window before its date: none of the
\* same day, none twice, none lost though runs fail half way, are repeated, or run over
\* midnight.  The window begins on the day it is asked for or, for it begins at a time of
\* day, on the next; midnight before the counts are there puts it a day earlier.
IndexingFromHistory ==
  \A s \in dealSnapshots :
    \E first \in (s.date - Window - 1)..(s.date - Window + 1) :
      LET before == {r \in dealSnapshots : r.deal = s.deal /\ r.date < s.date /\ r.date >= first}
      IN  s.indexing = <<Cardinality({r \in before : r.success}), Cardinality(before)>>

\* A deal that stays active gets its snapshot of the day that does not end, whatever
\* failed before.
TodayEventuallyStored ==
  \A d \in Deals, k \in Days :
    <>[](day = k /\ d \in active) => <>(\E s \in dealSnapshots : s.deal = d /\ s.date = k)

=============================================================================
