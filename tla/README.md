# A TLA+ verification of the compliance data platform

The compliance data platform is a NestJS service. It mirrors blockchain and
network data into Postgres (PoRep indexers, IPNI advertisements, URL finder
snapshots), aggregates it every hour into tables that its API reads, makes
compliance reports about clients and allocators, on a schedule and when a GitHub
bot asks for one, and shows statistics of all of it. There is one process with
one event loop: whatever happens between two `await`s is atomic, and everything
else interleaves.

This directory holds TLA+ modules that model its core logic, TLC configurations
that check them, and proofs checked by TLAPS. `PROJECT.json` lists the components,
the runs, the mutants that show each property can fail, the source lines behind
each definition, the hazards and the theorems.

## Inventory

Paths are relative to `src/src/`.

| component | state | operations | how it interacts | what is hard | what makes it correct | module |
|---|---|---|---|---|---|---|
| PoRep indexer runner (`po-rep-indexer/runners/abstract-…`) | `isRunning`; the run records and the runner's tables | `execute()` by the hourly cron and by itself | chain nodes, database, the two runners below | overlap, stale reads across awaits, lost commit, restart, new version, node lag | every block indexed exactly once, and some day | `PoRepIndexer`, `IndexLedger` |
| Filecoin Pay runner, PoRep providers and deals runner | tables of rails, payments; providers, capabilities, deals, state changes, terms | `prepareUpdates(logs)`, `prepareCleanup()` | called by the runner with a batch of logs | the order of the logs in a batch, merging of several changes of a row, an update of a missing row | tables mirror the contracts in any batching | `FilecoinPayIndexer`, `PoRepProvidersAndDeals`, `IndexerUpdates` |
| aggregation job (`aggregation/aggregation-tasks.service.ts`) and its 30 runners | job flag, health, the aggregation tables | the hourly job; a runner's `run()` | runners read sources and each other's tables | order of dependencies, retries after partial writes, crash | a filled table is built from this job's data | `AggregationTasks`, `AggregationRunners` |
| `@Cacheable` (`utils/cacheable.ts`) | cache, map of mutexes | a call of the decorated method | its concurrent callers | the mutex is deleted while others wait at it | a result is computed once, every call ends | `Cacheable` |
| IPNI advertisement fetcher (`jobs/ipni-…`) | job flag, health, advertisement rows | the daily job, a walk per provider | IPNI, publishers, misreporting checker | growth of a chain during the walk, an interrupted walk | newest advertisement stored; no unexplained hole | `IpniAdvertisementFetcher` |
| client reports (`jobs/client-report-generator-job`, `service/client-report`, its controller) | report rows and their checks; cached responses | daily cron, POST, GET | aggregation tables, checks, cache of the API | a cron with no flag, a report exists before its checks do, a GET stores what it read before a POST | a report that is handed out is complete; the job accounts for every application | `ClientReports` |
| GitHub triggers handler | none of its own | handle a trigger | client reports, GitHub | two triggers at once, reuse of a recent report | a new report only when there is no recent one, or by a race | `ClientReports` |
| allocator reports (job, service and controller) | report rows, checks, scores; cached responses | daily cron, POST, GET | client reports, checks, scoring | reads client reports that are being made, twice and at different times; scores are stored one at a time and read meanwhile | a report is complete, the verdicts are those of the client reports, shown scores are of one report | `AllocatorReports` |
| client report checks, allocator scoring | none (functions of a report) | one function per check or metric | called by report generation | boundaries, missing data, ranges written out a second time by hand | checks that say the same agree; the score is the one its stored ranges give | `FilPlus`, `ClientReportChecks`, `AllocatorScoring` |
| URL finder snapshots: job of the providers, runner of the deals | one row per subject and day | a daily job, an hourly runner | URL finder, aggregation job | midnight passes meanwhile, partial stores, restarts, a test reported twice | a day lacks only who could not be asked; values once; the history is complete | `UrlFinderSnapshots` |
| allocator, client and provider services, histogram helper, dashboard controllers | none | queries | the aggregation's tables | the same number computed from several tables, weeks that are over, boundaries | views agree and add up; the past stays | `FilPlusStatistics`, `Dashboard` |
| PoRep service | none | queries | the indexers' tables, the deals' snapshots | every query has its own idea of an active deal | views agree; histories end at the totals | `PoRepViews` |
| IPNI misreporting checker, storage provider report | none | queries | called by reports and runners | | part of the reports | `FilPlus` |
| `@Retryable`, price oracle, outside clients, other controllers, query builders, wiring, metrics | none | I/O and declarations | | | | not modelled |

## The modules and the code

### `PoRepIndexer`: `AbstractPoRepIndexerRunner.execute()`

One action per stretch of code between two awaits of an invocation: `Execute` (the
check and setting of `isRunning`), `Read` (the chain head and the last run; the
range, the node and `versionChanged` are computed at once), `Fetch`, `Prepare`,
`Commit` (the transaction, the flag, and the self-call when the range ended below
the head). `Fail` and `FetchRejected` are the catch clauses, `CommitUnacknowledged`
a commit whose answer is lost, `Crash` and `Deploy` a restart with the same and with
a newer version. The environment is `GrowChain`, and `Answers`: which ranges a node
serves. Two pending calls stand for the cron and a self-call. The logs of a
block are a count of how often they have been applied.

`IndexLedger` is the abstract specification: the tables hold one unbroken range
from the origin, each block once, built by one version. `ImplementsLedger`
is the refinement.

### `IndexerUpdates`, `FilecoinPayIndexer`, `PoRepProvidersAndDeals`

What a batch of logs does to the tables. `SortLogs` is the comparator of
`execute()` as it behaves (it compares objects, so it reverses the batch), `UpTo` the logs of
a range of blocks, `UpdateInput` the `reduce` over the logs of a row, with
`MergeBigIntFieldUpdate` and `Spread`, and `ApplyUpdate` its effect in the database. Then for each runner: `prepareUpdates` with every event it handles,
in the order of its operations in the transaction. The contracts are external: they
emit the logs and move the values that the columns stand for, so that each
property can compare table and contract. A batch is any number of the next closed
blocks; that a batch comes exactly once is what `PoRepIndexer` shows. The
blocks of the payment contract are called epochs (`epoch`, `NextEpoch`). The two runners
share no table and no name, so `MCIndexedTables` extends both and checks them in one run,
and `IndexedTablesInvariants` states what holds of both at every step.

Because the batch is reversed, two logs of one batch that overwrite one
column leave the older value. The mirror properties exempt exactly those rows
(`entangled`, `mixed`); the run `filecoin_pay_rate` shows the exception is real.

### `AggregationTasks`, `AggregationRunners`

`RunAggregationJob`, the passes over the pending runners (`StartRunner`,
`NextPass`, `Finish`), an attempt of a runner (`Query`, then `Write`, or `Delete` and
`Write` when it uses no transaction, or `SkipToday`), `AttemptFails` with the three
tries of `executeWithRetries`, and `Crash`. The contents of a table are abstracted to
a vintage: `Empty`, `Stale` or `Fresh`. Merges, upserts, slices and streams inside a
transaction count as one write. A day begins between jobs only. The services
whose `isInitialized` guards a runner are always initialised (their settings have
literal defaults), so those early returns are not taken.

`AggregationRunners` lists, per runner of `app.module.ts`, what it fills, what it
declares to depend on, what its query really reads and how it writes.
`MCAggregationRunners` instantiates the model with it and makes TLC evaluate what the theorems assume of a graph;
`MCAggregationTasks` does so with six runners.

### `Cacheable`

One cache key. `Call` finds or makes the mutex and queues, `Acquire`,
`Hit`/`Miss`, `Return`/`Reject`, `Set`, and in each way of leaving the release and the
deletion from the map (`Leave`). `Expire` is the ttl.

### `IpniAdvertisementFetcher`

The job (`RunIPNIAdvertisementFetcherJob`, `List`), its loop over providers, and the
walk: `FetchLast`, `Store` (insert; a stored row ends the walk), `FetchPrevious` (limit
and end of the chain). Faults may come at each await and end the walk of that
provider only; a crash ends the job. Advertisements are numbered by age.

### `ClientReports`

Calls are runs of the job and requests; a call waits at an await of its handler. All of
them share `generateReport()`: `CreateReport` (the row, after the queries that gather
its data), `StoreReportCheck` once per check, `ReadBack`, or `ClientNotFound`. The job is
`RunClientReportGenerationJob`, `ListApplications`, `GenerateClientReport` for each
application and `EndJob`. The trigger is `CheckerManualTrigger`, `LookForLatestReport`
(reuse, or generate) and `PostComment`. The API is `PostClientReport`, `Invalidate` (the
two deletions, one step each), `GetClientReport`, `QueryReports` and `StoreResponse`, which
Nest's cache interceptor does after the handler. `Fail` takes a call to the catch
clause of its handler, `Crash` ends all calls and empties the cache, `Age` makes
a report older than 30 hours and `Expire` ends a cached response.

Reports are numbered by creation, so the old ones are a prefix and a cached response is told
by the newest report in it. What a report says, and the result of a check, are
left out: no control depends on them.

### `AllocatorReports`

As `ClientReports`, one action per await. `CreateReport`, then the checks:
`StoreClientMultipleAllocators`, `StoreClientNotEnoughCopies`, and one per kind of client
check. For those, `ReadActiveClient` reads the newest client report of each client
to see whether it is active, `ReadClient` and `ReadNoClient` read the newest report again to
count its failed checks, and `StoreClientCheck` stores the verdicts, which go on side by
side. `StoreTrancheScheduleCheck`, `StoreScore` one at a time, `ReadBack`. Meanwhile
`NewClientReport` and `ContinueClientReport` write client reports, and `ChangeSpending`
changes who spent datacap. The job is `RunAllocatorReportGenerationJob`,
`FetchAllocatorsRegistry`, `GenerateAllocatorReport` per allocator, `EndJob`; the API and its cache as for
clients. `LatestScored` is what readers of the latest scores get. What a check or score
says is the matter of the next modules.

### `FilPlus`, `ClientReportChecks`, `AllocatorScoring`

`FilPlus` is the chain of Fil+: allocations and claims over days (`Allocate`,
`ClaimPiece`, `NextDay`), and as operators the tables the aggregation makes of them and
what a client report takes from the tables. `ClientReportChecks` has one operator per check
with its threshold and its arithmetic (percentages that are cut off after two decimals, `<`
or `<=`, absent thresholds), and `StoreReportChecks` which of them are stored.
`AllocatorScoring` has the eight metrics: percentiles of the other allocators, weights, the
score by comparison, and the ranges the code writes out a second time beside it.

### `FilPlusStatistics`, `Dashboard`

The same chain, as the API shows it in the allocator, client and provider services and
their controllers. `FilPlusStatistics`: compliance of providers and allocators week by week, the
histogram helper (buckets, the gaps it fills in, the current week it leaves out),
allocations by week or month, audit outcomes. No edition of Fil+ is asked for, as by default:
the histogram of the allocators' biggest clients then joins both registries (`RegisteredIn`), so
it counts an allocator once for each registry it is active in (`ActiveTables`) and leaves out
those that none has. `Dashboard`: the numbers of the statistics pages
now and up to an earlier day with their change, and the lists behind them. Each number
is a query over its own table, translated one by one, so that properties can compare two
that ought to be the same.

### `PoRepViews`

The tables of one storage provider's deals, rails, payments and daily tests, moved by the life of a
deal (`Propose`, `Advance`, `EndDeal`, `CreateRail`, `ChangeRail`, `Pay`, `TestProvider`,
`NextWindow`), and the queries over them as operators: the list of deals, compliance,
storage and economics statistics, the histories per window, the numbers of the
market. `MCServices` puts it next to `Dashboard`: they share no table, so in the run one moves and the
other stands still at its start.

### `UrlFinderSnapshots`

The job of the providers: `FetchLastMetricSnapshot` and `SkipToday`, `ReadLatest`, `ReadProviders`,
`FetchInBulk` and `FetchRejected` per chunk, `StoreSnapshotMetrics`. The runner of the deals:
`Run`, `ReadLatestPerDeal`, `ReadActiveDeals`, `EnsureDealSLITypesExist`, `ReadCounts`,
`StoreSlice`. Midnight (`NextDay`) may fall between any two of them; `Fault` is a rejected
call, a lost acknowledgement of a slice, or a crash.

## The runs

| run | question | bounds and why they suffice |
|---|---|---|
| `indexer` | all properties of `execute()`, the refinement and liveness | batches of 2 over blocks 2..6 give several batches; archive threshold 2 makes both nodes be used; lag 1; two versions and two faults, so a fault can hit the rebuild after another fault |
| `indexed_tables` | the tables of the two runners mirror the contracts; no batch throws for ever | two rails, one older than the origin, 5 logs over 3 blocks: create, change, settle or pay, finalize, in one batch or several; one provider, two deals (counters add up over both), 5 contract calls: register, propose twice, accept, complete. The deals are symmetric (no operator tells them apart, no liveness) |
| `filecoin_pay_rate` | is the rate in the table the current one? (no) | as above |
| `aggregation` | job flag, order, retries, partial writes, crash, liveness | six runners: each way of writing, two passes, a table read by two, and two that wait for each other; four failures: a job given up (three) and one more |
| `aggregation_app` | the application's own list of runners in its order | 30 runners, three failures |
| `cacheable` | one execution per result, no lost wake-up, every call ends | three callers, four calls: one executes, one waits at the old mutex, one comes after the deletion |
| `cacheable_locked` | are concurrent calls locked? (not after a rejection) | as above |
| `ipni_fetcher` | what holes there may be, the newest advertisement is stored | two providers, four advertisements, limit 1, two faults: an interrupted walk, then growth above it, then another |
| `reports` | completeness of what is handed out, the job's accounts, reuse, stale responses, every call ends | two calls at a time, one job and two requests in all: job beside request, request beside request, and one after another; a client that is found and one that is not, two names; one check, because the code only ever reads all checks of a report; one failure or crash |
| `allocator_reports` | the same for allocators; verdicts that come from client reports; what readers of scores see | two calls at a time, three events (job, request, failure, crash or change of the client reports): a client report appears between the two reads of it; an allocator with two clients (half of them fail, or more), one without, one not found; three scores, one of weight zero |
| `snapshots` | what a stored day may lack, values once, history complete, today's snapshot comes | two providers, two deals, chunks and slices of one, two faults: a run that dies between slices is tried again over midnight, with a second fault. Three days for the job; five for the runner (two events with three nights, fewer with four), with a history of two days, so that the first snapshots leave it, and one of the deals active on the first two days only. Counting the snapshots takes less than a day: at most one midnight passes meanwhile, so that a share is of the window of the date it is stored under, give or take a day |
| `services` | the views agree and add up, the past stays | two allocators, clients, providers, pieces of different sizes, three days that are three weeks, four allocations and claims (three once two days are over) of which two allocations: replicas, sharing, exhausted and unused datacap. One provider with two deals of different clients, two windows, of which the last is recent, two readings and six steps of deals and rails: a deal that is completed and paid beside one that is proposed, or rejected, or tested without a value |

Deadlock is checked except where the environment's bounds make the system stop:
the contracts' logs, the calls of `cacheable`, the job and requests of the reports, the
days of `snapshots` and the events of `services` run out.

### What the runs show

Everything listed as `pass` holds. Disagreements between the code and what
it says of itself:

* **`ConcurrentCallsLocked`** (`utils/cacheable.ts:86`): the decorator means to lock
  concurrent calls. The call that leaves deletes the mutex though others wait at it. When it
  left nothing in the cache, the next waiter and a new call execute concurrently.
  `OneExecution` shows that nothing else leads there.
* **`PaymentRateCurrent`** (`abstract-po-rep-indexer.runner.ts:119`): the comparator reverses
  a batch, so of two changes of a rail's rate in one batch the older is kept, while
  the API describes the column as the current rate. Deal states and provider settings
  that change twice in a batch are left behind alike.

Behaviours that surprise are stated as properties that hold:

* `FreshButStaleTables`: `old_datacap_client_balance_weekly` is always built from an earlier job's
  data, because its runner reads `client_claims_hourly` without declaring it.
* `NothingAddedBelow`: the IPNI mirror never adds below what it has stored; the hole
  of an interrupted walk stays.
* `DuplicatesAreRaces`: a trigger generates beside a recent report (its comment's footnote says
  a new one is generated only if the latest is older than 30 hours) when another report appears
  while it gathers data, and in no other way.
* `StaleResponsesExplained`, of both report APIs: a cached response outlives a POST only if its
  query came before the POST's deletion and its storing after it. Pages of an
  allocator's latest report are deleted by no POST.
* `DayLacksOnlyUnanswered`: a day that is partly stored counts as stored; the providers whose request
  was rejected never get a snapshot of that day.

### Observations made while translating

They contradict no property here, but a maintainer may want to know of them.

* `providers-average-sli.query.ts` takes the average indexing as one count over another of
  integers, so it is 0 or 1 (`AverageIndexing`).
* A comment of `getPoRepSLIComplianceHistory.sql` says that a metric without measurements
  makes a deal unknown; the `LEFT JOIN` gives no row for it, and it is passed over (`Verdict`).
* `cumulativeTotalUSD` adds up amounts rounded per window, hence the half cent per window in `HistoriesAddUp`.
* The market's number of active clients counts those of a deal terminated in the current window.
* The list of compliant providers of a week takes the average retrievability of all data,
  the weekly compliance that of open data: `ListsAgree` holds without that metric only.
* Past weeks are compared to an average over the clients that are public today.
* The histogram of the allocators' biggest clients counts an allocator twice that is active in both
  registries, unless an edition is asked for, and looks at the registries of today, which the
  aggregation refills: its past weeks change with them (`PastStays` leaves it out).
* A share of shared data below a hundredth of a percent is cut off to none.
* `getActiveAllocatorsStat` has no upper end for its earlier day, so the number of then is never below the
  number of now (`PastStays` leaves it out). `getActiveStorageProvidersCountStat` returns the count of
  the first group rather than the number of groups; it is not modelled.
* An allocator's clients count as active by the newest client report at the first read and their
  checks are those of the newest at the second (`VerdictsOfClients` asks for quiet).
* Numbers of an earlier day by compliance score compare with that day at midnight, so
  reports of today never count.

## Fairness

`PoRepIndexer`, `AggregationTasks` and `IpniAdvertisementFetcher` assume weak fairness of the
cron (the scheduler of the process fires for ever) and of the steps of an
invocation, that is, every awaited call returns or fails. The HTTP clients have time-outs; for
the database and for a runner's long transaction (timeout `Number.MAX_SAFE_INTEGER`) it is an
assumption. Chain growth, faults, crashes and deployments are never fair. Faults are
bounded, so liveness reads: once faults stop, the system gets there. `Cacheable`
assumes that the decorated method settles and that a granted mutex resumes its waiter.
`ClientReports` assumes that every await of a call returns or throws (`Step` or `Fail`);
no call needs another to begin, so beginnings are not fair. `UrlFinderSnapshots` assumes
it of the runner of the deals, which the hourly aggregation starts again; the job of the providers is given
none: what it misses at midnight it never makes up for.

## What is proved

### `PoRepProofs`

*The indexer.* It proves, for any number of calls, any origin, batch size,
threshold, lag, chain length, number of versions and faults that meet the
assumptions of the module:

* `Invariance`: `IInv == TypeOK /\ SingleFlight /\ RunsTile /\ RequestFresh /\
  FutureVersionsEmpty /\ ExactlyOnce` is inductive. `ExactlyOnce` alone is not: the commit
  writes what was computed before the awaits, so it needs `RequestFresh`, which
  needs `SingleFlight` (nobody else commits meanwhile) and `FutureVersionsEmpty`
  (the deployed version is the one whose runs built the tables); `RunsTile` gives
  the next block from the last row.
* `TypeCorrect`, `SingleFlightCorrect`, `ExactlyOnceCorrect`, `RunsTileCorrect`,
  `RequestFreshCorrect`: its parts as theorems of `Spec`.
* `CleanupCorrect`: the action property `CleanupOnlyByNewVersion`.
* `LedgerImplemented`: the refinement of `IndexLedger`.

The theorems hold for a node that answers the inverted range `execute()` asks for when it has
caught up (`LenientNode`) as for one that rejects it; the run takes the one that rejects,
since the other appends an empty row every hour.

Two assumptions are more than ranges. `RecentNodeAssumption`: the recent node keeps the
blocks that `execute()` asks it for, which is what the archive threshold is for. (Only liveness
needs it.) `LenientNodeAssumption`: a node that answers inverted ranges reports no head older
than the chain's; a lagging node that did so would let a run record end before the
previous one.

*The views of PoRep*, for any windows, deals, values and tests (`PoRepViewsAssumption`; of
the constants only what the contracts give: a net payment is no more than the gross one).

* `ComplianceOfEveryDealHolds` is about the functions alone: in every state of the tables
  the windows' verdicts share out the deals.
* `ActiveDealsAlwaysAgree` needs that today is one of the windows: what was measured of a
  deal lately was measured after it became active and before it ended.
* `HistoriesAlwaysAddUp` needs `ViewsInv`: types, and that the dates of a deal, its rail
  and its payments are in order (`Dated`), so that no row lies outside the windows that the
  history runs over. The totals of a history are the statistics' sums split by window
  (`SumByKey`, `SumUnion`); the dollars are rounded window by window, which costs at most
  half a cent for each (`RoundedWell`).

### `AggregationTasksProofs`

`AggregationTasksProofs` proves, for any number of pending jobs and failures, and for any graph of runners that
meets the hypotheses each theorem names:

* `Invariance`: `IInv == TypeOK /\ SingleJob /\ JobConsistent` is inductive, for every graph
  (that each table has one runner is assumed: `FillerAssumption`). `JobConsistent` ties the
  job's locals together: what counts as filled is what the runners that are done fill, the
  runner being executed was executable, and a pass that has executed none has met no
  executable one. `TypeCorrect` and `SingleJobCorrect` follow.
* `FilledIsFreshCorrect`: no filled table, but for the stale ones, is older than the job.
  Hypotheses: `Prompt(P)` (the runners of `P` find what they depend on filled by earlier
  ones of `P`, so the first pass executes them in order) and `SettledReads(P)` (a runner
  reads what it declares or what such earlier runners fill, and no stale table; the runners
  of stale tables are exempt). The invariant is `DataInv`: `FilledIsFresh` needs that a
  writing attempt has read fresh data (`BasisIsFresh`) and that a skipped day's rows are
  fresh (`DoneTodayIsFresh`); `PassesInOrder` gives it for the reads nobody declared.
* `CompletedIsFreshCorrect`: with `Ranked(rank)` too (every other table has a runner, none
  waits for itself), a success means that these tables are up to date. A rank is needed
  because the job that meets impossible dependencies counts as a success.
* `FreshButStaleTablesCorrect`: and the stale tables are never up to date, if each of them
  is stale for a reason (`StaleForGood`): its runner waits for ever (`Deadlocked(D)`;
  `NeverExecuted` is the invariant), or it reads what a runner further down the list fills
  (`StaysEarly`).
* `AtomicTablesCorrect`: a table written in a transaction is never emptied, if the stale
  ones among these tables are those of deadlocked runners.

`MCAggregationRunners` computes a `P`, a `D` and a rank from a graph, and its assumption
`HypothesesAssumption` makes TLC evaluate all hypotheses on the graph of the run, so the
theorems apply to the application's own list of runners (`aggregation_app`) and to the small
graph with a cycle (`aggregation`). In the application `IpniReportingDaily` is such a runner
that reads a table it does not declare, and is saved by the order of the list.

### `ServicesProofs`

What the services of Fil+ compute from tables.

*The checks of a client report*: `ChecksAlwaysAgree`, for any allocators, clients,
providers, pieces, sizes and settings. The invariant `FilPlusInv` says that the tables are
finite and that nobody has claimed more than was allocated to it. Then the report's
numbers agree because they are sums over the same claims by different keys, by provider, by
number of replicas, by client that shares (`TotalsByKey`, `DataSetSize`); sharing is mutual,
so that both clients fail the check of it (`SharingIsMutual`, `BothFail`); and the quotients
that are cut off after two decimals stay on the right side of every threshold (`CutOff`,
`SumProportion`, `AtMostAll`, `ManyParts`). It is assumed that the
thresholds of few and of many replicas leave no number between them that both reject
(`LowReplica <= HighReplica + 1`; the application's editions have 4 and 8 or 10).

*The scores of allocators*: `ScoresAlwaysMatchRanges`, for finitely many allocators with any
clients, rates and weights, from the same invariant. Value, comparisons and stored ranges of
each metric fit (`Fits`, for metrics of three ranges and of seven: `ThreeRanges`,
`SevenRanges`), and the weight of a kind of data keeps it (`StoredFits`, `StoredFull`). That
ranges bounded by percentiles follow one another needs that the rates can be sorted
(`SortedExists`, by a smallest set that cannot; `SortedRatesAre`), and that the quarter
percentile, interpolated, lies below the half one (`PercentileIs`, `QuarterWithinHalf`); the
sorted rates hold each rate as often as allocators have it (`SameCounts`), so that at most
half of them are above the median (`HalfAbove`). A check that all clients pass gives the full
score because both are about the same numbers, which are zero (`PassedIsFull`).

*The statistics over all of Fil+*: `WeeklyViewsAlwaysAddUp` and `AllocationsAlwaysAddUp`, for
any allocations, claims, public clients, thresholds and audits. `StatisticsInv` adds to
`FilPlusInv` that nothing is dated later than today and that every claim comes after an
allocation to its client (`Backed`), which is why a provider of a week is one of some
allocator of the week (`UsedAre`, `CoverSize`). A table of a week has a row for each name,
whose totals are a sum over the same claims by key (`TableOf`, `ProvidersTable`,
`AllocatorsTable`); verdicts and buckets split the rows (`ScoresShareOut`, `BucketsAre`), and
the buckets that are filled in are empty and have tops of their own, a multiple of the width
away (`MissingAre`, `HistogramOfTables`). The rows of the histogram over the registries are those
of the allocators of the week that a registry has, one for each registry (`ActiveRowsAre`,
`RegisteredHistogram`). The entries of an allocator are determined by their
dates, which are multiples of the period's days, so that a row is new at one date and a client
at its first (`RowOnce`, `NewClientIs`). It is assumed that an allowance is not zero and that the
audits of an allocator are listed in the order in which they ended (`StatisticsAssumption`).

*The dashboard*: `DashboardAlwaysAgrees`, from `StatisticsInv`, for any allocations, claims,
rates, scores and thresholds. Its four parts need nothing more of the tables, only that what
several queries count are the same rows. `DatacapDoes`: what clients have left and what they
have spent are terms of one sum (`SumPlus`, `DatacapSums`), of which the lists show the
summands. `ListsDo`: a week's list is decided by the rows that the weekly views count
(`VerdictsAgree`). `ProvidersDo`: an average over more rows with the same total is no larger
(`SharedByMore`), and a share of providers above a rate bounds the average from below
(`AverageOfShare`). The proof found that this bound holds but for the hundredth that the
average is cut off by: with one provider of 5000 at 76 and the others at 0, 0.02 % are above 75
and the average is shown as 0.01. `AllocatorsDo`: the two ranges of scores do not meet
and are parts of the whole (`SharesOfScores`; it is assumed that
`NonCompliantScore < CompliantScore <= 100`), and every client is one of some allocator. Clients are finitely
many (`DashboardAssumption`).

*What is over*: `PastAlwaysStays`, from `StatisticsInv`. A step adds rows of today only
(`StepAdds`), so the rows up to a day that is over are the same before and after it
(`PastRows`), and what is a function of them is too: each number up to that day
(`ProvidersOfPast`, `ClientsOfPast`, `AllocatorsOfPast`), the verdicts and buckets of each week
that is shown, which is never the current one (`ComplianceStays`, `HistogramsStay`). An entry of an
allocator stays because the walk along the dates only goes on (`DatesGoOn`, `EntriesStay`). The
totals never fall because they are over growing tables (`NumbersGrow`), nor does the
average number of clients of an allocator (`AverageGrows`, `NothingFalls`).

### `FetcherAndCacheProofs`

Two small components, whose names do not clash.

*The cache.* For any callers, calls and mutexes: `CacheableInvariance`, `OneExecutionCorrect`,
and `HoldersExclude`, what the lock does guarantee: calls under the same mutex exclude each
other from look-up to store, whatever becomes of the map. `OneExecution` needs that until
something is cached there is a single mutex and that whoever executed still holds it
(`FirstMutexOnly`), that a holder is first in its queue (`HolderIsFirst`), that each call is
in one queue once (`QueuesHoldCalls`), and a count of the executions that is within its type
(`ExecutionsCounted`).

*The walk of the fetcher.* For any providers, chains, limit and faults: `NoUnexplainedHolesCorrect` and the action
property `NothingAddedBelowCorrect`. The invariant says of the walk that it has stored all
from the listed advertisement down to where it is and that the older rows lie below
(`WalkTiles`), that the table holds nothing newer than the last listing (`StoredWasListed`:
why a walk that meets a stored row may stop), and that before the walk there was no hole but
those of an earlier interruption (`EarlierHasNoHole`).

### `ClientReportsProofs`

For any clients, names, number of checks, calls and failures: `HandedOutCompleteCorrect`,
`JobAccountsForAllCorrect`, `DuplicatesAreRacesCorrect`, `StaleResponsesExplainedCorrect`.
The invariant says of each call where it is in its report, its list and its look-up
(`CallsConsistent`), that no two calls store checks of one report (`OwnersDiffer`), and that
reports, made or still owed, are no more than the bounds on jobs and requests allow
(`ReportsCounted`, a count over a set of pairs that each creation makes smaller). The
properties of duplicates and responses are inductive with that.

### `AllocatorReportsProofs`

The same for allocators: `HandedOutCompleteCorrect`, `VerdictsOfClientsCorrect`,
`ShownScoresCompleteCorrect`, `StaleResponsesExplainedCorrect`. In addition the invariant
ties the two reads of client reports together: the tallies of a call that no new client
report disturbed are those of the newest reports (`CallsTally`), a recent client report
stays so while its client spends, and the newer ones of that client are recent with it
(`RecentSpending`, `NewerRecent`; of the reports that exist at the start it is assumed,
`ClientReportsAssumption`). A report whose generation ended well has all its scores
(`DoneScored`), because the weights have one that is not zero for each type of data
(`ConstantsAssumption`; the source's tables do).

### `UrlFinderSnapshotsProofs`

For finite sets of providers and deals and any days, chunks, slices, windows and faults:
`DayLacksOnlyUnansweredCorrect`, `ValuesOfEveryTestCorrect`, `IndexingFromHistoryCorrect`.
The job of the providers and the runner of the deals share only the calendar, so the
invariant is in halves. `ProvidersInv`: one row per provider and day, which day the job is
at and whom it has yet to ask or store, what past days lack, values with their snapshots.
`DealsInv`: one row per deal and day, dates that the runner fixed at its start though
midnight passes, and shares that are counted over a history that no later store changes.

### `IndexedTablesProofs`

For any providers, deals, rails, sizes, values and lengths of the chain, with batches of any
length. The invariants are in `IndexedTablesInvariants`.

*No batch throws* (`NoPoisonBatchCorrect`; a batch that makes the transaction throw would stop
the indexer for ever). A log is never about a row that neither the tables have nor an earlier
pending log inserts, and no insertion comes twice (`RowsInv`, `OnceInv`); as a batch is a
prefix of what is pending, and the transaction inserts providers and deals before it updates
them, reversing the batch does no harm.

*The history* (`HistoryMirrorsChainCorrect`, `DealsHaveTermsCorrect`). Once the runner has
caught up, the history of a deal ends in the contract's state and holds a decision before a
completion. This needs the contract's state machine: which states a deal in a given state has
been through, in the table or in a pending log (`HistoryInv`).

*The deals' tables mirror the contracts* (`DealTablesMirrorChainCorrect`, with its parts
`BytesMirrorChainCorrect` and `RowsMirrorChainCorrect`). `MirrorInv` says what the logs not
indexed yet still have to bring. For a byte counter there is a sequence of sums that starts at
the table's value, takes the steps of the pending logs and ends at the contract's
(`BytesInv`). For an overwritten column, the last pending log that writes it writes the
contract's value, and without such a log the table has it (`ColumnInv`); rows with two writes
of a column in one batch (`entangled`) are exempt. What a proposal fixes is in the table or in
the log (`FixedInv`). A call of a contract keeps this because its logs extend the
pending ones by what it changes (`Told`). A batch keeps it because the input that the
reversed logs of an entity reduce to moves a counter by the sum of their moves, whatever
their order, and overwrites a column with the value of the one log that writes it (`Indexed`).

*The payment tables mirror the contract* (`PayTablesMirrorChainCorrect`). `PayInv` says the
same of rails: the unindexed logs, applied one by one, lead each column from the table's value
to the contract's (`Leads`), for every column of a rail of which no batch held two writes
of one column, and always for the columns that are written once in a rail's life
(`OneShot`, by `RailOnceInv`). The payments of the contract are the bag of the table
plus the rows of the unindexed logs, copies counted (`PaymentsInv`): a batch splits those rows
in two whatever its order, which is a lemma on the cardinalities of renumbered sets. A log of a rail
older than the origin updates no row and still pays.

Both assume what the constants are: identifiers of providers and deals differ
(`ConstantsAssumption`), which only the model's common map of rows asks for, and amounts and
fees are naturals (`PayConstantsAssumption`), as `uint256` values are. What a reduction or a
sum over a batch of any length amounts to is proved by a least counterexample: the set of
positions where it fails would have a smallest member (`Smallest`).

### What only TLC checks

Liveness: `EventuallyIndexed`, `KeepsCompleting`, `NewestStored`, `TodayEventuallyStored`,
and `CallsEnd` of `Cacheable` and of `ClientReports`. TLAPS here has no reasoning on
fairness and ENABLED.

No module declares a RECURSIVE operator. A least element of a set of numbers (`Smallest`,
from the well-foundedness of the naturals) stands for induction where a proof needs one.

## Plan

1. The rest of the services: times to the first deal and of audits, the datacap flow.
2. The decimal arithmetic of PoRep prices and the misreporting checker's totals.

## Not modelled

* Two processes at once (a rolling deployment). The flags are per process; one process
  is assumed throughout.
* Reorganisations of the chain: the runner reads up to the head and never looks back.
* The return to an older version: `getVersion()` only grows.
* What the aggregation's queries compute, in `AggregationTasks` (a table is as old as what it was
  built from), and how old they are, in `FilPlus` (tables are complete); empty sources.
* In the reports: a report by its id, the text of a comment, the health
  fields; pauses of the jobs, which are part of their steps.
* Sorting, paging, names and look-ups of the lists; the fallback averages of an empty table.
* `@Retryable`: a bounded retry of one call. Models see a call that answers or fails.
* Outside clients, the price oracle, the other controllers, query builders, wiring and metrics:
  stateless I/O and declarations. The ABIs are data.
* The start-up check for duplicate runner names, which runs once before any cron.
