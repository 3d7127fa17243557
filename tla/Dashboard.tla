------------------------------ MODULE Dashboard -------------------------------
(***************************************************************************)
(* The numbers of the dashboard, now and up to an earlier day, and the     *)
(* lists behind them.  They come from tables that different jobs fill: the *)
(* hourly claims, the allocations, the clients, and daily tables that keep *)
(* what was found on a day.                                                *)
(*                                                                         *)
(* A number up to a day is that at its end.  Percentages and averages are  *)
(* in hundredths, cut off.  The scores and the checks of an earlier day    *)
(* are not kept here, so that those numbers are today's only; how many     *)
(* allocators are approved is the registry's to say and left out, and so   *)
(* are alerts.                                                             *)
(***************************************************************************)
EXTENDS FilPlusStatistics

CONSTANTS ActiveDays,         \* 60
          TwoWeeks,           \* in days
          HighRetrievability, \* 70, in percent
          CompliantScore,     \* 70: percent of the full score, at least
          NonCompliantScore   \* 45: at most

ASSUME DashboardAssumption ==
  /\ {ActiveDays, TwoWeeks, HighRetrievability, CompliantScore, NonCompliantScore} \subseteq Nat
  /\ NonCompliantScore < CompliantScore /\ CompliantScore <= 100
  /\ IsFiniteSet(Clients)

ClaimsSince(first, day) == {k \in claims : first <= k.day /\ k.day <= day}
AllocationsSince(first, day) == {x \in allocations : first <= x.day /\ x.day <= day}
ProvidersIn(set) == {k.provider : k \in set}
ClientsOfAll(set) == {x.client : x \in set}
AverageOf(set, f) == IF set = {} THEN 0 ELSE BigIntDiv(SumOf(set, f), Cardinality(set))

-----------------------------------------------------------------------------
(* Storage providers *)

GetStorageProvidersCountStat(day) == Cardinality(ProvidersIn(ClaimsSince(0, day)))

\* The first job of a day measures the providers of the claims before it; later ones do not.
MeasuredOn(day) == ProvidersIn(ClaimsSince(0, day - 1))

GetStorageProvidersPercentageByUrlFinderRetrievability(day, minRetrievability) ==
  PercentOf(Cardinality({p \in MeasuredOn(day) : Rate[p] > minRetrievability}),
            Cardinality(MeasuredOn(day)))

\* Of all, an unknown rate counting as 0, and of those whose rate is known.
GetAverageUrlFinderRetrievabilityStats(day) ==
  LET available == {p \in MeasuredOn(day) : Rate[p] # NoRate}
      total == SumOf(available, Rate)
  IN  [avgAllSp |-> IF MeasuredOn(day) = {} THEN 0 ELSE BigIntDiv(total, Cardinality(MeasuredOn(day))),
       avgAvailableSp |-> AverageOf(available, Rate)]

GetAggregatedProvidersReportingStatus(day) ==
  LET with(status) == Cardinality({p \in MeasuredOn(day) : ReportingStatus(ClaimsSince(0, day - 1), p) = status})
  IN  [ok |-> with("OK"), misreporting |-> with("MISREPORTING"),
       notReporting |-> with("NOT_REPORTING"), total |-> Cardinality(MeasuredOn(day))]
GetStorageProvidersReportingToIPNIPercentage(day) ==
  LET row == GetAggregatedProvidersReportingStatus(day) IN PercentOf(row.ok, row.total)

\* Of the claims from a day to a day, those without the market.
GetDDOPercentageStat(first, day) ==
  LET set == ClaimsSince(first, day)
  IN  PercentOf(Cardinality({k \in set : k.provider \in Ddo}), Cardinality(set))

\* The list of a week: its average is that of all providers, unlike that of the statistics.
GetWeekStorageProvidersWithSpsCompliance(week, metrics) ==
  ProvidersScored(ProvidersWeeklyAcc(week), metrics, FALSE)

-----------------------------------------------------------------------------
(* Clients *)

GetClientsCountStat(day) == Cardinality(ClientsOfAll(AllocationsSince(0, day)))
GetDatacapSpentByClientsStat(day) == Total(ClaimsSince(0, day))

\* Active is who received datacap of late, not who spent it.
GetActiveClientsStat(day) == Cardinality(ClientsOfAll(AllocationsSince(day - ActiveDays + 1, day)))

Remaining(c, day) == Received({x \in AllocationsSince(0, day) : x.client = c})
                       - Total({k \in ClaimsSince(0, day) : k.client = c})

\* A row per day, that of its last job.
\* Mutant: what remains is that of the clients with deals.
GetClientsGenericStats_OfDealing(day) ==
  LET dealing == ClientsOfAll(ClaimsSince(0, day))
  IN  [clientsWithActiveDeals |-> Cardinality(dealing),
       clientsWhoHaveDcAndDeals |-> Cardinality({c \in dealing : Remaining(c, day) > 0}),
       totalRemainingClientsDatacap |-> SumOf(dealing, [c \in dealing |-> Remaining(c, day)])]
GetClientsGenericStats(day) ==
  LET dealing == ClientsOfAll(ClaimsSince(0, day))
  IN  [clientsWithActiveDeals |-> Cardinality(dealing),
       clientsWhoHaveDcAndDeals |-> Cardinality({c \in dealing : Remaining(c, day) > 0}),
       totalRemainingClientsDatacap |-> SumOf(Clients, [c \in Clients |-> Remaining(c, day)])]

\* Clients that fail more than half of the checks stored with their report of today.
GetFailingClientsPercentageStat(env) ==
  LET fails(c) == 2 * Cardinality(Failed(c, env)) > Cardinality(Failed(c, env)) + Cardinality(Passed(c, env))
  IN  PercentOf(Cardinality({c \in ReportedClients : fails(c)}), Cardinality(ReportedClients))

UsedSince(c, day) == Total({k \in ClaimsSince(day, today) : k.client = c})
GetClients ==
  {[client |-> c, datacapReceived |-> Received(ReceivedBy(c)), datacapRemaining |-> Remaining(c, today),
    datacapUsed2Weeks |-> UsedSince(c, today - TwoWeeks)] : c \in ReportedClients}

\* Of each allocation whose client had a deal after it, or on the day, the days to the first.
DaysToFirstDeal(set, day) ==
  LET after(x) == {k.day : k \in {j \in ClaimsSince(x.day, day) : j.client = x.client}}
  IN  {[allocation |-> x, days |-> Min(after(x)) - x.day] : x \in {y \in set : after(y) # {}}}
GetAverageSecondsToFirstDeal(set, day) ==
  LET first == DaysToFirstDeal(set, day) IN AverageOf(first, [t \in first |-> t.days])

-----------------------------------------------------------------------------
(* Allocators *)

\* Up to now, whatever the day.
GetActiveAllocatorsStat(day) ==
  Cardinality({x.allocator : x \in AllocationsSince(day - ActiveDays + 1, today)})

\* A row per allocator and day; the averages of the rows of a day.
AllocatorClientStatsOf(a, day) ==
  LET of == {x \in AllocationsSince(0, day) : x.allocator = a}
      returning == {c \in ClientsOfAll(of) : Cardinality({x \in of : x.client = c}) > 1}
  IN  [allocator |-> a, numberOfClients |-> Cardinality(ClientsOfAll(of)),
       returning |-> PercentOf(Cardinality(returning), Cardinality(ClientsOfAll(of))),
       dealt |-> DaysToFirstDeal(of, day) # {}, first |-> GetAverageSecondsToFirstDeal(of, day)]
GetAllocatorsClientsStats(day) ==
  LET row == [a \in Allocators |-> AllocatorClientStatsOf(a, day)]
      dealt == {a \in Allocators : row[a].dealt}
  IN  [averageNumberOfClients |-> AverageOf(Allocators, [a \in Allocators |-> row[a].numberOfClients]),
       averageReturningClientsPercentage |->
         SumOf(Allocators, [a \in Allocators |-> row[a].returning]) \div Cardinality(Allocators),
       averageSecondsToFirstDeal |-> IF dealt = {} THEN 0
                                     ELSE SumOf(dealt, [a \in dealt |-> row[a].first]) \div Cardinality(dealt)]

\* The scores of the allocators' reports against the best of the ranges stored beside them.
ScoresOf(storing) ==
  {[allocator |-> a, score |-> SumOf(storing[a], [s \in storing[a] |-> s.score]),
    best |-> SumOf(storing[a], [s \in storing[a] |-> Max({y.score : y \in s.ranges})])] : a \in DOMAIN storing}
GetAllocatorsIdsByScorePercentageThreshold(scores, min, max) ==
  {s \in scores : s.best # 0 /\ min * s.best <= 100 * s.score /\ 100 * s.score <= max * s.best}
GetAllocatorsPercentageByScoreRange(scores, min, max) ==
  PercentOf(Cardinality(GetAllocatorsIdsByScorePercentageThreshold(scores, min, max)),
            Cardinality(GetAllocatorsIdsByScorePercentageThreshold(scores, 0, 100)))
GetCompliantAllocatorsStat(scores) == GetAllocatorsPercentageByScoreRange(scores, CompliantScore, 100)
GetNonCompliantAllocatorsStat(scores) == GetAllocatorsPercentageByScoreRange(scores, 0, NonCompliantScore)

\* DMOB names one allocator of a client; here a client is listed by each that allocated to it.
GetVerifiedClientsByAllocator(a) ==
  {[client |-> c, usedDatacap |-> Total(ClaimsOf(c)), remainingDatacap |-> AvailableDatacap(c),
    usedDatacapChange |-> UsedSince(c, today - TwoWeeks)] : c \in ClientsOf(a)}

GetWeekAllocatorsWithSpsCompliance(week, metrics, threshold) ==
  {[allocator |-> row.id, score |-> CalculateAllocatorComplianceScore(row, threshold)]
     : row \in GetWeekStandardAllocatorSpsCompliance(week, metrics)}

\* By week and allocator, the weeks with allocations only.
GetAllocationsByAllocatorHistory ==
  LET weekly == {<<Week(x.day), x.allocator>> : x \in {y \in allocations : y.allocator \notin LeftOut}}
  IN  {[week |-> w[1], allocator |-> w[2],
        total |-> Received({x \in allocations : <<Week(x.day), x.allocator>> = w})] : w \in weekly}

\* Of all the datacap given to the allocators, what they have allocated and what is left.
GetAllocatorsDatacapInfo(totalDatacap) ==
  [usedDatacap |-> GetAllocatorsDatacapUsage,
   remainingDatacap |-> totalDatacap - GetAllocatorsDatacapUsage,
   percentage |-> PercentOf(GetAllocatorsDatacapUsage, totalDatacap)]

-----------------------------------------------------------------------------
(* What is shown of an interval: each number of today, and that of so many days ago *)

\* In hundredths; nothing can be said when there was nothing before.
CalculateDashboardStatistic(current, previous) ==
  IF previous = 0 THEN {} ELSE {BigIntDiv(current, previous) - 100}
Changes(Number(_), interval) ==
  LET current == Number(today)
      previous == Number(today - interval)
  IN  [name \in DOMAIN current |-> [value |-> current[name],
                                    percentageChange |-> CalculateDashboardStatistic(current[name], previous[name])]]

ProvidersNumbers(day, interval) ==
  [TOTAL_STORAGE_PROVIDERS |-> GetStorageProvidersCountStat(day),
   HIGH_RPA |-> GetStorageProvidersPercentageByUrlFinderRetrievability(day, HighRetrievability),
   REPORTING_TO_IPNI |-> GetStorageProvidersReportingToIPNIPercentage(day),
   DDO_DEALS |-> GetDDOPercentageStat(day - interval + 1, day),
   DDO_DEALS_TO_DATE |-> GetDDOPercentageStat(0, day),
   AVERAGE_RPA |-> GetAverageUrlFinderRetrievabilityStats(day).avgAllSp,
   AVERAGE_AVAILABLE_RPA |-> GetAverageUrlFinderRetrievabilityStats(day).avgAvailableSp]
GetStorageProvidersStatistics(interval) == Changes(LAMBDA day : ProvidersNumbers(day, interval), interval)

ClientsNumbers(day) ==
  LET generic == GetClientsGenericStats(day)
  IN  [TOTAL_CLIENTS |-> GetClientsCountStat(day), TOTAL_ACTIVE_CLIENTS |-> GetActiveClientsStat(day),
       DATACAP_SPENT_BY_CLIENTS |-> GetDatacapSpentByClientsStat(day),
       CLIENTS_WITH_ACTIVE_DEALS |-> generic.clientsWithActiveDeals,
       CLIENTS_WITH_ACTIVE_DEALS_AND_DATACAP |-> generic.clientsWhoHaveDcAndDeals,
       TOTAL_REMAINING_CLIENTS_DATACAP |-> generic.totalRemainingClientsDatacap]
GetClientsStatistics(interval) == Changes(ClientsNumbers, interval)

AllocatorsNumbers(day) ==
  LET clients == GetAllocatorsClientsStats(day)
  IN  [TOTAL_ACTIVE_ALLOCATORS |-> GetActiveAllocatorsStat(day),
       AVERAGE_NUMBER_OF_CLIENTS |-> clients.averageNumberOfClients,
       AVERAGE_PERCENTAGE_OF_RETURNING_CLIENTS |-> clients.averageReturningClientsPercentage,
       AVERAGE_TIME_TO_FIRST_DEAL |-> clients.averageSecondsToFirstDeal]
GetAllocatorsStatistics(interval) == Changes(AllocatorsNumbers, interval)

-----------------------------------------------------------------------------
(* Properties *)

\* The clients' numbers tell the same datacap: what remains and what was spent is what was
\* allocated, by the daily table, by the list of clients and by the lists of allocators.
DatacapAgrees ==
  LET generic == GetClientsGenericStats(today)
  IN  /\ generic.totalRemainingClientsDatacap + GetDatacapSpentByClientsStat(today) = Received(allocations)
      /\ generic.totalRemainingClientsDatacap = SumOf(GetClients, [row \in GetClients |-> row.datacapRemaining])
      /\ generic.clientsWithActiveDeals <= GetClientsCountStat(today)
      /\ generic.clientsWithActiveDeals - generic.clientsWhoHaveDcAndDeals
           = Cardinality({row \in GetClients : row.datacapReceived # 0 /\ row.datacapRemaining = 0})
      /\ \A a \in Allocators : \A x \in GetVerifiedClientsByAllocator(a) :
           \E row \in GetClients :
             /\ row.client = x.client /\ row.datacapUsed2Weeks = x.usedDatacapChange
             /\ row.datacapReceived = x.usedDatacap + x.remainingDatacap

\* The lists of a week and its statistics have the same verdicts, unless the retrievability
\* is asked for; and the histories by allocator and for all have the same weeks and totals.
ListsAgree ==
  /\ \A metrics \in SUBSET {"numberOfClients", "totalDealSize"} :
       \A x \in GetProviderComplianceWeekly(metrics) :
         Sps(GetWeekStorageProvidersWithSpsCompliance(x.week, metrics)) = x.sps
  /\ \A x \in GetStandardAllocatorSpsComplianceWeekly({"numberOfClients"}), threshold \in Thresholds :
       LET list == GetWeekAllocatorsWithSpsCompliance(x.week, {"numberOfClients"}, threshold)
       IN  /\ Cardinality(list) = Cardinality(x.allocators)
           /\ \A row \in x.allocators : row.sps.compliant = row.totalSps /\ row.totalSps # 0 =>
                [allocator |-> row.id, score |-> "compliant"] \in list
  /\ \A x \in CumulativeAllocationsHistory(DaysPerWeek) :
       x.total = TotalOf({row \in GetAllocationsByAllocatorHistory : row.week = x.window})

\* The status and the rates of the providers measured, which are those counted the day before;
\* averages and shares are cut off.
ProvidersAgree ==
  LET ipni == GetAggregatedProvidersReportingStatus(today)
      rates == GetAverageUrlFinderRetrievabilityStats(today)
      high == GetStorageProvidersPercentageByUrlFinderRetrievability(today, HighRetrievability)
  IN  /\ ipni.ok + ipni.misreporting + ipni.notReporting = GetStorageProvidersCountStat(today - 1)
      /\ rates.avgAllSp <= rates.avgAvailableSp
      /\ (rates.avgAllSp + 1) * 100 > high * HighRetrievability

\* The shares of allocators with a high and with a low score do not overlap; a client is one of
\* some allocator; and all of them returned only if none has a single allocation.
AllocatorsAgree ==
  LET scores == ScoresOf([a \in Allocators |-> StoreScoring(a)])
      clients == GetAllocatorsClientsStats(today)
  IN  /\ GetCompliantAllocatorsStat(scores) + GetNonCompliantAllocatorsStat(scores) <= 10000
      /\ Allocators # {} =>
           (clients.averageNumberOfClients + 1) * Cardinality(Allocators) > 100 * GetClientsCountStat(today)
      /\ clients.averageReturningClientsPercentage = 10000 =>
           \A a \in Allocators, c \in Clients : Cardinality(AllocationsTo(a, c)) # 1

\* The numbers of the dashboard, which different services take from different tables, agree
\* with each other and with the lists.
DashboardAgrees == DatacapAgrees /\ ListsAgree /\ ProvidersAgree /\ AllocatorsAgree

\* Weeks and days that are over keep what was said of them: the weekly views that look at
\* neither the retrievability nor the registries, the entries of an allocator, the numbers
\* up to a day but for that of active allocators; and the numbers of all that there was
\* never fall.
PastEntries(a) == {e \in GetAllocationsByAllocator(a, "week", TRUE) : Week(e.date) < ThisWeek}
NumbersOf(day) == <<ProvidersNumbers(day, 1), ClientsNumbers(day), GetAllocatorsClientsStats(day)>>
Falls(statistics, names) ==
  \E name \in names : \E change \in statistics[name].percentageChange : change < 0

NothingPastChanges ==
  LET Stays(old, new) == old \subseteq new
  IN  /\ \A metrics \in SUBSET {"numberOfClients", "totalDealSize"} :
           Stays(GetProviderComplianceWeekly(metrics), GetProviderComplianceWeekly(metrics)')
      /\ Stays(GetProviderBiggestClientDistributionWeekly, GetProviderBiggestClientDistributionWeekly')
      /\ \A a \in Allocators : Stays(PastEntries(a), PastEntries(a)')
      /\ \A day \in 0..(today - 1) :
           /\ NumbersOf(day)' = NumbersOf(day)
           /\ ~Falls(GetStorageProvidersStatistics(today - day), {"TOTAL_STORAGE_PROVIDERS"})
           /\ ~Falls(GetClientsStatistics(today - day),
                     {"TOTAL_CLIENTS", "DATACAP_SPENT_BY_CLIENTS", "CLIENTS_WITH_ACTIVE_DEALS"})
           /\ ~Falls(GetAllocatorsStatistics(today - day), {"AVERAGE_NUMBER_OF_CLIENTS"})
PastStays == [][NothingPastChanges]_filPlusVars

=============================================================================
