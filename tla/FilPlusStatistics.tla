-------------------------- MODULE FilPlusStatistics ---------------------------
(***************************************************************************)
(* What the API shows of Fil+ as a whole: the compliance of providers and  *)
(* allocators week by week, histograms, the allocations of an allocator by *)
(* week or month, and the outcomes of audits.                              *)
(*                                                                         *)
(* The weekly tables are accumulated: a week's rows count everything up to *)
(* its end.  A provider's rate is the same in every week.  No allocator is *)
(* a metaallocator, and no edition of Fil+ is asked for, as by default.    *)
(***************************************************************************)
EXTENDS AllocatorScoring

CONSTANTS PublicClients,   \* whose application confirms a public data set
          FewClients,      \* 3: a provider needs more clients than these
          MaxBiggestShare, \* 30: percent of its biggest client, at most
          Thresholds,      \* percentages of compliant providers that may be asked for
          RegisteredIn,    \* of an edition: the allocators its registry has, but for the rejected
          LeftOut,         \* allocators that the history of allocations leaves out
          Audits           \* of an allocator: its audits in the order they ended, the others last

ComplianceMetrics == {"urlFinderRetrievability", "numberOfClients", "totalDealSize"}
\* Those that have a registry: allocator_registry_archive and allocator_registry.
Editions == {5, 6}
Outcomes == {"GRANTED", "MATCH", "THROTTLE", "REJECT", "PENDING", "UNKNOWN"}
Audit == [ended : Days \cup {Never}, outcome : Outcomes, amount : Nat]

ASSUME StatisticsAssumption ==
  /\ PublicClients \subseteq Clients /\ LeftOut \subseteq Allocators
  /\ RegisteredIn \in [Editions -> SUBSET Allocators]
  /\ {FewClients, MaxBiggestShare} \subseteq Nat /\ Thresholds \subseteq 1..100
  /\ Audits \in [Allocators -> Seq(Audit)]
  /\ \A a \in Allocators : \A i, j \in DOMAIN Audits[a] :
       i < j /\ Audits[a][j].ended # Never =>
         Audits[a][i].ended # Never /\ Audits[a][i].ended <= Audits[a][j].ended

-----------------------------------------------------------------------------
(* Providers, week by week *)

TotalOf(set) == SumOf(set, [x \in set |-> x.total])

\* A row per provider of the week, and per allocator: the totals of its clients.
WeeklyRow(name, totals, rate) ==
  [name |-> name, num |-> Cardinality(totals), biggest |-> Max({t.total : t \in totals}),
   total |-> TotalOf(totals), rate |-> rate]
ClientTotals(set) ==
  {[client |-> c, total |-> Total({k \in set : k.client = c})] : c \in {k.client : k \in set}}
AllocationTotals(set) ==
  {[client |-> c, total |-> Received({x \in set : x.client = c})] : c \in {x.client : x \in set}}

ClaimsAt(p, week) == {k \in ClaimsUpTo(week) : k.provider = p}
ProvidersWeeklyAcc(week) ==
  {WeeklyRow(p, ClientTotals(ClaimsAt(p, week)), IF Rate[p] = NoRate THEN 0 ELSE Rate[p])
     : p \in {k.provider : k \in ClaimsUpTo(week)}}

AllocatedBy(a, week) == {x \in AllocationsUpTo(week) : x.allocator = a}
ClientsUpTo(a, week) == {x.client : x \in AllocatedBy(a, week)}
AllocatorsWeeklyAcc(week) ==
  {WeeklyRow(a, AllocationTotals(AllocatedBy(a, week)), NoRate)
     : a \in {x.allocator : x \in AllocationsUpTo(week)}}

GetWeeksTracked == {w \in 0..ThisWeek : ClaimsUpTo(w) # {}}

\* The current week is not shown, for its data is not complete.
\* Mutant: the current week is shown.
WithoutCurrentWeek_Kept(weeks) == weeks
WithoutCurrentWeek(weeks) == weeks \ {ThisWeek}

\* The sum of rates and their number, of all providers or of those with open data.  Public
\* clients are those of today, whatever the week.
OpenDataProviders == {k.provider : k \in {j \in claims : j.client \in PublicClients}}
GetWeekAverageProviderRetrievability(rows, openData) ==
  LET counted == {row \in rows : openData => row.name \in OpenDataProviders}
  IN  <<SumOf(counted, [row \in counted |-> row.rate]), Cardinality(counted)>>

MeetsMetric(row, average, metric) ==
  CASE metric = "urlFinderRetrievability" ->
         average[1] # 0 /\ row.rate * average[2] > average[1]
    [] metric = "numberOfClients" -> row.num > FewClients
    [] metric = "totalDealSize"   -> 100 * row.biggest <= MaxBiggestShare * row.total

\* A metric that is not asked for is met.
\* Mutant: none of the metrics that are asked for.
CalculateProviderComplianceScore_Asked(row, average, metrics) ==
  LET unmet == {m \in metrics : ~MeetsMetric(row, average, m)}
  IN  IF unmet = {} THEN "compliant"
      ELSE IF unmet = metrics THEN "nonCompliant" ELSE "partiallyCompliant"
CalculateProviderComplianceScore(row, average, metrics) ==
  LET unmet == {m \in metrics : ~MeetsMetric(row, average, m)}
  IN  IF unmet = {} THEN "compliant"
      ELSE IF unmet = ComplianceMetrics THEN "nonCompliant" ELSE "partiallyCompliant"

ProvidersScored(rows, metrics, openData) ==
  LET average == GetWeekAverageProviderRetrievability(rows, openData)
  IN  {[provider |-> row.name, total |-> row.total,
        score |-> CalculateProviderComplianceScore(row, average, metrics)] : row \in rows}
ProvidersCompliance(rows, metrics) == ProvidersScored(rows, metrics, TRUE)

Scores == {"compliant", "partiallyCompliant", "nonCompliant"}
ComplianceProviders(compliance, score) == {x \in compliance : x.score = score}
Sps(compliance) == [score \in Scores |-> Cardinality(ComplianceProviders(compliance, score))]
Datacap(compliance) == [score \in Scores |-> TotalOf(ComplianceProviders(compliance, score))]

WeekProvidersCompliance(week, metrics) == ProvidersCompliance(ProvidersWeeklyAcc(week), metrics)
GetProviderComplianceWeekly(metrics) ==
  LET of(week) == WeekProvidersCompliance(week, metrics)
  IN  {[week |-> week, totalSps |-> Cardinality(of(week)), sps |-> Sps(of(week)),
        datacap |-> Datacap(of(week))] : week \in WithoutCurrentWeek(GetWeeksTracked)}

-----------------------------------------------------------------------------
(* Allocators, by the providers of their clients *)

ProvidersUsed(a, week) ==
  {k.provider : k \in {j \in ClaimsUpTo(week) : j.client \in ClientsUpTo(a, week)}}
GetWeekStandardAllocatorSpsCompliance(week, metrics) ==
  LET compliance == WeekProvidersCompliance(week, metrics)
      used(a) == ProvidersUsed(a, week)
  IN  {[id |-> row.name, totalDatacap |-> row.total, totalSps |-> Cardinality(used(row.name)),
        sps |-> Sps({x \in compliance : x.provider \in used(row.name)})]
         : row \in AllocatorsWeeklyAcc(week)}

GetStandardAllocatorSpsComplianceWeekly(metrics) ==
  {[week |-> week, allocators |-> GetWeekStandardAllocatorSpsCompliance(week, metrics)]
     : week \in WithoutCurrentWeek(GetWeeksTracked)}

\* The percentages are 0 for an allocator without providers.
CalculateAllocatorComplianceScore(row, threshold) ==
  LET reached(sps) == row.totalSps # 0 /\ 100 * sps >= threshold * row.totalSps
  IN  IF reached(row.sps.compliant) THEN "compliant"
      ELSE IF reached(row.sps.compliant + row.sps.partiallyCompliant)
      THEN "partiallyCompliant" ELSE "nonCompliant"

-----------------------------------------------------------------------------
(* Histograms *)

\* Five percent wide; a share of nothing falls into a bucket below zero.
Bucket(part, whole) == 5 * ((20 * part + whole - 1) \div whole)
Top(by, row) == CASE by = "number"  -> row.num
                  [] by = "biggest" -> Bucket(row.biggest, row.total)
                  [] by = "rate"    -> Bucket(row.rate, 100)

\* What the query returns of the tables of weeks: of each week the buckets that are not
\* empty, by their top.
Buckets(rows, by) ==
  LET of(top) == {row \in rows : Top(by, row) = top}
  IN  {[top |-> top, count |-> Cardinality(of(top)), datacap |-> TotalOf(of(top))]
         : top \in {Top(by, row) : row \in rows}}
Flat(tables, by) == {[week |-> w, results |-> Buckets(tables[w], by)] : w \in DOMAIN tables}

\* Every week gets the buckets from the top one, that of all the weeks if none is given,
\* down to zero.
Tops(buckets) == {b.top : b \in buckets}
CountOf(buckets) == SumOf(buckets, [b \in buckets |-> b.count])
MissingBuckets(buckets, span, top) ==
  {[top |-> t, count |-> 0, datacap |-> 0]
     : t \in {t \in 1..top : (top - t) % span = 0} \ Tops(buckets)}

GetWeeklyHistogramResult(flat, span, maxRangeTopValue, shown) ==
  LET tops == UNION {Tops(w.results) : w \in flat}
      top == IF maxRangeTopValue = 0 THEN Max(tops) ELSE maxRangeTopValue
  IN  {[week |-> w.week, total |-> CountOf(w.results),
        results |-> w.results \cup MissingBuckets(w.results, span, top)]
         : w \in {w \in flat : w.week \in shown}}

\* By the number of clients, the share of the biggest and the retrievability.
Histogram(tables, by, span, top) ==
  GetWeeklyHistogramResult(Flat(tables, by), span, top, WithoutCurrentWeek(DOMAIN tables))
ProviderTables == [w \in GetWeeksTracked |-> ProvidersWeeklyAcc(w)]
GetProviderClientsWeekly == Histogram(ProviderTables, "number", 1, 0)
GetProviderBiggestClientDistributionWeekly == Histogram(ProviderTables, "biggest", 5, 100)
GetProviderRetrievabilityWeekly ==
  GetWeeklyHistogramResult(Flat(ProviderTables, "rate"), 5, 100, GetWeeksTracked)
GetProviderCount ==
  Cardinality(UNION {{row.name : row \in ProvidersWeeklyAcc(w)} : w \in GetWeeksTracked})

WeeksAllocated == {w \in 0..ThisWeek : AllocationsUpTo(w) # {}}
AllocatorTables == [w \in WeeksAllocated |-> AllocatorsWeeklyAcc(w)]
GetStandardAllocatorClientsWeekly == Histogram(AllocatorTables, "number", 1, 0)

\* The shares of the biggest clients are of the registered only: an allocator counts once
\* for each registry that it is active in.  Weeks without one are not among the rows.
EditionRows(week, e) ==
  {[edition |-> e, name |-> row.name, biggest |-> row.biggest, total |-> row.total]
     : row \in {r \in AllocatorsWeeklyAcc(week) : r.name \in RegisteredIn[e]}}
ActiveRows(week) == UNION {EditionRows(week, e) : e \in Editions}
ActiveTables == [w \in {v \in WeeksAllocated : ActiveRows(v) # {}} |-> ActiveRows(w)]
GetStandardAllocatorBiggestClientDistributionWeekly == Histogram(ActiveTables, "biggest", 5, 100)

-----------------------------------------------------------------------------
(* The allocations of an allocator, and their history *)

\* A row per client and week; weeks are dated by their first day.
WeeklyRows(a) == {<<x.client, Week(x.day)>> : x \in {y \in allocations : y.allocator = a}}
Amount(a, row) == Received({x \in AllocationsTo(a, row[1]) : Week(x.day) = row[2]})

\* A row goes into the entry of the first date on or after it: that of its own week, or the
\* start of a month.
PeriodDays(period) == IF period = "week" THEN DaysPerWeek ELSE MonthDays
DateOf(row, period) == LET day == row[2] * DaysPerWeek
                       IN  PeriodDays(period) * ((day + PeriodDays(period) - 1) \div PeriodDays(period))
Dates(a, period) == {DateOf(row, period) : row \in WeeklyRows(a)}
EveryDate(a, period) ==
  LET dates == Dates(a, period)
  IN  IF dates = {} THEN {}
      ELSE {d \in Min(dates)..Max(dates) : (d - Min(dates)) % PeriodDays(period) = 0}

RowsUpTo(a, period, day) == {row \in WeeklyRows(a) : DateOf(row, period) <= day}
AmountOf(a, rows) == SumOf(rows, [row \in rows |-> Amount(a, row)])
ClientsIn(rows) == {row[1] : row \in rows}
\* Mutant: whoever got an allocation in the period.
NewClients_OfPeriod(a, period, day) ==
  ClientsIn({row \in WeeklyRows(a) : DateOf(row, period) = day})
NewClients(a, period, day) ==
  ClientsIn(RowsUpTo(a, period, day)) \ ClientsIn(RowsUpTo(a, period, day - 1))

ClientsToDate(a, rows) ==
  {[client |-> c, total |-> AmountOf(a, {row \in rows : row[1] = c})] : c \in ClientsIn(rows)}
Entry(a, period, day) ==
  LET rows == RowsUpTo(a, period, day)
  IN  [date |-> day, total |-> AmountOf(a, rows), clients |-> ClientsToDate(a, rows),
       newClients |-> NewClients(a, period, day),
       newAllocations |-> {row \in rows : DateOf(row, period) = day}]
GetAllocationsByAllocator(a, period, returnEmptyPeriods) ==
  {Entry(a, period, d) : d \in IF returnEmptyPeriods THEN EveryDate(a, period) ELSE Dates(a, period)}

\* Per window from the first allocation's to the current one, and added up.
AllocatedIn(days, windows) ==
  Received({x \in allocations : x.allocator \notin LeftOut /\ x.day \div days \in windows})
FirstWindow(days) == Min({x.day \div days : x \in allocations})
CumulativeAllocationsHistory(days) ==
  IF allocations = {} THEN {}
  ELSE {[window |-> w, total |-> AllocatedIn(days, {w}),
         cumulative |-> AllocatedIn(days, FirstWindow(days)..w)]
          : w \in FirstWindow(days)..(today \div days)}

Last(history) == CHOOSE x \in history : \A y \in history : y.window <= x.window
GetAllocatorsDatacapUsage ==
  LET history == CumulativeAllocationsHistory(MonthDays)
  IN  IF history = {} THEN 0 ELSE Last(history).cumulative

-----------------------------------------------------------------------------
(* The outcomes of audits *)

\* The first datacap is granted without an audit.
MapAuditOutcome(outcome, auditIndex) ==
  CASE outcome = "MATCH"    -> "passed"
    [] outcome = "THROTTLE" -> "passedConditionally"
    [] outcome = "REJECT"   -> "failed"
    [] outcome = "GRANTED"  -> IF auditIndex = 0 THEN "notAudited" ELSE "invalid"
    [] outcome = "PENDING"  -> "pending"
    [] OTHER                -> "unknown"

\* The last outcome up to the start of the month, and how many came before it.
AuditsUpTo(a, month) ==
  {i \in DOMAIN Audits[a] : Audits[a][i].ended # Never /\ Audits[a][i].ended <= month * MonthDays}
AuditOutcome(a, month) ==
  LET upTo == AuditsUpTo(a, month)
  IN  IF upTo = {} THEN [outcome |-> "unknown", amount |-> 0]
      ELSE LET last == Audits[a][Max(upTo)]
           IN  [outcome |-> MapAuditOutcome(last.outcome, Cardinality(upTo) - 1), amount |-> last.amount]

GetAuditOutcomesData ==
  LET of(month, outcome) == {a \in Allocators : AuditOutcome(a, month).outcome = outcome}
      row(month, outcome) ==
        [month |-> month, outcome |-> outcome, count |-> Cardinality(of(month, outcome)),
         datacap |-> SumOf(of(month, outcome), [a \in Allocators |-> AuditOutcome(a, month).amount])]
  IN  UNION {{row(month, AuditOutcome(a, month).outcome) : a \in Allocators}
               : month \in 0..(today \div MonthDays)}

\* All audits but the first.
GetAuditStatesData(a) ==
  [i \in 1..(Len(Audits[a]) - 1) |-> MapAuditOutcome(Audits[a][i + 1].outcome, i)]

-----------------------------------------------------------------------------
(* Properties *)

Rank(score) == CASE score = "compliant" -> 2 [] score = "partiallyCompliant" -> 1 [] OTHER -> 0

SumByScore(x) == x.compliant + x.partiallyCompliant + x.nonCompliant
SpsOf(rows) == SumOf(rows, [row \in rows |-> row.totalSps])
DatacapOf(rows) == SumOf(rows, [row \in rows |-> row.totalDatacap])
RankOf(row, threshold) == Rank(CalculateAllocatorComplianceScore(row, threshold))

\* The verdicts share out the providers of a week and what was claimed up to it; every
\* provider of a client of an allocator has a verdict, and every provider is one of some
\* allocator; a lower threshold never lowers the score of an allocator.
ComplianceAddsUp(metrics) ==
  \A x \in GetProviderComplianceWeekly(metrics) :
    LET allocators == GetWeekStandardAllocatorSpsCompliance(x.week, metrics)
    IN  /\ SumByScore(x.sps) = x.totalSps
        /\ SumByScore(x.datacap) = Total(ClaimsUpTo(x.week))
        /\ DatacapOf(allocators) = Received(AllocationsUpTo(x.week))
        /\ SpsOf(allocators) >= x.totalSps
        /\ \A row \in allocators :
             /\ SumByScore(row.sps) = row.totalSps
             /\ \A t, u \in Thresholds : t <= u => RankOf(row, u) <= RankOf(row, t)

\* Asking for one more metric never raises a score.
MetricsOnlyLower ==
  \A w \in GetWeeksTracked, m \in ComplianceMetrics : \A metrics \in SUBSET (ComplianceMetrics \ {m}) :
    LET rows == ProvidersWeeklyAcc(w)
        fewer == ProvidersCompliance(rows, metrics)
    IN  \A x \in ProvidersCompliance(rows, metrics \cup {m}) :
          \E y \in fewer : y.provider = x.provider /\ Rank(x.score) <= Rank(y.score)

\* The buckets of a week do not overlap, and hold each row of the table once.
DatacapIn(buckets) == SumOf(buckets, [b \in buckets |-> b.datacap])
HistogramAddsUp(histogram, tables, span) ==
  \A x \in histogram :
    LET rows == tables[x.week]
    IN  /\ \A b, c \in x.results : (b.top - c.top) % span = 0 /\ (b # c => b.top # c.top)
        /\ x.total = Cardinality(rows)
        /\ CountOf(x.results) = Cardinality(rows)
        /\ DatacapIn(x.results) = TotalOf(rows)

\* Without an edition an allocator counts once for each registry that it is active in.
RegistriesAddUp ==
  \A x \in GetStandardAllocatorBiggestClientDistributionWeekly :
    LET active(e) == {row \in AllocatorsWeeklyAcc(x.week) : row.name \in RegisteredIn[e]}
    IN  /\ x.total = Cardinality(active(5)) + Cardinality(active(6))
        /\ DatacapIn(x.results) = TotalOf(active(5)) + TotalOf(active(6))

\* The weekly views add up to what the tables say of the claims and the allocations up to the
\* week, the one of the registered allocators to what it says of those of either registry.
WeeklyViewsAddUp ==
  /\ \A metrics \in SUBSET ComplianceMetrics : ComplianceAddsUp(metrics)
  /\ MetricsOnlyLower
  /\ HistogramAddsUp(GetProviderClientsWeekly, ProviderTables, 1)
  /\ HistogramAddsUp(GetProviderBiggestClientDistributionWeekly, ProviderTables, 5)
  /\ HistogramAddsUp(GetStandardAllocatorClientsWeekly, AllocatorTables, 1)
  /\ HistogramAddsUp(GetStandardAllocatorBiggestClientDistributionWeekly, ActiveTables, 5)
  /\ RegistriesAddUp
  /\ HistogramAddsUp(GetProviderRetrievabilityWeekly, ProviderTables, 5)
  /\ \A x \in GetProviderRetrievabilityWeekly : x.total <= GetProviderCount

\* However an allocator's allocations are grouped they end at all it has allocated, each
\* client is new once and each row shown once, and leaving out empty periods changes no
\* other entry.
GroupsAddUp(a, period) ==
  LET entries == GetAllocationsByAllocator(a, period, FALSE)
      all == GetAllocationsByAllocator(a, period, TRUE)
      last == CHOOSE e \in all : \A f \in all : f.date <= e.date
      once(some) == Cardinality(some) = 1 /\ some \subseteq entries
  IN  /\ entries = {e \in all : e.newAllocations # {}}
      /\ all # {} => last \in entries /\ last.total = Received({x \in allocations : x.allocator = a})
      /\ \A c \in ClientsOf(a) : once({e \in all : c \in e.newClients})
      /\ \A row \in WeeklyRows(a) : once({e \in all : row \in e.newAllocations})
      /\ \A e \in all : e.total = TotalOf(e.clients)

\* An audit that decides an outcome of a month is among the audits shown, unless it is the
\* allocator's first.
AuditsAgree ==
  \A month \in 0..(today \div MonthDays), a \in Allocators :
    LET outcome == AuditOutcome(a, month).outcome
        states == GetAuditStatesData(a)
    IN  \/ outcome \in {"unknown", MapAuditOutcome(Audits[a][1].outcome, 0)}
        \/ \E i \in DOMAIN states : states[i] = outcome

\* Allocations add up by allocator, and to the history of those it counts; so do audits.
AllocationsAddUp ==
  /\ \A a \in Allocators, period \in {"week", "month"} : GroupsAddUp(a, period)
  /\ GetAllocatorsDatacapUsage = Received({x \in allocations : x.allocator \notin LeftOut})
  /\ \A x \in CumulativeAllocationsHistory(DaysPerWeek) :
       x.cumulative = TotalOf({y \in CumulativeAllocationsHistory(DaysPerWeek) : y.window <= x.window})
  /\ AuditsAgree

=============================================================================
