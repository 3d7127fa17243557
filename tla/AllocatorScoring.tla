--------------------------- MODULE AllocatorScoring ---------------------------
(***************************************************************************)
(* The scores of an allocator report: eight metrics of what its clients do *)
(* with their datacap, each with ranges of its own.  The code decides the  *)
(* score by comparisons and stores the ranges beside it, written out by    *)
(* hand a second time.                                                     *)
(*                                                                         *)
(* A metric's value is an integer in a unit of its own, in which its       *)
(* bounds are integers too.  The reports of the other allocators, which    *)
(* the percentiles take in, are those of the same day.                     *)
(***************************************************************************)
EXTENDS ClientReportChecks

CONSTANTS DataType,      \* of an allocator: openData, enterprise, or null if not registered
          FirstAudit,    \* of an allocator: the day its first audit ended, or Never
          MonthDays,     \* days in a month
          Decayed,       \* the weight of a client by the days since its period of activity
          Precision      \* of weights: 10^6

ASSUME ScoringAssumption ==
  /\ IsFiniteSet(Allocators)
  /\ DataType \in [Allocators -> {"openData", "enterprise", "null"}]
  /\ FirstAudit \in [Allocators -> {Never, 0}]
  /\ MonthDays \in Nat \ {0} /\ Precision \in Nat \ {0}
  /\ Decayed \in [Days -> 0..Precision]

-----------------------------------------------------------------------------
(* What an allocator report says of its clients and their providers *)

ClientsOf(a) == {x.client : x \in {y \in allocations : y.allocator = a}}
AllocationsTo(a, c) == {x \in allocations : x.allocator = a /\ x.client = c}
TotalAllocations(a, c) == Received(AllocationsTo(a, c))

\* The report's distribution is that of the clients, put together: a provider has a row
\* for each client that uses it.
Rows(a) == UNION {{<<c, p>> : p \in DOMAIN ClientProviderDistribution(c)} : c \in ClientsOf(a)}
DealSize(row) == ClientProviderDistribution(row[1])[row[2]].total
UniqueSize(row) == ClientProviderDistribution(row[1])[row[2]].unique
SumOf(set, f) == MapThenSumSet(LAMBDA x : f[x], set)

Sizes(rows) == SumOf(rows, [row \in rows |-> DealSize(row)])
Duplicates(rows) == SumOf(rows, [row \in rows |-> DealSize(row) - UniqueSize(row)])

\* Rates have the denominator 48: 12 for an average of up to four rows, 4 for percentiles.
RateUnit == 48
RateOf(row) == IF Rate[row[2]] = NoRate THEN 0 ELSE Rate[row[2]]
Rates(rows) == SumOf(rows, [row \in rows |-> RateOf(row)])
AvgRetrievability(a) ==
  IF Rows(a) = {} THEN 0 ELSE (RateUnit * Rates(Rows(a))) \div Cardinality(Rows(a))

\* Clients that spend no longer count for less and less, those that never did for nothing.
ComputeClientWeight(c) ==
  LET spent == GetLastDatacapSpent(c)
      daysAgo == today - spent
  IN  IF spent = Never THEN 0
      ELSE IF daysAgo <= ActivityPeriod THEN Precision ELSE Decayed[daysAgo - ActivityPeriod]

BigIntMul(a, weight) == (a * weight) \div Precision
Weighted(c, amount) == BigIntMul(amount, ComputeClientWeight(c))

\* What clients were allocated, what others claimed of their pieces, and the unique data
\* that they have and that they said they would have.
WeightedAllocations(a, c) == Weighted(c, TotalAllocations(a, c))
AllocatedTo(a, clients) == SumOf(clients, [c \in clients |-> WeightedAllocations(a, c)])
SharedOf(c) == LET rows == CidSharing(c)
               IN  SumOf(DOMAIN rows, [o \in DOMAIN rows |-> Weighted(c, rows[o].total)])
SharedOfAll(clients) == SumOf(clients, [c \in clients |-> SharedOf(c)])
UniqueOf(clients) ==
  SumOf(clients, [c \in clients |-> Weighted(c, ClientReport(c).uniqueDataSetSize)])
ExpectedOf(clients) == SumOf(clients, [c \in clients |-> Weighted(c, Expected[c])])

PercentOf(part, total) == IF total = 0 THEN 0 ELSE BigIntDiv(100 * part, total)

-----------------------------------------------------------------------------
(* Percentiles and the standard deviation *)

\* Reports in ascending order of their rates; equal rates are told apart by the allocator.
SortedRates(rates) ==
  CHOOSE s \in [1..Cardinality(Allocators) -> {rates[a] : a \in Allocators}] :
    /\ \A i, j \in DOMAIN s : i < j => s[i] <= s[j]
    /\ \A x \in {rates[a] : a \in Allocators} :
         Cardinality({i \in DOMAIN s : s[i] = x}) = Cardinality({a \in Allocators : rates[a] = x})

\* The value at a quarter of the way, or half of it, between the least and the greatest.
CalculateQuarterPercentile(quarters) ==
  LET s == SortedRates([a \in Allocators |-> AvgRetrievability(a)])
      index == quarters * (Len(s) - 1)
      lower == s[index \div 4 + 1]
  IN  IF index % 4 = 0 THEN lower
      ELSE lower + ((s[index \div 4 + 2] - lower) * (index % 4)) \div 4

\* A client's share of the allocations, against one of n equal shares.
Share(a, c) ==
  LET clients == ClientsOf(a)
      total == AllocatedTo(a, clients)
  IN  IF total = 0 THEN 0 ELSE BigIntDiv(WeightedAllocations(a, c) * Cardinality(clients), total)
Shares(a, clients) == SumOf(clients, [c \in clients |-> Share(a, c)])
SquaredShares(a, clients) == SumOf(clients, [c \in clients |-> Share(a, c) * Share(a, c)])

\* n^2 times the variance of the shares, of hundredths.
SquaredDeviation(a) ==
  LET clients == ClientsOf(a)
  IN  Cardinality(clients) * SquaredShares(a, clients) - Shares(a, clients) * Shares(a, clients)

-----------------------------------------------------------------------------
(* The metrics: value, score by the code's comparisons, ranges stored, and weights *)

\* A range may have no maximum.
NoMaximum == -1
Band(a, b, s) == [from |-> a, to |-> b, score |-> s]
Metric(name, value, score, ranges, open, enterprise) ==
  [name |-> name, value |-> value, score |-> score, ranges |-> ranges,
   open |-> open, enterprise |-> enterprise]
Steps(isFirst, first, isSecond, second) ==
  IF isFirst THEN first ELSE IF isSecond THEN second ELSE 0

IpniReporting(a) ==
  LET ok == {row \in Rows(a) : ProviderReportingStatus(row[2]) = "OK"}
      v == PercentOf(Sizes(ok), Sizes(Rows(a)))
  IN  Metric("IPNI_REPORTING", v, Steps(v > 5500, 3, v >= 5000, 1),
             {Band(0, 5000, 0), Band(5000, 5500, 1), Band(5500, 10000, 3)}, 3, 0)

UrlFinderRetrievability(a) ==
  LET v == AvgRetrievability(a)
      p25 == CalculateQuarterPercentile(1)
      p50 == CalculateQuarterPercentile(2)
  IN  Metric("URL_FINDER", v, Steps(v > p50, 3, v > p25, 1),
             {Band(0, p25, 0), Band(p25, p50, 1), Band(p50, 100 * RateUnit, 3)}, 5, 0)

CidSharingScore(a) ==
  LET v == PercentOf(SharedOfAll(ClientsOf(a)), AllocatedTo(a, ClientsOf(a)))
  IN  Metric("CID_SHARING", v, Steps(v = 0, 2, v > 0 /\ v <= 200, 1),
             {Band(0, 0, 2), Band(0, 200, 1), Band(200, 10000, 0)}, 3, 3)

DuplicatedData(a) ==
  LET v == PercentOf(Duplicates(Rows(a)), Sizes(Rows(a)))
  IN  Metric("DUPLICATED_DATA", v, Steps(v <= 25, 2, v <= 500, 1),
             {Band(0, 25, 2), Band(25, 500, 1), Band(500, 10000, 0)}, 2, 2)

\* Where the clients give no size the ratio is 0.
UniqueDataSetSizeScore(a) ==
  LET v == PercentOf(UniqueOf(ClientsOf(a)), ExpectedOf(ClientsOf(a)))
  IN  Metric("UNIQUE_DATA_SET_SIZE", v, Steps(v < 10000, 1, v <= 12000, 2),
             {Band(0, 10000, 1), Band(10000, 12000, 2), Band(12000, NoMaximum, 0)}, 1, 1)

\* Without clients the deviation is 0, and the bounds stay what they are.
EqualityOfDatacapDistribution(a) ==
  LET n == IF ClientsOf(a) = {} THEN 1 ELSE Cardinality(ClientsOf(a))
      at(hundredths) == hundredths * hundredths * n * n
      v == SquaredDeviation(a)
      between(x, y) == at(x) <= v /\ v <= at(y)
  IN  Metric("EQUALITY", v, IF between(90, 110) THEN 3
                ELSE IF between(70, 90) \/ between(110, 130) THEN 2
                ELSE IF between(50, 70) \/ between(130, 150) THEN 1 ELSE 0,
             {Band(at(90), at(110), 3), Band(at(70), at(90), 2), Band(at(110), at(130), 2),
              Band(at(50), at(70), 1), Band(at(130), at(150), 1), Band(0, at(50), 0),
              Band(at(150), NoMaximum, 0)}, 2, 2)

\* Clients per month since the first audit, in hundredths times the days.
ClientDiversity(a) ==
  LET days == today - FirstAudit[a]
      known == FirstAudit[a] # Never /\ days # 0
      v == IF known THEN 100 * MonthDays * Cardinality(ClientsOf(a)) ELSE 0
      unit == IF known THEN days ELSE 1
  IN  Metric("DIVERSITY", v, Steps(v > 60 * unit, 2, v >= 40 * unit, 1),
             {Band(60 * unit, NoMaximum, 2), Band(40 * unit, 60 * unit, 1), Band(0, 40 * unit, 0)},
             2, 2)

ClientPreviousApplications(a) ==
  LET returning == {c \in ClientsOf(a) : Cardinality(AllocationsTo(a, c)) > 1}
      n == IF ClientsOf(a) = {} THEN 1 ELSE Cardinality(ClientsOf(a))
      v == 100 * Cardinality(returning)
  IN  Metric("PREVIOUS_APPLICATIONS", v, Steps(v > 75 * n, 2, v >= 60 * n, 1),
             {Band(75 * n, 100 * n, 2), Band(60 * n, 75 * n, 1), Band(0, 60 * n, 0)}, 1, 1)

-----------------------------------------------------------------------------
(* The scores that are stored *)

\* The score counts with the weight of the allocator's type of data; without one it is
\* not stored, nor are its ranges.
\* Mutant: the ranges are stored without the weight.
StoreScore_BareRanges(m, weight) ==
  [name |-> m.name, value |-> m.value, score |-> m.score * weight, ranges |-> m.ranges]
StoreScore(m, weight) ==
  [name |-> m.name, value |-> m.value, score |-> m.score * weight,
   ranges |-> {[x EXCEPT !.score = @ * weight] : x \in m.ranges}]

WeightOf(m, dataType) == IF dataType = "openData" THEN m.open ELSE m.enterprise

Metrics(a) ==
  {IpniReporting(a), UrlFinderRetrievability(a), CidSharingScore(a), DuplicatedData(a),
   UniqueDataSetSizeScore(a), EqualityOfDatacapDistribution(a), ClientDiversity(a),
   ClientPreviousApplications(a)}

\* Allocators that are not in the registry are not scored.
StoreScoring(a) ==
  IF DataType[a] = "null" THEN {}
  ELSE {StoreScore(m, WeightOf(m, DataType[a])) :
          m \in {n \in Metrics(a) : WeightOf(n, DataType[a]) # 0}}

-----------------------------------------------------------------------------
(* Properties *)

\* The score is that of one of the ranges stored beside it that the value lies in, and the
\* only one when the value is inside; shared data of more than the allocations, which no
\* range covers, scores nothing.
ScoreOfRange(x) ==
  LET around == {y \in x.ranges : y.from <= x.value /\ (y.to = NoMaximum \/ x.value <= y.to)}
      inside == {y \in x.ranges : y.from < x.value /\ (y.to = NoMaximum \/ x.value < y.to)}
  IN  /\ IF around = {} THEN x.score = 0 ELSE x.score \in {y.score : y \in around}
      /\ inside # {} => inside = {CHOOSE y \in inside : y.score = x.score}

Full(x) == \A y \in x.ranges : x.score >= y.score

\* Scores match the ranges stored with them and the checks of the clients they are about:
\* an allocator whose clients all pass the check of sharing, of duplicates or of IPNI has
\* the full score of it; and no more than half of the allocators are above the median.
ScoresMatchRanges ==
  /\ \A a \in Allocators : \A x \in StoreScoring(a), env \in Environments :
       LET named(name, checks) ==
             x.name = name /\ \A c \in ClientsOf(a) : checks \subseteq Passed(c, env)
       IN  /\ ScoreOfRange(x)
           /\ named("CID_SHARING", {"CID_SHARING"}) => Full(x)
           /\ env["maxDuplication"] = 0 /\ named("DUPLICATED_DATA", {"EXCEED_MAX_DUPLICATION"}) => Full(x)
           /\ Rows(a) # {} /\ named("IPNI_REPORTING", {"IPNI_MISREPORTING", "IPNI_NOT_REPORTING"}) => Full(x)
  /\ 2 * Cardinality({a \in Allocators : UrlFinderRetrievability(a).score = 3})
       <= Cardinality(Allocators)

=============================================================================
