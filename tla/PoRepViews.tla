------------------------------ MODULE PoRepViews ------------------------------
(***************************************************************************)
(* What the PoRep service shows of one storage provider: its deals, their  *)
(* compliance, its storage and economics, and the histories per window of  *)
(* time.  Every view is a query of its own over the same tables, with its  *)
(* own idea of an active deal; the tables grow as deals live and the       *)
(* provider is tested.                                                     *)
(*                                                                         *)
(* Blocks and dates are abstracted to windows (days, weeks or months),     *)
(* amounts to thousandths of a dollar; there is one token.  A deal has its *)
(* terms, requirements and at most one rail, all named by the deal.        *)
(***************************************************************************)
EXTENDS Integers, Sequences, FiniteSets, FiniteSetsExt

CONSTANTS Deals,
          DealClient,         \* of a deal: its client
          Bytes, Revenue,     \* of a deal: bytes, and what its terms will have paid
          Requirements,      \* of a deal, per service level; 0 where it requires nothing
          Tests,             \* what a test of the provider may find
          Gross, Net,        \* of a settlement: its amount, and what of it the payee gets
          Recent,            \* windows in the last 30 days
          MaxMeasured,       \* 3: measurements shown of a service level
          MaxWindow,         \* bound: the last window
          MaxReadings          \* bound: payments and tests, altogether

ServiceLevels == {"retrievability", "bandwidth", "latency", "indexing"}

ASSUME ViewsAssumption ==
  /\ Bytes \in [Deals -> Nat] /\ Revenue \in [Deals -> Nat]
  /\ Requirements \in [Deals -> [ServiceLevels -> Nat]]
  /\ {Gross, Net, MaxWindow, MaxReadings, Recent, MaxMeasured} \subseteq Nat
  /\ IsFiniteSet(Deals) /\ Net <= Gross

VARIABLES now,       \* the current window
          deals,     \* po_rep_deal, with the states each deal was in
          rails,     \* filecoin_pay_rail, by its deal
          payments,  \* filecoin_pay_payment
          tests      \* URL Finder's snapshot of the provider, per window, with its values

viewVars == <<now, deals, rails, payments, tests>>

Windows == 0..MaxWindow
Absent == -1
Null == -2     \* a value that is stored but null

Deal == [state : {"none", "PROPOSED", "ACCEPTED", "COMPLETED", "TERMINATED", "REJECTED"},
         proposed : Windows \cup {Absent}, completed : Windows \cup {Absent}, ended : Windows \cup {Absent}, rejected : BOOLEAN]
Rail == [created : Windows \cup {Absent}, activated : Windows \cup {Absent},
         terminated : BOOLEAN, finalized : BOOLEAN]
Payment == [deal : Deals, window : Windows, oneTime : BOOLEAN]

\* A test: whether it succeeded, and its values; speed stands for the bandwidth and the
\* latency, which are measured together or not at all.
Test == [success : BOOLEAN, retrievability : Nat \cup {Null}, speed : Nat \cup {Absent}]
NoTest == [success |-> FALSE, retrievability |-> Absent, speed |-> Absent]

ASSUME TestsAssumption == Tests \subseteq Test

ViewsInit ==
  /\ now = 0
  /\ deals = [d \in Deals |-> [state |-> "none", proposed |-> Absent, completed |-> Absent,
                               ended |-> Absent, rejected |-> FALSE]]
  /\ rails = [d \in Deals |-> [created |-> Absent, activated |-> Absent, terminated |-> FALSE,
                               finalized |-> FALSE]]
  /\ payments = <<>>
  /\ tests = [w \in Windows |-> NoTest]

Listed == {d \in Deals : deals[d].state # "none"}
HasRail(d) == rails[d].created # Absent
Tested(w) == tests[w] # NoTest

-----------------------------------------------------------------------------
(* Rails, and the averages of the last 30 days *)

RailState(d) ==
  IF ~HasRail(d) THEN "null"
  ELSE IF rails[d].finalized THEN "finalized"
  ELSE IF rails[d].terminated THEN "terminated"
  ELSE IF rails[d].activated # Absent THEN "active" ELSE "idle"

Settlements(d) == {i \in DOMAIN payments : payments[i].deal = d /\ ~payments[i].oneTime}
TotalAmountSettled(d) == Gross * Cardinality(Settlements(d))
LastSettlement(d) == IF Settlements(d) = {} THEN Absent
                     ELSE Max({payments[i].window : i \in Settlements(d)})

RecentTests == {w \in Windows : Tested(w) /\ w > now - Recent}
ValueOf(w, level) == IF level = "retrievability" THEN tests[w].retrievability ELSE tests[w].speed

\* An average is a pair of the sum and the number of values; null values do not count.
Averaged(windows, level) == {w \in windows : ValueOf(w, level) \notin {Absent, Null}}
Average(windows, level) ==
  <<MapThenSumSet(LAMBDA w : ValueOf(w, level), Averaged(windows, level)),
    Cardinality(Averaged(windows, level))>>
NoAverage == <<0, 0>>

\* The quotient of two counts is an integer: 1 if every test succeeded, or else 0.
AverageIndexing ==
  IF RecentTests = {} THEN NoAverage
  ELSE <<Cardinality({w \in RecentTests : tests[w].success}) \div Cardinality(RecentTests), 1>>

Predicted(level) == IF level = "indexing" THEN AverageIndexing ELSE Average(RecentTests, level)

-----------------------------------------------------------------------------
(* The list of deals, compliance, storage and economics *)

\* A deal is active when its data is to be had and paid for.
ActiveDeal(d) == deals[d].state = "COMPLETED" /\ RailState(d) \in {"active", "terminated"}

GetDeals(activeOnly) == {d \in Listed : activeOnly => ActiveDeal(d)}
IsDataOnboarded(d) == HasRail(d) /\ rails[d].activated # Absent

RequiredLevels(d) == {level \in ServiceLevels : Requirements[d][level] # 0}
Meets(average, level, required) ==
  /\ average # NoAverage
  /\ IF level = "latency" THEN average[1] <= required * average[2]
                          ELSE average[1] >= required * average[2]

\* The statistics decide by themselves which deals are active.
\* Mutant: whatever the state of the deal.
CountedActive_AnyState(d) == RailState(d) \in {"active", "terminated"}
CountedActive(d) == /\ deals[d].state = "COMPLETED"
                    /\ RailState(d) = "active" \/ RailState(d) = "terminated"
StateUnknown(d) == \E level \in RequiredLevels(d) : Predicted(level) = NoAverage
Compliant(d) == \A level \in RequiredLevels(d) : Meets(Predicted(level), level, Requirements[d][level])

ComplianceStatistics ==
  LET active == {d \in GetDeals(FALSE) : CountedActive(d)}
  IN  [totalDeals   |-> Cardinality(GetDeals(FALSE)),
       activeDeals  |-> Cardinality(active),
       compliant    |-> Cardinality({d \in active : Compliant(d)}),
       nonCompliant |-> Cardinality({d \in active : ~Compliant(d) /\ ~StateUnknown(d)}),
       unknown      |-> Cardinality({d \in active : StateUnknown(d)})]

SumOver(set, f) == MapThenSumSet(LAMBDA d : f[d], set)

StorageStatistics ==
  LET onboarded == {d \in Listed : /\ deals[d].state = "COMPLETED"
                                   /\ HasRail(d) /\ ~rails[d].finalized /\ rails[d].activated # Absent}
  IN  [totalDeals |-> Cardinality(Listed), onboardedDeals |-> Cardinality(onboarded),
       onboardedBytes |-> SumOver(onboarded, Bytes)]

EconomicsStatistics ==
  LET paid == {d \in Listed : HasRail(d)}
      ongoing == {d \in paid : RailState(d) \in {"active", "terminated"}}
      settled == [d \in Deals |-> TotalAmountSettled(d)]
      predicted == SumOver(ongoing, Revenue) - SumOver(ongoing, settled)
  IN  [totalRails |-> Cardinality(paid),
       activeRails |-> Cardinality({d \in paid : RailState(d) = "active"}),
       totalSettled |-> SumOver(paid, settled), predictedRevenue |-> predicted,
       totalRevenue |-> SumOver(paid, settled) + predicted,
       lastSettlement |-> IF paid = {} THEN Absent ELSE Max({LastSettlement(d) : d \in paid})]

-----------------------------------------------------------------------------
(* Histories: an entry per window up to the current one *)

FirstProposal == Min({deals[d].proposed : d \in Listed})

\* Mills to cents, half up.
ToCents(mills) == ((mills + 5) \div 10) * 10

\* The total up to a window, rounded in every window from the first one.
RoundedTotal(volume, first) ==
  LET total[w \in (first - 1)..MaxWindow] ==
        IF w < first THEN 0 ELSE ToCents(total[w - 1] + volume[w])
  IN  total

PaymentsVolume(netAmounts) ==
  [w \in Windows |-> (IF netAmounts THEN Net ELSE Gross)
     * Cardinality({i \in DOMAIN payments : payments[i].window = w /\ ~payments[i].oneTime})]

DealsPaymentsSummaryHistory(netAmounts) ==
  IF Listed = {} THEN <<>>
  ELSE LET volume == PaymentsVolume(netAmounts)
           total == RoundedTotal(volume, FirstProposal)
       IN  [w \in FirstProposal..now |-> [volume |-> ToCents(volume[w]), total |-> total[w]]]

\* Deals are worth what their terms will have paid, from the window of their rail on.
ValuedDeals == {d \in Listed : HasRail(d) /\ ~deals[d].rejected}
DealsValueHistory ==
  IF ValuedDeals = {} THEN <<>>
  ELSE LET first == Min({rails[d].created : d \in ValuedDeals})
           volume == [w \in Windows |-> SumOver({d \in ValuedDeals : rails[d].created = w}, Revenue)]
           total == RoundedTotal(volume, first)
       IN  [w \in first..now |-> [volume |-> ToCents(volume[w]), total |-> total[w]]]

\* Deals are onboarded in the window their rail was activated in.
\* Mutant: whatever the state of the deal.
OnboardedIn_AnyState(w) == {d \in Listed : rails[d].activated = w}
OnboardedIn(w) == {d \in Listed : deals[d].state = "COMPLETED" /\ rails[d].activated = w}
OnboardedDataHistory ==
  IF Listed = {} THEN <<>>
  ELSE [w \in FirstProposal..now |->
          [volume |-> SumOver(OnboardedIn(w), Bytes),
           total |-> SumOver(UNION {OnboardedIn(v) : v \in FirstProposal..w}, Bytes)]]

\* A deal is followed from the window its rail was activated in to the one it ended in.
Followed(d, w) == /\ d \in Listed /\ rails[d].activated # Absent
                  /\ rails[d].activated <= w
                  /\ w <= IF deals[d].ended # Absent THEN deals[d].ended ELSE now

\* A level counts in a window when there is a value of it, even null.
Levels(w) == {level \in ServiceLevels \ {"indexing"} : ValueOf(w, level) # Absent}
Verdict(d, w, level) ==
  IF Average({w}, level) = NoAverage THEN "unknown"
  ELSE IF Requirements[d][level] = 0 \/ Meets(Average({w}, level), level, Requirements[d][level])
  THEN "compliant" ELSE "noncompliant"

\* The first of its levels, unknown before noncompliant before compliant.
\* Mutant: one level that is met is enough.
ComplianceIn_AnyLevel(d, w) ==
  LET passed == {Verdict(d, w, level) : level \in Levels(w)}
  IN  IF passed \in {{}, {"unknown"}} THEN "unknown"
      ELSE IF "compliant" \in passed THEN "compliant" ELSE "noncompliant"
ComplianceIn(d, w) ==
  LET passed == {Verdict(d, w, level) : level \in Levels(w)}
  IN  IF Levels(w) = {} \/ "unknown" \in passed THEN "unknown"
      ELSE IF "noncompliant" \in passed THEN "noncompliant" ELSE "compliant"

\* The current window is left out.
SLIComplianceHistory ==
  LET activated == {rails[d].activated : d \in Listed} \ {Absent}
      first == Min(activated)
      count(w, state) == Cardinality({d \in Deals : Followed(d, w) /\ ComplianceIn(d, w) = state})
  IN  IF activated = {} THEN <<>>
      ELSE [w \in first..(now - 1) |-> [state \in {"compliant", "noncompliant", "unknown"} |-> count(w, state)]]

\* A client is active from the window a deal of it was completed in to the one it was
\* terminated in, that included.
ActiveIn(d, w) == /\ deals[d].completed # Absent /\ deals[d].completed <= w
                  /\ deals[d].ended = Absent \/ w <= deals[d].ended
ActiveClientsHistory ==
  LET completed == {deals[d].completed : d \in Listed} \ {Absent}
  IN  IF completed = {} THEN <<>>
      ELSE [w \in Min(completed)..now |-> Cardinality({DealClient[d] : d \in {e \in Deals : ActiveIn(e, w)}})]

-----------------------------------------------------------------------------
(* The numbers of the market, and the provider in the list of providers *)

GetDealsDoneCountUpToDate(w) == Cardinality({d \in Listed : deals[d].proposed <= w})

\* Of today and one window ago: the last two entries of a history, or 0.
Entries(history, Number(_)) ==
  LET at(w) == IF w \in DOMAIN history THEN Number(history[w]) ELSE 0
  IN  <<at(now), at(now - 1)>>
GetStatistics ==
  LET total(entry) == entry.total IN
  [TOTAL_DEALS_DONE     |-> <<GetDealsDoneCountUpToDate(now), GetDealsDoneCountUpToDate(now - 1)>>,
   TOTAL_DATA_ONBOARDED |-> Entries(OnboardedDataHistory, total),
   TOTAL_DEALS_VALUE    |-> Entries(DealsValueHistory, total),
   TOTAL_USD_PAID       |-> Entries(DealsPaymentsSummaryHistory(TRUE), total),
   ACTIVE_CLIENTS_COUNT |-> Entries(ActiveClientsHistory, LAMBDA entry : entry)]

\* The last measurements of a level, of which null ones are not shown; of indexing none is.
Measured(level) ==
  LET tested == {w \in Windows : Tested(w) /\ level # "indexing" /\ ValueOf(w, level) # Absent}
      later(w) == Cardinality({v \in tested : v > w})
  IN  {w \in tested : later(w) < MaxMeasured /\ ValueOf(w, level) # Null}
GetParticipant ==
  [activeDealsCount |-> Cardinality({d \in Listed : deals[d].state \in {"ACCEPTED", "COMPLETED"}}),
   slis |-> [level \in ServiceLevels |-> {ValueOf(w, level) : w \in Measured(level)}]]

-----------------------------------------------------------------------------
(* The market, the rails and the tests *)

Readings == Len(payments) + Cardinality({w \in Windows : Tested(w)})

InState(d, states) == deals[d].state \in states
ToState(d, state) == deals' = [deals EXCEPT ![d].state = state]

Propose(d) == /\ InState(d, {"none"})
              /\ deals' = [deals EXCEPT ![d].state = "PROPOSED", ![d].proposed = now]
              /\ UNCHANGED <<now, rails, payments, tests>>

Advance(d) == /\ \/ InState(d, {"PROPOSED"}) /\ ToState(d, "ACCEPTED")
                 \/ /\ InState(d, {"ACCEPTED"})
                    /\ deals' = [deals EXCEPT ![d].state = "COMPLETED", ![d].completed = now]
              /\ UNCHANGED <<now, rails, payments, tests>>

EndDeal(d) ==
  /\ \/ /\ InState(d, {"PROPOSED", "ACCEPTED"})
        /\ deals' = [deals EXCEPT ![d].state = "REJECTED", ![d].ended = now, ![d].rejected = TRUE]
     \/ /\ InState(d, {"COMPLETED"})
        /\ deals' = [deals EXCEPT ![d].state = "TERMINATED", ![d].ended = now]
  /\ UNCHANGED <<now, rails, payments, tests>>

CreateRail(d) == /\ InState(d, {"ACCEPTED"}) /\ ~HasRail(d)
                 /\ rails' = [rails EXCEPT ![d].created = now]
                 /\ UNCHANGED <<now, deals, payments, tests>>

ChangeRail(d) ==
  /\ HasRail(d) /\ ~rails[d].finalized
  /\ \/ /\ rails[d].activated = Absent /\ ~rails[d].terminated
        /\ rails' = [rails EXCEPT ![d].activated = now]
     \/ ~rails[d].terminated /\ rails' = [rails EXCEPT ![d].terminated = TRUE]
     \/ rails[d].terminated /\ rails' = [rails EXCEPT ![d].finalized = TRUE]
  /\ UNCHANGED <<now, deals, payments, tests>>

Pay(d) == /\ HasRail(d) /\ ~rails[d].finalized /\ Readings < MaxReadings
          /\ \E oneTime \in BOOLEAN :
               payments' = Append(payments, [deal |-> d, window |-> now, oneTime |-> oneTime])
          /\ UNCHANGED <<now, deals, rails, tests>>

\* The provider is tested, once per window.
TestProvider == /\ ~Tested(now) /\ Readings < MaxReadings
                /\ \E t \in Tests : tests' = [tests EXCEPT ![now] = t]
                /\ UNCHANGED <<now, deals, rails, payments>>

NextWindow == /\ now < MaxWindow
              /\ now' = now + 1
              /\ UNCHANGED <<deals, rails, payments, tests>>

ViewsNext == \/ \E d \in Deals : Propose(d) \/ Advance(d) \/ EndDeal(d) \/ CreateRail(d)
                                 \/ ChangeRail(d) \/ Pay(d)
             \/ TestProvider \/ NextWindow

ViewsSpec == ViewsInit /\ [][ViewsNext]_viewVars

-----------------------------------------------------------------------------
(* Properties *)

\* The views that decide for themselves which deals are active agree: the list of active
\* deals, the compliance statistics, whose three verdicts share the active deals out
\* exactly, and the storage statistics, whose onboarded deals are the active ones that the
\* list shows with their data onboarded.  The list of providers counts deals still to be
\* completed as well; and what it shows as measured lately is what the compliance is of.
ActiveDealsAgree ==
  LET compliance == ComplianceStatistics
      active == GetDeals(TRUE)
  IN  /\ compliance.activeDeals = Cardinality(active)
      /\ compliance.compliant + compliance.nonCompliant + compliance.unknown = compliance.activeDeals
      /\ StorageStatistics.onboardedDeals = Cardinality({d \in active : IsDataOnboarded(d)})
      /\ GetParticipant.activeDealsCount >= compliance.activeDeals
      /\ \A level \in ServiceLevels \ {"indexing"} :
           /\ Measured(level) \cap RecentTests \subseteq Averaged(RecentTests, level)
           /\ Cardinality(RecentTests) <= MaxMeasured =>
                Averaged(RecentTests, level) \subseteq Measured(level)
           /\ Cardinality({w \in RecentTests : ValueOf(w, level) # Absent}) >= MaxMeasured =>
                Cardinality(GetParticipant.slis[level]) <= Predicted(level)[2]

LastTotal(history) == history[now].total

\* A history ends at what the statistics say: the data onboarded at that of the active
\* deals and of those whose rail is finalized, the payments at what is settled on all
\* rails and the values at those of the deals not rejected, both but for half a cent of
\* rounding per window.  The clients of the active deals are counted, and when no deal
\* ended in this window no other client than of a completed deal is.  The numbers of the
\* market are what the histories end at, and deals done, data, values and what was paid
\* out are never less than a window ago.
HistoriesAddUp ==
  Listed # {} =>
    /\ LastTotal(OnboardedDataHistory) - StorageStatistics.onboardedBytes
         = SumOver({d \in Listed : InState(d, {"COMPLETED"}) /\ IsDataOnboarded(d) /\ RailState(d) = "finalized"},
                   Bytes)
    /\ LastTotal(DealsPaymentsSummaryHistory(FALSE)) - EconomicsStatistics.totalSettled
         \in -5 * (now + 1)..5 * (now + 1)
    /\ ValuedDeals # {} => LastTotal(DealsValueHistory) - SumOver(ValuedDeals, Revenue)
                             \in -5 * (now + 1)..5 * (now + 1)
    /\ LET statistics == GetStatistics
           clients(set) == Cardinality({DealClient[d] : d \in set})
       IN  /\ statistics.ACTIVE_CLIENTS_COUNT[1] >= clients(GetDeals(TRUE))
           /\ (\A d \in Deals : deals[d].ended # now) =>
                statistics.ACTIVE_CLIENTS_COUNT[1] = clients({d \in Listed : InState(d, {"COMPLETED"})})
           /\ statistics.TOTAL_DEALS_DONE[1] = Cardinality(GetDeals(FALSE))
           /\ statistics.TOTAL_USD_PAID[1] <= LastTotal(DealsPaymentsSummaryHistory(FALSE))
           /\ \A name \in DOMAIN statistics \ {"ACTIVE_CLIENTS_COUNT"} :
                statistics[name][1] >= statistics[name][2]

\* Every deal followed in a window before this one is in exactly one state of it, and it is
\* called compliant only if all that was measured in the window meets the requirements.
ComplianceOfEveryDeal ==
  LET history == SLIComplianceHistory
  IN  \A w \in DOMAIN history :
        LET followed == {d \in Deals : Followed(d, w)}
            met == {d \in followed : \A level \in Levels(w) \cap RequiredLevels(d) :
                                       Meets(Average({w}, level), level, Requirements[d][level])}
        IN  /\ history[w]["compliant"] + history[w]["noncompliant"] + history[w]["unknown"]
                 = Cardinality(followed)
            /\ history[w]["compliant"] <= Cardinality(met)
            /\ history[w]["noncompliant"] <= Cardinality(followed \ met)

=============================================================================
