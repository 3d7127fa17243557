------------------------------- MODULE FilPlus --------------------------------
(***************************************************************************)
(* The part of the chain that the reports, scores and statistics of Fil+   *)
(* are about: allocators allocate datacap to clients, who spend it on      *)
(* claims of pieces at providers.  The tables that the aggregation fills   *)
(* from it, and what a client report takes from them, are operators; the   *)
(* modules that extend this one say what is made of them.                  *)
(*                                                                         *)
(* Times are abstracted to days, a client or a provider to its name and    *)
(* to what outside services say of it, which are constants.  Tables are    *)
(* taken when the aggregation has completed: how they get stale is the     *)
(* matter of AggregationTasks.                                             *)
(***************************************************************************)
EXTENDS Integers, Sequences, FiniteSets, FiniteSetsExt

CONSTANTS Allocators, Clients, Providers, Pieces,
          Allowance,      \* datacap of an allocation
          Size,           \* of a piece
          Ddo,            \* providers that take pieces without the market
          Reported,       \* of a provider: how many entries it advertised to IPNI
          Location,       \* of a provider: where it is, or Nowhere
          Rate,           \* of a provider: RPA retrievability, in percent, or NoRate
          Nowhere,
          DaysPerWeek,
          LastDay,        \* bound: the last day
          MaxEvents       \* bound: allocations and claims, altogether

NoRate == -1
Never == -1

ASSUME FilPlusAssumption ==
  /\ Allowance \in Nat \ {0} /\ Size \in [Pieces -> Nat \ {0}]
  /\ Ddo \subseteq Providers
  /\ Reported \in [Providers -> Nat]
  /\ Rate \in [Providers -> 0..100 \cup {NoRate}]
  /\ {LastDay, MaxEvents} \subseteq Nat /\ DaysPerWeek \in Nat \ {0}

VARIABLES today,
          allocations,  \* verified_client_allowance, client_datacap_allocation
          claims        \* unified_verified_deal

filPlusVars == <<today, allocations, claims>>

Days == 0..LastDay
Week(day) == day \div DaysPerWeek
ThisWeek == Week(today)

Allocation == [allocator : Allocators, client : Clients, day : Days]
Claim == [client : Clients, provider : Providers, piece : Pieces, day : Days]

Total(set) == MapThenSumSet(LAMBDA k : Size[k.piece], set)
PiecesOf(set) == {k.piece : k \in set}
Unique(set) == MapThenSumSet(LAMBDA p : Size[p], PiecesOf(set))
LastOf(set) == IF set = {} THEN Never ELSE Max({k.day : k \in set})

ClaimsOf(c) == {k \in claims : k.client = c}
ReceivedBy(c) == {a \in allocations : a.client = c}
Received(set) == Allowance * Cardinality(set)
AvailableDatacap(c) == Received(ReceivedBy(c)) - Total(ClaimsOf(c))

-----------------------------------------------------------------------------
(* The tables *)

\* client_provider_distribution, a row per provider of the client, of the given claims.
Distribution(set, c) ==
  LET at(p) == {k \in set : k.client = c /\ k.provider = p}
  IN  [p \in {k.provider : k \in {j \in set : j.client = c}} |->
         [total |-> Total(at(p)), unique |-> Unique(at(p))]]
ClientProviderDistribution(c) == Distribution(claims, c)

\* The claims that a week's rows of the accumulated tables count.
ClaimsUpTo(week) == {k \in claims : Week(k.day) <= week}
AllocationsUpTo(week) == {a \in allocations : Week(a.day) <= week}

\* client_replica_distribution: the claims by the number of providers that have the piece.
Replicas(c, piece) == Cardinality({k.provider : k \in {j \in ClaimsOf(c) : j.piece = piece}})
ClientReplicaDistribution(c) ==
  LET of(n) == {k \in ClaimsOf(c) : Replicas(c, k.piece) = n}
  IN  [n \in {Replicas(c, k.piece) : k \in ClaimsOf(c)} |->
         [total |-> Total(of(n)), unique |-> Unique(of(n))]]

\* cid_sharing: what other clients claimed of the client's pieces.
CidSharing(c) ==
  LET shared(o) == {k \in ClaimsOf(o) : k.piece \in PiecesOf(ClaimsOf(c))}
  IN  [o \in {o \in Clients \ {c} : shared(o) # {}} |->
         [total |-> Total(shared(o)), pieces |-> Cardinality(PiecesOf(shared(o)))]]

\* A provider reports to IPNI when it advertised at least half of its claims.
ReportingStatus(set, p) ==
  LET actual == Cardinality({k \in set : k.provider = p})
  IN  IF Reported[p] = 0 THEN "NOT_REPORTING"
      ELSE IF 2 * Reported[p] < actual THEN "MISREPORTING" ELSE "OK"
ProviderReportingStatus(p) == ReportingStatus(claims, p)

SumOfRows(rows, Column(_)) == MapThenSumSet(LAMBDA x : Column(rows[x]), DOMAIN rows)

-----------------------------------------------------------------------------
(* What a client report takes from them *)

\* Quotients are cut off after two decimals; they are counted in hundredths.
BigIntDiv(a, b) == (100 * a) \div b

GetLastDatacapSpent(c) == LastOf(ClaimsOf(c))
GetLastDatacapReceived(c) == LastOf(ReceivedBy(c))

GetReplicationDistribution(c) ==
  LET rows == ClientReplicaDistribution(c)
      total == SumOfRows(rows, LAMBDA row : row.total)
  IN  [n \in DOMAIN rows |-> [unique |-> rows[n].unique,
                              percentage |-> BigIntDiv(100 * rows[n].total, total)]]

AllocatorsOf(c) == {a.allocator : a \in ReceivedBy(c)}

\* Clients without an allocation have no report.
ClientReport(c) ==
  LET replicas == GetReplicationDistribution(c)
  IN  [client |-> c, allocators |-> AllocatorsOf(c), available |-> AvailableDatacap(c),
       spent |-> GetLastDatacapSpent(c), received |-> GetLastDatacapReceived(c),
       distribution |-> ClientProviderDistribution(c), replicas |-> replicas,
       cidSharing |-> CidSharing(c),
       uniqueDataSetSize |-> SumOfRows(replicas, LAMBDA row : row.unique)]

-----------------------------------------------------------------------------
(* The chain *)

Events == Cardinality(allocations) + Cardinality(claims)

FilPlusInit == today = 0 /\ allocations = {} /\ claims = {}

Allocate(a, c) == LET new == [allocator |-> a, client |-> c, day |-> today]
                  IN  /\ Events < MaxEvents /\ new \notin allocations
                      /\ allocations' = allocations \cup {new}
                      /\ UNCHANGED <<today, claims>>

ClaimPiece(c, p, piece) ==
  LET new == [client |-> c, provider |-> p, piece |-> piece, day |-> today]
  IN  /\ Events < MaxEvents /\ new \notin claims
      /\ AvailableDatacap(c) >= Size[piece]
      /\ claims' = claims \cup {new}
      /\ UNCHANGED <<today, allocations>>

NextDay == /\ today < LastDay
           /\ today' = today + 1
           /\ UNCHANGED <<allocations, claims>>

FilPlusNext == \/ \E a \in Allocators, c \in Clients : Allocate(a, c)
               \/ \E c \in Clients, p \in Providers, piece \in Pieces : ClaimPiece(c, p, piece)
               \/ NextDay

FilPlusSpec == FilPlusInit /\ [][FilPlusNext]_filPlusVars

=============================================================================
