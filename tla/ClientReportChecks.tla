-------------------------- MODULE ClientReportChecks --------------------------
(***************************************************************************)
(* The checks that are stored with a client report: each reads the report  *)
(* back and decides by itself.  A check whose environment variable is not  *)
(* set, or whose threshold the report lacks, is not stored.                *)
(***************************************************************************)
EXTENDS FilPlus

CONSTANTS Declared,     \* of a client: the providers of its application
          Expected,     \* of a client: the size of its data set, 0 where it gives none
          RequiredReplicas,     \* replicas that the main allocator requires, 0 where it requires none
          GlifAutoVerifiedAllocator,
          LowReplica, HighReplica,  \* thresholds of the Fil+ edition, which no number is both below and above
          ActivityPeriod,           \* 60 days
          Environments              \* settings of the environment variables

NotSet == -1
Settings == {"maxProviderDeal", "maxDuplication", "maxLowReplica", "maxHighReplica",
             "maxForRequiredCopies", "maxNotDeclared", "uniqueMayExceed"}

ASSUME ChecksAssumption ==
  /\ Declared \in [Clients -> SUBSET Providers] /\ Expected \in [Clients -> Nat]
  /\ {RequiredReplicas, LowReplica, HighReplica, ActivityPeriod} \subseteq Nat
  /\ Environments \subseteq [Settings -> Nat \cup {NotSet}]
  /\ LowReplica <= HighReplica + 1

Within(day, period) == day # Never /\ today - day < period

Inactivity(r) == \/ Within(r.received, ActivityPeriod)
                 \/ r.available = 0
                 \/ Within(r.spent, ActivityPeriod)

MultipleAllocators(r) == Cardinality(r.allocators \ {GlifAutoVerifiedAllocator}) <= 1

-----------------------------------------------------------------------------
(* The distribution among providers: each check fails on the providers that violate it *)

Used(r) == DOMAIN r.distribution
NoneOf(r, Violates(_)) == \A p \in Used(r) : ~Violates(p)

ExceedingProviderDeal(r, max) ==
  LET total == SumOfRows(r.distribution, LAMBDA row : row.total)
  IN  total = 0 \/ NoneOf(r, LAMBDA p : BigIntDiv(100 * r.distribution[p].total, total) > 100 * max)

ExceedingMaxDuplication(r, max) ==
  NoneOf(r, LAMBDA p : LET row == r.distribution[p]
                     IN  /\ row.total # 0
                         /\ BigIntDiv(100 * (row.total - row.unique), row.total) > 100 * max)

UnknownLocation(r) == NoneOf(r, LAMBDA p : Location[p] = Nowhere)

\* A client that uses no provider fails, and so does one whose providers are nowhere.
SameLocation(r) == Cardinality({Location[p] : p \in Used(r)}) > 1

IpniMisreporting(r) == NoneOf(r, LAMBDA p : ProviderReportingStatus(p) = "MISREPORTING")
IpniNotReporting(r) == NoneOf(r, LAMBDA p : ProviderReportingStatus(p) = "NOT_REPORTING")

RetrievabilityZero(r) == NoneOf(r, LAMBDA p : Rate[p] \in {NoRate, 0})
Retrievability75(r) == NoneOf(r, LAMBDA p : Rate[p] < 75)

DeclaredNotUsed(r) == Declared[r.client] \subseteq Used(r)
NotDeclared(r, max) ==
  \/ Used(r) = {}
  \/ 100 * Cardinality(Used(r) \ Declared[r.client]) <= max * Cardinality(Used(r))

-----------------------------------------------------------------------------
(* The data: its replicas, what other clients share of it and its size *)

\* Percentages of the report are in hundredths, and each is cut off.
ReplicaShare(r, Counts(_)) ==
  MapThenSumSet(LAMBDA n : r.replicas[n].percentage, {n \in DOMAIN r.replicas : Counts(n)})

\* Mutant: the threshold itself is low.
LowReplicaShare_Inclusive(r) == ReplicaShare(r, LAMBDA n : n <= LowReplica)
LowReplicaShare(r) == ReplicaShare(r, LAMBDA n : n < LowReplica)
HighReplicaShare(r) == ReplicaShare(r, LAMBDA n : n > HighReplica)

NotEnoughCopies(r, max) ==
  RequiredReplicas = 0 \/ ReplicaShare(r, LAMBDA n : n < RequiredReplicas) <= 100 * max

NoCidSharing(r) == DOMAIN r.cidSharing = {}

UniqueDataSetSize(r, exceeds) ==
  /\ Expected[r.client] # 0
  /\ r.uniqueDataSetSize < Expected[r.client] + (Expected[r.client] * exceeds) \div 100

-----------------------------------------------------------------------------
(* The checks of a report *)

Check(name, setting, Passes(_)) ==
  IF setting = NotSet THEN {} ELSE {[check |-> name, result |-> Passes(setting)]}
Always(name, result) == Check(name, 0, LAMBDA s : result)

StoreStorageProviderDistributionChecks(r, env) == UNION
  {Check("EXCEED_PROVIDER_DEAL", env["maxProviderDeal"], LAMBDA s : ExceedingProviderDeal(r, s)),
   Check("EXCEED_MAX_DUPLICATION", env["maxDuplication"], LAMBDA s : ExceedingMaxDuplication(r, s)),
   Always("UNKNOWN_LOCATION", UnknownLocation(r)), Always("SAME_LOCATION", SameLocation(r)),
   Always("RETRIEVABILITY_ZERO", RetrievabilityZero(r)),
   Always("RETRIEVABILITY_75", Retrievability75(r)),
   Always("IPNI_MISREPORTING", IpniMisreporting(r)),
   Always("IPNI_NOT_REPORTING", IpniNotReporting(r)),
   Always("DECLARED_NOT_USED", DeclaredNotUsed(r)),
   Check("NOT_DECLARED", env["maxNotDeclared"], LAMBDA s : NotDeclared(r, s))}

StoreDealDataReplicationChecks(r, env) == UNION
  {Check("LOW_REPLICA", env["maxLowReplica"], LAMBDA s : LowReplicaShare(r) <= 100 * s),
   Check("HIGH_REPLICA", env["maxHighReplica"], LAMBDA s : HighReplicaShare(r) <= 100 * s),
   Check("NOT_ENOUGH_COPIES", env["maxForRequiredCopies"], LAMBDA s : NotEnoughCopies(r, s))}

StoreReportChecks(r, env) == UNION
  {Always("MULTIPLE_ALLOCATORS", MultipleAllocators(r)), Always("INACTIVITY", Inactivity(r)),
   StoreStorageProviderDistributionChecks(r, env), StoreDealDataReplicationChecks(r, env),
   Always("CID_SHARING", NoCidSharing(r)),
   Check("UNIQ_DATA_SET_SIZE", env["uniqueMayExceed"], LAMBDA s : UniqueDataSetSize(r, s))}

ReportedClients == {c \in Clients : ReceivedBy(c) # {}}
Passed(c, env) == {x.check : x \in {y \in StoreReportChecks(ClientReport(c), env) : y.result}}
Failed(c, env) == {x.check : x \in {y \in StoreReportChecks(ClientReport(c), env) : ~y.result}}

-----------------------------------------------------------------------------
(* Properties *)

\* The tables a report is made of tell the same claims: the providers' totals are those of
\* the replicas and no more than the datacap received, no provider has more unique data
\* than the client, and of two clients each shares as many pieces with the other.
TablesTellTheSame(r) ==
  LET spent == SumOfRows(r.distribution, LAMBDA row : row.total)
  IN  /\ spent + r.available = Received(ReceivedBy(r.client)) /\ r.available >= 0
      /\ \A p \in Used(r) : r.distribution[p].unique <= r.uniqueDataSetSize
      /\ \A n \in DOMAIN r.replicas : n <= Cardinality(Used(r))
      /\ \A o \in DOMAIN r.cidSharing : CidSharing(o)[r.client].pieces = r.cidSharing[o].pieces

\* Checks that decide by themselves about the same thing agree.  A retrievability of 75% is
\* not zero; sharing takes two clients, both of whom fail; providers none of whom has more
\* than its part are as many as the parts take; data cannot be below the low and above the
\* high threshold; data with enough copies has no fewer than the low threshold if more are
\* required; and the declared providers are those used when neither check finds another.
ChecksAgree ==
  \A env \in Environments, c \in ReportedClients :
    LET r == ClientReport(c)
        passed == Passed(c, env)
        failed == Failed(c, env)
        max == env["maxProviderDeal"]
    IN  /\ TablesTellTheSame(r)
        /\ "RETRIEVABILITY_75" \in passed => "RETRIEVABILITY_ZERO" \in passed
        /\ "CID_SHARING" \in failed =>
             \E o \in ReportedClients \ {c} : "CID_SHARING" \in Failed(o, env)
        /\ "EXCEED_PROVIDER_DEAL" \in passed /\ Used(r) # {} =>
             10000 < Cardinality(Used(r)) * (100 * max + 1)
        /\ "SAME_LOCATION" \in passed => Cardinality(Used(r)) > 1
        /\ LowReplicaShare(r) + HighReplicaShare(r) <= 10000
        /\ /\ "NOT_ENOUGH_COPIES" \in passed /\ RequiredReplicas >= LowReplica
           /\ env["maxLowReplica"] >= env["maxForRequiredCopies"]
           => "LOW_REPLICA" \notin failed
        /\ {"DECLARED_NOT_USED", "NOT_DECLARED"} \subseteq passed /\ env["maxNotDeclared"] = 0 =>
             Used(r) \in {{}, Declared[c]}

=============================================================================
