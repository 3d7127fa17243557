-------------------------- MODULE AggregationRunners --------------------------
(***************************************************************************)
(* The aggregation runners the application registers, one definition per   *)
(* runner: the tables it fills, the tables it declares to depend on, the   *)
(* aggregation tables its query really reads, and how it writes.           *)
(*                                                                         *)
(* A runner that merges, upserts, appends or writes slice by slice never   *)
(* leaves its table empty and counts as "transaction"; so do the three     *)
(* that stream rows into one transaction.                                  *)
(***************************************************************************)
EXTENDS Integers, Sequences

\* A runner of one table whose query reads exactly what it declares.
Fill(table, depends, store) ==
  [fills |-> {table}, depends |-> depends, reads |-> depends, store |-> store]

\* A runner whose query also reads tables it does not declare.
FillReading(table, depends, undeclared, store) ==
  [Fill(table, depends, store) EXCEPT !.reads = depends \cup undeclared]

AllocatorRunner == Fill("Allocator", {}, "replace")
AllocatorRegistryRunner == Fill("AllocatorRegistry", {}, "replace")
AllocatorRegistryArchiveRunner == Fill("AllocatorRegistryArchive", {}, "replace")
AllocatorClientBookkeepingRunner ==
  Fill("AllocatorClientBookkeeping", {"AllocatorRegistry"}, "transaction")
AllocatorsClientStatsDailyRunner ==
  Fill("AllocatorsClientStatsDaily",
       {"Allocator", "AllocatorRegistry", "AllocatorRegistryArchive",
        "ClientDatacapAllocation", "UnifiedVerifiedDealHourly"}, "transaction")
AllocatorsWeeklyAccRunner ==
  Fill("AllocatorsWeeklyAcc",
       {"ClientProviderDistributionWeeklyAcc", "ProvidersWeekly",
        "ClientAllocatorDistributionWeeklyAcc"}, "transaction")
CidSharingRunner == Fill("CidSharing", {}, "replace")
ClientAllocatorDistributionWeeklyRunner ==
  Fill("ClientAllocatorDistributionWeekly", {}, "replace")
ClientAllocatorDistributionWeeklyAccRunner ==
  Fill("ClientAllocatorDistributionWeeklyAcc", {}, "replace")
ClientClaimsHourlyRunner ==
  Fill("ClientClaimsHourly", {"UnifiedVerifiedDealHourly"}, "transaction")
ClientDatacapAllocationRunner == Fill("ClientDatacapAllocation", {}, "replace")
ClientProviderDistributionRunner == Fill("ClientProviderDistribution", {}, "replace")
ClientProviderDistributionWeeklyRunner ==
  Fill("ClientProviderDistributionWeekly", {}, "replace")
ClientProviderDistributionWeeklyAccRunner ==
  Fill("ClientProviderDistributionWeeklyAcc", {}, "transaction")
ClientReplicaDistributionRunner == Fill("ClientReplicaDistribution", {}, "replace")

ClientRunner == Fill("Client", {"ClientClaimsHourly"}, "transaction")
ClientsStatsDailyRunner == Fill("ClientsStatsDaily", {"Client"}, "transaction")
IpniReportingDailyRunner ==
  FillReading("IpniReportingDaily", {"ClientProviderDistribution"}, {"Provider"}, "daily")
OldDatacapBalanceNv22Runner == Fill("OldDatacapBalanceNv22", {}, "replace")
OldDatacapBalanceWeeklyRunner ==
  Fill("OldDatacapBalanceWeekly", {"AllocatorsWeeklyAcc", "OldDatacapBalanceNv22"}, "replace")
OldDatacapClientBalanceNv22Runner == Fill("OldDatacapClientBalanceNv22", {}, "replace")

OldDatacapClientBalanceDependencies ==
  {"ClientAllocatorDistributionWeekly", "OldDatacapBalanceNv22",
   "OldDatacapClientBalanceNv22"}

\* The query joins client_claims_hourly, which getDependingTables() leaves out.
OldDatacapClientBalanceWeeklyRunner ==
  FillReading("OldDatacapClientBalanceWeekly", OldDatacapClientBalanceDependencies,
              {"ClientClaimsHourly"}, "replace")

ProviderRunner == Fill("Provider", {}, "transaction")
ProviderFirstClientRunner ==
  Fill("ProviderFirstClient", {"UnifiedVerifiedDealHourly"}, "replace")
ProviderIpInfoRunner == Fill("ProviderIpInfo", {"ProvidersWeekly"}, "transaction")
ProviderUrlFinderDealDailySnapshotRunner ==
  Fill("StorageProviderUrlFinderDealDailySnapshot", {}, "daily")
ProviderUrlFinderRetrievabilityDailyRunner ==
  Fill("ProviderUrlFinderRetrievabilityDaily", {"Provider"}, "daily")

ProvidersWeeklyRunner ==
  Fill("ProvidersWeekly",
       {"ClientProviderDistributionWeekly", "ProviderUrlFinderRetrievabilityDaily"},
       "replace")
ProvidersWeeklyAccRunner ==
  Fill("ProvidersWeeklyAcc",
       {"ClientProviderDistributionWeeklyAcc", "ProviderUrlFinderRetrievabilityDaily"},
       "replace")
UnifiedVerifiedDealHourlyRunner == Fill("UnifiedVerifiedDealHourly", {}, "transaction")

-----------------------------------------------------------------------------
\* AGGREGATION_RUNNERS: the order of the list is the order of the job's passes.
AggregationRunnerList ==
  << ClientDatacapAllocationRunner, ProviderUrlFinderRetrievabilityDailyRunner,
     AllocatorClientBookkeepingRunner, AllocatorRegistryRunner,
     AllocatorRegistryArchiveRunner, AllocatorRunner, ProviderRunner,
     AllocatorsWeeklyAccRunner, CidSharingRunner,
     ClientAllocatorDistributionWeeklyRunner,
     ClientAllocatorDistributionWeeklyAccRunner, ClientClaimsHourlyRunner,
     ClientProviderDistributionRunner, ClientProviderDistributionWeeklyRunner,
     ClientProviderDistributionWeeklyAccRunner, ClientReplicaDistributionRunner,
     IpniReportingDailyRunner, OldDatacapBalanceNv22Runner,
     OldDatacapBalanceWeeklyRunner, OldDatacapClientBalanceNv22Runner,
     OldDatacapClientBalanceWeeklyRunner, ProviderFirstClientRunner,
     ProviderIpInfoRunner, ProviderUrlFinderDealDailySnapshotRunner,
     ProvidersWeeklyRunner, ProvidersWeeklyAccRunner,
     UnifiedVerifiedDealHourlyRunner, AllocatorsClientStatsDailyRunner,
     ClientRunner, ClientsStatsDailyRunner >>

AggregationTable == UNION {AggregationRunnerList[i].fills : i \in DOMAIN AggregationRunnerList}
=============================================================================
