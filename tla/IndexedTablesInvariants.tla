---------------------- MODULE IndexedTablesInvariants ----------------------
(***************************************************************************)
(* What holds of the tables of the deals runner and of the Filecoin Pay    *)
(* runner at every step, in every batching: the inductive invariants that  *)
(* IndexedTablesProofs proves.  IInv keeps a batch from throwing and the   *)
(* history of a deal complete; MirrorInv and PayInv say of the logs not    *)
(* indexed yet that they lead the tables to what the contracts hold.       *)
(***************************************************************************)
EXTENDS PoRepProvidersAndDeals, FilecoinPayIndexer

(* What the contracts have emitted. *)

RowEvents == {"ProviderRegistered", "DealProposalCreated"}
StateEvents == {"DealRejected", "DealAccepted", "DealCompleted", "DealTerminated"}
ByteEvents == {"CapacityCommitted", "CapacityReleased",
               "PendingCapacityReserved", "PendingCapacityReleased"}
ValueEvents == {"AvailableSpaceUpdated", "PriceUpdated", "PayeeUpdated",
                "DealDurationLimitsUpdated", "CapabilitiesUpdated",
                "RailIdUpdated", "ManifestLocationUpdated"}
SwitchEvents == {"ProviderBlocked", "ProviderUnblocked", "ProviderPaused", "ProviderUnpaused"}

Events == RowEvents \cup StateEvents \cup ByteEvents \cup ValueEvents \cup SwitchEvents

Arguments == {<<>>} \cup [value : Values] \cup [bytes : Sizes]
               \cup [provider : Providers, totalDealSize : Sizes, manifestLocation : {Default}]

PendingLog == [eventName : Events, entity : Providers \cup Deals, blockNumber : Nat,
               args : Arguments]

DealRow == [provider : Providers, totalDealSize : Sizes, state : States,
            railId : Values \cup {Default}, manifestLocation : Values \cup {Default}]

\* A log of a provider or of a deal says what only such a log can say.
WellFormed(l) ==
  /\ l.eventName = "ProviderRegistered" => l.entity \in Providers
  /\ l.eventName \in StateEvents \cup {"DealProposalCreated"} => l.entity \in Deals
  /\ l.eventName = "DealProposalCreated" => l.args.provider \in Providers

ChainShape ==
  /\ DOMAIN chain = {"providers", "capabilities", "deals"}
  /\ DOMAIN chain.providers \subseteq Providers
  /\ DOMAIN chain.capabilities = DOMAIN chain.providers
  /\ DOMAIN chain.deals \subseteq Deals
  /\ chain.deals \in [DOMAIN chain.deals -> DealRow]
  /\ \A d \in DOMAIN chain.deals : chain.deals[d].provider \in DOMAIN chain.providers

TablesShape ==
  /\ DOMAIN tables = {"providers", "capabilities", "deals", "terms", "thrown"}
  /\ DOMAIN tables.providers \subseteq Providers
  /\ DOMAIN tables.capabilities = DOMAIN tables.providers
  /\ DOMAIN tables.deals \subseteq Deals
  /\ DOMAIN tables.terms = DOMAIN tables.deals
  /\ tables.thrown = FALSE

\* The pending logs are of the blocks so far, in the order of the blocks.
PendingShape ==
  /\ block \in Nat
  /\ pending \in Seq(PendingLog)
  /\ \A i \in DOMAIN pending : WellFormed(pending[i]) /\ pending[i].blockNumber <= block
  /\ \A i, j \in DOMAIN pending : i <= j => pending[i].blockNumber <= pending[j].blockNumber

-----------------------------------------------------------------------------
(* The rows the tables have, and those they will have. *)

Known(e) == e \in DOMAIN chain.providers \cup DOMAIN chain.deals
Present(e) == e \in DOMAIN tables.providers \cup DOMAIN tables.deals

\* The row of an entity is inserted by the logs up to a position.
Inserted(e, i) ==
  \E j \in DOMAIN pending : /\ j <= i /\ pending[j].eventName \in RowEvents
                            /\ pending[j].entity = e

\* What the contracts know is in the tables or about to be, but not both; a
\* log is about what is in the tables by then.
RowsInv ==
  /\ \A e \in Providers \cup Deals : Known(e) <=> Present(e) \/ Inserted(e, Len(pending))
  /\ \A i \in DOMAIN pending :
        /\ Present(pending[i].entity) \/ Inserted(pending[i].entity, i)
        /\ pending[i].eventName \in RowEvents => ~Present(pending[i].entity)
        /\ pending[i].eventName = "DealProposalCreated" =>
              Present(pending[i].args.provider) \/ Inserted(pending[i].args.provider, i)

\* No insertion is pending twice.
OnceInv ==
  \A i, j \in DOMAIN pending :
     /\ pending[i].eventName \in RowEvents \cup StateEvents
     /\ pending[i].eventName = pending[j].eventName
     /\ pending[i].entity = pending[j].entity
     => i = j

-----------------------------------------------------------------------------
(* The history of a deal's states. *)

\* The deal has reached a state, in the table or in a pending log.
Reached(d, s) ==
  \/ <<d, s>> \in stateChanges
  \/ \E i \in DOMAIN pending : /\ pending[i].eventName \in StateEvents
                               /\ pending[i].entity = d
                               /\ EventNameToDealState[pending[i].eventName] = s

\* The states of a deal that the contract lets precede its current one.
HistoryInv ==
  /\ stateChanges \subseteq Deals \X States
  /\ \A i \in DOMAIN pending : pending[i].eventName \in StateEvents =>
        <<pending[i].entity, EventNameToDealState[pending[i].eventName]>> \notin stateChanges
  /\ \A d \in Deals, s \in States : Reached(d, s) =>
        /\ d \in DOMAIN chain.deals
        /\ s # "PROPOSED"
        /\ s = "REJECTED" <=> chain.deals[d].state = "REJECTED"
        /\ s = "COMPLETED" => chain.deals[d].state \in {"COMPLETED", "TERMINATED"}
        /\ s = "TERMINATED" => chain.deals[d].state = "TERMINATED"
        /\ chain.deals[d].state # "PROPOSED"
  /\ \A d \in DOMAIN chain.deals :
        /\ chain.deals[d].state # "PROPOSED" => Reached(d, chain.deals[d].state)
        /\ chain.deals[d].state \in {"COMPLETED", "TERMINATED"} => Reached(d, "ACCEPTED")

\* The inductive invariant.
IInv == ChainShape /\ TablesShape /\ PendingShape /\ RowsInv /\ OnceInv /\ HistoryInv

-----------------------------------------------------------------------------
(* The columns of the tables against those of the contracts. *)

\* The columns of a deal's row that its proposal fixes, and those a log overwrites.
FixedColumns == {"provider", "totalDealSize"}
ProviderSettings == {"availableBytes", "pricePerSectorPerMonth", "payee", "dealDurationDays"}
ProviderFlags == {"blocked", "paused"}
DealSettings == {"state", "railId", "manifestLocation"}
Overwritten == ProviderSettings \cup ProviderFlags \cup {"capabilities"} \cup DealSettings

\* A column of an entity, in the tables or in the contracts; a row that is missing
\* counts as a new one.
Cell(t, e, c) ==
  IF c = "capabilities" THEN IF e \in DOMAIN t.capabilities THEN t.capabilities[e] ELSE Default
  ELSE IF c \in DOMAIN NewProvider
       THEN IF e \in DOMAIN t.providers THEN t.providers[e][c] ELSE NewProvider[c]
       ELSE IF e \in DOMAIN t.deals THEN t.deals[e][c] ELSE NewDeal(Default, 0, Default)[c]

\* A log overwrites a column of an entity, with a value.
Writes(l, e, c) == l.entity = e /\ c \in OverwrittenColumns(l)
Written(l, c) == CASE c = "state" -> EventNameToDealState[l.eventName]
                   [] c \in ProviderFlags -> l.eventName = FlagEvents[c][1]
                   [] OTHER -> l.args.value

\* What an update moves a column by, and a log a byte counter of a provider.
Moved(u, c) == IF c \in DOMAIN u THEN Balance(u[c]) ELSE 0
Delta(l, p, c) == IF l.entity = p THEN Moved(ByteUpdate(l), c) ELSE 0

DealEvents == StateEvents \cup {"DealProposalCreated", "RailIdUpdated", "ManifestLocationUpdated"}

Typed(l) ==
  /\ l.entity \in (IF l.eventName \in DealEvents THEN Deals ELSE Providers)
  /\ l.eventName \in ValueEvents => l.args.value \in Values
  /\ l.eventName \in ByteEvents => l.args.bytes \in Sizes
  /\ l.eventName = "DealProposalCreated" =>
        l.args.provider \in Providers /\ l.args.totalDealSize \in Sizes
          /\ l.args.manifestLocation = Default

TypesInv == /\ \A i \in DOMAIN pending : Typed(pending[i])
            /\ \A p \in DOMAIN chain.providers : chain.providers[p] \in ProviderRow
            /\ \A p \in DOMAIN tables.providers : tables.providers[p] \in ProviderRow
            /\ \A d \in DOMAIN tables.deals : tables.deals[d] \in DealRow

\* What a proposal fixes is in the table, or in the pending log, as in the contract.
FixedInv ==
  /\ \A d \in DOMAIN tables.deals : /\ d \in DOMAIN chain.deals
                                    /\ tables.deals[d].provider = chain.deals[d].provider
                                    /\ tables.deals[d].totalDealSize = chain.deals[d].totalDealSize
  /\ \A i \in DOMAIN pending : pending[i].eventName = "DealProposalCreated" =>
        /\ pending[i].entity \in DOMAIN chain.deals
        /\ chain.deals[pending[i].entity].provider = pending[i].args.provider
        /\ chain.deals[pending[i].entity].totalDealSize = pending[i].args.totalDealSize

\* The pending logs lead from the counter in the table to the contract's.
BytesInv ==
  \A p \in Providers, c \in ByteColumns : \E sum \in [0..Len(pending) -> Int] :
     /\ sum[0] = Cell(tables, p, c)
     /\ \A i \in 1..Len(pending) : sum[i] = sum[i - 1] + Delta(pending[i], p, c)
     /\ sum[Len(pending)] = Cell(chain, p, c)

\* A column that no pending log writes is the contract's; otherwise the last one that
\* does writes the contract's value.
ColumnInv ==
  \A e \in (Providers \cup Deals) \ entangled, c \in Overwritten :
     /\ (\A i \in DOMAIN pending : ~Writes(pending[i], e, c)) => Cell(tables, e, c) = Cell(chain, e, c)
     /\ \A i \in DOMAIN pending :
           /\ Writes(pending[i], e, c)
           /\ \A j \in DOMAIN pending : Writes(pending[j], e, c) => j <= i
           => Written(pending[i], c) = Cell(chain, e, c)

MirrorInv == TypesInv /\ FixedInv /\ BytesInv /\ ColumnInv

-----------------------------------------------------------------------------
(* The rails of the table against those of the contract. *)

RailEvents == {"RailCreated", "RailLockupModified", "RailRateModified",
               "RailOneTimePaymentProcessed", "RailSettled", "RailTerminated", "RailFinalized"}

RailArguments ==
  {<<>>} \cup [newLockupFixed : Nat] \cup [oldRate : Nat, newRate : Nat]
    \cup [netPayeeAmount : Nat, fees : Nat] \cup [settledUpTo : Nat, totalSettledAmount : Int]
    \cup [endEpoch : Nat]

RailLogs == [eventName : RailEvents, railId : Rails, blockNumber : Nat, args : RailArguments]

ColumnNames == {"lockupFixed", "paymentRate", "settledUpTo", "endEpoch", "finalized",
                "createdAtBlock", "activatedAtBlock"}
ColumnType(c) == IF c = "finalized" THEN BOOLEAN ELSE IF c = "lockupFixed" THEN Int ELSE Nat

\* Columns that no two logs of a rail write.
OneShot == {"finalized", "endEpoch", "createdAtBlock"}

RailTyped(l) ==
  /\ l.blockNumber \in Nat
  /\ l.eventName = "RailLockupModified" => l.args.newLockupFixed \in Nat
  /\ l.eventName = "RailRateModified" => l.args.newRate \in Nat
  /\ l.eventName = "RailOneTimePaymentProcessed" => Total(l) \in Nat
  /\ l.eventName = "RailSettled" => l.args.settledUpTo \in Nat
  /\ l.eventName = "RailTerminated" => l.args.endEpoch \in Nat \ {0}

\* What an update makes of a column.
Effect(u, c, v) == IF c \notin DOMAIN u THEN v
                   ELSE CASE u[c].op = "set" -> u[c].arg
                          [] u[c].op = "increment" -> v + u[c].arg
                          [] u[c].op = "decrement" -> v - u[c].arg

\* A log writes a column of a rail, and what it makes of it.
Touches(l, r, c) == l.railId = r /\ c \in DOMAIN RailUpdate(l)
After(l, r, c, v) == IF l.railId = r THEN Effect(RailUpdate(l), c, v) ELSE v

\* A column of a rail in the table; a row that is missing counts as a new one.
RailCell(r, c) == IF r \in DOMAIN rails THEN rails[r][c]
                  ELSE CreatedRail(chainRail[r].createdAtBlock)[c]

\* The row of a rail is inserted by the logs up to a position.
InsertedIn(logs, r, i) ==
  \E j \in DOMAIN logs : j <= i /\ logs[j].eventName = "RailCreated" /\ logs[j].railId = r
RailInserted(r, i) == InsertedIn(unindexed, r, i)

\* The logs not indexed yet are of the epochs so far, in the order of the epochs.
UnindexedShape ==
  /\ epoch \in Nat \ {0}
  /\ unindexed \in Seq(RailLogs)
  /\ \A i \in DOMAIN unindexed : RailTyped(unindexed[i]) /\ unindexed[i].blockNumber <= epoch
  /\ \A i, j \in DOMAIN unindexed : i <= j => unindexed[i].blockNumber <= unindexed[j].blockNumber

\* A rail that is not older than the origin has a row or will have one, with the block
\* it was created at, before a log changes it.
RailRowsInv ==
  /\ OldRails \subseteq DOMAIN chainRail /\ DOMAIN chainRail \subseteq Rails
  /\ \A r \in DOMAIN chainRail : chainRail[r] \in RailColumns
  /\ \A r \in DOMAIN rails : rails[r] \in RailColumns
  /\ DOMAIN rails \subseteq DOMAIN chainRail \ OldRails
  /\ \A r \in DOMAIN chainRail \ OldRails : r \in DOMAIN rails \/ RailInserted(r, Len(unindexed))
  /\ \A i \in DOMAIN unindexed :
        /\ unindexed[i].railId \in DOMAIN chainRail
        /\ unindexed[i].railId \in OldRails \cup DOMAIN rails \/ RailInserted(unindexed[i].railId, i)
        /\ unindexed[i].eventName = "RailCreated" =>
              /\ unindexed[i].railId \notin OldRails \cup DOMAIN rails
              /\ unindexed[i].blockNumber = chainRail[unindexed[i].railId].createdAtBlock
  /\ \A i, j \in DOMAIN unindexed :
        /\ unindexed[i].eventName = "RailCreated" /\ unindexed[j].eventName = "RailCreated"
        /\ unindexed[i].railId = unindexed[j].railId
        => i = j

\* A rail ends and is finalized once.
RailOnceInv ==
  /\ \A i \in DOMAIN unindexed :
        /\ unindexed[i].eventName = "RailTerminated" => chainRail[unindexed[i].railId].endEpoch > 0
        /\ unindexed[i].eventName = "RailFinalized" => chainRail[unindexed[i].railId].finalized
  /\ \A i, j \in DOMAIN unindexed :
        /\ unindexed[i].eventName \in {"RailTerminated", "RailFinalized"}
        /\ unindexed[i].eventName = unindexed[j].eventName
        /\ unindexed[i].railId = unindexed[j].railId
        => i = j

\* The logs lead a column from its value in the table to the contract's.
Leads(r, c) ==
  \E val : /\ val[0] = RailCell(r, c)
           /\ \A i \in 1..Len(unindexed) : val[i] = After(unindexed[i], r, c, val[i - 1])
           /\ val[Len(unindexed)] = chainRail[r][c]

RailColumnInv ==
  \A r \in DOMAIN chainRail \ OldRails : \A c \in ColumnNames :
     r \notin mixed \/ c \in OneShot => Leads(r, c)

\* The payments not in the table yet are those of the logs.
PaymentsInv == /\ IsABag(payments)
               /\ chainPayments = payments (+) PaymentRows(unindexed)

PayInv == UnindexedShape /\ RailRowsInv /\ RailOnceInv /\ RailColumnInv /\ PaymentsInv
=============================================================================
