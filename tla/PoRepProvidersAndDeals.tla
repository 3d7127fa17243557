----------------------- MODULE PoRepProvidersAndDeals -----------------------
(***************************************************************************)
(* PoRepProvidersAndDealsIndexerRunner: the providers, deals and deal      *)
(* state change tables against the registry and market contracts they      *)
(* mirror.  As in FilecoinPayIndexer, an indexed batch is the logs of the  *)
(* next closed blocks, and the contracts are external: one contract call   *)
(* emits its logs together and moves the values the columns stand for.     *)
(***************************************************************************)
EXTENDS IndexerUpdates

CONSTANTS Providers, Deals,
          Sizes,       \* deal sizes
          Values,      \* values of the columns an event overwrites
          Settings,    \* the overwritten provider columns a run explores
          MaxBlock,    \* bound: last block
          MaxCalls     \* bound: contract calls

\* Provider columns that one event overwrites, and the event.
SettingEvent == [availableBytes |-> "AvailableSpaceUpdated",
                 pricePerSectorPerMonth |-> "PriceUpdated",
                 payee |-> "PayeeUpdated",
                 dealDurationDays |-> "DealDurationLimitsUpdated"]

\* The two flags of a provider, with the events that raise and lower them.
FlagEvents == [blocked |-> <<"ProviderBlocked", "ProviderUnblocked">>,
               paused |-> <<"ProviderPaused", "ProviderUnpaused">>]

\* The schema's default of the overwritten columns, and a deal's first location.
Default == 0

ASSUME ConstantsAssumption ==
  /\ Providers \cap Deals = {}
  /\ Settings \subseteq DOMAIN SettingEvent
  /\ Sizes \subseteq Nat \ {0} /\ Values \subseteq Nat \ {Default}
  /\ MaxBlock \in Nat /\ MaxCalls \in Nat

VARIABLES block,         \* the block under construction
          chain,         \* the contracts' providers, capabilities and deals
          calls,         \* number of contract calls made
          pending,       \* logs emitted and not indexed yet, in chain order
          tables,        \* the tables: same shape as chain, the terms, and
                         \* has an operation of the transaction thrown?
          stateChanges,  \* table po_rep_deal_state_change: (deal, state) pairs
          entangled      \* history: rows with two logs on a column in a batch

vars == <<block, chain, calls, pending, tables, stateChanges, entangled>>

States == {"PROPOSED", "ACCEPTED", "COMPLETED", "REJECTED", "TERMINATED"}

NewProvider == [availableBytes |-> Default, pricePerSectorPerMonth |-> Default,
                payee |-> Default, dealDurationDays |-> Default,
                blocked |-> FALSE, paused |-> FALSE,
                committedBytes |-> 0, pendingBytes |-> 0]

NewDeal(p, size, location) ==
  [provider |-> p, totalDealSize |-> size, state |-> "PROPOSED",
   railId |-> Default, manifestLocation |-> location]

Init == /\ block = 1
        /\ chain = [providers |-> <<>>, capabilities |-> <<>>, deals |-> <<>>]
        /\ calls = 0
        /\ pending = <<>>
        /\ tables = [providers |-> <<>>, capabilities |-> <<>>, deals |-> <<>>, terms |-> <<>>,
                   thrown |-> FALSE]
        /\ stateChanges = {}
        /\ entangled = {}

-----------------------------------------------------------------------------
(* The contracts. *)

Log(event, entity, args) ==
  [eventName |-> event, entity |-> entity, blockNumber |-> block, args |-> args]

\* A contract call emits its logs in the block under construction.
Emit(logs) == /\ calls < MaxCalls
              /\ calls' = calls + 1
              /\ pending' = pending \o logs
              /\ UNCHANGED <<block, tables, stateChanges, entangled>>

Registered(p) == p \in DOMAIN chain.providers

InState(d, states) == d \in DOMAIN chain.deals /\ chain.deals[d].state \in states

\* The contract's bytes of a provider move by these amounts.
Bytes(p, pendingDelta, committedDelta) ==
  [chain.providers EXCEPT ![p].pendingBytes = @ + pendingDelta,
                          ![p].committedBytes = @ + committedDelta]

NextBlock == /\ block < MaxBlock
             /\ block' = block + 1
             /\ UNCHANGED <<chain, calls, pending, tables, stateChanges, entangled>>

RegisterProvider(p) ==
  /\ ~Registered(p)
  /\ Emit(<<Log("ProviderRegistered", p, <<>>)>>)
  /\ chain' = [chain EXCEPT !.providers = Spread(@, [x \in {p} |-> NewProvider]),
                            !.capabilities = Spread(@, [x \in {p} |-> Default])]

UpdateCapabilities(p, v) ==
  /\ Registered(p) /\ chain.capabilities[p] # v
  /\ Emit(<<Log("CapabilitiesUpdated", p, [value |-> v])>>)
  /\ chain' = [chain EXCEPT !.capabilities[p] = v]

UpdateSetting(p, column, v) ==
  /\ Registered(p) /\ chain.providers[p][column] # v
  /\ Emit(<<Log(SettingEvent[column], p, [value |-> v])>>)
  /\ chain' = [chain EXCEPT !.providers[p][column] = v]

ToggleFlag(p, flag) ==
  /\ Registered(p)
  /\ LET raised == chain.providers[p][flag]
     IN Emit(<<Log(FlagEvents[flag][IF raised THEN 2 ELSE 1], p, <<>>)>>)
  /\ chain' = [chain EXCEPT !.providers[p][flag] = ~@]

ProposeDeal(d, p, size) ==
  /\ d \notin DOMAIN chain.deals /\ Registered(p)
  /\ Emit(<<Log("PendingCapacityReserved", p, [bytes |-> size]),
            Log("DealProposalCreated", d,
                [provider |-> p, totalDealSize |-> size, manifestLocation |-> Default])>>)
  /\ chain' = [chain EXCEPT !.deals = Spread(@, [x \in {d} |-> NewDeal(p, size, Default)]),
                            !.providers = Bytes(p, size, 0)]

AcceptDeal(d) ==
  LET deal == chain.deals[d]
      released == [bytes |-> deal.totalDealSize]
  IN /\ InState(d, {"PROPOSED"})
     /\ Emit(<<Log("PendingCapacityReleased", deal.provider, released),
               Log("CapacityCommitted", deal.provider, released),
               Log("DealAccepted", d, <<>>)>>)
     /\ chain' = [chain EXCEPT !.deals[d].state = "ACCEPTED",
                     !.providers = Bytes(deal.provider, -deal.totalDealSize, deal.totalDealSize)]

RejectDeal(d) ==
  LET deal == chain.deals[d]
  IN /\ InState(d, {"PROPOSED"})
     /\ Emit(<<Log("PendingCapacityReleased", deal.provider, [bytes |-> deal.totalDealSize]),
               Log("DealRejected", d, <<>>)>>)
     /\ chain' = [chain EXCEPT !.deals[d].state = "REJECTED",
                               !.providers = Bytes(deal.provider, -deal.totalDealSize, 0)]

CompleteDeal(d) == /\ InState(d, {"ACCEPTED"})
                   /\ Emit(<<Log("DealCompleted", d, <<>>)>>)
                   /\ chain' = [chain EXCEPT !.deals[d].state = "COMPLETED"]

TerminateDeal(d) ==
  LET deal == chain.deals[d]
  IN /\ InState(d, {"ACCEPTED", "COMPLETED"})
     /\ Emit(<<Log("CapacityReleased", deal.provider, [bytes |-> deal.totalDealSize]),
               Log("DealTerminated", d, <<>>)>>)
     /\ chain' = [chain EXCEPT !.deals[d].state = "TERMINATED",
                               !.providers = Bytes(deal.provider, 0, -deal.totalDealSize)]

\* RailIdUpdated or ManifestLocationUpdated.
UpdateDeal(d, event, column, v) ==
  /\ InState(d, {"PROPOSED", "ACCEPTED"}) /\ chain.deals[d][column] # v
  /\ Emit(<<Log(event, d, [value |-> v])>>)
  /\ chain' = [chain EXCEPT !.deals[d][column] = v]

-----------------------------------------------------------------------------
(* The runner. *)

\* The change of a byte counter that a log stands for.
ByteUpdate(log) ==
  CASE log.eventName = "CapacityCommitted" -> [committedBytes |-> Increment(log.args.bytes)]
    [] log.eventName = "CapacityReleased" -> [committedBytes |-> Decrement(log.args.bytes)]
    [] log.eventName = "PendingCapacityReserved" -> [pendingBytes |-> Increment(log.args.bytes)]
    [] log.eventName = "PendingCapacityReleased" -> [pendingBytes |-> Decrement(log.args.bytes)]
    [] OTHER -> <<>>

\* The provider columns a log overwrites.
SettingUpdate(log) ==
  [c \in {s \in DOMAIN SettingEvent : SettingEvent[s] = log.eventName} |-> SetTo(log.args.value)]

FlagUpdate(log) ==
  [f \in {g \in DOMAIN FlagEvents : log.eventName \in ToSet(FlagEvents[g])} |->
      SetTo(log.eventName = FlagEvents[f][1])]

\* The columns whose changes in a batch are merged; a later log overwrites the others.
ByteColumns == {"committedBytes", "pendingBytes"}

LogToProviderUpdate(log) ==
  Spread(Spread(ByteUpdate(log), SettingUpdate(log)), FlagUpdate(log))

\* eventNameToDealState; no entry is null.
EventNameToDealState == [DealRejected |-> "REJECTED", DealAccepted |-> "ACCEPTED",
                         DealCompleted |-> "COMPLETED", DealTerminated |-> "TERMINATED"]

LogToDealUpdate(log) ==
  CASE log.eventName \in DOMAIN EventNameToDealState ->
         [state |-> SetTo(EventNameToDealState[log.eventName])]
    [] log.eventName = "RailIdUpdated" -> [railId |-> SetTo(log.args.value)]
    [] log.eventName = "ManifestLocationUpdated" -> [manifestLocation |-> SetTo(log.args.value)]
    [] OTHER -> <<>>

\* The updates of a row: the logs of another entity update nothing of it.
ProviderUpdates(logs, p) ==
  [i \in DOMAIN logs |-> IF logs[i].entity = p THEN LogToProviderUpdate(logs[i]) ELSE <<>>]
DealUpdates(logs, d) ==
  [i \in DOMAIN logs |-> IF logs[i].entity = d THEN LogToDealUpdate(logs[i]) ELSE <<>>]

Entities(logs) == {logs[i].entity : i \in DOMAIN logs}

EventsOf(logs, event) == {l \in ToSet(logs) : l.eventName = event}

\* prepareProvidersCreations: the provider and its capabilities.
CreateProviders(t, logs) ==
  LET new == {l.entity : l \in EventsOf(logs, "ProviderRegistered")}
  IN [t EXCEPT !.providers = Spread(@, [p \in new |-> NewProvider]),
               !.capabilities = Spread(@, [p \in new |-> Default])]

\* prepareProvidersUpdates: update() throws for a provider without a row.
UpdateProviders(t, logs) ==
  [t EXCEPT !.providers = [p \in DOMAIN @ |->
                 ApplyUpdate(@[p], UpdateInput(ByteColumns, ProviderUpdates(logs, p)))],
            !.thrown = @ \/ ~(Entities(logs) \cap Providers \subseteq DOMAIN t.providers)]

\* prepareProvidersCapabilitiesUpdates: the last log of the provider counts.
UpdateProvidersCapabilities(t, logs) ==
  LET of(p) == {i \in DOMAIN logs : logs[i].entity = p /\ logs[i].eventName = "CapabilitiesUpdated"}
  IN [t EXCEPT !.capabilities = [p \in DOMAIN @ |->
        IF of(p) = {} THEN @[p] ELSE logs[Max(of(p))].args.value]]

\* Mutant: the terms of the deals already known are queried instead.
CreateDeals_OldTerms(t, logs, allDeals) ==
  LET new == EventsOf(logs, "DealProposalCreated")
      log(d) == CHOOSE l \in new : l.entity = d
      ids == {l.entity : l \in new}
  IN [t EXCEPT !.deals = Spread(@, [d \in ids |->
                    NewDeal(log(d).args.provider, log(d).args.totalDealSize,
                            log(d).args.manifestLocation)]),
               !.terms = Spread(@, [d \in DOMAIN allDeals \cap DOMAIN t.deals |->
                    allDeals[d].totalDealSize])]

\* prepareDealsCreations: a row per proposal, its requirements, and the terms
\* of those the contract lists when it is asked, which may be later.
CreateDeals(t, logs, allDeals) ==
  LET new == EventsOf(logs, "DealProposalCreated")
      log(d) == CHOOSE l \in new : l.entity = d
      ids == {l.entity : l \in new}
  IN [t EXCEPT !.deals = Spread(@, [d \in ids |->
                    NewDeal(log(d).args.provider, log(d).args.totalDealSize,
                            log(d).args.manifestLocation)]),
               !.terms = Spread(@, [d \in DOMAIN allDeals \cap ids |->
                    allDeals[d].totalDealSize])]

\* prepareDealsUpdates: update() throws for a deal without a row.
UpdateDeals(t, logs) ==
  [t EXCEPT !.deals = [d \in DOMAIN @ |->
                 ApplyUpdate(@[d], UpdateInput({}, DealUpdates(logs, d)))],
            !.thrown = @ \/ ~(Entities(logs) \cap Deals \subseteq DOMAIN t.deals)]

\* prepareDealStateChangeCreations.
StateChangeRows(logs) ==
  {<<l.entity, EventNameToDealState[l.eventName]>> :
     l \in {k \in ToSet(logs) : k.eventName \in DOMAIN EventNameToDealState}}

\* Mutant: the updates come before the creations, and find no row.
BatchTables_UpdatesFirst(t, logs, allDeals) ==
  LET updated == UpdateProvidersCapabilities(UpdateProviders(t, logs), logs)
  IN UpdateDeals(CreateDeals(CreateProviders(updated, logs), logs, allDeals), logs)

\* The operations of the batch in the order of prepareUpdates.
BatchTables(t, logs, allDeals) ==
  LET t1 == CreateProviders(t, logs)
      t2 == UpdateProvidersCapabilities(UpdateProviders(t1, logs), logs)
  IN UpdateDeals(CreateDeals(t2, logs, allDeals), logs)

\* The events that insert a row, of their entity or of its states.
InsertingEvents == {"ProviderRegistered", "DealProposalCreated"} \cup DOMAIN EventNameToDealState

\* No operation of the transaction throws: every updated row exists, a deal's
\* provider exists when the deal is inserted, and no row is inserted twice.
Succeeds(logs) ==
  LET t == BatchTables(tables, logs, chain.deals)
  IN /\ ~t.thrown
     /\ \A l \in EventsOf(logs, "ProviderRegistered") : l.entity \notin DOMAIN tables.providers
     /\ \A l \in EventsOf(logs, "DealProposalCreated") :
           l.entity \notin DOMAIN tables.deals /\ l.args.provider \in DOMAIN t.providers
     /\ StateChangeRows(logs) \cap stateChanges = {}
     /\ \A i, j \in DOMAIN logs : /\ logs[i].eventName \in InsertingEvents
                                  /\ logs[i].eventName = logs[j].eventName
                                  /\ logs[i].entity = logs[j].entity
                                  => i = j

Batch(toBlock) == UpTo(pending, toBlock)

\* The columns of its entity that a log overwrites.
OverwrittenColumns(log) ==
  DOMAIN SettingUpdate(log) \cup DOMAIN FlagUpdate(log) \cup DOMAIN LogToDealUpdate(log)
    \cup (IF log.eventName = "CapabilitiesUpdated" THEN {"capabilities"} ELSE {})

\* Two logs on one overwritten column of the entity.
Entangled(logs, e) ==
  \E i, j \in DOMAIN logs :
     /\ i # j /\ logs[i].entity = e /\ logs[j].entity = e
     /\ OverwrittenColumns(logs[i]) \cap OverwrittenColumns(logs[j]) # {}

\* A batch of closed blocks is committed in one transaction; one that throws
\* is rolled back and tried again for ever.
Index(toBlock) ==
  LET batch == Batch(toBlock)
      logs == SortLogs(batch)
  IN /\ toBlock < block
     /\ batch # <<>>
     /\ Succeeds(logs)
     /\ tables' = BatchTables(tables, logs, chain.deals)
     /\ stateChanges' = stateChanges \cup StateChangeRows(logs)
     /\ entangled' = entangled \cup {e \in Entities(logs) : Entangled(logs, e)}
     /\ pending' = SubSeq(pending, Len(batch) + 1, Len(pending))
     /\ UNCHANGED <<block, chain, calls>>

Next == \/ NextBlock
        \/ \E p \in Providers :
              \/ RegisterProvider(p)
              \/ \E v \in Values : UpdateCapabilities(p, v)
              \/ \E s \in Settings, v \in Values : UpdateSetting(p, s, v)
              \/ \E f \in DOMAIN FlagEvents : ToggleFlag(p, f)
              \/ \E d \in Deals, n \in Sizes : ProposeDeal(d, p, n)
        \/ \E d \in Deals :
              \/ AcceptDeal(d)
              \/ RejectDeal(d)
              \/ CompleteDeal(d)
              \/ TerminateDeal(d)
              \/ \E v \in Values : UpdateDeal(d, "RailIdUpdated", "railId", v)
              \/ \E v \in Values : UpdateDeal(d, "ManifestLocationUpdated", "manifestLocation", v)
        \/ \E b \in 1..MaxBlock : Index(b)

Spec == Init /\ [][Next]_vars

-----------------------------------------------------------------------------
ProviderRow == [availableBytes : Nat, pricePerSectorPerMonth : Nat, payee : Nat,
                dealDurationDays : Nat, blocked : BOOLEAN, paused : BOOLEAN,
                committedBytes : Int, pendingBytes : Int]

TypeOK == /\ \A p \in DOMAIN tables.providers : tables.providers[p] \in ProviderRow
          /\ \A d \in DOMAIN tables.deals : tables.deals[d].state \in States
          /\ stateChanges \subseteq Deals \X States
          /\ DOMAIN tables.capabilities = DOMAIN tables.providers

CaughtUp == pending = <<>>

\* No batch the chain can present throws: the runner is never stuck on it.
NoPoisonBatch ==
  \A b \in 1..(block - 1) : Batch(b) # <<>> => Succeeds(SortLogs(Batch(b)))

\* The byte counters of every provider are the contract's, in any batching.
BytesMirrorChain ==
  CaughtUp => \A p \in DOMAIN tables.providers :
     /\ tables.providers[p].committedBytes = chain.providers[p].committedBytes
     /\ tables.providers[p].pendingBytes = chain.providers[p].pendingBytes

\* The state history of a deal ends in the contract's state, in any batching,
\* and holds a decision before a completion.
HistoryMirrorsChain ==
  CaughtUp => \A d \in Deals :
     LET reached == {s \in States : <<d, s>> \in stateChanges}
     IN IF ~InState(d, States \ {"PROPOSED"}) THEN reached = {}
        ELSE /\ chain.deals[d].state \in reached
             /\ "REJECTED" \in reached => reached = {"REJECTED"}
             /\ reached \cap {"COMPLETED", "TERMINATED"} # {} => "ACCEPTED" \in reached

\* Every contract row has its table row; it is equal unless two logs of one
\* batch overwrote the same column of it.
RowsMirrorChain ==
  CaughtUp => /\ DOMAIN tables.providers = DOMAIN chain.providers
              /\ DOMAIN tables.deals = DOMAIN chain.deals
              /\ \A p \in DOMAIN chain.providers \ entangled :
                    /\ tables.providers[p] = chain.providers[p]
                    /\ tables.capabilities[p] = chain.capabilities[p]
              /\ \A d \in DOMAIN chain.deals \ entangled : tables.deals[d] = chain.deals[d]

\* A deal is never without its terms, which the logs do not carry.
DealsHaveTerms == DOMAIN tables.terms = DOMAIN tables.deals

\* The tables of providers, deals and their states are typed and mirror the contracts.
DealTablesMirrorChain == /\ TypeOK /\ BytesMirrorChain /\ HistoryMirrorsChain
                         /\ RowsMirrorChain /\ DealsHaveTerms
=============================================================================
