------------------------- MODULE FilecoinPayIndexer -------------------------
(***************************************************************************)
(* FilecoinPayIndexerRunner: the rails and payments tables against the     *)
(* payment contract they mirror.  The chain emits logs; an indexed batch   *)
(* is the logs of the next closed blocks, however many, each batch once    *)
(* (PoRepIndexer shows both).  The contract is external: its actions keep  *)
(* the rail values that the columns of the table stand for.                *)
(***************************************************************************)
EXTENDS IndexerUpdates, Bags, FiniteSets

CONSTANTS Rails,       \* rails of the contract
          OldRails,    \* those created before the runner's origin block
          Amounts,     \* lockups, rates and amounts paid
          Fees,        \* network fee plus operator commission of a payment
          MaxEpoch,    \* bound: last epoch, the contract's word for a block
          MaxLogs      \* bound: logs emitted

ASSUME PayConstantsAssumption ==
  /\ OldRails \subseteq Rails
  /\ Amounts \subseteq Nat /\ Fees \subseteq Nat
  /\ MaxEpoch \in Nat /\ MaxLogs \in Nat

VARIABLES epoch,         \* the epoch under construction
          chainRail,     \* the contract's rails
          chainPayments, \* bag of the payments the contract has made
          emitted,       \* number of logs emitted
          unindexed,     \* logs emitted and not indexed yet, in chain order
          rails,         \* table filecoin_pay_rail
          payments,      \* table filecoin_pay_payment, a bag of rows
          mixed          \* history: rails with two logs on a column in a batch

payTables == <<rails, payments, mixed>>
payVars == <<epoch, chainRail, chainPayments, emitted, unindexed, payTables>>

\* The columns of a rail that logs change, on chain and in the table.
RailColumns == [lockupFixed : Int, paymentRate : Nat, settledUpTo : Nat, endEpoch : Nat,
                finalized : BOOLEAN, createdAtBlock : Nat, activatedAtBlock : Nat]

\* The row RailCreated inserts, the defaults of its columns included.
CreatedRail(b) == [lockupFixed |-> 0, paymentRate |-> 0, settledUpTo |-> b, endEpoch |-> 0,
                   finalized |-> FALSE, createdAtBlock |-> b, activatedAtBlock |-> 0]

Payment(r, total, oneTime, b) ==
  [railId |-> r, totalAmount |-> total, oneTime |-> oneTime, createdAtBlock |-> b]

PayInit == /\ epoch = 1
           /\ chainRail = [r \in OldRails |-> CreatedRail(0)]
           /\ chainPayments = EmptyBag
           /\ emitted = 0
           /\ unindexed = <<>>
           /\ rails = <<>>
           /\ payments = EmptyBag
           /\ mixed = {}

-----------------------------------------------------------------------------
(* The contract. *)

\* A log of the epoch under construction.
RailLog(event, r, args) ==
  [eventName |-> event, railId |-> r, blockNumber |-> epoch, args |-> args]

EmitRailLog(event, r, args) ==
  /\ emitted < MaxLogs
  /\ emitted' = emitted + 1
  /\ unindexed' = Append(unindexed, RailLog(event, r, args))
  /\ UNCHANGED <<epoch, payTables>>

Change(r, update) == chainRail' = [chainRail EXCEPT ![r] = Spread(@, update)]

Pay(p) == chainPayments' = chainPayments (+) SetToBag({p})

Live(r) == r \in DOMAIN chainRail /\ ~chainRail[r].finalized

NextEpoch == /\ epoch < MaxEpoch
             /\ epoch' = epoch + 1
             /\ UNCHANGED <<chainRail, chainPayments, emitted, unindexed, payTables>>

RailCreated(r) == /\ r \notin DOMAIN chainRail
                  /\ EmitRailLog("RailCreated", r, <<>>)
                  /\ chainRail' = Spread(chainRail, [x \in {r} |-> CreatedRail(epoch)])
                  /\ UNCHANGED chainPayments

RailLockupModified(r, new) ==
  /\ Live(r) /\ chainRail[r].endEpoch = 0
  /\ EmitRailLog("RailLockupModified", r, [newLockupFixed |-> new])
  /\ Change(r, [lockupFixed |-> new])
  /\ UNCHANGED chainPayments

RailRateModified(r, new) ==
  LET old == chainRail[r].paymentRate
  IN /\ Live(r) /\ chainRail[r].endEpoch = 0 /\ new # old
     /\ EmitRailLog("RailRateModified", r, [oldRate |-> old, newRate |-> new])
     /\ Change(r, IF old = 0
                  THEN [paymentRate |-> new, activatedAtBlock |-> epoch, settledUpTo |-> epoch]
                  ELSE [paymentRate |-> new])
     /\ UNCHANGED chainPayments

RailOneTimePaymentProcessed(r, net, fees) ==
  /\ Live(r) /\ net + fees <= chainRail[r].lockupFixed
  /\ EmitRailLog("RailOneTimePaymentProcessed", r, [netPayeeAmount |-> net, fees |-> fees])
  /\ Change(r, [lockupFixed |-> chainRail[r].lockupFixed - (net + fees)])
  /\ Pay(Payment(r, net + fees, TRUE, epoch))

RailSettled(r) ==
  LET amount == chainRail[r].paymentRate * (epoch - chainRail[r].settledUpTo)
  IN /\ Live(r) /\ chainRail[r].settledUpTo < epoch
     /\ EmitRailLog("RailSettled", r, [settledUpTo |-> epoch, totalSettledAmount |-> amount])
     /\ Change(r, [settledUpTo |-> epoch])
     /\ Pay(Payment(r, amount, FALSE, epoch))

RailTerminated(r) == /\ Live(r) /\ chainRail[r].endEpoch = 0
                     /\ EmitRailLog("RailTerminated", r, [endEpoch |-> epoch])
                     /\ Change(r, [endEpoch |-> epoch])
                     /\ UNCHANGED chainPayments

\* What the contract resets is kept in the table, but for the fixed lockup.
RailFinalized(r) == /\ Live(r) /\ chainRail[r].endEpoch > 0
                    /\ EmitRailLog("RailFinalized", r, <<>>)
                    /\ Change(r, [lockupFixed |-> 0, finalized |-> TRUE])
                    /\ UNCHANGED chainPayments

-----------------------------------------------------------------------------
(* The runner. *)

Total(log) == log.args.netPayeeAmount + log.args.fees

\* What one log writes to the row of its rail.
RailUpdate(log) ==
  CASE log.eventName = "RailLockupModified" -> [lockupFixed |-> SetTo(log.args.newLockupFixed)]
    [] log.eventName = "RailRateModified" ->
         IF log.args.oldRate = 0 /\ log.args.newRate > 0
         THEN [paymentRate |-> SetTo(log.args.newRate),
               activatedAtBlock |-> SetTo(log.blockNumber),
               settledUpTo |-> SetTo(log.blockNumber)]
         ELSE [paymentRate |-> SetTo(log.args.newRate)]
    [] log.eventName = "RailSettled" -> [settledUpTo |-> SetTo(log.args.settledUpTo)]
    [] log.eventName = "RailTerminated" -> [endEpoch |-> SetTo(log.args.endEpoch)]
    [] log.eventName = "RailFinalized" -> [lockupFixed |-> SetTo(0), finalized |-> SetTo(TRUE)]
    [] log.eventName = "RailOneTimePaymentProcessed" -> [lockupFixed |-> Decrement(Total(log))]
    [] OTHER -> <<>>

\* Mutant: a settlement is not recorded on the rail.
RailUpdates_NoSettled(logs, r) ==
  [i \in DOMAIN logs |-> IF logs[i].railId = r /\ logs[i].eventName # "RailSettled"
                         THEN RailUpdate(logs[i]) ELSE <<>>]

\* The updates of a row: the logs of another rail update nothing of it.
RailUpdates(logs, r) ==
  [i \in DOMAIN logs |-> IF logs[i].railId = r THEN RailUpdate(logs[i]) ELSE <<>>]

\* prepareRailsCreations: one row per RailCreated.
CreateRails(table, logs) ==
  LET created == {l \in ToSet(logs) : l.eventName = "RailCreated"}
  IN Spread(table, [r \in {l.railId : l \in created} |->
                      CreatedRail((CHOOSE l \in created : l.railId = r).blockNumber)])

\* prepareRailUpdates: updateMany skips the rails that have no row.
UpdateRails(table, logs) ==
  [r \in DOMAIN table |-> ApplyUpdate(table[r], UpdateInput({}, RailUpdates(logs, r)))]

PaymentRow(log) ==
  IF log.eventName = "RailOneTimePaymentProcessed"
  THEN Payment(log.railId, Total(log), TRUE, log.blockNumber)
  ELSE Payment(log.railId, log.args.totalSettledAmount, FALSE, log.blockNumber)

\* A row per one-time payment and per settlement.
PaymentRows(logs) ==
  LET paying == {i \in DOMAIN logs :
                   logs[i].eventName \in {"RailOneTimePaymentProcessed", "RailSettled"}}
      of(row) == {i \in paying : PaymentRow(logs[i]) = row}
  IN [row \in {PaymentRow(logs[i]) : i \in paying} |-> Cardinality(of(row))]

\* preparePaymentsCreations: whether or not the rail is known.
CreatePayments(table, logs) == table (+) PaymentRows(logs)

\* Two logs of the rail in this batch write the same column.
Mixed(logs, r) ==
  \E i, j \in DOMAIN logs :
     /\ i # j /\ logs[i].railId = r /\ logs[j].railId = r
     /\ DOMAIN RailUpdate(logs[i]) \cap DOMAIN RailUpdate(logs[j]) # {}

\* A batch of closed epochs is committed in one transaction: rails created,
\* then updated, then payments created.
IndexRails(toEpoch) ==
  LET batch == UpTo(unindexed, toEpoch)
      logs == SortLogs(batch)
  IN /\ toEpoch < epoch
     /\ batch # <<>>
     /\ rails' = UpdateRails(CreateRails(rails, logs), logs)
     /\ payments' = CreatePayments(payments, logs)
     /\ mixed' = mixed \cup {r \in Rails : Mixed(logs, r)}
     /\ unindexed' = SubSeq(unindexed, Len(batch) + 1, Len(unindexed))
     /\ UNCHANGED <<epoch, chainRail, chainPayments, emitted>>

PayNext == \/ NextEpoch
           \/ \E r \in Rails :
                 \/ RailCreated(r)
                 \/ \E n \in Amounts : RailLockupModified(r, n)
                 \/ \E n \in Amounts : RailRateModified(r, n)
                 \/ \E n \in Amounts, f \in Fees : RailOneTimePaymentProcessed(r, n, f)
                 \/ RailSettled(r)
                 \/ RailTerminated(r)
                 \/ RailFinalized(r)
           \/ \E b \in 1..MaxEpoch : IndexRails(b)

PaySpec == PayInit /\ [][PayNext]_payVars

-----------------------------------------------------------------------------
PayTypeOK == /\ DOMAIN rails \subseteq Rails
             /\ \A r \in DOMAIN rails : rails[r] \in RailColumns
             /\ \A r \in DOMAIN chainRail : chainRail[r] \in RailColumns
             /\ \A i \in DOMAIN unindexed : unindexed[i].railId \in DOMAIN chainRail

PayCaughtUp == unindexed = <<>>

\* Once the runner has caught up, the payments table is the bag of the
\* contract's payments, of rails older than the origin too, in any batching.
PaymentsMirrorChain == PayCaughtUp => payments = chainPayments

\* Once caught up, every rail created after the origin has its row, and the
\* row equals the contract's rail, unless two logs of one batch wrote the same
\* column of it.
RailsMirrorChain ==
  PayCaughtUp => /\ DOMAIN rails = DOMAIN chainRail \ OldRails
                 /\ \A r \in DOMAIN rails \ mixed : rails[r] = chainRail[r]

\* Columns that at most one log of a rail's life writes are right in any batching.
OneShotColumnsMirrorChain ==
  PayCaughtUp => \A r \in DOMAIN rails :
     /\ rails[r].finalized = chainRail[r].finalized
     /\ rails[r].endEpoch = chainRail[r].endEpoch
     /\ rails[r].createdAtBlock = chainRail[r].createdAtBlock

\* The tables of rails and payments are typed and mirror the contract.
PayTablesMirrorChain == /\ PayTypeOK /\ PaymentsMirrorChain
                        /\ RailsMirrorChain /\ OneShotColumnsMirrorChain

\* The claim of the API's description: the row holds the current payment rate.
PaymentRateCurrent ==
  PayCaughtUp => \A r \in DOMAIN rails : rails[r].paymentRate = chainRail[r].paymentRate
=============================================================================
