------------------------------ MODULE MCServices ------------------------------
\* The services over the tables of Fil+ and over those of PoRep, which have no table in
\* common: either part of the chain moves, the other stands still at its start.
EXTENDS Dashboard, PoRepViews, TLC

CONSTANTS a1, a2, c1, c2, p1, p2, x, y, here, there, d1, d2

MCSize == (x :> 1) @@ (y :> 2)
MCReported == (p1 :> 1) @@ (p2 :> 0)
MCLocation == (p1 :> here) @@ (p2 :> Nowhere)
MCRate == (p1 :> 80) @@ (p2 :> 0)
MCDeclared == (c1 :> {p1}) @@ (c2 :> {p1, p2})
MCExpected == (c1 :> 2) @@ (c2 :> 0)
MCDataType == (a1 :> "openData") @@ (a2 :> "enterprise")
MCFirstAudit == (a1 :> 0) @@ (a2 :> Never)
MCDecayed == [d \in Days |-> 1000 \div (d + 1)]
MCEnvironments ==
  {[s \in Settings |-> 25],
   [s \in Settings |-> IF s = "maxLowReplica" THEN NotSet ELSE IF s = "maxProviderDeal" THEN 60 ELSE 0]}
MCAudits ==
  (a1 :> <<[ended |-> 0, outcome |-> "GRANTED", amount |-> 5], [ended |-> 1, outcome |-> "MATCH", amount |-> 10],
           [ended |-> Never, outcome |-> "PENDING", amount |-> 0]>>)
  @@ (a2 :> <<[ended |-> 1, outcome |-> "THROTTLE", amount |-> 5], [ended |-> 2, outcome |-> "REJECT", amount |-> 0]>>)

\* The first allocator counts twice, the second not at all.
MCRegisteredIn == (5 :> {a1}) @@ (6 :> {a1})

MCDealClient == (d1 :> c1) @@ (d2 :> c2)
MCBytes == (d1 :> 1) @@ (d2 :> 2)
MCRevenue == (d1 :> 1004) @@ (d2 :> 2003)
MCRequirements ==
  (d1 :> [retrievability |-> 2, bandwidth |-> 2, latency |-> 1, indexing |-> 1])
  @@ (d2 :> [retrievability |-> 2, bandwidth |-> 0, latency |-> 0, indexing |-> 0])
MCTests ==
  {[success |-> TRUE, retrievability |-> 2, speed |-> 2],
   [success |-> TRUE, retrievability |-> 2, speed |-> 1],
   [success |-> FALSE, retrievability |-> 1, speed |-> Absent],
   [success |-> FALSE, retrievability |-> Null, speed |-> Absent]}

\* Bounds the allocations, the events of late days, and how far the deals and their rails have come, altogether.
StepsOf(d) ==
  Cardinality({i \in 1..7 :
    <<deals[d].state # "none", deals[d].state \in {"COMPLETED", "TERMINATED"}, deals[d].ended # Absent,
      HasRail(d), rails[d].activated # Absent, rails[d].terminated, rails[d].finalized>>[i]})
Bounded == /\ Cardinality(allocations) <= 2 /\ Events + today <= 5
           /\ StepsOf(d1) + StepsOf(d2) + Readings <= 6

Init == FilPlusInit /\ ViewsInit

Next == \/ ViewsInit /\ FilPlusNext /\ UNCHANGED viewVars /\ Bounded'
        \/ FilPlusInit /\ ViewsNext /\ UNCHANGED filPlusVars /\ Bounded'

Spec == Init /\ [][Next]_<<filPlusVars, viewVars>>

=============================================================================
