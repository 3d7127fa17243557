--------------------------- MODULE MCIndexedTables ----------------------------
(* An instance of the two runners of the PoRep indexer.  They have no table and no log in
   common: the contracts and the runner of either part move, the other part stands still. *)
EXTENDS PoRepProvidersAndDeals, FilecoinPayIndexer, TLC

TablesInit == Init /\ PayInit

TablesNext == \/ PayInit /\ Next /\ UNCHANGED payVars
              \/ Init /\ PayNext /\ UNCHANGED vars

TablesSpec == TablesInit /\ [][TablesNext]_<<vars, payVars>>

\* No operator tells one deal from another; the run has no liveness property.
DealSymmetry == Permutations(Deals)
=============================================================================
