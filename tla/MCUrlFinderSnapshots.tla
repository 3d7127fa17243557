------------------------- MODULE MCUrlFinderSnapshots -------------------------
(* The job and the runner share nothing but the calendar: they are checked side by side,
   one without deals, one without providers. *)
EXTENDS UrlFinderSnapshots

CONSTANTS d1, d2

DealsOnly == providers = {} /\ job = NoJob
ProvidersOnly == active = {} /\ runner = NoRunner

\* Bounds the days: three for the job; for the runner as many as it takes to leave the first
\* snapshots out of the window, with one deal active after the second.
Bounded == \/ DealsOnly /\ (day <= 1 \/ d2 \notin active) /\ day + events <= 5
           \/ ProvidersOnly /\ day <= 2

MCInit == Init /\ Bounded
MCNext == Next /\ Bounded'
MCSpec == MCInit /\ [][MCNext]_vars
          /\ WF_vars(DealStep /\ UNCHANGED providerVars /\ World /\ Bounded')

MCMeasured == {<<p, t>> \in Providers \X Days : t % 2 = 0}
=============================================================================
