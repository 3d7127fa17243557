------------------------- MODULE MCAggregationRunners -------------------------
(* The model-checking instance of AggregationTasks with the runners that the *)
(* application registers, and the theorems' hypotheses about a graph.        *)
EXTENDS AggregationTasks, AggregationRunners

\* Of the first n positions, those that the first pass executes.
FirstPass[n \in 0..Len(Runners)] ==
  IF n = 0 THEN {}
  ELSE LET P == FirstPass[n - 1]
       IN  IF Runners[n].depends \subseteq FilledBy(P) THEN P \cup {n} ELSE P

\* The positions that n passes execute whatever their order.
Passes[n \in 0..Len(Runners)] ==
  IF n = 0 THEN {}
  ELSE LET Q == Passes[n - 1] IN {i \in Positions : Runners[i].depends \subseteq FilledBy(Q)}

PromptRunners == FirstPass[Len(Runners)]
NeverExecuted == Positions \ Passes[Len(Runners)]
PassesBefore == [i \in Positions |-> Cardinality({n \in 0..Len(Runners) : i \notin Passes[n]})]

\* What the theorems assume of a graph: with the runners that are executed promptly,
\* those that never are, and the passes the others need.
Hypotheses ==
  /\ Prompt(PromptRunners) /\ SettledReads(PromptRunners)
  /\ Deadlocked(NeverExecuted)
  /\ Ranked(PassesBefore)
  /\ StaleForGood(PromptRunners, NeverExecuted)
  /\ AtomicTables \cap StaleTables \subseteq FilledBy(NeverExecuted)

\* The theorems apply to the graph of the run.
ASSUME HypothesesAssumption == Hypotheses
=============================================================================
