-------------------------- MODULE MCAggregationTasks --------------------------
(* The model-checking instance of AggregationTasks with a small graph that   *)
(* has every way of writing and a cycle.                                     *)
EXTENDS MCAggregationRunners

\* Listed so that a second pass is needed: "a" waits for "b" and "c"; and no pass ever
\* executes "e" and "f", which wait for each other.
SmallRunners ==
  << Fill("b", {}, "replace"), Fill("a", {"b", "c"}, "transaction"),
     Fill("c", {"b"}, "replace"), Fill("d", {"c"}, "daily"),
     Fill("e", {"f"}, "transaction"), Fill("f", {"e"}, "replace") >>

SmallTables == {"a", "b", "c", "d", "e", "f"}
=============================================================================
