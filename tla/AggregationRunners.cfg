SPECIFICATION Spec
CONSTANTS
  Calls = {c1}
  Tables <- AggregationTable
  Runners <- AggregationRunnerList
  StaleTables = {"OldDatacapClientBalanceWeekly"}
  MaxFailures = 3
INVARIANT FreshButStaleTables
