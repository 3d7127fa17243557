SPECIFICATION FairSpec
CONSTANTS
  Calls = {c1, c2}
  Tables <- SmallTables
  Runners <- SmallRunners
  StaleTables = {"e", "f"}
  MaxFailures = 4
INVARIANTS IInv CompletedIsFresh
PROPERTIES AtomicTablesStayFilled KeepsCompleting
