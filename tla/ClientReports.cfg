SPECIFICATION FairSpec
CONSTANTS
  Calls = {c1, c2}
  Clients = {k, u}
  Known = {k}
  Names = {id, address}
  NumChecks = 1
  MaxJobs = 1
  MaxRequests = 2
  MaxFailures = 1
INVARIANTS HandedOutComplete JobAccountsForAll DuplicatesAreRaces StaleResponsesExplained
PROPERTIES CallsEnd
CHECK_DEADLOCK FALSE
