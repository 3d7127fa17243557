SPECIFICATION Spec
CONSTANTS
  f1 = f1
  f2 = f2
  f3 = f3
  c1 = c1
  c2 = c2
  Calls = {k1, k2}
  Registry <- MCRegistry
  Known = {f1, f2}
  Scheduled = {f1}
  ClientsOf <- MCClientsOf
  DataType <- MCDataType
  ClientChecks = {"INACTIVITY", "NOT_ENOUGH_COPIES"}
  Weights <- MCWeights
  CopiesConfigured = TRUE
  InitialClientReports <- MCInitialClientReports
  MaxEvents = 3
SYMMETRY ClientSymmetry
INVARIANTS
  HandedOutComplete
  VerdictsOfClients
  ShownScoresComplete
  StaleResponsesExplained
CHECK_DEADLOCK FALSE
