SPECIFICATION TablesSpec
CONSTANTS
  Providers = {p1}
  Deals = {d1, d2}
  Sizes = {2}
  Values = {1, 2}
  Settings = {"availableBytes"}
  MaxBlock = 3
  MaxCalls = 5
  MaxEpoch = 3
  Rails = {r1, r2}
  OldRails = {r2}
  Amounts = {0, 2}
  Fees = {1}
  MaxLogs = 5
INVARIANTS NoPoisonBatch DealTablesMirrorChain PayTablesMirrorChain
CHECK_DEADLOCK FALSE
SYMMETRY DealSymmetry
