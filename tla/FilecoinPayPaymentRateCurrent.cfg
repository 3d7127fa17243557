SPECIFICATION PaySpec
CONSTANTS
  Rails = {r1, r2}
  OldRails = {r2}
  Amounts = {0, 2}
  Fees = {1}
  MaxEpoch = 3
  MaxLogs = 5
INVARIANT PaymentRateCurrent
CHECK_DEADLOCK FALSE
