SPECIFICATION CacheSpec
\* The calls are bounded, so the system stops when all have returned.
CHECK_DEADLOCK FALSE
CONSTANTS
  Callers = {c1, c2, c3}
  MaxCalls = 4
INVARIANTS ConcurrentCallsLocked
