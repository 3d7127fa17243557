SPECIFICATION MCSpec
CONSTANTS
  d1 = d1
  d2 = d2
  Providers = {p1, p2}
  Deals = {d1, d2}
  ChunkSize = 1
  SliceSize = 1
  Window = 2
  Measured <- MCMeasured
  MaxDay = 4
  MaxEvents = 2
INVARIANTS
  DayLacksOnlyUnanswered
  ValuesOfEveryTest
  IndexingFromHistory
PROPERTIES
  TodayEventuallyStored
CHECK_DEADLOCK FALSE
