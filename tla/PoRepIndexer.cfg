SPECIFICATION FairSpec
CONSTANTS
  Calls = {c1, c2}
  Origin = 2
  BatchBlockSize = 2
  ArchiveNodeThreshold = 2
  RecentNodeWindow = 3
  MaxLag = 1
  LenientNode = FALSE
  MaxBlock = 6
  MaxVersion = 2
  MaxFailures = 2
INVARIANTS IInv ExactlyOnce
PROPERTIES CleanupOnlyByNewVersion EventuallyIndexed ImplementsLedger
