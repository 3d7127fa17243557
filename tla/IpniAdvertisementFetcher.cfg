SPECIFICATION FairSpec
CONSTANTS
  Providers = {p1, p2}
  AdLimit = 1
  MaxAd = 4
  MaxFailures = 2
INVARIANTS NoUnexplainedHoles
PROPERTIES NothingAddedBelow NewestStored
