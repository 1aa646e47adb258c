\* Queries: listings page by page, and the pure computations.
SPECIFICATION Spec
CONSTANTS
  IDs = {1, 2, 3, 4}
  PageSizes = {0, 1, 2}
  MaxInt64 = 15
  DefaultBytes = 2
  Handles = {"h1", "h2"}
  Sources = {"v1"}
  CacheSize = 2
  MaxLength = 3
INVARIANTS
  TypeOK
  ListedOnce
  UsageExact
  CapacityExact
  ExpansionAgrees
  ConfirmedIsSupported
  SnapshotsListed
  OptionsMerged
PROPERTY
  ListingEnds
