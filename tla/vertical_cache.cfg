SPECIFICATION FairSpec
CONSTANTS
  Names = {"agency"}
  MaxReleases = 3
INVARIANT LatestIsServed
PROPERTY CatchesUp
CHECK_DEADLOCK FALSE
