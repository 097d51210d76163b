SPECIFICATION FairSpec
CONSTANTS
  Pods = {p1, p2}
  Builds = {"old", "new", "broken"}
  Catalog <- MCCatalog
  FirstBuild = "old"
  MaxDisruptions = 2
INVARIANTS WorksWithOpen PinnedIsRunnable OneWalkOfOneVersion
PROPERTIES WalkIsFinished CompletedStepsStay ImplementsPinnedJourney
  RolloutCompletes
CHECK_DEADLOCK FALSE
