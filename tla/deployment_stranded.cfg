SPECIFICATION Spec
CONSTANTS
  Pods = {p1, p2}
  Builds = {"old", "new"}
  Catalog <- MCCatalog
  FirstBuild = "old"
  MaxDisruptions = 1
INVARIANT NotStranded
CHECK_DEADLOCK FALSE
