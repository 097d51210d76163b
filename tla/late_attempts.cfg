SPECIFICATION LateFairSpec
CONSTANTS
  Steps <- MCSteps
  DisplayNames = {"Acme"}
  AcceptedNames = {"Acme"}
  VerticalNames = {}
  OrgIds = {"org1", "org2"}
  MaxAttempts = 2
  MaxRuns = 2
  MaxBuffered = 1
  MaxLate = 1
INVARIANTS OneOrganisation ReadModelWasTrue ClosedIsProvisioned
PROPERTY LateRunsUntilParked
CHECK_DEADLOCK FALSE
