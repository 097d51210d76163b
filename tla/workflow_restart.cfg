SPECIFICATION FairSpec
CONSTANTS
  Steps <- MCSteps
  DisplayNames = {"Acme"}
  AcceptedNames = {"Acme"}
  VerticalNames = {}
  OrgIds = {"org1"}
  MaxAttempts = 2
  MaxRuns = 2
  MaxBuffered = 1
PROPERTY CompletedForever
CHECK_DEADLOCK FALSE
