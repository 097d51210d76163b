SPECIFICATION Spec
CONSTANTS
  Steps <- MCSteps
  DisplayNames = {"Acme"}
  AcceptedNames = {"Acme"}
  VerticalNames = {}
  OrgIds = {"org1"}
  MaxAttempts = 2
  MaxRuns = 1
  MaxBuffered = 1
INVARIANT RetryCanSucceed
CHECK_DEADLOCK FALSE
