SPECIFICATION FairSpec
CONSTANTS
  Steps <- MCSteps
  DisplayNames = {"Acme"}
  AcceptedNames = {"Acme"}
  VerticalNames = {}
  OrgIds = {"org1", "org2"}
  MaxAttempts = 2
  MaxRuns = 2
  MaxBuffered = 1
INVARIANTS ReadModelTracksRun LateActionsSeeCompleted
  CompletedRecordsAreWhole OneOrganisation
PROPERTIES ReadModelForward LockedOutForGood ImplementsJourney
  RunsUntilParked CompletedRunsEnd
CHECK_DEADLOCK FALSE
