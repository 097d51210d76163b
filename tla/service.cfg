SPECIFICATION ServiceSpec
CONSTANTS
  Steps <- MCSteps
  DisplayNames = {"Acme"}
  AcceptedNames = {"Acme"}
  VerticalNames = {"agency", "retired"}
  OrgIds = {"org1"}
  MaxAttempts = 2
  MaxRuns = 5
  MaxBuffered = 5
  Clients = {"tab1", "tab2"}
  Verticals = {"agency"}
  Inputs <- MCInputs
  InternalSteps = {"EMAIL_VERIFIED"}
  MaxRequests = 5
INVARIANTS AdvanceNeverEarly AwaitedStepIsAdmitted
  OrganisationIsNamed SelectedIsFromCache
PROPERTY ImplementsWorkflow
CHECK_DEADLOCK FALSE
