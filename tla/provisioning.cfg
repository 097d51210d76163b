SPECIFICATION Spec
CONSTANTS
  Environments <- MCEnvironments
  MaxAttempts = 3
INVARIANTS RecordedIsProvisioned SubscriptionsHavePlans
  RepeatsAreBounded
PROPERTIES RecordedIsLeftAlone ImplementsActivities
CHECK_DEADLOCK FALSE
