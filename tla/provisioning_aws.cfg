SPECIFICATION Spec
CONSTANTS
  Environments <- MCEnvironments
  MaxAttempts = 3
INVARIANT KeyIsAttached
CHECK_DEADLOCK FALSE
