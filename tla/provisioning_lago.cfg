SPECIFICATION Spec
CONSTANTS
  Environments <- MCEnvironments
  MaxAttempts = 3
INVARIANT ProvisionedOnce
CHECK_DEADLOCK FALSE
