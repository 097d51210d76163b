SPECIFICATION ClientFairSpec
CONSTANTS
  DisplayNames = {"Acme", "x"}
  AcceptedNames = {"Acme"}
  OrgIds = {"org1", "org2", "org3"}
  MaxAttempts = 3
  Callers = {"self", "other"}
  Lifetime = 4
  Buffer = 2
  AttemptLimit = 1
INVARIANTS OneMembership NotedOrgIsWhole AnswerIsNoted
  NoNeedlessFetch CallsAreAuthorised
PROPERTIES ImplementsActivity MutexIsFreed ActivityEnds
CHECK_DEADLOCK FALSE
