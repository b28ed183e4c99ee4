CONSTANTS
  Releases = 3
  MAX_TRIES = 3
  MAX_BOOTS = 3
  MAX_REDIRECTS = 2
SPECIFICATION Spec
INVARIANTS
  RetryHasRequest
  PendingMeansRecovery
PROPERTIES
  NoDowngrade
  RejectedOnlyResumed
  RecoveryEnds
  UpdateArrives
  TurnAsAssumed
