SPECIFICATION FairSpec
CONSTANTS
  Clients = {c1}
  MaxAttempts = 2
  HistoryLimit = 2
  MaxFaults = 2
  Timely = FALSE
  Crowded = TRUE
  AccessMayEnd = TRUE
CHECK_DEADLOCK FALSE
INVARIANT OneAttemptPerHistory
PROPERTIES
  ViewsSettle
  NothingSentAfterErasure
  NothingNewWithoutAccess
