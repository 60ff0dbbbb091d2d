SPECIFICATION Spec
CONSTANTS
  Clients = {c1, c2}
  MaxAttempts = 2
  HistoryLimit = 2
  MaxFaults = 2
  Timely = TRUE
  Crowded = TRUE
  AccessMayEnd = FALSE
SYMMETRY AnyClient
CHECK_DEADLOCK FALSE
INVARIANT OpenStreamsAreHeard
PROPERTY FeedIsKept
