SPECIFICATION FairSpec
CONSTANTS
  alice = alice
  mallory = mallory
  talk = talk
  Accounts <- MCAccounts
  Interviews <- MCInterviews
  Owner <- MCOwner
  Poison <- MCPoison
  Workers = {w1, w2}
  Nobody = Nobody
  DueAge = 1
  DeadlineAge = 4
  RetryMargin = 1
  SafetyWindow = 1
  FenceLease = 1
  LeaseDuration = 2
  RetryDelay = 2
  AttemptLimit = 1
  MaxCrashes = 1
INVARIANTS
  TypeOK
  MarkedIsDark
PROPERTIES
  LiveLeaseIsHeld
  HealthyIsErased
  KeepsThePromise
