SPECIFICATION Spec
CONSTANTS
  Ops = {o1, o2, o3}
  NoOp = NoOp
  ReportOp = report
  CreateOp = create
  Times = {0, 1, 2, 3}
  QuestionCount = 1
  InactivityLimit = 2
  LeaseDuration = 1
  MaxSkew = 1
SYMMETRY Symmetry
VIEW LiveView
INVARIANTS
  PendingHasItsRow
  ReportStaysReachable
  EffectIffSucceeded
  ClosedInterviewsAreQuiet
  LeasesAreExclusive
PROPERTIES
  SettledRowsStay
  RepositoryAcceptsEveryStep
CHECK_DEADLOCK FALSE
