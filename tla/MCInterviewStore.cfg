SPECIFICATION StoredSpec
CONSTANTS
  Ops = {o1, o2}
  NoOp = NoOp
  Times = {0, 1, 2}
  QuestionCount = 2
  InactivityLimit = 1
SYMMETRY Symmetry
VIEW LiveView
INVARIANTS
  LoadsWhatWasSaved
  RevealsUpToCurrent
PROPERTIES
  TranscriptOnlyGrows
  RepositoryAcceptsEveryStep
CHECK_DEADLOCK FALSE
