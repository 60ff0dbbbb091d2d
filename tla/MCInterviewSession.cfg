SPECIFICATION Spec
CONSTANTS
  Ops = {o1, o2, o3}
  NoOp = NoOp
  Times = {0, 2}
  QuestionCount = 2
  InactivityLimit = 1
SYMMETRY Symmetry
INVARIANTS
  TypeOK
  OutcomeMatchesPhase
  EvaluationCoversMaterial
  QuestionsSettleInOrder
  RetrySeesWhatWasSubmitted
  MaterialOnPlannedQuestion
PROPERTY SettledQuestionsStay
CHECK_DEADLOCK FALSE
