SPECIFICATION FairSpec
CONSTANTS
  Ops <- MCOps
  NoOp <- MCNoOp
  Times = {0}
  QuestionCount = 2
  InactivityLimit = 1
  Items = {"a", "b"}
  Weight <- MCWeight
  FullScore = 3
  Domains = {"d1", "d2"}
  DomainOf <- MCDomainOf
  MaxEvaluatedItems = 2
  EvaluationRoom = 30
  MaxPoints = 1
  MaxPointLength = 1
  MaxPointsLength = 3
  SupportedCounts = {2}
  ShortCount = 2
  MaxReportItems = 4
  MaxEvidenceLength = 32
  MaxAuthoredLength = 18
  WordingLength = 1
  MaxMaterial = 2
  AnswerLengths = {1, 20}
  EvaluationOutputs <- MCEvaluationOutputs
  AnalysisOutputs <- MCAnalysisOutputs
  MaxPhrasedItems = 2
  MaxPhrasedLength = 12
  MaxTransientRetries = 1
PROPERTY RequestedReportArrives
CHECK_DEADLOCK FALSE
