SPECIFICATION Spec
CONSTANTS
  Ops = {o1, o2, o3}
  NoOp = NoOp
  ReportOp = report
  CreateOp = create
  Times = {0}
  QuestionCount = 1
  InactivityLimit = 1
  LeaseDuration = 1
  MaxSkew = 0
SYMMETRY Symmetry
INVARIANT OneAdvancePerVersion
CHECK_DEADLOCK FALSE
