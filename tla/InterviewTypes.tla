---------------------------- MODULE InterviewTypes ----------------------------
(***************************************************************************)
(* The shape of one stored interview aggregate: the records of             *)
(* packages/domain/src/engine.ts and interview.ts, with the data the       *)
(* lifecycle never branches on left out (texts, rubric, blueprint, ids of  *)
(* messages).  An answer material id is derived from the id of the         *)
(* operation that submitted it (apps/server/src/operation-identity.ts), so *)
(* material is named by its operation.                                     *)
(***************************************************************************)
EXTENDS Integers, FiniteSets

CONSTANTS
  Ops,              \* operation ids
  NoOp,             \* "null" where an operation id is optional
  Times,            \* the instants (abstract ticks) a command may carry
  QuestionCount,    \* number of questions of the blueprint
  InactivityLimit   \* INACTIVITY_LIMIT_MS, in ticks

ASSUME InterviewAssumption ==
  /\ NoOp \notin Ops
  /\ IsFiniteSet(Ops)
  /\ Times \subseteq Nat
  /\ 0 \in Times
  /\ QuestionCount \in Nat \ {0}
  /\ InactivityLimit \in Nat \ {0}

NoTime == -1
Positions == 1..QuestionCount

Statuses == {"active", "report_pending", "completed", "early_ended", "abandoned", "deleting"}
WaitingPhases == {"awaiting_response", "awaiting_continue"}
Phases == WaitingPhases \cup {"processing", "none"}
OperationKinds == {"answer_analysis", "question_clarification"}
MaterialKinds == {"main_answer", "follow_up_answer", "supplement"}
FollowUpKinds == {"clarification", "depth"}
EvaluatedOutcomes == {"scored", "irrelevant"}
Outcomes == EvaluatedOutcomes \cup {"unknown", "skipped", "none"}
ReportKinds == {"complete", "incomplete"}

Material == [id : Ops, kind : MaterialKinds]

(* `evaluation` is the set of material ids the evaluation judged; {} is null. *)
Question ==
  [material       : SUBSET Material,
   followUps      : SUBSET FollowUpKinds,
   clarifications : SUBSET Ops,
   evaluation     : SUBSET Ops,
   outcome        : Outcomes,
   frozen         : BOOLEAN]

Pending ==
  [op         : Ops \cup {NoOp},
   kind       : OperationKinds,
   position   : Positions,
   acceptedAt : Times,
   previous   : WaitingPhases]

Interview ==
  [version           : Nat,
   status            : Statuses,
   phase             : Phases,
   position          : Positions,
   questions         : [Positions -> Question],
   pending           : Pending,
   reportKind        : ReportKinds \cup {"none"},
   reportRequestedAt : Times \cup {NoTime},
   hasReport         : BOOLEAN,
   lastActivity      : Times]

FreshQuestion ==
  [material |-> {}, followUps |-> {}, clarifications |-> {},
   evaluation |-> {}, outcome |-> "none", frozen |-> FALSE]

NoPending ==
  [op |-> NoOp, kind |-> "answer_analysis", position |-> 1,
   acceptedAt |-> 0, previous |-> "awaiting_response"]

(* createInterview: the aggregate every interview starts from. *)
FreshInterview ==
  [version |-> 1, status |-> "active", phase |-> "awaiting_response", position |-> 1,
   questions |-> [k \in Positions |-> FreshQuestion], pending |-> NoPending,
   reportKind |-> "none", reportRequestedAt |-> NoTime, hasReport |-> FALSE,
   lastActivity |-> 0]

CurrentQuestion(i) == i.questions[i.position]

MaterialIds(q) == {m.id : m \in q.material}

FollowUpAnswers(q) == {m \in q.material : m.kind = "follow_up_answer"}

IsPending(i) == i.pending.op # NoOp

WithCurrentQuestion(i, q) == [i EXCEPT !.questions[i.position] = q]
===============================================================================
