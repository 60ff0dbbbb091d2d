---------------------------- MODULE InterviewEngine ----------------------------
(***************************************************************************)
(* The interview state machine of packages/domain/src/engine.ts as pure    *)
(* operators on an aggregate.  For each operation a predicate Can... says  *)
(* when the engine accepts it (the conjunction of its guards; a thrown     *)
(* InterviewDomainError is the predicate being FALSE) and an operator of   *)
(* the operation's name gives the aggregate it returns.                    *)
(***************************************************************************)
EXTENDS InterviewTypes

PlannedTypes == {"submit_answer", "submit_supplement", "request_question_clarification"}

(* PlannedCommand: what a client sent and the operation row keeps. *)
PlannedCommand ==
  [type : PlannedTypes, op : Ops, expectedVersion : Nat, occurredAt : Times]

(* InterviewOperationPlan: the command, the material it will add, and the   *)
(* aggregate as it stood right after acceptance.                            *)
Plan ==
  [command : PlannedCommand, position : Positions, acceptedAt : Times,
   materialKind : MaterialKinds, interview : Interview]

IsAnswer(c) == c.type # "request_question_clarification"

RequiredPhase(c) ==
  IF c.type = "submit_supplement" THEN "awaiting_continue" ELSE "awaiting_response"

OperationKind(c) ==
  IF IsAnswer(c) THEN "answer_analysis" ELSE "question_clarification"

IsExpired(i, at) == i.status = "active" /\ at - i.lastActivity > InactivityLimit

(* The phase a user is in, seen through an operation being processed.      *)
UserPhase(i) == IF i.phase = "processing" THEN i.pending.previous ELSE i.phase

HasUnansweredFollowUp(q) == Cardinality(q.followUps) > Cardinality(FollowUpAnswers(q))

MaterialKind(q, c) ==
  IF c.type = "submit_supplement" THEN "supplement"
  ELSE IF HasUnansweredFollowUp(q) THEN "follow_up_answer" ELSE "main_answer"

-------------------------------------------------------------------------------
(* Commands.  The gate every command but expiry and completion passes:     *)
(* handleInterviewCommand before its switch, on the branch where the       *)
(* interview is not past its inactivity limit.                              *)
Admits(i, expectedVersion, at) ==
  /\ ~ IsExpired(i, at)
  /\ expectedVersion = i.version
  /\ at >= i.lastActivity
  /\ ~ IsPending(i)

AcceptRetriedOperation(i, c, at) ==
  [i EXCEPT !.phase = "processing",
            !.pending = [op |-> c.op, kind |-> OperationKind(c), position |-> i.position,
                         acceptedAt |-> at, previous |-> RequiredPhase(c)],
            !.lastActivity = at]

AcceptOperation(i, c, at) ==
  [AcceptRetriedOperation(i, c, at) EXCEPT !.version = i.version + 1]

PlanOf(i, c, accepted, at) ==
  [command |-> c, position |-> i.position, acceptedAt |-> at,
   materialKind |-> MaterialKind(CurrentQuestion(i), c), interview |-> accepted]

FitsPhase(i, c) ==
  /\ i.status = "active"
  /\ i.phase = RequiredPhase(c)
  /\ IsAnswer(c) => c.op \notin MaterialIds(CurrentQuestion(i))

CanPlan(i, c) == Admits(i, c.expectedVersion, c.occurredAt) /\ FitsPhase(i, c)

(* Fault: a retry is let in whatever happened since its command.           *)
FaultCanRetry(i, c, at) == at >= i.lastActivity /\ ~ IsPending(i) /\ FitsPhase(i, c)

CanRetry(i, c, at) ==
  /\ i.version = c.expectedVersion + 1
  /\ at >= i.lastActivity
  /\ ~ IsPending(i)
  /\ FitsPhase(i, c)

CanRefresh(i, op, at) ==
  /\ i.status = "active" /\ i.phase = "processing"
  /\ at >= i.lastActivity
  /\ i.pending.op = op

Refresh(i, at) == [i EXCEPT !.pending.acceptedAt = at, !.lastActivity = at]

CanRefreshReportRetry(i, at) ==
  /\ i.status = "report_pending"
  /\ ~ IsPending(i)
  /\ i.reportKind # "none" /\ i.reportRequestedAt # NoTime /\ ~ i.hasReport
  /\ at > i.lastActivity

RefreshReportRetry(i, at) == [i EXCEPT !.lastActivity = at]

CanRecordUnevaluated(i) == i.status = "active" /\ i.phase = "awaiting_response"

RecordUnevaluated(i, outcome, at) ==
  [WithCurrentQuestion(i, [CurrentQuestion(i) EXCEPT !.evaluation = {}, !.outcome = outcome])
     EXCEPT !.phase = "awaiting_continue", !.version = i.version + 1, !.lastActivity = at]

(* Fault: the phase and the outcome are not looked at.                     *)
FaultCanContinue(i) == i.status = "active"

CanContinue(i) ==
  /\ i.status = "active" /\ i.phase = "awaiting_continue"
  /\ CurrentQuestion(i).outcome # "none"

RequestReport(i, kind, at) ==
  [i EXCEPT !.status = "report_pending", !.phase = "none", !.pending = NoPending,
            !.reportKind = kind, !.reportRequestedAt = at,
            !.version = i.version + 1, !.lastActivity = at]

(* Fault: the final question is not told from the others.                  *)
FaultContinuePastEnd(i, at) ==
  [WithCurrentQuestion(i, [CurrentQuestion(i) EXCEPT !.frozen = TRUE])
     EXCEPT !.position = i.position + 1, !.phase = "awaiting_response",
            !.version = i.version + 1, !.lastActivity = at]

(* Fault: the question is frozen but stays the current one.                *)
FaultContinueInPlace(i, at) ==
  [WithCurrentQuestion(i, [CurrentQuestion(i) EXCEPT !.frozen = TRUE])
     EXCEPT !.phase = "awaiting_response", !.version = i.version + 1, !.lastActivity = at]

Continue(i, at) ==
  LET frozen == WithCurrentQuestion(i, [CurrentQuestion(i) EXCEPT !.frozen = TRUE])
  IN  IF i.position = QuestionCount
      THEN RequestReport(frozen, "complete", at)
      ELSE [frozen EXCEPT !.position = i.position + 1, !.phase = "awaiting_response",
                          !.version = i.version + 1, !.lastActivity = at]

CanEndEarly(i) ==
  i.status = "active" /\ \E k \in Positions : i.questions[k].outcome # "none"

EndEarly(i, at) == RequestReport(i, "incomplete", at)

CloseAbandoned(i) ==
  [i EXCEPT !.status = "abandoned", !.phase = "none", !.pending = NoPending,
            !.reportKind = "none", !.reportRequestedAt = NoTime]

Abandon(i) == [CloseAbandoned(i) EXCEPT !.version = i.version + 1]

CanRecordReport(i, kind, at) ==
  /\ i.status = "report_pending"
  /\ i.reportKind = kind
  /\ i.reportRequestedAt # NoTime
  /\ at >= i.reportRequestedAt

RecordReport(i) ==
  [i EXCEPT !.status = IF i.reportKind = "complete" THEN "completed" ELSE "early_ended",
            !.pending = NoPending, !.reportKind = "none", !.hasReport = TRUE,
            !.version = i.version + 1]
-------------------------------------------------------------------------------
(* Completions of an accepted operation, presented with the plan its       *)
(* acceptance returned.  A plan outlives cancellation, retry and takeover   *)
(* of its operation; IsAccepted is what keeps a late one out.               *)
(* Fault: any plan completes whatever is pending.                          *)
FaultIsAccepted(i, p) == i.status = "active" /\ i.phase = "processing"

IsAccepted(i, p) ==
  /\ p.interview.version = i.version
  /\ p.interview.lastActivity = p.acceptedAt
  /\ i.lastActivity = p.acceptedAt
  /\ i.status = "active" /\ i.phase = "processing"
  /\ i.pending = p.interview.pending
  /\ i.pending = [op |-> p.command.op, kind |-> OperationKind(p.command),
                  position |-> p.position, acceptedAt |-> p.acceptedAt,
                  previous |-> RequiredPhase(p.command)]
  /\ p.position = i.position

CanComplete(i, p, at) == IsAccepted(i, p) /\ at >= i.lastActivity

(* Fault: a cancelled supplement returns to the answer phase.              *)
FaultCancelOperation(i) == [i EXCEPT !.phase = "awaiting_response", !.pending = NoPending]

CancelOperation(i) == [i EXCEPT !.phase = i.pending.previous, !.pending = NoPending]

ExpireAcceptedOperation(i) == CloseAbandoned(i)

CompleteClarification(i, p) ==
  [WithCurrentQuestion(i, [CurrentQuestion(i) EXCEPT !.clarifications = @ \cup {p.command.op}])
     EXCEPT !.phase = "awaiting_response", !.pending = NoPending]

WithMaterial(q, p) == [q EXCEPT !.material = @ \cup {[id |-> p.command.op, kind |-> p.materialKind]}]

CanFollowUp(i, kind) == kind \notin CurrentQuestion(i).followUps

(* Fault: a follow-up to a supplement leaves the provisional outcome.      *)
FaultCompleteWithFollowUp(i, p, kind) ==
  [WithCurrentQuestion(i, [WithMaterial(CurrentQuestion(i), p) EXCEPT !.followUps = @ \cup {kind}])
     EXCEPT !.phase = "awaiting_response", !.pending = NoPending]

CompleteWithFollowUp(i, p, kind) ==
  LET q == WithMaterial(CurrentQuestion(i), p)
  IN  [WithCurrentQuestion(i, [q EXCEPT !.followUps = @ \cup {kind},
                                        !.evaluation = {}, !.outcome = "none"])
         EXCEPT !.phase = "awaiting_response", !.pending = NoPending]

CanEvaluate(i, outcome) ==
  outcome = "irrelevant" => "clarification" \in CurrentQuestion(i).followUps

(* Fault: the evaluation is made before the new material is added.         *)
FaultCompleteWithEvaluation(i, p, outcome) ==
  LET q == CurrentQuestion(i)
  IN  [WithCurrentQuestion(i, [WithMaterial(q, p) EXCEPT !.evaluation = MaterialIds(q),
                                                         !.outcome = outcome])
         EXCEPT !.phase = "awaiting_continue", !.pending = NoPending]

CompleteWithEvaluation(i, p, outcome) ==
  LET q == WithMaterial(CurrentQuestion(i), p)
  IN  [WithCurrentQuestion(i, [q EXCEPT !.evaluation = MaterialIds(q), !.outcome = outcome])
         EXCEPT !.phase = "awaiting_continue", !.pending = NoPending]
===============================================================================
