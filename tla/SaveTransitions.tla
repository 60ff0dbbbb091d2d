---------------------------- MODULE SaveTransitions ----------------------------
(***************************************************************************)
(* What the persistence layer lets happen to a stored interview: the diffs *)
(* packages/db/src/repositories/transition-validation.ts accepts from one  *)
(* saved aggregate, i, to the next, j, and the closing updates the         *)
(* repository performs itself.  It is written from those files alone, which *)
(* code every transition a second time beside the engine; any other diff a *)
(* caller asks to save is a RepositoryCorruptionError.  The times and the   *)
(* operation of the events, which those files compare as well, are left out. *)
(***************************************************************************)
EXTENDS InterviewTypes

Pends(i, kind) ==
  /\ i.status = "active" /\ i.phase = "processing"
  /\ i.pending.op # NoOp
  /\ i.pending.kind = kind
  /\ i.pending.position = i.position

(* assertAnswerEvent: the kind is read off the question, without counting  *)
(* the answers its follow-ups already have.                                *)
ExpectedMaterialKind(i) ==
  IF i.pending.previous = "awaiting_continue" THEN "supplement"
  ELSE IF CurrentQuestion(i).followUps = {} THEN "main_answer" ELSE "follow_up_answer"

Answered(i, id) ==
  [CurrentQuestion(i) EXCEPT !.material = @ \cup {[id |-> id, kind |-> ExpectedMaterialKind(i)]}]

Released(i, q, phase) ==
  [WithCurrentQuestion(i, q) EXCEPT !.phase = phase, !.pending = NoPending]

-------------------------------------------------------------------------------
(* Saves that carry no event. *)
ReportRetryRefreshed(i, j) ==
  /\ i.status = "report_pending" /\ i.phase = "none"
  /\ i.pending.op = NoOp
  /\ i.reportKind # "none" /\ i.reportRequestedAt # NoTime /\ ~ i.hasReport
  /\ \E at \in Times : at > i.lastActivity /\ j = [i EXCEPT !.lastActivity = at]

OperationAccepted(i, j) ==
  /\ i.status = "active"
  /\ i.pending.op = NoOp
  /\ \E pending \in Pending, bump \in {0, 1} :
       /\ pending.op # NoOp
       /\ pending.previous = i.phase
       /\ pending.position = i.position
       /\ pending.acceptedAt >= i.lastActivity
       /\ pending.kind = "question_clarification" => pending.previous = "awaiting_response"
       /\ j = [i EXCEPT !.version = @ + bump, !.phase = "processing",
                        !.pending = pending, !.lastActivity = pending.acceptedAt]

OperationRefreshed(i, j) ==
  /\ i.status = "active" /\ i.phase = "processing"
  /\ i.pending.op # NoOp
  /\ \E at \in Times :
       /\ at >= i.pending.acceptedAt
       /\ j = [i EXCEPT !.pending.acceptedAt = at, !.lastActivity = at]

OperationCancelled(i, j) ==
  /\ i.pending.op # NoOp
  /\ j = [i EXCEPT !.phase = i.pending.previous, !.pending = NoPending]
-------------------------------------------------------------------------------
(* Saves that carry events. *)
ClarificationCompleted(i, j) ==
  /\ Pends(i, "question_clarification")
  /\ \E id \in Ops :
       j = Released(i, [CurrentQuestion(i) EXCEPT !.clarifications = @ \cup {id}], "awaiting_response")

FollowUpCompleted(i, j) ==
  /\ Pends(i, "answer_analysis")
  /\ \E id \in Ops, kind \in FollowUpKinds :
       j = Released(i, [Answered(i, id) EXCEPT !.followUps = @ \cup {kind},
                                               !.evaluation = {}, !.outcome = "none"],
                    "awaiting_response")

EvaluationCompleted(i, j) ==
  /\ Pends(i, "answer_analysis")
  /\ \E id \in Ops, judged \in SUBSET Ops, outcome \in EvaluatedOutcomes :
       j = Released(i, [Answered(i, id) EXCEPT !.evaluation = judged, !.outcome = outcome],
                    "awaiting_continue")

UnevaluatedOutcomeRecorded(i, j) ==
  /\ i.status = "active" /\ i.phase = "awaiting_response"
  /\ i.pending.op = NoOp
  /\ \E at \in Times, outcome \in {"unknown", "skipped"} :
       j = [WithCurrentQuestion(i, [CurrentQuestion(i) EXCEPT !.evaluation = {}, !.outcome = outcome])
              EXCEPT !.phase = "awaiting_continue", !.version = @ + 1, !.lastActivity = at]

Frozen(i) == WithCurrentQuestion(i, [CurrentQuestion(i) EXCEPT !.frozen = TRUE])

ReportAwaited(i, kind, at) ==
  [i EXCEPT !.status = "report_pending", !.phase = "none", !.pending = NoPending,
            !.reportKind = kind, !.reportRequestedAt = at, !.version = @ + 1, !.lastActivity = at]

QuestionFrozen(i, j) ==
  /\ i.status = "active" /\ i.phase = "awaiting_continue"
  /\ i.pending.op = NoOp
  /\ CurrentQuestion(i).outcome # "none" /\ ~ CurrentQuestion(i).frozen
  /\ \E at \in Times :
       \/ /\ i.position = QuestionCount
          /\ j = ReportAwaited(Frozen(i), "complete", at)
       \/ /\ i.position # QuestionCount
          /\ j = [Frozen(i) EXCEPT !.position = @ + 1, !.phase = "awaiting_response",
                                   !.version = @ + 1, !.lastActivity = at]

EndedEarly(i, j) ==
  /\ i.status = "active"
  /\ i.pending.op = NoOp
  /\ \E k \in Positions : i.questions[k].outcome # "none"
  /\ \E at \in Times : j = ReportAwaited(i, "incomplete", at)

ReportStored(i, j) ==
  /\ i.status = "report_pending"
  /\ i.reportKind # "none"
  /\ i.reportRequestedAt # NoTime
  /\ j = [i EXCEPT
            !.status = IF i.reportKind = "complete" THEN "completed" ELSE "early_ended",
            !.pending = NoPending, !.reportKind = "none", !.hasReport = TRUE, !.version = @ + 1]

Closed(i, bump) ==
  [i EXCEPT !.status = "abandoned", !.phase = "none", !.pending = NoPending,
            !.reportKind = "none", !.reportRequestedAt = NoTime, !.version = @ + bump]

(* Abandonment by save: the version moves only if nothing was pending.     *)
Abandoned(i, j) ==
  /\ i.status = "active"
  /\ j = Closed(i, IF i.pending.op = NoOp THEN 1 ELSE 0)

(* persistInterviewExpiry: an UPDATE of its own, pending operation or not. *)
ExpiredOnAccess(i, j) ==
  /\ i.status = "active"
  /\ \E at \in Times : at - i.lastActivity > InactivityLimit
  /\ j = Closed(i, 1)

(* markInterviewDeleting, markAccountDeleting: from any status, and nothing  *)
(* but a purge follows.                                                     *)
Deleting(i, j) ==
  /\ i.status # "deleting"
  /\ j = [Closed(i, 1) EXCEPT !.status = "deleting"]

SaveAccepts(i, j) ==
  \/ ReportRetryRefreshed(i, j) \/ OperationAccepted(i, j) \/ OperationRefreshed(i, j)
  \/ OperationCancelled(i, j)
  \/ ClarificationCompleted(i, j) \/ FollowUpCompleted(i, j) \/ EvaluationCompleted(i, j)
  \/ UnevaluatedOutcomeRecorded(i, j) \/ QuestionFrozen(i, j) \/ EndedEarly(i, j)
  \/ ReportStored(i, j) \/ Abandoned(i, j) \/ ExpiredOnAccess(i, j) \/ Deleting(i, j)
===============================================================================
