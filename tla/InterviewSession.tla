--------------------------- MODULE InterviewSession ---------------------------
(***************************************************************************)
(* One stored interview driven by the engine: any client command, any      *)
(* completion or cancellation of an accepted operation (also a late one,   *)
(* presented with a plan of an earlier acceptance), retries and expiry.    *)
(* Times are inputs: a command may carry any instant, so clocks that       *)
(* disagree are included.                                                   *)
(***************************************************************************)
EXTENDS InterviewEngine

VARIABLES
  interview,   \* the aggregate
  plans,       \* every plan an acceptance or a retry has returned
  failed       \* operations whose row is failed and retryable

vars == <<interview, plans, failed>>

Init ==
  /\ interview = FreshInterview
  /\ plans = {}
  /\ failed = {}

(* An immediately handled command replaces the aggregate and nothing else. *)
Immediately(next) == interview' = next /\ UNCHANGED <<plans, failed>>

AcceptPlan(accepted, c, at) ==
  /\ interview' = accepted
  /\ plans' = plans \cup {PlanOf(interview, c, accepted, at)}

(* submit_answer, submit_supplement, request_question_clarification: the   *)
(* operation id is new, since the operations table keeps one row per id.   *)
SubmitPlanned(op, type, at) ==
  LET c == [type |-> type, op |-> op, expectedVersion |-> interview.version, occurredAt |-> at]
  IN  /\ \A p \in plans : p.command.op # op
      /\ CanPlan(interview, c)
      /\ AcceptPlan(AcceptOperation(interview, c, at), c, at)
      /\ UNCHANGED failed

RecordOutcome(outcome, at) ==
  /\ Admits(interview, interview.version, at)
  /\ CanRecordUnevaluated(interview)
  /\ Immediately(RecordUnevaluated(interview, outcome, at))

ContinueInterview(at) ==
  /\ Admits(interview, interview.version, at)
  /\ CanContinue(interview)
  /\ Immediately(Continue(interview, at))

EndInterviewEarly(at) ==
  /\ Admits(interview, interview.version, at)
  /\ CanEndEarly(interview)
  /\ Immediately(EndEarly(interview, at))

AbandonInterview(at) ==
  /\ Admits(interview, interview.version, at)
  /\ interview.status = "active"
  /\ Immediately(Abandon(interview))

(* A command past the limit expires the interview instead.  While an       *)
(* operation is pending the repository refuses that save                   *)
(* (validateAbandonment), so nothing is stored.                             *)
ExpireOnCommand(at) ==
  /\ IsExpired(interview, at)
  /\ ~ IsPending(interview)
  /\ Immediately(Abandon(interview))

(* The repository's own expiry, which does not go through save: it closes  *)
(* the interview whatever is pending, whose row fails for good.            *)
ExpireStored(at) ==
  /\ IsExpired(interview, at)
  /\ Immediately(Abandon(interview))

StoreReport(at) ==
  /\ Admits(interview, interview.version, at)
  /\ CanRecordReport(interview, interview.reportKind, at)
  /\ Immediately(RecordReport(interview))

RetryReport(at) ==
  /\ CanRefreshReportRetry(interview, at)
  /\ Immediately(RefreshReportRetry(interview, at))

(* retry_operation on a failed target. *)
RetryFailed(p, at) ==
  LET c == p.command
  IN  /\ c.op \in failed
      /\ CanRetry(interview, c, at)
      /\ AcceptPlan(AcceptRetriedOperation(interview, c, at), c, at)
      /\ failed' = failed \ {c.op}

(* retry_operation on a target still processing under a lapsed lease: the  *)
(* plan is rebuilt from the refreshed aggregate (reconstructPlan).          *)
TakeOver(p, at) ==
  LET c == p.command
  IN  /\ CanRefresh(interview, c.op, at)
      /\ AcceptPlan(Refresh(interview, at), c, at)
      /\ UNCHANGED failed

Clarified(p, at) ==
  /\ CanComplete(interview, p, at) /\ ~ IsExpired(interview, at)
  /\ ~ IsAnswer(p.command)
  /\ Immediately(CompleteClarification(interview, p))

FollowedUp(p, kind, at) ==
  /\ CanComplete(interview, p, at) /\ ~ IsExpired(interview, at)
  /\ IsAnswer(p.command)
  /\ CanFollowUp(interview, kind)
  /\ Immediately(CompleteWithFollowUp(interview, p, kind))

Evaluated(p, outcome, at) ==
  /\ CanComplete(interview, p, at) /\ ~ IsExpired(interview, at)
  /\ IsAnswer(p.command)
  /\ CanEvaluate(interview, outcome)
  /\ Immediately(CompleteWithEvaluation(interview, p, outcome))

(* The engine's answer to a completion past the limit.  The server settles  *)
(* the row as succeeded in the same transaction, which save then refuses    *)
(* (validatePendingOperationReference wants it failed): see Completes in    *)
(* OperationRunner.                                                         *)
CompletedTooLate(p, at) ==
  /\ CanComplete(interview, p, at) /\ IsExpired(interview, at)
  /\ Immediately(ExpireAcceptedOperation(interview))

Cancelled(p) ==
  /\ IsAccepted(interview, p)
  /\ interview' = CancelOperation(interview)
  /\ failed' = failed \cup {p.command.op}
  /\ UNCHANGED plans

ClientStep(at) ==
  \/ \E op \in Ops, type \in PlannedTypes : SubmitPlanned(op, type, at)
  \/ \E outcome \in {"unknown", "skipped"} : RecordOutcome(outcome, at)
  \/ ContinueInterview(at)
  \/ EndInterviewEarly(at)
  \/ AbandonInterview(at)
  \/ \E p \in plans : RetryFailed(p, at) \/ TakeOver(p, at)
  \/ RetryReport(at)

ServerStep(at) ==
  \/ \E p \in plans :
       \/ Clarified(p, at)
       \/ \E kind \in FollowUpKinds : FollowedUp(p, kind, at)
       \/ \E outcome \in EvaluatedOutcomes : Evaluated(p, outcome, at)
       \/ CompletedTooLate(p, at)
       \/ Cancelled(p)
  \/ StoreReport(at)
  \/ ExpireOnCommand(at)
  \/ ExpireStored(at)

Next == \E at \in Times : ClientStep(at) \/ ServerStep(at)

Spec == Init /\ [][Next]_vars
-------------------------------------------------------------------------------
(* Every variable stays within the shape engine.ts declares for it.        *)
TypeOK ==
  /\ interview \in Interview
  /\ plans \subseteq Plan
  /\ failed \subseteq Ops

(* An active interview awaits a response exactly while its current question *)
(* has no outcome and awaits continuation exactly while it has one, also    *)
(* across accepted, cancelled, retried and taken-over operations; and it is *)
(* processing exactly while it holds a pending operation.                   *)
OutcomeMatchesPhase ==
  /\ interview.status = "active" <=> interview.phase # "none"
  /\ interview.phase = "processing" <=> IsPending(interview)
  /\ interview.status = "active" =>
       (UserPhase(interview) = "awaiting_response" <=>
          CurrentQuestion(interview).outcome = "none")

(* A stored evaluation judged all the answer material its question has, so *)
(* an answer or supplement that came after it is never left unjudged under *)
(* the old score; and an evaluated outcome never stands without one.        *)
EvaluationCoversMaterial ==
  \A k \in Positions :
    LET q == interview.questions[k]
    IN  /\ q.outcome \in EvaluatedOutcomes <=> q.evaluation # {}
        /\ q.evaluation # {} => q.evaluation = MaterialIds(q)

(* Questions settle in order: those behind the current one are frozen with *)
(* an outcome, those ahead untouched; a complete report has every question  *)
(* frozen, an incomplete one at least one outcome to stand on.              *)
QuestionsSettleInOrder ==
  /\ \A k \in Positions :
       /\ k < interview.position => interview.questions[k].frozen
       /\ k > interview.position => interview.questions[k] = FreshQuestion
       /\ interview.questions[k].frozen => interview.questions[k].outcome # "none"
  /\ interview.reportKind = "complete" \/ interview.status = "completed" =>
       \A k \in Positions : interview.questions[k].frozen
  /\ interview.reportKind = "incomplete" \/ interview.status = "early_ended" =>
       \E k \in Positions : interview.questions[k].outcome # "none"

(* Whenever an operation is being processed, the questions are those its   *)
(* first acceptance saw: a retry or a takeover is let in only if no other   *)
(* command has touched the interview since (the expectedVersion + 1 test).  *)
RetrySeesWhatWasSubmitted ==
  \A p \in plans :
    interview.pending.op = p.command.op => interview.questions = p.interview.questions

(* Answer material is only ever added by an accepted plan, on the question  *)
(* that plan was accepted for and with the kind fixed at acceptance: a late *)
(* completion cannot put an answer on a later question.                     *)
MaterialOnPlannedQuestion ==
  \A k \in Positions : \A m \in interview.questions[k].material :
    \E p \in plans : p.command.op = m.id /\ p.position = k /\ p.materialKind = m.kind

(* Once a question is frozen, or the interview is no longer active, its    *)
(* material, evaluation and outcome never change: the report reads them     *)
(* outside any transaction.                                                 *)
SettledQuestionsStay ==
  [][\A k \in Positions :
       interview.questions[k].frozen \/ interview.status # "active" =>
         interview'.questions[k] = interview.questions[k]]_vars

Canonical == INSTANCE CanonicalInterview

(* Every step of the engine changes the aggregate as the repository's own   *)
(* copy of the rules accepts it; what that copy also asks of the events'    *)
(* times and operations is not part of it.                                  *)
RepositoryAcceptsEveryStep == Canonical!Spec
===============================================================================
