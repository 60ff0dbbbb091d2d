---------------------------- MODULE OperationRunner ----------------------------
(***************************************************************************)
(* The server around one interview: apps/server/src's operation acceptance, *)
(* retry acceptance, execution and finalization, each database transaction  *)
(* an action of its own.  A transaction is one step because it locks the    *)
(* user and interview rows (createOrLoad, retryFailedAndClaim), or writes   *)
(* the operation row under its lease and the interview under its version    *)
(* and pending operation.  What lives outside the database, the running     *)
(* executions and the retries being rejected, is lost in a crash.           *)
(*                                                                         *)
(* `now` is the database clock (statement_timestamp); a command is stamped  *)
(* by an application clock up to MaxSkew away.  Each access of the          *)
(* repository expires an interview past its limit, rolls its own work back  *)
(* and persists the expiry: the access is then the step ExpireInterview.    *)
(***************************************************************************)
EXTENDS OperationRepository

CONSTANT MaxSkew

ASSUME SkewAssumption == MaxSkew \in Nat

VARIABLES
  now,          \* database time
  interview,    \* the interview's rows
  rows,         \* the operations table
  executions,   \* accepted work held in server memory
  rejected      \* retry commands whose acceptance threw, not yet failed

vars == <<now, interview, rows, executions, rejected>>

Execution ==
  [op : RowIds, attempt : Nat, retry : Ops \cup {NoOp}, retryAttempt : Nat]

Init ==
  /\ now = 0
  /\ interview = FreshInterview
  /\ rows = [id \in RowIds |->
               IF id = CreateOp THEN Created("create_interview", 0, 0, NoOp) ELSE NoRow]
  /\ executions = {}
  /\ rejected = {}

AppTime == {t \in Times : t - now <= MaxSkew /\ now - t <= MaxSkew}

NotBefore(t, minimum) == IF t < minimum THEN minimum ELSE t

Expired == IsExpired(interview, now)

(* assertInterviewMutable. *)
Mutable == interview.status \in {"active", "report_pending"} /\ ~ Expired

Expiry == now + LeaseDuration

Fresh(id, retry) ==
  [op |-> id, attempt |-> rows'[id].attempts, retry |-> retry,
   retryAttempt |-> IF retry = NoOp THEN 0 ELSE rows'[retry].attempts]

-------------------------------------------------------------------------------
(* The second transaction of an interview's creation; until it has run     *)
(* every progress command is turned away.                                   *)
FinalizeCreation ==
  /\ rows[CreateOp].status = "pending"
  /\ Mutable
  /\ rows' = [rows EXCEPT ![CreateOp] = Succeeded(Claimed(@, now, Expiry))]
  /\ UNCHANGED <<now, interview, executions, rejected>>

-------------------------------------------------------------------------------
(* acceptProgress: one transaction creates and claims the row, runs the    *)
(* engine and settles the row or leaves it processing with its execution.   *)
Command(type, op, version, at) ==
  [type |-> type, op |-> op, expectedVersion |-> version, occurredAt |-> at]

CommandOf(id) ==
  Command(rows[id].type, id, rows[id].expectedVersion, rows[id].createdAt)

CanHandle(c) ==
  CASE c.type \in PlannedTypes -> CanPlan(interview, c)
    [] c.type \in {"mark_question_unknown", "skip_question"} -> CanRecordUnevaluated(interview)
    [] c.type = "continue_interview" -> CanContinue(interview)
    [] c.type = "end_interview_early" -> CanEndEarly(interview)
    [] c.type = "abandon_interview" -> interview.status = "active"

Handled(c) ==
  CASE c.type = "mark_question_unknown" -> RecordUnevaluated(interview, "unknown", c.occurredAt)
    [] c.type = "skip_question" -> RecordUnevaluated(interview, "skipped", c.occurredAt)
    [] c.type = "continue_interview" -> Continue(interview, c.occurredAt)
    [] c.type = "end_interview_early" -> EndEarly(interview, c.occurredAt)
    [] c.type = "abandon_interview" -> Abandon(interview)

Admitted(c) ==
  /\ rows[CreateOp].status # "pending"
  /\ Admits(interview, c.expectedVersion, c.occurredAt)
  /\ CanHandle(c)

NewRow(c) == Claimed(Created(c.type, c.expectedVersion, c.occurredAt, NoOp), now, Expiry)

Submittable(c) == rows[c.op].status = "none" /\ Mutable

AcceptPlanned(c) ==
  /\ Submittable(c) /\ Admitted(c)
  /\ c.type \in PlannedTypes
  /\ interview' = AcceptOperation(interview, c, c.occurredAt)
  /\ rows' = [rows EXCEPT ![c.op] = NewRow(c)]
  /\ executions' = executions \cup {Fresh(c.op, NoOp)}
  /\ UNCHANGED <<now, rejected>>

HandleImmediate(c) ==
  /\ Submittable(c) /\ Admitted(c)
  /\ c.type \in ImmediateTypes
  /\ interview' = Handled(c)
  /\ interview'.status # "report_pending"
  /\ rows' = [rows EXCEPT ![c.op] = Succeeded(NewRow(c))]
  /\ UNCHANGED <<now, executions, rejected>>

HandleReportRequest(c) ==
  /\ Submittable(c) /\ Admitted(c)
  /\ c.type \in ImmediateTypes
  /\ interview' = Handled(c)
  /\ interview'.status = "report_pending"
  /\ rows' = [rows EXCEPT
                ![c.op] = Succeeded(NewRow(c)),
                ![ReportOp] = Claimed(Created("generate_report", interview'.version,
                                              c.occurredAt, NoOp), now, Expiry)]
  /\ executions' = executions \cup {Fresh(ReportOp, NoOp)}
  /\ UNCHANGED <<now, rejected>>

(* An application clock past the limit before the database's: the command  *)
(* succeeds by expiring the interview.  With an operation pending the save  *)
(* is refused (its row has not failed) and everything rolls back.           *)
HandleExpired(c) ==
  /\ Submittable(c)
  /\ rows[CreateOp].status # "pending"
  /\ IsExpired(interview, c.occurredAt)
  /\ ~ IsPending(interview)
  /\ interview' = Abandon(interview)
  /\ rows' = [rows EXCEPT ![c.op] = Succeeded(NewRow(c))]
  /\ UNCHANGED <<now, executions, rejected>>

(* A domain error or an unfinished creation: the row records the rejection. *)
RejectCommand(c) ==
  /\ Submittable(c) /\ ~ Admitted(c)
  /\ rows[CreateOp].status = "pending" \/ ~ IsExpired(interview, c.occurredAt)
  /\ rows' = [rows EXCEPT ![c.op] = Failed(NewRow(c), FALSE)]
  /\ UNCHANGED <<now, interview, executions, rejected>>

-------------------------------------------------------------------------------
(* Retry acceptance: a first transaction stores the retry_operation row...  *)
RequestRetry(op, target, version, at) ==
  /\ rows[op].status = "none" /\ Mutable
  /\ rows[target].status # "none"
  /\ rows' = [rows EXCEPT ![op] = Created("retry_operation", version, at, target)]
  /\ UNCHANGED <<now, interview, executions, rejected>>

ReportMatches ==
  /\ interview.status = "report_pending" /\ interview.reportKind # "none"
  /\ rows[ReportOp].expectedVersion = interview.version
  /\ rows[ReportOp].createdAt = interview.reportRequestedAt

(* ... a second claims it, again whenever the client repeats the command,  *)
(* and with it the target, under one lease expiry.                          *)
Takes(r) ==
  /\ rows[r].type = "retry_operation"
  /\ rows[r].status = "pending" \/ CanReclaim(rows[r], now)
  /\ ~ Expired

RetryAdmitted(r) ==
  LET id == rows[r].target
      target == rows[id]
  IN  /\ Mutable
      /\ target.type \in RetriedTypes
      /\ interview.version = rows[r].expectedVersion
      /\ CanRetryFailed(target) \/ CanReclaim(target, now)
      /\ IF target.type = "generate_report"
         THEN ReportMatches /\ CanRefreshReportRetry(interview, now)
         ELSE IF target.status = "failed"
              THEN CanRetry(interview, CommandOf(id), now)
              ELSE CanRefresh(interview, id, now)

Readmitted(id) ==
  IF id = ReportOp THEN RefreshReportRetry(interview, now)
  ELSE IF rows[id].status = "failed" THEN AcceptRetriedOperation(interview, CommandOf(id), now)
       ELSE Refresh(interview, now)

AcceptRetry(r) ==
  LET id == rows[r].target
  IN  /\ Takes(r) /\ RetryAdmitted(r)
      /\ interview' = Readmitted(id)
      /\ rows' = [rows EXCEPT ![r] = Claimed(@, now, Expiry), ![id] = Claimed(@, now, Expiry)]
      /\ executions' = executions \cup {Fresh(id, r)}
      /\ UNCHANGED <<now, rejected>>

RejectRetry(r) ==
  /\ Takes(r) /\ ~ RetryAdmitted(r)
  /\ r \notin rejected
  /\ rejected' = rejected \cup {r}
  /\ UNCHANGED <<now, interview, rows, executions>>

(* failRetryCommand, a third transaction.  On a closed interview only a    *)
(* pending row can be failed: reclaiming a processing one throws.           *)
FailRetry(r) ==
  /\ r \in rejected /\ ~ Expired
  /\ rejected' = rejected \ {r}
  /\ rows' = [rows EXCEPT ![r] =
                IF @.status = "pending"
                THEN IF Mutable THEN Failed(Claimed(@, now, Expiry), FALSE) ELSE FailedUnclaimed(@, now)
                ELSE IF Mutable /\ CanReclaim(@, now)
                     THEN Failed(Claimed(@, now, Expiry), FALSE) ELSE @]
  /\ UNCHANGED <<now, interview, executions>>

-------------------------------------------------------------------------------
(* Finalization: one transaction settles the operation's row, the row of    *)
(* the retry command that started it and the interview.                     *)
HoldsLeases(e) ==
  /\ HoldsLease(rows[e.op], e.attempt, now)
  /\ e.retry # NoOp => HoldsLease(rows[e.retry], e.retryAttempt, now)

SettledRows(e, target, retry) ==
  [id \in RowIds |-> IF id = e.op THEN target ELSE IF id = e.retry THEN retry ELSE rows[id]]

(* Fault: a completion whose lease is gone goes on to save the interview.  *)
FaultSettle(e, target, retry) ==
  /\ rows' = IF HoldsLeases(e) THEN SettledRows(e, target, retry) ELSE rows
  /\ executions' = executions \ {e}
  /\ UNCHANGED <<now, rejected>>

Settle(e, target, retry) ==
  /\ HoldsLeases(e)
  /\ rows' = SettledRows(e, target, retry)
  /\ executions' = executions \ {e}
  /\ UNCHANGED <<now, rejected>>

RetryRow(e) == IF e.retry = NoOp THEN NoRow ELSE rows[e.retry]

SettleSucceeded(e) == Settle(e, Succeeded(rows[e.op]), Succeeded(RetryRow(e)))
SettleFailed(e, retryable) == Settle(e, Failed(rows[e.op], retryable), Failed(RetryRow(e), FALSE))

(* reconstructPlan: the plan is rebuilt from the interview as it is now.    *)
ReconstructedPlan(id) ==
  [PlanOf(interview, CommandOf(id), interview, interview.pending.acceptedAt)
     EXCEPT !.position = interview.pending.position]

Reconstructs(e) ==
  /\ e.op # ReportOp /\ ~ Expired
  /\ interview.pending.op = e.op
  /\ interview.pending.kind = OperationKind(CommandOf(e.op))

(* Past the limit by an application clock the completion is an expiry,      *)
(* which save refuses because the row has just succeeded: no step.          *)
Completes(e, p) ==
  \E t \in AppTime :
    LET at == NotBefore(t, p.acceptedAt)
    IN  CanComplete(interview, p, at) /\ ~ IsExpired(interview, at)

FinalizeClarification(e) ==
  LET p == ReconstructedPlan(e.op)
  IN  /\ Reconstructs(e) /\ Completes(e, p) /\ ~ IsAnswer(p.command)
      /\ interview' = CompleteClarification(interview, p)
      /\ SettleSucceeded(e)

FinalizeFollowUp(e, kind) ==
  LET p == ReconstructedPlan(e.op)
  IN  /\ Reconstructs(e) /\ Completes(e, p) /\ IsAnswer(p.command)
      /\ CanFollowUp(interview, kind)
      /\ interview' = CompleteWithFollowUp(interview, p, kind)
      /\ SettleSucceeded(e)

FinalizeEvaluation(e, outcome) ==
  LET p == ReconstructedPlan(e.op)
  IN  /\ Reconstructs(e) /\ Completes(e, p) /\ IsAnswer(p.command)
      /\ CanEvaluate(interview, outcome)
      /\ interview' = CompleteWithEvaluation(interview, p, outcome)
      /\ SettleSucceeded(e)

(* Fault: the row fails but the interview is not released.                 *)
FaultFailModel(e, retryable) ==
  Reconstructs(e) /\ UNCHANGED interview /\ SettleFailed(e, retryable)

FailModel(e, retryable) ==
  /\ Reconstructs(e)
  /\ IsAccepted(interview, ReconstructedPlan(e.op))
  /\ interview' = CancelOperation(interview)
  /\ SettleFailed(e, retryable)

CompleteReport(e) ==
  /\ e.op = ReportOp /\ ReportMatches
  /\ \E t \in AppTime :
       LET at == NotBefore(NotBefore(t, interview.reportRequestedAt), interview.lastActivity)
       IN  /\ Admits(interview, interview.version, at)
           /\ CanRecordReport(interview, interview.reportKind, at)
  /\ interview' = RecordReport(interview)
  /\ SettleSucceeded(e)

(* Fault: a failed report is final.                                        *)
FaultFailReport(e) ==
  e.op = ReportOp /\ UNCHANGED interview /\ SettleFailed(e, FALSE)

FailReport(e) ==
  /\ e.op = ReportOp
  /\ UNCHANGED interview
  /\ SettleFailed(e, TRUE)

(* An error nobody classifies, a finalization that was refused, or work the *)
(* supervisor does not start (it is shutting down, or work answering the    *)
(* same command is still active): the row stays processing until its lease  *)
(* lapses.                                                                  *)
AbandonExecution(e) ==
  /\ executions' = executions \ {e}
  /\ UNCHANGED <<now, interview, rows, rejected>>

-------------------------------------------------------------------------------
ExpireInterview ==
  /\ Expired
  /\ interview' = Abandon(interview)
  /\ rows' = CancelledOpen(rows)
  /\ UNCHANGED <<now, executions, rejected>>

DeleteInterview ==
  /\ interview.status # "deleting"
  /\ interview' = [Abandon(interview) EXCEPT !.status = "deleting"]
  /\ rows' = CancelledOpen(rows)
  /\ UNCHANGED <<now, executions, rejected>>

Crash ==
  /\ executions' = {} /\ rejected' = {}
  /\ UNCHANGED <<now, interview, rows>>

Tick ==
  /\ now + 1 \in Times
  /\ now' = now + 1
  /\ UNCHANGED <<interview, rows, executions, rejected>>

Accepts(c) ==
  AcceptPlanned(c) \/ HandleImmediate(c) \/ HandleReportRequest(c) \/ HandleExpired(c) \/ RejectCommand(c)

(* A client holds some version it was once shown, current or not.          *)
ClientStep(op, version, at) ==
  \/ \E type \in ProgressTypes : Accepts(Command(type, op, version, at))
  \/ \E target \in RowIds : RequestRetry(op, target, version, at)

RetryStep(r) == AcceptRetry(r) \/ RejectRetry(r) \/ FailRetry(r)

ExecutionStep(e) ==
  \/ FinalizeClarification(e)
  \/ \E kind \in FollowUpKinds : FinalizeFollowUp(e, kind)
  \/ \E outcome \in EvaluatedOutcomes : FinalizeEvaluation(e, outcome)
  \/ \E retryable \in BOOLEAN : FailModel(e, retryable)
  \/ CompleteReport(e)
  \/ FailReport(e)
  \/ AbandonExecution(e)

Next ==
  \/ FinalizeCreation
  \/ \E op \in Ops, version \in 1..interview.version, at \in AppTime : ClientStep(op, version, at)
  \/ \E r \in Ops : RetryStep(r)
  \/ \E e \in executions : ExecutionStep(e)
  \/ ExpireInterview
  \/ DeleteInterview
  \/ Crash
  \/ Tick

Spec == Init /\ [][Next]_vars
-------------------------------------------------------------------------------
(* The shapes the schema and the in-memory records declare.                *)
TypeOK ==
  /\ now \in Times
  /\ interview \in Interview
  /\ rows \in [RowIds -> Row]
  /\ executions \subseteq Execution
  /\ rejected \subseteq Ops

(* pendingOperationMatchesRow: the row a pending operation points to.       *)
MatchesRow(pending, row) ==
  /\ row.status = "processing"
  /\ row.type = IF pending.kind = "question_clarification" THEN "request_question_clarification"
                ELSE IF pending.previous = "awaiting_response" THEN "submit_answer"
                     ELSE "submit_supplement"
  /\ row.expectedVersion + 1 = interview.version
  /\ pending.acceptedAt \in {row.createdAt, row.lastAttemptAt}

(* An interview holds a pending operation exactly while one operation that  *)
(* needs a model is processing, and its row is the one every load checks it *)
(* against: no failure, crash, takeover or expiry leaves the interview      *)
(* unloadable or an operation processing that the interview forgot.         *)
PendingHasItsRow ==
  /\ IsPending(interview) => MatchesRow(interview.pending, rows[interview.pending.op])
  /\ \A op \in Ops : rows[op].type \in PlannedTypes /\ IsOpen(rows[op]) => interview.pending.op = op

(* An interview waiting for its report always has a generate_report row     *)
(* that is being worked on or that a retry can claim, and it still matches  *)
(* the interview; a report row is open only while its interview waits.      *)
ReportStaysReachable ==
  LET row == rows[ReportOp]
  IN  /\ interview.status = "report_pending" =>
           ReportMatches /\ (row.status = "processing" \/ CanRetryFailed(row))
      /\ IsOpen(row) => interview.status = "report_pending"

(* The effect of an accepted answer or clarification is in the interview    *)
(* exactly when its row says it succeeded: never twice under two attempts,  *)
(* never without the row, never lost with it.  Only a command whose stamp    *)
(* is past the interview's limit succeeds without: it expired the interview. *)
StampedTooLate(row) == row.createdAt > interview.lastActivity + InactivityLimit

EffectIffSucceeded ==
  \A op \in Ops : rows[op].type \in PlannedTypes =>
    LET happened == \E k \in Positions : op \in MaterialIds(interview.questions[k])
                                                  \cup interview.questions[k].clarifications
    IN  /\ happened => rows[op].status = "succeeded"
        /\ rows[op].status = "succeeded" => happened \/ StampedTooLate(rows[op])

(* An interview that was abandoned, expired or deleted leaves no operation  *)
(* open, except retry commands left behind by a user's abandonment: no late *)
(* worker can find a row to complete.                                       *)
ClosedInterviewsAreQuiet ==
  /\ interview.status \notin {"active", "report_pending"} =>
       \A id \in RowIds : IsOpen(rows[id]) => rows[id].type = "retry_operation"
  /\ interview.status = "deleting" => \A id \in RowIds : ~ IsOpen(rows[id])

(* At most one execution can settle a row, and one that can settle the      *)
(* target of a retry can settle the retry too, until the same instant.      *)
LeasesAreExclusive ==
  \A e \in executions :
    HoldsLease(rows[e.op], e.attempt, now) =>
      /\ \A f \in executions \ {e} : f.op = e.op => ~ HoldsLease(rows[f.op], f.attempt, now)
      /\ e.retry # NoOp => /\ HoldsLease(rows[e.retry], e.retryAttempt, now)
                           /\ rows[e.retry].leaseExpiresAt = rows[e.op].leaseExpiresAt

(* A row that succeeded, or failed for good, is never touched again, and    *)
(* attempts only grow: an idempotent repeat always finds the same result.   *)
SettledRowsStay ==
  [][\A id \in RowIds :
       /\ rows'[id].attempts >= rows[id].attempts
       /\ rows[id].status = "succeeded" \/ (rows[id].status = "failed" /\ ~ rows[id].retryable)
            => rows'[id] = rows[id]]_vars

(* openspec interview-session: "two commands use the same expected          *)
(* interview version => at most one command advances the interview".        *)
OneAdvancePerVersion ==
  \A a, b \in Ops :
    rows[a].status = "succeeded" /\ rows[b].status = "succeeded"
      /\ rows[a].expectedVersion = rows[b].expectedVersion => a = b

Canonical == INSTANCE CanonicalInterview

(* Every transaction changes the interview's aggregate only as the           *)
(* repository's own rules accept it, whatever the interleaving of the       *)
(* transactions.                                                            *)
RepositoryAcceptsEveryStep == Canonical!Spec
===============================================================================
