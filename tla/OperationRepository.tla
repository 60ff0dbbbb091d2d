-------------------------- MODULE OperationRepository --------------------------
(***************************************************************************)
(* A row of the operations table and the conditional updates               *)
(* packages/db/src/repositories/operation-repository.ts makes on it.  For   *)
(* each update a predicate is its WHERE clause and an operator of its name  *)
(* its SET clause.  The owner and the random token of a lease are drawn     *)
(* anew at every claim, together with attemptCount + 1; here the attempt    *)
(* stands for all three.  lastAttemptAt and leaseAcquiredAt are set to the  *)
(* same instant by every claim, so one field holds both.                    *)
(***************************************************************************)
EXTENDS InterviewEngine

CONSTANTS
  LeaseDuration,    \* leaseDurationMs, in ticks
  ReportOp,         \* reportOperationIdFor: the one generate_report row
  CreateOp          \* the create_interview row

ASSUME OperationAssumption ==
  /\ LeaseDuration \in Nat \ {0}
  /\ ReportOp \notin Ops /\ CreateOp \notin Ops /\ ReportOp # CreateOp
  /\ NoOp \notin {ReportOp, CreateOp}

RowIds == Ops \cup {ReportOp, CreateOp}

ImmediateTypes ==
  {"mark_question_unknown", "skip_question", "continue_interview",
   "end_interview_early", "abandon_interview"}
ProgressTypes == PlannedTypes \cup ImmediateTypes
RetriedTypes == PlannedTypes \cup {"generate_report"}
OperationTypes == ProgressTypes \cup {"generate_report", "create_interview", "retry_operation", "none"}

Row ==
  [type            : OperationTypes,
   status          : {"none", "pending", "processing", "succeeded", "failed"},
   expectedVersion : Nat,
   createdAt       : Times,
   target          : RowIds \cup {NoOp},
   attempts        : Nat,
   lastAttemptAt   : Nat,
   leaseExpiresAt  : Nat,
   retryable       : BOOLEAN]

NoRow ==
  [type |-> "none", status |-> "none", expectedVersion |-> 0, createdAt |-> 0,
   target |-> NoOp, attempts |-> 0, lastAttemptAt |-> 0, leaseExpiresAt |-> 0,
   retryable |-> FALSE]

Created(type, version, at, target) ==
  [NoRow EXCEPT !.type = type, !.status = "pending", !.expectedVersion = version,
                !.createdAt = at, !.target = target]

IsOpen(row) == row.status \in {"pending", "processing"}

(* Fault: a takeover keeps the attempt of the lease it replaces.           *)
FaultClaimed(row, now, expiry) ==
  [row EXCEPT !.status = "processing", !.attempts = IF row.status = "processing" THEN @ ELSE @ + 1,
              !.lastAttemptAt = now, !.leaseExpiresAt = expiry, !.retryable = FALSE]

(* claimPending, retryFailedAndClaim and reclaimStaleProcessing set the     *)
(* same columns.                                                            *)
Claimed(row, now, expiry) ==
  [row EXCEPT !.status = "processing", !.attempts = @ + 1,
              !.lastAttemptAt = now, !.leaseExpiresAt = expiry, !.retryable = FALSE]

(* Fault: a failure marked final may be retried.                           *)
FaultCanRetryFailed(row) == row.status = "failed"

CanRetryFailed(row) == row.status = "failed" /\ row.retryable

(* Equality is still a live lease. *)
CanReclaim(row, now) == row.status = "processing" /\ row.leaseExpiresAt < now

HoldsLease(row, attempt, now) ==
  /\ row.status = "processing"
  /\ row.attempts = attempt
  /\ row.lastAttemptAt <= now /\ now <= row.leaseExpiresAt

Succeeded(row) == [row EXCEPT !.status = "succeeded", !.leaseExpiresAt = 0]

Failed(row, retryable) ==
  [row EXCEPT !.status = "failed", !.retryable = retryable, !.leaseExpiresAt = 0]

(* failPendingRetryCommand: no lease is needed on a closed interview.      *)
FailedUnclaimed(row, now) ==
  [Failed(row, FALSE) EXCEPT !.attempts = @ + 1, !.lastAttemptAt = now]

(* Fault: pending rows survive the interview they belong to.               *)
FaultCancelledOpen(rows) ==
  [id \in DOMAIN rows |->
     IF rows[id].status = "processing" THEN Failed(rows[id], FALSE) ELSE rows[id]]

(* cancelOpenOperations, in the transaction that closes the interview.     *)
CancelledOpen(rows) ==
  [id \in DOMAIN rows |-> IF IsOpen(rows[id]) THEN Failed(rows[id], FALSE) ELSE rows[id]]
===============================================================================
