------------------------- MODULE OperationRunnerProofs -------------------------
(***************************************************************************)
(* What OperationRunner promises for every number of operations,            *)
(* questions, instants and every lease, limit and clock skew.  The           *)
(* inductive invariant has two halves: the Ledger, about the operations      *)
(* table and the work in memory alone, and the Story, which ties them to     *)
(* the interview.                                                            *)
(***************************************************************************)
EXTENDS OperationRunner, InterviewEngineProofs

-------------------------------------------------------------------------------
(* The shapes of everything but the interview. *)
Tables ==
  /\ now \in Times
  /\ rows \in [RowIds -> Row]
  /\ executions \subseteq Execution
  /\ rejected \subseteq Ops

(* What a row may be, given the operation it is kept for. *)
FitsKind(id, row) ==
  /\ row.type = "none" <=> row.status = "none"
  /\ row.status = "none" => row.attempts = 0
  /\ id = ReportOp => row.type \in {"none", "generate_report"}
  /\ id = CreateOp => /\ row.type = "create_interview"
                      /\ row.status \in {"pending", "succeeded", "failed"}
  /\ id \in Ops => row.type \in ProgressTypes \cup {"retry_operation", "none"}
  /\ row.type \in ImmediateTypes => row.status \in {"succeeded", "failed"} /\ ~ row.retryable
  /\ row.type = "retry_operation" => row.target \in RowIds

RowKinds ==
  /\ \A id \in RowIds : FitsKind(id, rows[id]) /\ rows[id].lastAttemptAt <= now
  /\ \A op \in rejected : rows[op].type = "retry_operation"

(* Work in memory belongs to a row that can be worked on, under an attempt  *)
(* that row has reached; so does the retry command it answers.               *)
Executing ==
  \A e \in executions :
    /\ rows[e.op].type \in RetriedTypes
    /\ e.attempt <= rows[e.op].attempts
    /\ e.retry # NoOp => /\ rows[e.retry].type = "retry_operation"
                         /\ e.retryAttempt <= rows[e.retry].attempts

(* No two executions share an attempt, of the operation or of the retry.   *)
SharesAttempt(e, f) ==
  \/ e.op = f.op /\ e.attempt = f.attempt
  \/ e.retry # NoOp /\ e.retry = f.retry /\ e.retryAttempt = f.retryAttempt

Unique == \A e, f \in executions : SharesAttempt(e, f) => e = f

(* While the lease on an operation is live, so is the lease on the retry    *)
(* command that claimed it, until the same instant.                         *)
Paired ==
  \A e \in executions :
    HoldsLease(rows[e.op], e.attempt, now) /\ e.retry # NoOp =>
      /\ HoldsLease(rows[e.retry], e.retryAttempt, now)
      /\ rows[e.retry].leaseExpiresAt = rows[e.op].leaseExpiresAt

Ledger == Tables /\ RowKinds /\ Executing /\ Unique /\ Paired

(* A row nothing may touch any more, and what every step may do to a row:   *)
(* the step half of SettledRowsStay, and the kind it keeps.                  *)
Final(row) == row.status = "succeeded" \/ (row.status = "failed" /\ ~ row.retryable)

RowMoves(id) ==
  /\ FitsKind(id, rows'[id]) /\ rows'[id].lastAttemptAt <= now
  /\ rows[id].type # "none" => rows'[id].type = rows[id].type
  /\ rows'[id].attempts >= rows[id].attempts
  /\ Final(rows[id]) => rows'[id] = rows[id]

RowsMove == \A id \in RowIds : RowMoves(id)

-------------------------------------------------------------------------------
(* The shapes of rows. *)

LEMMA Ids ==
  /\ NoOp \notin RowIds /\ ReportOp \in RowIds /\ CreateOp \in RowIds /\ Ops \subseteq RowIds
  /\ ReportOp # CreateOp /\ ReportOp \notin Ops /\ CreateOp \notin Ops
  BY InterviewAssumption, OperationAssumption DEF RowIds

LEMMA NowType ==
  ASSUME Tables
  PROVE  now \in Nat /\ now \in Int /\ Expiry \in Nat /\ Expiry > now
  BY InterviewAssumption, OperationAssumption DEF Tables, Expiry

LEMMA CreatedType ==
  ASSUME NEW type \in OperationTypes, NEW v \in Nat, NEW at \in Times, NEW t \in RowIds \cup {NoOp}
  PROVE  Created(type, v, at, t) \in Row
  BY InterviewAssumption DEF Created, NoRow, Row

LEMMA NoRowType == NoRow \in Row
  BY InterviewAssumption DEF NoRow, Row, OperationTypes

LEMMA NextAttemptType ==
  ASSUME NEW row \in Row
  PROVE  row.attempts \in Nat /\ row.attempts + 1 \in Nat
  BY DEF Row

LEMMA ClaimedType ==
  ASSUME NEW row \in Row, NEW t \in Nat, NEW x \in Nat
  PROVE  Claimed(row, t, x) \in Row
  BY NextAttemptType DEF Claimed, Row

LEMMA ClaimedFields ==
  ASSUME NEW row \in Row, NEW t \in Nat, NEW x \in Nat
  PROVE  /\ Claimed(row, t, x).type = row.type
         /\ Claimed(row, t, x).status = "processing"
         /\ Claimed(row, t, x).expectedVersion = row.expectedVersion
         /\ Claimed(row, t, x).createdAt = row.createdAt
         /\ Claimed(row, t, x).target = row.target
         /\ Claimed(row, t, x).attempts = row.attempts + 1
         /\ Claimed(row, t, x).lastAttemptAt = t
         /\ Claimed(row, t, x).leaseExpiresAt = x
         /\ ~ Claimed(row, t, x).retryable
  BY DEF Claimed, Row

LEMMA SucceededType ==
  ASSUME NEW row \in Row
  PROVE  /\ Succeeded(row) \in Row
         /\ Succeeded(row).type = row.type
         /\ Succeeded(row).status = "succeeded"
         /\ Succeeded(row).expectedVersion = row.expectedVersion
         /\ Succeeded(row).createdAt = row.createdAt
         /\ Succeeded(row).target = row.target
         /\ Succeeded(row).attempts = row.attempts
         /\ Succeeded(row).lastAttemptAt = row.lastAttemptAt
         /\ Succeeded(row).retryable = row.retryable
<1>1. Succeeded(row) \in Row
  BY DEF Succeeded, Row
<1>2. QED
  BY <1>1 DEF Succeeded, Row

LEMMA FailedType ==
  ASSUME NEW row \in Row, NEW b \in BOOLEAN
  PROVE  /\ Failed(row, b) \in Row
         /\ Failed(row, b).type = row.type
         /\ Failed(row, b).status = "failed"
         /\ Failed(row, b).expectedVersion = row.expectedVersion
         /\ Failed(row, b).createdAt = row.createdAt
         /\ Failed(row, b).target = row.target
         /\ Failed(row, b).attempts = row.attempts
         /\ Failed(row, b).lastAttemptAt = row.lastAttemptAt
         /\ Failed(row, b).retryable = b
<1>1. Failed(row, b) \in Row
  BY DEF Failed, Row
<1>2. QED
  BY <1>1 DEF Failed, Row

LEMMA FailedUnclaimedType ==
  ASSUME NEW row \in Row, NEW t \in Nat
  PROVE  /\ FailedUnclaimed(row, t) \in Row
         /\ FailedUnclaimed(row, t).type = row.type
         /\ FailedUnclaimed(row, t).status = "failed"
         /\ FailedUnclaimed(row, t).target = row.target
         /\ FailedUnclaimed(row, t).attempts = row.attempts + 1
         /\ FailedUnclaimed(row, t).lastAttemptAt = t
         /\ ~ FailedUnclaimed(row, t).retryable
<1> DEFINE f == Failed(row, FALSE)
<1>1. f \in Row /\ f.type = row.type /\ f.status = "failed" /\ f.target = row.target
      /\ f.attempts = row.attempts /\ ~ f.retryable
  BY FailedType
<1>2. FailedUnclaimed(row, t) = [f EXCEPT !.attempts = @ + 1, !.lastAttemptAt = t]
  BY DEF FailedUnclaimed
<1> HIDE DEF f
<1>3. [f EXCEPT !.attempts = @ + 1, !.lastAttemptAt = t] \in Row
  BY <1>1, NextAttemptType DEF Row
<1>4. QED
  BY <1>1, <1>2, <1>3 DEF Row

LEMMA CommandType ==
  ASSUME Tables, NEW op \in Ops, rows[op].type \in PlannedTypes
  PROVE  CommandOf(op) \in PlannedCommand
  BY Ids DEF CommandOf, Command, PlannedCommand, Tables, Row

(* What acceptProgress may be handed. *)
ClientCommand ==
  [type : ProgressTypes, op : Ops, expectedVersion : Nat, occurredAt : Times]

LEMMA ClientCommandType ==
  ASSUME NEW type \in ProgressTypes, NEW op \in Ops, NEW v \in Nat, NEW at \in Times
  PROVE  Command(type, op, v, at) \in ClientCommand
  BY DEF Command, ClientCommand

LEMMA PlannedCommandType ==
  ASSUME NEW c \in ClientCommand, c.type \in PlannedTypes
  PROVE  c \in PlannedCommand
  BY DEF ClientCommand, PlannedCommand

LEMMA CreatedFields ==
  ASSUME NEW type, NEW v, NEW at, NEW t
  PROVE  /\ Created(type, v, at, t).type = type /\ Created(type, v, at, t).status = "pending"
         /\ Created(type, v, at, t).expectedVersion = v /\ Created(type, v, at, t).createdAt = at
         /\ Created(type, v, at, t).target = t
         /\ Created(type, v, at, t).attempts = 0 /\ Created(type, v, at, t).lastAttemptAt = 0
         /\ ~ Created(type, v, at, t).retryable
  BY DEF Created, NoRow

LEMMA NewRowType ==
  ASSUME Tables, NEW c \in ClientCommand
  PROVE  /\ NewRow(c) \in Row
         /\ NewRow(c).type = c.type /\ NewRow(c).status = "processing"
         /\ NewRow(c).expectedVersion = c.expectedVersion /\ NewRow(c).createdAt = c.occurredAt
         /\ NewRow(c).attempts = 1 /\ NewRow(c).lastAttemptAt = now
         /\ NewRow(c).leaseExpiresAt = Expiry /\ ~ NewRow(c).retryable
<1> DEFINE new == Created(c.type, c.expectedVersion, c.occurredAt, NoOp)
<1>1. new \in Row
  BY CreatedType DEF OperationTypes, ClientCommand
<1>2. /\ new.attempts = 0 /\ new.type = c.type
      /\ new.expectedVersion = c.expectedVersion /\ new.createdAt = c.occurredAt
  BY CreatedFields
<1>3. NewRow(c) = Claimed(new, now, Expiry)
  BY DEF NewRow
<1>4. now \in Nat /\ Expiry \in Nat
  BY NowType
<1> HIDE DEF new
<1>5. NewRow(c) \in Row
  BY <1>1, <1>3, <1>4, ClaimedType
<1>6. NewRow(c).attempts = 1
  BY <1>1, <1>2, <1>3, <1>4, ClaimedFields
<1>7. QED
  BY <1>1, <1>2, <1>3, <1>4, <1>5, <1>6, ClaimedFields

-------------------------------------------------------------------------------
(* The Ledger is kept by every step that moves rows as RowMoves says, if the *)
(* executions whose lease is live afterwards had their rows left alone, and   *)
(* if work is only added under a fresh claim.                                *)

LEMMA StillRow ==
  ASSUME Ledger, NEW id \in RowIds, rows'[id] = rows[id]
  PROVE  RowMoves(id)
  BY DEF Ledger, Tables, Row, RowKinds, RowMoves

LeavesLiveRows(e) ==
  HoldsLease(rows'[e.op], e.attempt, now) =>
    /\ rows'[e.op] = rows[e.op]
    /\ e.retry # NoOp => rows'[e.retry] = rows[e.retry]

LEMMA ExecutionIds ==
  ASSUME Ledger, NEW e \in executions
  PROVE  /\ e.op \in RowIds /\ e.attempt \in Nat /\ e.retryAttempt \in Nat
         /\ e.retry \in Ops \cup {NoOp}
         /\ e.retry # NoOp => e.retry \in RowIds /\ rows[e.retry] \in Row
         /\ rows[e.op] \in Row
  BY Ids DEF Ledger, Tables, Execution

LEMMA KindsMove ==
  ASSUME Ledger, RowsMove, now' = now, rejected' \subseteq rejected
  PROVE  RowKinds'
  BY Ids DEF Ledger, Tables, RowKinds, RowsMove, RowMoves

LEMMA WorkMoves ==
  ASSUME Ledger, Tables', RowsMove, NEW e \in executions
  PROVE  /\ rows'[e.op].type \in RetriedTypes
         /\ e.attempt <= rows[e.op].attempts /\ e.attempt <= rows'[e.op].attempts
         /\ e.retry # NoOp => /\ rows'[e.retry].type = "retry_operation"
                              /\ e.retryAttempt <= rows[e.retry].attempts
                              /\ e.retryAttempt <= rows'[e.retry].attempts
<1>1. /\ rows[e.op].type \in RetriedTypes /\ e.attempt <= rows[e.op].attempts
      /\ e.retry # NoOp => rows[e.retry].type = "retry_operation"
                           /\ e.retryAttempt <= rows[e.retry].attempts
  BY DEF Ledger, Executing
<1>2. \A id \in RowIds : rows[id].attempts \in Nat /\ rows'[id].attempts \in Nat
  BY DEF Ledger, Tables, Row
<1>3. "none" \notin RetriedTypes
  BY DEF RetriedTypes, PlannedTypes
<1>4. \A id \in RowIds : /\ rows[id].type # "none" => rows'[id].type = rows[id].type
                          /\ rows[id].attempts <= rows'[id].attempts
  BY <1>2 DEF RowsMove, RowMoves
<1>5. rows'[e.op].type \in RetriedTypes /\ e.attempt <= rows'[e.op].attempts
  BY <1>1, <1>2, <1>3, <1>4, ExecutionIds
<1>6. ASSUME e.retry # NoOp
      PROVE  rows'[e.retry].type = "retry_operation" /\ e.retryAttempt <= rows'[e.retry].attempts
  <2>1. e.retry \in RowIds /\ e.retryAttempt \in Nat
    BY <1>6, ExecutionIds
  <2>2. rows[e.retry].type = "retry_operation" /\ e.retryAttempt <= rows[e.retry].attempts
    BY <1>1, <1>6
  <2>3. QED
    BY <1>2, <1>4, <2>1, <2>2
<1>7. QED
  BY <1>1, <1>5, <1>6

LEMMA PairsMove ==
  ASSUME Ledger, now' = now, NEW e \in executions, LeavesLiveRows(e),
         HoldsLease(rows'[e.op], e.attempt, now), e.retry # NoOp
  PROVE  /\ HoldsLease(rows'[e.retry], e.retryAttempt, now)
         /\ rows'[e.retry].leaseExpiresAt = rows'[e.op].leaseExpiresAt
  BY DEF LeavesLiveRows, Ledger, Paired

LEMMA LedgerKept ==
  ASSUME Ledger, Tables', RowsMove, now' = now,
         rejected' \subseteq rejected, executions' \subseteq executions,
         \A e \in executions' : LeavesLiveRows(e)
  PROVE  Ledger'
<1>1. RowKinds'
  BY KindsMove
<1>2. Executing'
  BY WorkMoves DEF Executing
<1>3. Unique'
  BY DEF Ledger, Unique
<1>4. Paired'
  BY PairsMove DEF Paired
<1>5. QED
  BY <1>1, <1>2, <1>3, <1>4 DEF Ledger

LEMMA LedgerGrows ==
  ASSUME Ledger, Tables', RowsMove, now' = now,
         rejected' = rejected, NEW x \in Execution, executions' = executions \cup {x},
         \A e \in executions : LeavesLiveRows(e),
         rows'[x.op].type \in RetriedTypes,
         x.attempt = rows'[x.op].attempts, rows'[x.op].attempts > rows[x.op].attempts,
         x.retry # NoOp =>
           /\ rows'[x.retry].type = "retry_operation"
           /\ x.retryAttempt = rows'[x.retry].attempts
           /\ rows'[x.retry].attempts > rows[x.retry].attempts
           /\ HoldsLease(rows'[x.retry], x.retryAttempt, now)
           /\ rows'[x.retry].leaseExpiresAt = rows'[x.op].leaseExpiresAt
  PROVE  Ledger'
<1>1. RowKinds'
  BY KindsMove
<1>2. Executing'
  <2>1. x.attempt <= rows'[x.op].attempts
        /\ (x.retry # NoOp => x.retryAttempt <= rows'[x.retry].attempts)
    BY Ids DEF Tables, Execution, Row
  <2>2. QED
    BY <2>1, WorkMoves DEF Executing
<1>3. \A e \in executions : ~ SharesAttempt(e, x) /\ ~ SharesAttempt(x, e)
  <2>1. /\ rows[x.op].attempts \in Nat /\ rows'[x.op].attempts \in Nat
        /\ (x.retry # NoOp => rows[x.retry].attempts \in Nat /\ rows'[x.retry].attempts \in Nat)
    BY Ids DEF Ledger, Tables, Execution, Row
  <2>2. TAKE e \in executions
  <2>3. e.attempt \in Nat /\ e.retryAttempt \in Nat
    BY ExecutionIds
  <2>4. QED
    BY <2>1, <2>3, WorkMoves DEF SharesAttempt
<1>4. Unique'
  BY <1>3 DEF Ledger, Unique
<1>5. Paired'
  BY PairsMove DEF Paired
<1>6. QED
  BY <1>1, <1>2, <1>4, <1>5 DEF Ledger

-------------------------------------------------------------------------------
(* The Ledger, action by action. *)

LEMMA FreeRow ==
  ASSUME Ledger, NEW id \in RowIds, rows[id].status = "none"
  PROVE  /\ rows[id].type = "none"
         /\ \A e \in executions : e.op # id /\ e.retry # id
<1>1. rows[id].type = "none"
  BY DEF Ledger, RowKinds, FitsKind
<1>2. QED
  BY <1>1, Ids, ExecutionIds DEF Ledger, Executing, RetriedTypes, PlannedTypes

LEMMA OneRowMoves ==
  ASSUME Ledger, NEW id \in RowIds, NEW new \in Row, rows' = [rows EXCEPT ![id] = new],
         now' = now, executions' = executions, rejected' \subseteq rejected,
         RowMoves(id),
         \A e \in executions :
           e.op # id /\ (e.retry = id => ~ HoldsLease(rows[e.op], e.attempt, now))
  PROVE  Ledger' /\ RowsMove
<1>1. \A k \in RowIds : rows'[k] = IF k = id THEN new ELSE rows[k]
  BY DEF Ledger, Tables
<1>2. RowsMove
  BY <1>1, StillRow DEF RowsMove
<1>3. Tables'
  BY DEF Ledger, Tables
<1>4. \A e \in executions : LeavesLiveRows(e)
  BY <1>1, ExecutionIds DEF LeavesLiveRows
<1>5. QED
  BY <1>2, <1>3, <1>4, LedgerKept

LEMMA NewRowMoves ==
  ASSUME Ledger, NEW id \in RowIds, rows[id].status = "none",
         NEW new \in Row, rows'[id] = new, FitsKind(id, new), new.lastAttemptAt <= now
  PROVE  RowMoves(id)
<1>1. new.attempts \in Nat /\ rows[id].attempts = 0
  BY DEF Ledger, Tables, Row, RowKinds, FitsKind
<1>2. QED
  BY <1>1, FreeRow DEF RowMoves, Final

LEMMA AddedRow ==
  ASSUME Ledger, NEW op \in Ops, rows[op].status = "none",
         NEW new \in Row, FitsKind(op, new), new.lastAttemptAt <= now,
         rows' = [rows EXCEPT ![op] = new],
         now' = now, executions' = executions, rejected' = rejected
  PROVE  Ledger' /\ RowsMove
<1>1. op \in RowIds /\ rows'[op] = new
  BY Ids DEF Ledger, Tables
<1>2. RowMoves(op)
  BY <1>1, NewRowMoves
<1>3. QED
  BY <1>1, <1>2, FreeRow, OneRowMoves

(* The row of a client command, however the command ends. *)
LEMMA ClientRowFits ==
  ASSUME Tables, NEW c \in ClientCommand,
         NEW new \in {Succeeded(NewRow(c)), Failed(NewRow(c), FALSE)}
  PROVE  /\ new \in Row /\ FitsKind(c.op, new) /\ new.lastAttemptAt <= now
         /\ new.type = c.type /\ new.createdAt = c.occurredAt /\ ~ new.retryable
<1>1. /\ NewRow(c) \in Row /\ NewRow(c).type = c.type /\ NewRow(c).createdAt = c.occurredAt
      /\ NewRow(c).lastAttemptAt = now /\ ~ NewRow(c).retryable
  BY NewRowType
<1>2. /\ new \in Row /\ new.type = c.type /\ new.createdAt = c.occurredAt
      /\ new.lastAttemptAt = now /\ ~ new.retryable /\ new.status \in {"succeeded", "failed"}
  <2>1. CASE new = Succeeded(NewRow(c))
    BY <1>1, <2>1, SucceededType
  <2>2. CASE new = Failed(NewRow(c), FALSE)
    BY <1>1, <2>2, FailedType
  <2>3. QED
    BY <2>1, <2>2
<1>3. c.type \in ProgressTypes /\ c.op \in Ops
  BY DEF ClientCommand
<1>4. FitsKind(c.op, new)
  BY <1>2, <1>3, Ids DEF FitsKind, ProgressTypes, PlannedTypes, ImmediateTypes
<1>5. QED
  BY <1>2, <1>4, NowType

LEMMA FinalizeCreationLedger ==
  ASSUME Ledger, FinalizeCreation
  PROVE  Ledger' /\ RowsMove
<1> DEFINE row == rows[CreateOp]
           new == Succeeded(Claimed(row, now, Expiry))
<1>1. row \in Row /\ row.status = "pending" /\ row.type = "create_interview"
  BY Ids DEF FinalizeCreation, Ledger, Tables, RowKinds, FitsKind
<1>2. now \in Nat /\ Expiry \in Nat
  BY NowType DEF Ledger
<1>3. /\ Claimed(row, now, Expiry) \in Row
      /\ Claimed(row, now, Expiry).type = "create_interview"
      /\ Claimed(row, now, Expiry).attempts = row.attempts + 1
      /\ Claimed(row, now, Expiry).lastAttemptAt = now
  <2>1. Claimed(row, now, Expiry) \in Row
    BY <1>1, <1>2, ClaimedType
  <2>2. QED
    BY <1>1, <1>2, <2>1, ClaimedFields
<1>4. /\ new \in Row /\ new.type = "create_interview" /\ new.status = "succeeded"
      /\ new.attempts = row.attempts + 1 /\ new.lastAttemptAt = now
  BY <1>3, SucceededType
<1>5. rows' = [rows EXCEPT ![CreateOp] = new] /\ UNCHANGED <<now, executions, rejected>>
  BY DEF FinalizeCreation
<1> HIDE DEF new
<1>6. rows'[CreateOp] = new
  BY <1>5, Ids DEF Ledger, Tables
<1>7. RowMoves(CreateOp)
  BY <1>1, <1>2, <1>4, <1>6, Ids, NextAttemptType
     DEF RowMoves, FitsKind, Final, ImmediateTypes
<1>8. \A e \in executions : e.op # CreateOp /\ e.retry # CreateOp
  BY <1>1, Ids, ExecutionIds DEF Ledger, Executing, RetriedTypes, PlannedTypes
<1>9. QED
  BY <1>4, <1>5, <1>7, <1>8, Ids, OneRowMoves

LEMMA FreshFields ==
  ASSUME NEW id, NEW retry
  PROVE  /\ Fresh(id, retry).op = id /\ Fresh(id, retry).retry = retry
         /\ Fresh(id, retry).attempt = rows'[id].attempts
         /\ retry # NoOp => Fresh(id, retry).retryAttempt = rows'[retry].attempts
         /\ retry = NoOp => Fresh(id, retry).retryAttempt = 0
  BY DEF Fresh

LEMMA FreshType2 ==
  ASSUME Tables, rows' \in [RowIds -> Row], NEW id \in RowIds, NEW retry \in Ops \cup {NoOp}
  PROVE  Fresh(id, retry) \in Execution
<1>1. \A k \in RowIds : rows'[k].attempts \in Nat
  BY DEF Row
<1>2. QED
  BY <1>1, Ids DEF Fresh, Execution

LEMMA AcceptPlannedLedger ==
  ASSUME Ledger, NEW c \in ClientCommand, AcceptPlanned(c)
  PROVE  Ledger' /\ RowsMove
<1> DEFINE new == NewRow(c)
           x == Fresh(c.op, NoOp)
<1>1. /\ new \in Row /\ new.type = c.type /\ new.status = "processing"
      /\ new.attempts = 1 /\ new.lastAttemptAt = now /\ ~ new.retryable
  BY NewRowType DEF Ledger
<1>2. c.op \in Ops /\ c.op \in RowIds /\ rows[c.op].status = "none" /\ c.type \in PlannedTypes
  BY Ids DEF ClientCommand, AcceptPlanned, Submittable
<1>3. /\ rows' = [rows EXCEPT ![c.op] = new] /\ executions' = executions \cup {x}
      /\ now' = now /\ rejected' = rejected
  BY DEF AcceptPlanned
<1> HIDE DEF new
<1>4. rows' \in [RowIds -> Row] /\ \A k \in RowIds : rows'[k] = IF k = c.op THEN new ELSE rows[k]
  BY <1>1, <1>2, <1>3 DEF Ledger, Tables
<1>5. x \in Execution /\ x.op = c.op /\ x.retry = NoOp /\ x.attempt = rows'[c.op].attempts
  BY <1>2, <1>4, FreshFields, FreshType2 DEF Ledger
<1> HIDE DEF x
<1>6. Tables'
  BY <1>3, <1>4, <1>5 DEF Ledger, Tables
<1>7. FitsKind(c.op, new) /\ new.lastAttemptAt <= now
  BY <1>1, <1>2, Ids, NowType DEF Ledger, FitsKind, ProgressTypes, PlannedTypes, ImmediateTypes
<1>8. RowsMove
  BY <1>1, <1>2, <1>4, <1>7, NewRowMoves, StillRow DEF RowsMove
<1>9. \A e \in executions : LeavesLiveRows(e)
  BY <1>2, <1>4, FreeRow, ExecutionIds DEF LeavesLiveRows
<1>10. rows'[x.op].type \in RetriedTypes /\ rows'[x.op].attempts > rows[x.op].attempts
  BY <1>1, <1>2, <1>4, <1>5 DEF Ledger, RowKinds, FitsKind, RetriedTypes
<1>11. QED
  BY <1>3, <1>5, <1>6, <1>8, <1>9, <1>10, LedgerGrows

LEMMA HandleReportRequestLedger ==
  ASSUME Ledger, rows[ReportOp] = NoRow, NEW c \in ClientCommand, HandleReportRequest(c),
         interview'.version \in Nat
  PROVE  Ledger' /\ RowsMove
<1> DEFINE new == Succeeded(NewRow(c))
           report == Created("generate_report", interview'.version, c.occurredAt, NoOp)
           claimed == Claimed(report, now, Expiry)
           x == Fresh(ReportOp, NoOp)
<1>1. /\ new \in Row /\ FitsKind(c.op, new) /\ new.lastAttemptAt <= now
  BY ClientRowFits DEF Ledger
<1>2. now \in Nat /\ Expiry \in Nat
  BY NowType DEF Ledger
<1>3. report \in Row /\ report.type = "generate_report" /\ report.attempts = 0
  BY CreatedType, CreatedFields DEF ClientCommand, OperationTypes
<1>4. /\ rows' = [rows EXCEPT ![c.op] = new, ![ReportOp] = claimed]
      /\ executions' = executions \cup {x} /\ now' = now /\ rejected' = rejected
  BY DEF HandleReportRequest
<1> HIDE DEF new, report
<1>5. claimed \in Row
  BY <1>2, <1>3, ClaimedType
<1>6. /\ claimed.type = "generate_report" /\ claimed.status = "processing"
      /\ claimed.attempts = 1 /\ claimed.lastAttemptAt = now
  BY <1>2, <1>3, ClaimedFields
<1> HIDE DEF claimed
<1>7. c.op \in Ops /\ c.op \in RowIds /\ c.op # ReportOp /\ rows[c.op].status = "none"
  BY Ids DEF ClientCommand, HandleReportRequest, Submittable
<1>8. rows[ReportOp].status = "none" /\ rows[ReportOp].attempts = 0
  BY DEF NoRow
<1>9. /\ rows' \in [RowIds -> Row]
      /\ rows'[ReportOp] = claimed /\ rows'[c.op] = new
      /\ \A k \in RowIds \ {c.op, ReportOp} : rows'[k] = rows[k]
  BY <1>1, <1>4, <1>5, <1>7, Ids DEF Ledger, Tables
<1>10. x \in Execution /\ x.op = ReportOp /\ x.retry = NoOp /\ x.attempt = rows'[ReportOp].attempts
  BY <1>9, Ids, FreshFields, FreshType2 DEF Ledger
<1> HIDE DEF x
<1>11. Tables'
  BY <1>4, <1>9, <1>10 DEF Ledger, Tables
<1>12. FitsKind(ReportOp, claimed) /\ claimed.lastAttemptAt <= now
  BY <1>2, <1>6, Ids DEF FitsKind, ImmediateTypes
<1>13. RowMoves(c.op) /\ RowMoves(ReportOp)
  BY <1>1, <1>5, <1>7, <1>8, <1>9, <1>12, Ids, NewRowMoves
<1>14. RowsMove
  BY <1>9, <1>13, StillRow DEF RowsMove
<1>15. \A e \in executions : LeavesLiveRows(e)
  BY <1>7, <1>8, <1>9, FreeRow, ExecutionIds, Ids DEF LeavesLiveRows
<1>16. rows'[x.op].type \in RetriedTypes /\ rows'[x.op].attempts > rows[x.op].attempts
  BY <1>6, <1>8, <1>9, <1>10 DEF RetriedTypes
<1>17. QED
  BY <1>4, <1>10, <1>11, <1>14, <1>15, <1>16, LedgerGrows

LEMMA ClientLedger ==
  ASSUME Ledger, NEW c \in ClientCommand,
         HandleImmediate(c) \/ HandleExpired(c) \/ RejectCommand(c)
  PROVE  Ledger' /\ RowsMove
<1>1. /\ c.op \in Ops /\ rows[c.op].status = "none"
      /\ UNCHANGED <<now, executions, rejected>>
      /\ \/ rows' = [rows EXCEPT ![c.op] = Succeeded(NewRow(c))]
         \/ rows' = [rows EXCEPT ![c.op] = Failed(NewRow(c), FALSE)]
  BY DEF HandleImmediate, HandleExpired, RejectCommand, Submittable, ClientCommand
<1>2. ASSUME NEW new \in {Succeeded(NewRow(c)), Failed(NewRow(c), FALSE)},
             rows' = [rows EXCEPT ![c.op] = new]
      PROVE  Ledger' /\ RowsMove
  BY <1>1, <1>2, ClientRowFits, AddedRow DEF Ledger
<1>3. QED
  BY <1>1, <1>2

LEMMA RequestRetryLedger ==
  ASSUME Ledger, NEW op \in Ops, NEW target \in RowIds, NEW v \in Nat, NEW at \in Times,
         RequestRetry(op, target, v, at)
  PROVE  Ledger' /\ RowsMove
<1> DEFINE new == Created("retry_operation", v, at, target)
<1>1. /\ rows[op].status = "none" /\ rows' = [rows EXCEPT ![op] = new]
      /\ UNCHANGED <<now, executions, rejected>>
  BY DEF RequestRetry
<1>2. new \in Row
  BY CreatedType DEF OperationTypes
<1>3. /\ new.type = "retry_operation" /\ new.status = "pending" /\ new.target = target
      /\ new.lastAttemptAt = 0
  BY CreatedFields
<1> HIDE DEF new
<1>4. FitsKind(op, new) /\ new.lastAttemptAt <= now
  BY <1>3, Ids, NowType DEF Ledger, FitsKind, ImmediateTypes
<1>5. QED
  BY <1>1, <1>2, <1>4, AddedRow

(* A claim of a row that failed for now or whose lease lapsed. *)
LEMMA ClaimedMoves ==
  ASSUME Ledger, NEW id \in RowIds, rows'[id] = Claimed(rows[id], now, Expiry),
         rows[id].status \in {"pending", "processing"} \/ CanRetryFailed(rows[id]),
         rows[id].type \in RetriedTypes \cup {"retry_operation"}
  PROVE  /\ RowMoves(id)
         /\ rows'[id] \in Row
         /\ rows'[id].attempts = rows[id].attempts + 1 /\ rows'[id].attempts > rows[id].attempts
         /\ rows'[id].type = rows[id].type
         /\ rows'[id].leaseExpiresAt = Expiry
         /\ HoldsLease(rows'[id], rows'[id].attempts, now)
<1>1. rows[id] \in Row /\ now \in Nat /\ Expiry \in Nat /\ Expiry > now
  BY NowType DEF Ledger, Tables
<1>2. rows'[id] \in Row
  BY <1>1, ClaimedType
<1>3. /\ rows'[id].type = rows[id].type /\ rows'[id].status = "processing"
      /\ rows'[id].target = rows[id].target /\ rows'[id].attempts = rows[id].attempts + 1
      /\ rows'[id].lastAttemptAt = now /\ rows'[id].leaseExpiresAt = Expiry
  BY <1>1, ClaimedFields
<1>4. rows[id].attempts \in Nat
  BY <1>1, NextAttemptType
<1>5. FitsKind(id, rows[id])
  BY DEF Ledger, RowKinds
<1>6. FitsKind(id, rows'[id])
  BY <1>3, <1>5 DEF FitsKind, RetriedTypes, PlannedTypes, ImmediateTypes
<1>7. HoldsLease(rows'[id], rows'[id].attempts, now)
  BY <1>1, <1>3 DEF HoldsLease
<1>8. RowMoves(id)
  BY <1>1, <1>3, <1>4, <1>6 DEF RowMoves, Final, CanRetryFailed
<1>9. QED
  BY <1>2, <1>3, <1>4, <1>7, <1>8

(* What the guards of AcceptRetry say of its two rows. *)
LEMMA RetryRows ==
  ASSUME Ledger, NEW r \in Ops, AcceptRetry(r)
  PROVE  LET id == rows[r].target
         IN  /\ id \in RowIds /\ id # r
             /\ rows[r].type = "retry_operation" /\ rows[id].type \in RetriedTypes
             /\ rows[r].status = "pending" \/ CanReclaim(rows[r], now)
             /\ CanRetryFailed(rows[id]) \/ CanReclaim(rows[id], now)
             /\ rows'[r] = Claimed(rows[r], now, Expiry)
             /\ rows'[id] = Claimed(rows[id], now, Expiry)
             /\ \A k \in RowIds \ {r, id} : rows'[k] = rows[k]
<1> DEFINE id == rows[r].target
<1>1. /\ rows[r].type = "retry_operation" /\ rows[id].type \in RetriedTypes
      /\ rows[r].status = "pending" \/ CanReclaim(rows[r], now)
      /\ CanRetryFailed(rows[id]) \/ CanReclaim(rows[id], now)
  BY DEF AcceptRetry, Takes, RetryAdmitted
<1>2. id \in RowIds
  BY <1>1, Ids DEF Ledger, RowKinds, FitsKind
<1>3. id # r
  BY <1>1 DEF RetriedTypes, PlannedTypes
<1>4. rows' = [rows EXCEPT ![r] = Claimed(@, now, Expiry), ![id] = Claimed(@, now, Expiry)]
  BY DEF AcceptRetry
<1> HIDE DEF id
<1>5. /\ rows'[r] = Claimed(rows[r], now, Expiry)
      /\ rows'[id] = Claimed(rows[id], now, Expiry)
      /\ \A k \in RowIds \ {r, id} : rows'[k] = rows[k]
  BY <1>2, <1>3, <1>4, Ids DEF Ledger, Tables
<1>6. QED
  BY <1>1, <1>2, <1>3, <1>5 DEF id

LEMMA AcceptRetryLedger ==
  ASSUME Ledger, NEW r \in Ops, AcceptRetry(r)
  PROVE  Ledger' /\ RowsMove
<1> DEFINE id == rows[r].target
           x == Fresh(id, r)
<1>1. /\ id \in RowIds /\ id # r /\ r \in RowIds
      /\ rows[r].type = "retry_operation" /\ rows[id].type \in RetriedTypes
      /\ rows[r].status = "pending" \/ CanReclaim(rows[r], now)
      /\ CanRetryFailed(rows[id]) \/ CanReclaim(rows[id], now)
      /\ rows'[r] = Claimed(rows[r], now, Expiry)
      /\ rows'[id] = Claimed(rows[id], now, Expiry)
      /\ \A k \in RowIds \ {r, id} : rows'[k] = rows[k]
  BY RetryRows, Ids
<1>2. /\ executions' = executions \cup {x} /\ now' = now /\ rejected' = rejected
      /\ DOMAIN rows' = RowIds /\ rows' = [k \in RowIds |-> rows'[k]]
  BY DEF AcceptRetry, Ledger, Tables
<1> HIDE DEF id
<1>3. /\ RowMoves(r) /\ rows'[r] \in Row /\ rows'[r].type = "retry_operation"
      /\ rows'[r].attempts > rows[r].attempts /\ rows'[r].leaseExpiresAt = Expiry
      /\ HoldsLease(rows'[r], rows'[r].attempts, now)
  BY <1>1, ClaimedMoves DEF CanReclaim
<1>4. /\ RowMoves(id) /\ rows'[id] \in Row /\ rows'[id].type \in RetriedTypes
      /\ rows'[id].attempts > rows[id].attempts /\ rows'[id].leaseExpiresAt = Expiry
      /\ HoldsLease(rows'[id], rows'[id].attempts, now)
  BY <1>1, ClaimedMoves DEF CanReclaim
<1>5. RowsMove
  BY <1>1, <1>3, <1>4, StillRow DEF RowsMove
<1>6. rows' \in [RowIds -> Row]
  BY <1>1, <1>2, <1>3, <1>4 DEF Ledger, Tables
<1>7. r # NoOp
  BY Ids
<1>8. /\ x \in Execution /\ x.op = id /\ x.retry = r
      /\ x.attempt = rows'[id].attempts /\ x.retryAttempt = rows'[r].attempts
  BY <1>1, <1>6, <1>7, FreshFields, FreshType2 DEF Ledger
<1> HIDE DEF x
<1>9. Tables'
  BY <1>2, <1>6, <1>8 DEF Ledger, Tables
<1>10. \A e \in executions : LeavesLiveRows(e)
  <2> SUFFICES ASSUME NEW e \in executions, HoldsLease(rows'[e.op], e.attempt, now)
               PROVE  /\ rows'[e.op] = rows[e.op]
                      /\ e.retry # NoOp => rows'[e.retry] = rows[e.retry]
    BY DEF LeavesLiveRows
  <2>1. /\ e.op \in RowIds /\ e.attempt \in Nat /\ e.attempt <= rows[e.op].attempts
        /\ rows[e.op].type \in RetriedTypes
        /\ rows[e.op].attempts \in Nat /\ rows'[e.op].attempts \in Nat
    BY <1>6, ExecutionIds DEF Ledger, Executing, Tables, Row
  <2>2. e.op # r
    BY <1>1, <2>1 DEF RetriedTypes, PlannedTypes
  <2>3. e.op # id
    BY <1>4, <2>1 DEF HoldsLease
  <2>4. rows'[e.op] = rows[e.op]
    BY <1>1, <2>1, <2>2, <2>3
  <2>5. ASSUME e.retry # NoOp
        PROVE  rows'[e.retry] = rows[e.retry]
    <3>1. /\ e.retry \in RowIds /\ rows[e.retry].type = "retry_operation"
          /\ HoldsLease(rows[e.retry], e.retryAttempt, now)
      BY <2>4, <2>5, ExecutionIds DEF Ledger, Executing, Paired
    <3>2. e.retry # id
      BY <1>1, <3>1 DEF RetriedTypes, PlannedTypes
    <3>3. rows[e.retry].status = "processing" /\ now <= rows[e.retry].leaseExpiresAt
          /\ rows[e.retry].leaseExpiresAt \in Nat /\ now \in Nat
      BY <3>1, NowType DEF HoldsLease, Ledger, Tables, Row
    <3>4. e.retry # r
      BY <1>1, <3>3 DEF CanReclaim
    <3>5. QED
      BY <1>1, <3>1, <3>2, <3>4
  <2>6. QED
    BY <2>4, <2>5
<1>11. QED
  BY <1>2, <1>3, <1>4, <1>5, <1>8, <1>9, <1>10, LedgerGrows

LEMMA RejectRetryLedger ==
  ASSUME Ledger, NEW r \in Ops, RejectRetry(r)
  PROVE  Ledger' /\ RowsMove
<1>1. /\ rows[r].type = "retry_operation" /\ rejected' = rejected \cup {r}
      /\ UNCHANGED <<now, rows, executions>>
  BY DEF RejectRetry, Takes
<1>2. RowsMove
  BY <1>1, StillRow DEF RowsMove
<1>3. QED
  BY <1>1, <1>2 DEF Ledger, Tables, RowKinds, FitsKind, Executing, Unique, SharesAttempt, Paired

LEMMA FailRetryLedger ==
  ASSUME Ledger, NEW r \in Ops, FailRetry(r)
  PROVE  Ledger' /\ RowsMove
<1> DEFINE row == rows[r]
           claimed == Claimed(row, now, Expiry)
           new == IF row.status = "pending"
                  THEN IF Mutable THEN Failed(claimed, FALSE) ELSE FailedUnclaimed(row, now)
                  ELSE IF Mutable /\ CanReclaim(row, now) THEN Failed(claimed, FALSE) ELSE row
<1>1. /\ r \in RowIds /\ row \in Row /\ row.type = "retry_operation"
      /\ row.target \in RowIds /\ row.attempts \in Nat
  BY Ids DEF FailRetry, Ledger, Tables, RowKinds, FitsKind, Row
<1>2. now \in Nat /\ Expiry \in Nat
  BY NowType DEF Ledger
<1>3. /\ rows' = [rows EXCEPT ![r] = new] /\ rejected' \subseteq rejected
      /\ UNCHANGED <<now, executions>>
  BY DEF FailRetry
<1>4. claimed \in Row
  BY <1>1, <1>2, ClaimedType
<1>5. /\ claimed.type = "retry_operation" /\ claimed.target = row.target
      /\ claimed.attempts = row.attempts + 1 /\ claimed.lastAttemptAt = now
  BY <1>1, <1>2, ClaimedFields
<1> HIDE DEF claimed
<1>6. ASSUME NEW f \in {Failed(claimed, FALSE), FailedUnclaimed(row, now)}
      PROVE  /\ f \in Row /\ f.type = "retry_operation" /\ f.target = row.target
             /\ f.status = "failed" /\ f.attempts = row.attempts + 1 /\ f.lastAttemptAt = now
  <2>1. CASE f = Failed(claimed, FALSE)
    BY <1>4, <1>5, <2>1, FailedType
  <2>2. CASE f = FailedUnclaimed(row, now)
    BY <1>1, <1>2, <2>2, FailedUnclaimedType
  <2>3. QED
    BY <1>6, <2>1, <2>2
<1>7. new = row \/ (new \in {Failed(claimed, FALSE), FailedUnclaimed(row, now)}
                      /\ (row.status = "pending" \/ CanReclaim(row, now)))
  OBVIOUS
<1> HIDE DEF new
<1>8. rows'[r] = new
  BY <1>1, <1>3 DEF Ledger, Tables
<1>9. CASE new = row
  <2>1. rows' = rows
    BY <1>1, <1>3, <1>9 DEF Ledger, Tables
  <2>2. RowsMove
    BY <2>1, StillRow DEF RowsMove
  <2>3. Tables' /\ \A e \in executions' : LeavesLiveRows(e)
    BY <1>3, <2>1 DEF Ledger, Tables, LeavesLiveRows
  <2>4. QED
    BY <1>3, <2>2, <2>3, LedgerKept
<1>10. CASE new # row
  <2>1. new \in {Failed(claimed, FALSE), FailedUnclaimed(row, now)}
        /\ (row.status = "pending" \/ CanReclaim(row, now))
    BY <1>7, <1>10
  <2>2. /\ new \in Row /\ new.type = "retry_operation" /\ new.target = row.target
        /\ new.status = "failed" /\ new.attempts = row.attempts + 1 /\ new.lastAttemptAt = now
    BY <1>6, <2>1
  <2>3. FitsKind(r, new)
    BY <1>1, <2>2, Ids DEF FitsKind, ImmediateTypes
  <2>4. RowMoves(r)
    BY <1>1, <1>2, <1>8, <2>1, <2>2, <2>3 DEF RowMoves, Final, CanReclaim
  <2>5. ASSUME NEW e \in executions
        PROVE  e.op # r /\ (e.retry = r => ~ HoldsLease(rows[e.op], e.attempt, now))
    <3>1. e.op # r
      BY <1>1 DEF Ledger, Executing, RetriedTypes, PlannedTypes
    <3>2. ASSUME e.retry = r, HoldsLease(rows[e.op], e.attempt, now)
          PROVE  FALSE
      <4>1. HoldsLease(row, e.retryAttempt, now)
        BY <3>2, Ids DEF Ledger, Paired
      <4>2. row.leaseExpiresAt \in Nat
        BY <1>1 DEF Row
      <4>3. QED
        BY <1>2, <2>1, <4>1, <4>2 DEF HoldsLease, CanReclaim
    <3>3. QED
      BY <3>1, <3>2
  <2>6. QED
    BY <1>1, <1>3, <2>2, <2>4, <2>5, OneRowMoves
<1>11. QED
  BY <1>9, <1>10

(* Settling a row keeps all of it but its status. *)
SettledAs(row, new) ==
  /\ new \in Row /\ new.type = row.type /\ new.target = row.target
  /\ new.attempts = row.attempts /\ new.lastAttemptAt = row.lastAttemptAt
  /\ new.status \in {"succeeded", "failed"}

LEMMA SettledIs ==
  ASSUME NEW row \in Row, NEW b \in BOOLEAN
  PROVE  SettledAs(row, Succeeded(row)) /\ SettledAs(row, Failed(row, b))
<1>1. SettledAs(row, Succeeded(row))
  BY SucceededType DEF SettledAs
<1>2. SettledAs(row, Failed(row, b))
  BY FailedType DEF SettledAs
<1>3. QED
  BY <1>1, <1>2

LEMMA SettledMoves ==
  ASSUME Ledger, NEW id \in RowIds, IsOpen(rows[id]), SettledAs(rows[id], rows'[id])
  PROVE  RowMoves(id) /\ rows'[id] \in Row
<1>1. /\ FitsKind(id, rows[id]) /\ rows[id].lastAttemptAt <= now
      /\ rows[id].attempts \in Nat
  BY DEF Ledger, RowKinds, Tables, Row
<1>2. FitsKind(id, rows'[id])
  BY <1>1 DEF FitsKind, SettledAs, IsOpen, ImmediateTypes
<1>3. QED
  BY <1>1, <1>2 DEF RowMoves, SettledAs, IsOpen, Final

LEMMA RetryIsOpen ==
  ASSUME Ledger, NEW e \in executions, HoldsLeases(e)
  PROVE  /\ e.op \in RowIds /\ rows[e.op] \in Row /\ rows[e.op].type \in RetriedTypes
         /\ rows[e.op].status = "processing"
         /\ e.retry # NoOp =>
              /\ e.retry \in RowIds /\ e.retry # e.op /\ rows[e.retry] \in Row
              /\ rows[e.retry].type = "retry_operation" /\ rows[e.retry].status = "processing"
<1>1. /\ rows[e.op].type \in RetriedTypes /\ rows[e.op].status = "processing"
      /\ e.retry # NoOp => rows[e.retry].type = "retry_operation" /\ rows[e.retry].status = "processing"
  BY DEF Ledger, Executing, HoldsLeases, HoldsLease
<1>2. QED
  BY <1>1, ExecutionIds DEF RetriedTypes, PlannedTypes

LEMMA SettleLedger ==
  ASSUME Ledger, NEW e \in executions, NEW target, NEW retry, Settle(e, target, retry),
         SettledAs(rows[e.op], target),
         e.retry # NoOp => SettledAs(rows[e.retry], retry)
  PROVE  /\ Ledger' /\ RowsMove
         /\ rows'[e.op] = target
         /\ \A k \in RowIds \ {e.op, e.retry} : rows'[k] = rows[k]
<1>1. /\ HoldsLeases(e) /\ rows' = SettledRows(e, target, retry)
      /\ executions' = executions \ {e} /\ now' = now /\ rejected' = rejected
  BY DEF Settle
<1>2. /\ e.op \in RowIds /\ rows[e.op] \in Row /\ rows[e.op].type \in RetriedTypes
      /\ rows[e.op].status = "processing"
      /\ e.retry # NoOp =>
           /\ e.retry \in RowIds /\ e.retry # e.op /\ rows[e.retry] \in Row
           /\ rows[e.retry].type = "retry_operation" /\ rows[e.retry].status = "processing"
  BY <1>1, RetryIsOpen
<1>3. /\ rows'[e.op] = target
      /\ e.retry # NoOp => rows'[e.retry] = retry
      /\ \A k \in RowIds \ {e.op, e.retry} : rows'[k] = rows[k]
      /\ rows' = [k \in RowIds |-> rows'[k]]
  BY <1>1, <1>2 DEF SettledRows
<1>4. RowMoves(e.op) /\ rows'[e.op] \in Row
  BY <1>2, <1>3, SettledMoves DEF IsOpen
<1>5. e.retry # NoOp => RowMoves(e.retry) /\ rows'[e.retry] \in Row
  BY <1>2, <1>3, SettledMoves DEF IsOpen
<1>6. RowsMove /\ \A k \in RowIds : rows'[k] \in Row
  <2> SUFFICES ASSUME NEW k \in RowIds
               PROVE  RowMoves(k) /\ rows'[k] \in Row
    BY DEF RowsMove
  <2>1. CASE k \in {e.op, e.retry}
    BY <1>4, <1>5, <2>1, Ids
  <2>2. CASE k \notin {e.op, e.retry}
    BY <1>3, <2>2, StillRow DEF Ledger, Tables
  <2>3. QED
    BY <2>1, <2>2
<1>7. Tables'
  BY <1>1, <1>3, <1>6 DEF Ledger, Tables
<1>8. ASSUME NEW f \in executions, f # e
      PROVE  LeavesLiveRows(f)
  <2> SUFFICES ASSUME HoldsLease(rows'[f.op], f.attempt, now)
               PROVE  /\ rows'[f.op] = rows[f.op]
                      /\ f.retry # NoOp => rows'[f.retry] = rows[f.retry]
    BY DEF LeavesLiveRows
  <2>1. /\ f.op \in RowIds /\ rows[f.op].type \in RetriedTypes
    BY ExecutionIds DEF Ledger, Executing
  <2>2. f.op # e.op
    BY <1>3 DEF HoldsLease, SettledAs
  <2>3. e.retry # NoOp => f.op # e.retry
    BY <1>2, <2>1 DEF RetriedTypes, PlannedTypes
  <2>4. rows'[f.op] = rows[f.op]
    BY <1>3, <2>1, <2>2, <2>3, Ids
  <2>5. ASSUME f.retry # NoOp
        PROVE  rows'[f.retry] = rows[f.retry]
    <3>1. /\ f.retry \in RowIds /\ rows[f.retry].type = "retry_operation"
          /\ HoldsLease(rows[f.retry], f.retryAttempt, now)
      BY <2>4, <2>5, ExecutionIds DEF Ledger, Executing, Paired
    <3>2. f.retry # e.op
      BY <1>2, <3>1 DEF RetriedTypes, PlannedTypes
    <3>3. f.retry # e.retry
      BY <1>1, <1>8, <2>5, <3>1 DEF HoldsLeases, HoldsLease, Ledger, Unique, SharesAttempt
    <3>4. QED
      BY <1>3, <3>1, <3>2, <3>3
  <2>6. QED
    BY <2>4, <2>5
<1>9. Ledger'
  BY <1>1, <1>6, <1>7, <1>8, LedgerKept
<1>10. QED
  BY <1>3, <1>6, <1>9

LEMMA CancelLedger ==
  ASSUME Ledger, rows' = CancelledOpen(rows), UNCHANGED <<now, executions, rejected>>
  PROVE  /\ Ledger' /\ RowsMove
         /\ \A id \in RowIds : /\ ~ IsOpen(rows'[id])
                               /\ ~ IsOpen(rows[id]) => rows'[id] = rows[id]
<1>1. /\ \A id \in RowIds :
           rows'[id] = IF IsOpen(rows[id]) THEN Failed(rows[id], FALSE) ELSE rows[id]
      /\ rows' = [id \in RowIds |-> rows'[id]]
  BY DEF CancelledOpen, Ledger, Tables
<1>2. ASSUME NEW id \in RowIds
      PROVE  /\ RowMoves(id) /\ rows'[id] \in Row /\ ~ IsOpen(rows'[id])
             /\ ~ IsOpen(rows[id]) => rows'[id] = rows[id]
  <2>1. CASE IsOpen(rows[id])
    <3>1. SettledAs(rows[id], rows'[id])
      BY <1>1, <2>1, SettledIs DEF Ledger, Tables
    <3>2. QED
      BY <2>1, <3>1, SettledMoves DEF SettledAs, IsOpen
  <2>2. CASE ~ IsOpen(rows[id])
    BY <1>1, <2>2, StillRow DEF Ledger, Tables
  <2>3. QED
    BY <2>1, <2>2
<1>3. RowsMove
  BY <1>2 DEF RowsMove
<1>4. Tables'
  BY <1>1, <1>2 DEF Ledger, Tables
<1>5. \A e \in executions : LeavesLiveRows(e)
  BY <1>2, ExecutionIds DEF LeavesLiveRows, HoldsLease, IsOpen
<1>6. Ledger'
  BY <1>3, <1>4, <1>5, LedgerKept
<1>7. QED
  BY <1>2, <1>3, <1>6

LEMMA DropLedger ==
  ASSUME Ledger, UNCHANGED <<now, rows>>,
         executions' \subseteq executions, rejected' \subseteq rejected
  PROVE  Ledger' /\ RowsMove
<1>1. RowsMove
  BY StillRow DEF RowsMove
<1>2. Tables' /\ \A e \in executions' : LeavesLiveRows(e)
  BY DEF Ledger, Tables, LeavesLiveRows
<1>3. QED
  BY <1>1, <1>2, LedgerKept

LEMMA TickLedger ==
  ASSUME Ledger, Tick
  PROVE  Ledger' /\ RowsMove
<1>1. /\ now' = now + 1 /\ now' \in Times /\ now \in Nat
      /\ UNCHANGED <<rows, executions, rejected>>
  BY NowType DEF Tick, Ledger
<1>2. RowsMove
  BY <1>1, StillRow DEF RowsMove
<1>3. \A id \in RowIds : rows[id].lastAttemptAt \in Nat /\ rows[id].leaseExpiresAt \in Nat
  BY DEF Ledger, Tables, Row
<1>4. Tables'
  BY <1>1 DEF Ledger, Tables
<1>5. RowKinds'
  BY <1>1, <1>3 DEF Ledger, RowKinds, FitsKind
<1>6. Executing' /\ Unique'
  BY <1>1 DEF Ledger, Executing, Unique, SharesAttempt
<1>7. Paired'
  <2> SUFFICES ASSUME NEW e \in executions, HoldsLease(rows[e.op], e.attempt, now + 1), e.retry # NoOp
               PROVE  /\ HoldsLease(rows[e.retry], e.retryAttempt, now + 1)
                      /\ rows[e.retry].leaseExpiresAt = rows[e.op].leaseExpiresAt
    BY <1>1 DEF Paired
  <2>1. /\ e.op \in RowIds /\ rows[e.op].lastAttemptAt <= now
        /\ rows[e.op].leaseExpiresAt \in Nat /\ rows[e.op].lastAttemptAt \in Nat
    BY <1>3, ExecutionIds DEF Ledger, RowKinds
  <2>2. HoldsLease(rows[e.op], e.attempt, now)
    BY <1>1, <2>1 DEF HoldsLease
  <2>3. /\ HoldsLease(rows[e.retry], e.retryAttempt, now)
        /\ rows[e.retry].leaseExpiresAt = rows[e.op].leaseExpiresAt
    BY <2>2 DEF Ledger, Paired
  <2>4. rows[e.retry].lastAttemptAt \in Nat
    BY <1>3, ExecutionIds
  <2>5. QED
    BY <1>1, <2>1, <2>3, <2>4 DEF HoldsLease
<1>8. QED
  BY <1>2, <1>4, <1>5, <1>6, <1>7 DEF Ledger

-------------------------------------------------------------------------------
(* The Story: how the interview and the operations table agree.            *)

(* A report row appears when the interview stops being active, and the      *)
(* creation is open only while it is.                                        *)
NotYet ==
  /\ interview.status = "active" => rows[ReportOp] = NoRow
  /\ rows[CreateOp].status = "pending" => interview.status = "active"

Waits(i) == i.status \in {"active", "report_pending"}

(* An operation whose effect the interview holds succeeded, and one that     *)
(* succeeded without was stamped too late and closed the interview.          *)
EffectsAccounted ==
  \A op \in Ops :
    /\ op \in Effects(interview) => rows[op].type \in PlannedTypes /\ rows[op].status = "succeeded"
    /\ rows[op].type \in PlannedTypes /\ rows[op].status = "succeeded" =>
         op \in Effects(interview) \/ (~ Waits(interview) /\ StampedTooLate(rows[op]))

Story ==
  /\ interview \in Interview
  /\ Sound(interview)
  /\ NotYet
  /\ PendingHasItsRow
  /\ ReportStaysReachable
  /\ ClosedInterviewsAreQuiet
  /\ EffectsAccounted

Inv == Ledger /\ Story

NoneOpened ==
  \A op \in Ops : rows'[op].type \in PlannedTypes /\ IsOpen(rows'[op]) => rows'[op] = rows[op]

NoneSucceeded ==
  \A op \in Ops :
    rows'[op].type \in PlannedTypes /\ rows'[op].status = "succeeded" => rows'[op] = rows[op]

LEMMA PendingIds ==
  ASSUME Story, IsPending(interview)
  PROVE  /\ interview.pending.op \in Ops /\ interview.pending.op \in RowIds
         /\ interview.status = "active" /\ interview.phase = "processing"
         /\ rows[interview.pending.op].type \in PlannedTypes
         /\ rows[interview.pending.op].status = "processing"
         /\ MatchesRow(interview.pending, rows[interview.pending.op])
<1>1. interview.pending.op \in Ops
  BY DEF Story, Interview, Pending, IsPending
<1>2. interview.status = "active" /\ interview.phase = "processing"
  BY DEF Story, Sound, Phased
<1>3. MatchesRow(interview.pending, rows[interview.pending.op])
  BY DEF Story, PendingHasItsRow
<1>4. QED
  BY <1>1, <1>2, <1>3, Ids DEF MatchesRow, PlannedTypes

LEMMA PendingKept ==
  ASSUME Story, NoneOpened,
         interview'.pending = interview.pending, interview'.version = interview.version,
         IsPending(interview) => rows'[interview.pending.op] = rows[interview.pending.op]
  PROVE  PendingHasItsRow'
<1>1. PendingHasItsRow
  BY DEF Story
<1>2. IsPending(interview') => MatchesRow(interview.pending, rows[interview.pending.op])
  BY <1>1 DEF PendingHasItsRow, IsPending
<1>3. IsPending(interview') => MatchesRow(interview.pending, rows[interview.pending.op])'
  BY <1>2 DEF MatchesRow, IsPending
<1>4. \A op \in Ops :
        rows'[op].type \in PlannedTypes /\ IsOpen(rows'[op]) => interview'.pending.op = op
  BY <1>1 DEF NoneOpened, PendingHasItsRow
<1>5. QED
  BY <1>3, <1>4 DEF PendingHasItsRow, IsPending

LEMMA NothingPlannedOpen ==
  ASSUME Story, ~ IsPending(interview), NEW op \in Ops, rows[op].type \in PlannedTypes
  PROVE  ~ IsOpen(rows[op])
  BY Ids DEF Story, PendingHasItsRow, IsPending

LEMMA PendingIdle ==
  ASSUME Story, NoneOpened, ~ IsPending(interview), ~ IsPending(interview')
  PROVE  PendingHasItsRow'
  BY NothingPlannedOpen DEF NoneOpened, PendingHasItsRow

LEMMA ReportKept ==
  ASSUME Story, rows'[ReportOp] = rows[ReportOp],
         interview'.status = "report_pending" <=> interview.status = "report_pending",
         interview.status = "report_pending" =>
           /\ interview'.version = interview.version
           /\ interview'.reportKind = interview.reportKind
           /\ interview'.reportRequestedAt = interview.reportRequestedAt
  PROVE  ReportStaysReachable'
  BY DEF Story, ReportStaysReachable, ReportMatches

LEMMA NotYetKept ==
  ASSUME Story, rows'[ReportOp] = rows[ReportOp],
         interview'.status = "active" => interview.status = "active",
         rows'[CreateOp].status = "pending" =>
           rows[CreateOp].status = "pending" /\ interview'.status = "active"
  PROVE  NotYet'
  BY DEF Story, NotYet

LEMMA QuietKept ==
  ASSUME Ledger, RowsMove, Story,
         Waits(interview') \/ (/\ interview'.status = interview.status
                               /\ \A id \in RowIds : IsOpen(rows'[id]) => IsOpen(rows[id]))
  PROVE  ClosedInterviewsAreQuiet'
<1>1. CASE Waits(interview')
  BY <1>1 DEF ClosedInterviewsAreQuiet, Waits
<1>2. CASE /\ interview'.status = interview.status
           /\ \A id \in RowIds : IsOpen(rows'[id]) => IsOpen(rows[id])
  <2>1. \A id \in RowIds : IsOpen(rows'[id]) => IsOpen(rows[id]) /\ rows'[id].type = rows[id].type
    BY <1>2 DEF Ledger, RowKinds, FitsKind, RowsMove, RowMoves, IsOpen
  <2>2. QED
    BY <1>2, <2>1 DEF Story, ClosedInterviewsAreQuiet
<1>3. QED
  BY <1>1, <1>2

(* An effect, once in the interview, is accounted for whatever happens.    *)
LEMMA EffectsStay ==
  ASSUME Ledger, RowsMove, Story, NEW op \in Ops, op \in Effects(interview)
  PROVE  rows'[op].type \in PlannedTypes /\ rows'[op].status = "succeeded"
  BY Ids DEF Story, EffectsAccounted, RowsMove, RowMoves, Final

LEMMA EffectsKept ==
  ASSUME Ledger, RowsMove, Story, NoneSucceeded,
         Effects(interview') = Effects(interview),
         Waits(interview) \/ (~ Waits(interview') /\ interview'.lastActivity = interview.lastActivity)
  PROVE  EffectsAccounted'
<1>1. ASSUME NEW op \in Ops, rows'[op].type \in PlannedTypes, rows'[op].status = "succeeded"
      PROVE  op \in Effects(interview')
               \/ (~ Waits(interview') /\ rows'[op].createdAt > interview'.lastActivity + InactivityLimit)
  <2>1. rows'[op] = rows[op]
    BY <1>1 DEF NoneSucceeded
  <2>2. op \in Effects(interview) \/ (~ Waits(interview) /\ StampedTooLate(rows[op]))
    BY <1>1, <2>1 DEF Story, EffectsAccounted
  <2>3. QED
    BY <2>1, <2>2 DEF StampedTooLate
<1>2. \A op \in Effects(interview') : rows'[op].type \in PlannedTypes /\ rows'[op].status = "succeeded"
  BY EffectsStay DEF Effects
<1>3. QED
  BY <1>1, <1>2 DEF EffectsAccounted, StampedTooLate, Waits, Effects

(* Steps that leave the interview and the rows of answers alone.           *)
OtherRowsOnly ==
  /\ \A op \in Ops : \/ rows'[op] = rows[op]
                     \/ /\ rows[op].type \notin PlannedTypes
                        /\ rows'[op].type \in PlannedTypes => rows'[op].status = "failed"
  /\ rows'[CreateOp].status = "pending" => rows[CreateOp].status = "pending"

LEMMA OthersOnly ==
  ASSUME OtherRowsOnly
  PROVE  NoneOpened /\ NoneSucceeded
  BY DEF OtherRowsOnly, NoneOpened, NoneSucceeded, IsOpen

LEMMA IdleStory ==
  ASSUME Ledger, RowsMove, Story, interview' = interview, OtherRowsOnly,
         rows'[ReportOp] = rows[ReportOp],
         Waits(interview) \/ \A id \in RowIds : IsOpen(rows'[id]) => IsOpen(rows[id])
  PROVE  Story'
<1>1. PendingHasItsRow'
  <2>1. IsPending(interview) => rows'[interview.pending.op] = rows[interview.pending.op]
    BY PendingIds DEF OtherRowsOnly
  <2>2. QED
    BY <2>1, OthersOnly, PendingKept
<1>2. ReportStaysReachable'
  BY ReportKept
<1>3. NotYet'
  BY NotYetKept DEF OtherRowsOnly, Story, NotYet
<1>4. ClosedInterviewsAreQuiet'
  BY QuietKept
<1>5. EffectsAccounted'
  BY EffectsKept, OthersOnly
<1>6. QED
  BY <1>1, <1>2, <1>3, <1>4, <1>5 DEF Story

-------------------------------------------------------------------------------
(* The Story, action by action.  First the steps that leave the interview.  *)

LEMMA FinalizeCreationStory ==
  ASSUME Ledger, RowsMove, Story, FinalizeCreation
  PROVE  Story'
<1>1. /\ \A k \in RowIds \ {CreateOp} : rows'[k] = rows[k]
      /\ interview' = interview /\ rows[CreateOp].status = "pending"
  BY DEF FinalizeCreation, Ledger, Tables
<1>2. Waits(interview)
  BY <1>1 DEF Story, NotYet, Waits
<1>3. OtherRowsOnly /\ rows'[ReportOp] = rows[ReportOp]
  BY <1>1, Ids DEF OtherRowsOnly
<1>4. QED
  BY <1>1, <1>2, <1>3, IdleStory

LEMMA RejectCommandStory ==
  ASSUME Ledger, RowsMove, Story, NEW c \in ClientCommand, RejectCommand(c)
  PROVE  Story'
<1>1. /\ c.op \in Ops /\ rows[c.op].status = "none" /\ Mutable
      /\ rows' = [rows EXCEPT ![c.op] = Failed(NewRow(c), FALSE)] /\ interview' = interview
  BY DEF RejectCommand, Submittable, ClientCommand
<1>2. /\ rows'[c.op].status = "failed"
      /\ \A k \in RowIds \ {c.op} : rows'[k] = rows[k]
  BY <1>1, Ids, NewRowType, FailedType DEF Ledger, Tables
<1>3. rows[c.op].type \notin PlannedTypes
  BY <1>1, Ids, FreeRow DEF PlannedTypes
<1>4. OtherRowsOnly /\ rows'[ReportOp] = rows[ReportOp]
  BY <1>1, <1>2, <1>3, Ids DEF OtherRowsOnly
<1>5. QED
  BY <1>1, <1>4, IdleStory DEF Mutable, Waits

LEMMA RequestRetryStory ==
  ASSUME Ledger, RowsMove, Story, NEW op \in Ops, NEW target \in RowIds, NEW v \in Nat, NEW at \in Times,
         RequestRetry(op, target, v, at)
  PROVE  Story'
<1>1. /\ rows[op].status = "none" /\ Mutable /\ interview' = interview
      /\ rows' = [rows EXCEPT ![op] = Created("retry_operation", v, at, target)]
  BY DEF RequestRetry
<1>2. /\ rows'[op].type = "retry_operation"
      /\ \A k \in RowIds \ {op} : rows'[k] = rows[k]
  BY <1>1, Ids, CreatedFields DEF Ledger, Tables
<1>3. rows[op].type \notin PlannedTypes
  BY <1>1, Ids, FreeRow DEF PlannedTypes
<1>4. OtherRowsOnly /\ rows'[ReportOp] = rows[ReportOp]
  BY <1>2, <1>3, Ids DEF OtherRowsOnly, PlannedTypes
<1>5. QED
  BY <1>1, <1>4, IdleStory DEF Mutable, Waits

LEMMA FailRetryStory ==
  ASSUME Ledger, RowsMove, Story, NEW r \in Ops, FailRetry(r)
  PROVE  Story'
<1>1. /\ rows[r].type = "retry_operation" /\ rows[r] \in Row /\ interview' = interview
      /\ \A k \in RowIds \ {r} : rows'[k] = rows[k]
  BY Ids DEF FailRetry, Ledger, Tables, RowKinds
<1>2. now \in Nat /\ Expiry \in Nat
  BY NowType DEF Ledger
<1>3. /\ Failed(Claimed(rows[r], now, Expiry), FALSE).status = "failed"
      /\ FailedUnclaimed(rows[r], now).status = "failed"
  <2>1. Claimed(rows[r], now, Expiry) \in Row
    BY <1>1, <1>2, ClaimedType
  <2>2. Failed(Claimed(rows[r], now, Expiry), FALSE).status = "failed"
    BY <2>1, FailedType
  <2>3. QED
    BY <1>1, <1>2, <2>2, FailedUnclaimedType
<1>4. IsOpen(rows'[r]) => IsOpen(rows[r])
  BY <1>3, Ids DEF FailRetry, Ledger, Tables, IsOpen
<1>5. rows'[r].type = "retry_operation"
  BY <1>1, Ids DEF RowsMove, RowMoves
<1>6. OtherRowsOnly /\ rows'[ReportOp] = rows[ReportOp]
  BY <1>1, <1>5, Ids DEF OtherRowsOnly, PlannedTypes
<1>7. QED
  BY <1>1, <1>4, <1>6, IdleStory

LEMMA StillStory ==
  ASSUME Ledger, RowsMove, Story, interview' = interview, rows' = rows
  PROVE  Story'
  BY IdleStory DEF OtherRowsOnly

-------------------------------------------------------------------------------
(* Client commands. *)

LEMMA AcceptFields ==
  ASSUME NEW i \in Interview, NEW c, NEW at
  PROVE  LET a == AcceptRetriedOperation(i, c, at)
             b == AcceptOperation(i, c, at)
         IN  /\ a.status = i.status /\ a.version = i.version
             /\ b.status = i.status /\ b.version = i.version + 1
             /\ b.pending = a.pending
             /\ a.pending = [op |-> c.op, kind |-> OperationKind(c), position |-> i.position,
                             acceptedAt |-> at, previous |-> RequiredPhase(c)]
  BY DEF AcceptRetriedOperation, AcceptOperation, Interview

(* A row that is claimed together with the acceptance of its command.      *)
LEMMA AcceptedMatches ==
  ASSUME NEW c \in PlannedCommand, interview'.version = c.expectedVersion + 1,
         NEW at,
         interview'.pending = [op |-> c.op, kind |-> OperationKind(c), position |-> interview.position,
                               acceptedAt |-> at, previous |-> RequiredPhase(c)],
         NEW row, row.status = "processing", row.type = c.type,
         row.expectedVersion = c.expectedVersion, at \in {row.createdAt, row.lastAttemptAt}
  PROVE  MatchesRow(interview.pending, row)'
  BY DEF MatchesRow, OperationKind, RequiredPhase, IsAnswer, PlannedCommand, PlannedTypes

LEMMA AcceptPlannedStory ==
  ASSUME Ledger, RowsMove, Story, NEW c \in ClientCommand, AcceptPlanned(c)
  PROVE  Story'
<1>1. /\ c.op \in Ops /\ c.op \in RowIds /\ c \in PlannedCommand /\ c.type \in PlannedTypes
      /\ c.expectedVersion = interview.version /\ ~ IsPending(interview)
      /\ interview' = AcceptOperation(interview, c, c.occurredAt)
      /\ rows' = [rows EXCEPT ![c.op] = NewRow(c)]
      /\ FitsPhase(interview, c) /\ interview.status = "active"
      /\ rows[CreateOp].status # "pending"
  <2>1. c.op \in Ops /\ c.op \in RowIds /\ c \in PlannedCommand /\ c.type \in PlannedTypes
    BY Ids, PlannedCommandType DEF AcceptPlanned, ClientCommand
  <2>2. /\ interview' = AcceptOperation(interview, c, c.occurredAt)
        /\ rows' = [rows EXCEPT ![c.op] = NewRow(c)]
        /\ rows[CreateOp].status # "pending"
        /\ Admits(interview, c.expectedVersion, c.occurredAt) /\ CanHandle(c)
    BY DEF AcceptPlanned, Admitted
  <2>3. CanPlan(interview, c)
    BY <2>1, <2>2 DEF CanHandle, PlannedTypes
  <2>4. QED
    BY <2>1, <2>2, <2>3 DEF Admits, CanPlan, FitsPhase
<1>2. c.occurredAt \in Times
  BY DEF ClientCommand
<1>3. interview \in Interview /\ Sound(interview)
  BY DEF Story
<1>4. interview' \in Interview /\ Sound(interview')
  BY <1>1, <1>2, <1>3, AcceptType, AcceptSound
<1>5. /\ interview'.status = "active" /\ interview'.version = interview.version + 1
      /\ interview'.pending = [op |-> c.op, kind |-> OperationKind(c), position |-> interview.position,
                               acceptedAt |-> c.occurredAt, previous |-> RequiredPhase(c)]
  BY <1>1, <1>3, AcceptFields
<1>6. /\ rows'[c.op].type = c.type /\ rows'[c.op].status = "processing"
      /\ rows'[c.op].expectedVersion = c.expectedVersion /\ rows'[c.op].createdAt = c.occurredAt
      /\ \A k \in RowIds \ {c.op} : rows'[k] = rows[k]
  BY <1>1, NewRowType DEF Ledger, Tables
<1>7. PendingHasItsRow'
  <2>1. MatchesRow(interview.pending, rows[c.op])'
    BY <1>1, <1>5, <1>6, AcceptedMatches
  <2>2. \A op \in Ops : rows'[op].type \in PlannedTypes /\ IsOpen(rows'[op]) => op = c.op
    BY <1>1, <1>6, Ids, NothingPlannedOpen
  <2>3. QED
    BY <1>5, <2>1, <2>2 DEF PendingHasItsRow
<1>8. ReportStaysReachable' /\ NotYet'
  BY <1>1, <1>5, <1>6, Ids, ReportKept, NotYetKept
<1>9. ClosedInterviewsAreQuiet'
  BY <1>5, QuietKept DEF Waits
<1>10. EffectsAccounted'
  <2>1. NoneSucceeded
    BY <1>6, Ids DEF NoneSucceeded
  <2>2. Effects(interview') = Effects(interview)
    BY <1>1, <1>3, StillEffects
  <2>3. QED
    BY <1>1, <2>1, <2>2, EffectsKept DEF Waits
<1>11. QED
  BY <1>4, <1>7, <1>8, <1>9, <1>10 DEF Story

LEMMA CloseFields ==
  ASSUME NEW i \in Interview
  PROVE  /\ Abandon(i).status = "abandoned" /\ ~ IsPending(Abandon(i))
         /\ Abandon(i).lastActivity = i.lastActivity
  BY DEF Abandon, CloseAbandoned, Interview, IsPending, NoPending

LEMMA ReportFields ==
  ASSUME NEW i \in Interview, NEW kind \in ReportKinds, NEW at
  PROVE  LET r == RequestReport(i, kind, at)
         IN  /\ r.status = "report_pending" /\ ~ IsPending(r)
             /\ r.version = i.version + 1 /\ r.reportKind = kind /\ r.reportRequestedAt = at
  BY DEF RequestReport, Interview, IsPending, NoPending

LEMMA ContinueFields ==
  ASSUME NEW i \in Interview, NEW at \in Times, i.status = "active", ~ IsPending(i)
  PROVE  LET r == Continue(i, at)
         IN  /\ r.status \in {"active", "report_pending"} /\ ~ IsPending(r)
             /\ r.status = "report_pending" =>
                  r.version = i.version + 1 /\ r.reportKind = "complete" /\ r.reportRequestedAt = at
  BY DEF Continue, RequestReport, WithCurrentQuestion, Interview, IsPending, NoPending

(* What an immediate command makes of the interview. *)
Immediately(next, at) ==
  /\ next \in Interview /\ Sound(next) /\ ~ IsPending(next)
  /\ Effects(next) = Effects(interview)
  /\ next.status \in {"active", "report_pending", "abandoned"}
  /\ next.status = "report_pending" =>
       /\ next.reportKind # "none" /\ next.reportRequestedAt = at

LEMMA HandledFacts ==
  ASSUME Story, NEW c \in ClientCommand, c.type \in ImmediateTypes, CanHandle(c), ~ IsPending(interview)
  PROVE  interview.status = "active" /\ Immediately(Handled(c), c.occurredAt)
<1> DEFINE at == c.occurredAt
<1>1. interview \in Interview /\ Sound(interview) /\ at \in Times
  BY DEF Story, ClientCommand
<1> HIDE DEF at
<1>2. ASSUME NEW o \in {"unknown", "skipped"}, CanRecordUnevaluated(interview)
      PROVE  interview.status = "active" /\ Immediately(RecordUnevaluated(interview, o, at), at)
  <2> DEFINE r == RecordUnevaluated(interview, o, at)
  <2>1. r \in Interview /\ Sound(r) /\ Effects(r) = Effects(interview)
    BY <1>1, <1>2, RecordUnevaluatedType, RecordUnevaluatedSound, RecordUnevaluatedEffects
  <2>2. r.status = "active" /\ r.pending = interview.pending /\ interview.status = "active"
    BY <1>1, <1>2 DEF CanRecordUnevaluated, RecordUnevaluated, WithCurrentQuestion, Interview
  <2> HIDE DEF r
  <2>3. QED
    BY <2>1, <2>2 DEF Immediately, IsPending, r
<1>3. ASSUME CanContinue(interview)
      PROVE  interview.status = "active" /\ Immediately(Continue(interview, at), at)
  <2> DEFINE r == Continue(interview, at)
  <2>1. r \in Interview /\ Sound(r) /\ Effects(r) = Effects(interview)
    BY <1>1, <1>3, ContinueType, ContinueSound, ContinueEffects
  <2>2. interview.status = "active"
    BY <1>3 DEF CanContinue
  <2>3. /\ r.status \in {"active", "report_pending"} /\ ~ IsPending(r)
        /\ r.status = "report_pending" =>
             r.version = interview.version + 1 /\ r.reportKind = "complete" /\ r.reportRequestedAt = at
    BY <1>1, <2>2, ContinueFields
  <2> HIDE DEF r
  <2>4. QED
    BY <2>1, <2>2, <2>3 DEF Immediately, r
<1>4. ASSUME CanEndEarly(interview)
      PROVE  interview.status = "active" /\ Immediately(EndEarly(interview, at), at)
  <2> DEFINE r == EndEarly(interview, at)
  <2>1. r \in Interview /\ Sound(r) /\ Effects(r) = Effects(interview)
    BY <1>1, <1>4, RequestReportType, EndEarlySound, StillEffects DEF EndEarly, ReportKinds
  <2>2. interview.status = "active"
    BY <1>4 DEF CanEndEarly
  <2>3. /\ r.status = "report_pending" /\ ~ IsPending(r)
        /\ r.reportKind = "incomplete" /\ r.reportRequestedAt = at
    BY <1>1, ReportFields DEF EndEarly, ReportKinds
  <2> HIDE DEF r
  <2>4. QED
    BY <2>1, <2>2, <2>3 DEF Immediately, r
<1>5. ASSUME interview.status = "active"
      PROVE  Immediately(Abandon(interview), at)
  BY <1>1, <1>5, CloseType, CloseSound, CloseFields, StillEffects DEF Immediately
<1>6. CASE c.type = "mark_question_unknown"
  BY <1>2, <1>6 DEF CanHandle, Handled, PlannedTypes, at
<1>7. CASE c.type = "skip_question"
  BY <1>2, <1>7 DEF CanHandle, Handled, PlannedTypes, at
<1>8. CASE c.type = "continue_interview"
  BY <1>3, <1>8 DEF CanHandle, Handled, PlannedTypes, at
<1>9. CASE c.type = "end_interview_early"
  BY <1>4, <1>9 DEF CanHandle, Handled, PlannedTypes, at
<1>10. CASE c.type = "abandon_interview"
  BY <1>5, <1>10 DEF CanHandle, Handled, PlannedTypes, at
<1>11. QED
  BY <1>6, <1>7, <1>8, <1>9, <1>10 DEF ImmediateTypes

(* With nothing pending, only retry commands are open on an active interview. *)
LEMMA OnlyRetriesOpen ==
  ASSUME Ledger, Story, interview.status = "active", ~ IsPending(interview),
         rows[CreateOp].status # "pending"
  PROVE  \A id \in RowIds : IsOpen(rows[id]) => rows[id].type = "retry_operation"
<1>1. \A op \in Ops : rows[op].type \in PlannedTypes => ~ IsOpen(rows[op])
  BY NothingPlannedOpen
<1>2. ~ IsOpen(rows[ReportOp])
  BY DEF Story, NotYet, NoRow, IsOpen
<1>3. \A id \in RowIds : FitsKind(id, rows[id])
  BY DEF Ledger, RowKinds
<1>4. QED
  BY <1>1, <1>2, <1>3, Ids DEF RowIds, FitsKind, IsOpen, ProgressTypes

LEMMA HandleImmediateStory ==
  ASSUME Ledger, RowsMove, Story, NEW c \in ClientCommand, HandleImmediate(c)
  PROVE  Story'
<1>1. /\ c.op \in Ops /\ c.type \in ImmediateTypes /\ rows[c.op].status = "none"
      /\ ~ IsPending(interview) /\ CanHandle(c) /\ rows[CreateOp].status # "pending"
      /\ interview' = Handled(c) /\ interview'.status # "report_pending"
      /\ rows' = [rows EXCEPT ![c.op] = Succeeded(NewRow(c))]
  BY DEF HandleImmediate, Submittable, Admitted, Admits, ClientCommand
<1>2. interview.status = "active" /\ Immediately(interview', c.occurredAt)
  BY <1>1, HandledFacts
<1>3. /\ rows'[c.op].type = c.type /\ rows'[c.op].status = "succeeded"
      /\ \A k \in RowIds \ {c.op} : rows'[k] = rows[k]
  BY <1>1, Ids, NewRowType, SucceededType DEF Ledger, Tables
<1>4. NoneOpened /\ NoneSucceeded /\ rows'[ReportOp] = rows[ReportOp]
      /\ rows'[CreateOp] = rows[CreateOp]
  BY <1>1, <1>3, Ids DEF NoneOpened, NoneSucceeded, ImmediateTypes, PlannedTypes
<1>5. PendingHasItsRow'
  BY <1>1, <1>2, <1>4, PendingIdle DEF Immediately
<1>6. ReportStaysReachable' /\ NotYet'
  BY <1>1, <1>2, <1>4, ReportKept, NotYetKept
<1>7. ClosedInterviewsAreQuiet'
  <2>1. CASE interview'.status = "active"
    BY <2>1, QuietKept DEF Waits
  <2>2. CASE interview'.status = "abandoned"
    <3>1. \A id \in RowIds : IsOpen(rows'[id]) => rows'[id].type = "retry_operation"
      BY <1>1, <1>2, <1>3, OnlyRetriesOpen DEF IsOpen
    <3>2. QED
      BY <2>2, <3>1 DEF ClosedInterviewsAreQuiet
  <2>3. QED
    BY <1>1, <1>2, <2>1, <2>2 DEF Immediately
<1>8. EffectsAccounted'
  BY <1>2, <1>4, EffectsKept DEF Immediately, Waits
<1>9. QED
  BY <1>2, <1>5, <1>6, <1>7, <1>8 DEF Story, Immediately

LEMMA HandleReportRequestStory ==
  ASSUME Ledger, RowsMove, Story, NEW c \in ClientCommand, HandleReportRequest(c)
  PROVE  Story'
<1> DEFINE report == Created("generate_report", interview'.version, c.occurredAt, NoOp)
<1>1. /\ c.op \in Ops /\ c.type \in ImmediateTypes /\ rows[c.op].status = "none"
      /\ ~ IsPending(interview) /\ CanHandle(c) /\ rows[CreateOp].status # "pending"
      /\ interview' = Handled(c) /\ interview'.status = "report_pending"
      /\ rows' = [rows EXCEPT ![c.op] = Succeeded(NewRow(c)),
                              ![ReportOp] = Claimed(report, now, Expiry)]
  BY DEF HandleReportRequest, Submittable, Admitted, Admits, ClientCommand
<1>2. interview.status = "active" /\ Immediately(interview', c.occurredAt)
  BY <1>1, HandledFacts
<1>3. interview'.version \in Nat /\ c.occurredAt \in Times /\ now \in Nat /\ Expiry \in Nat
  BY <1>2, NowType DEF Immediately, Interview, ClientCommand, Ledger
<1>4. report \in Row /\ report.expectedVersion = interview'.version /\ report.createdAt = c.occurredAt
  BY <1>3, CreatedType, CreatedFields DEF OperationTypes
<1> HIDE DEF report
<1>5. /\ Claimed(report, now, Expiry).status = "processing"
      /\ Claimed(report, now, Expiry).expectedVersion = interview'.version
      /\ Claimed(report, now, Expiry).createdAt = c.occurredAt
  BY <1>3, <1>4, ClaimedFields
<1>6. /\ rows'[c.op].type = c.type
      /\ rows'[ReportOp] = Claimed(report, now, Expiry)
      /\ \A k \in RowIds \ {c.op, ReportOp} : rows'[k] = rows[k]
  BY <1>1, Ids, NewRowType, SucceededType DEF Ledger, Tables
<1>7. NoneOpened /\ NoneSucceeded /\ rows'[CreateOp] = rows[CreateOp]
  BY <1>1, <1>6, Ids DEF NoneOpened, NoneSucceeded, ImmediateTypes, PlannedTypes
<1>8. PendingHasItsRow'
  BY <1>1, <1>2, <1>7, PendingIdle DEF Immediately
<1>9. ReportStaysReachable'
  BY <1>1, <1>2, <1>5, <1>6 DEF ReportStaysReachable, ReportMatches, Immediately, IsOpen
<1>10. NotYet' /\ ClosedInterviewsAreQuiet'
  BY <1>1, <1>7 DEF NotYet, ClosedInterviewsAreQuiet
<1>11. EffectsAccounted'
  BY <1>2, <1>7, EffectsKept DEF Immediately, Waits
<1>12. QED
  BY <1>2, <1>8, <1>9, <1>10, <1>11 DEF Story, Immediately

LEMMA HandleExpiredStory ==
  ASSUME Ledger, RowsMove, Story, NEW c \in ClientCommand, HandleExpired(c)
  PROVE  Story'
<1>1. /\ c.op \in Ops /\ rows[c.op].status = "none" /\ c.occurredAt \in Times
      /\ ~ IsPending(interview) /\ rows[CreateOp].status # "pending"
      /\ IsExpired(interview, c.occurredAt) /\ interview.status = "active"
      /\ interview' = Abandon(interview)
      /\ rows' = [rows EXCEPT ![c.op] = Succeeded(NewRow(c))]
  BY DEF HandleExpired, Submittable, IsExpired, ClientCommand
<1>2. interview \in Interview /\ Sound(interview)
  BY DEF Story
<1>3. /\ interview' \in Interview /\ Sound(interview')
      /\ interview'.status = "abandoned" /\ ~ IsPending(interview')
      /\ interview'.lastActivity = interview.lastActivity
      /\ Effects(interview') = Effects(interview)
  BY <1>1, <1>2, CloseType, CloseSound, CloseFields, StillEffects
<1>4. /\ rows'[c.op].status = "succeeded" /\ rows'[c.op].createdAt = c.occurredAt
      /\ \A k \in RowIds \ {c.op} : rows'[k] = rows[k]
  BY <1>1, Ids, NewRowType, SucceededType DEF Ledger, Tables
<1>5. NoneOpened /\ rows'[ReportOp] = rows[ReportOp] /\ rows'[CreateOp] = rows[CreateOp]
  BY <1>1, <1>4, Ids DEF NoneOpened, IsOpen
<1>6. PendingHasItsRow'
  BY <1>1, <1>3, <1>5, PendingIdle
<1>7. ReportStaysReachable' /\ NotYet'
  BY <1>1, <1>3, <1>5, ReportKept, NotYetKept
<1>8. ClosedInterviewsAreQuiet'
  <2>1. \A id \in RowIds : IsOpen(rows'[id]) => rows'[id].type = "retry_operation"
    BY <1>1, <1>4, OnlyRetriesOpen DEF IsOpen
  <2>2. QED
    BY <1>3, <2>1 DEF ClosedInterviewsAreQuiet
<1>9. StampedTooLate(rows[c.op])'
  <2>1. interview.lastActivity \in Nat /\ c.occurredAt \in Nat /\ InactivityLimit \in Nat
    BY <1>1, <1>2, InterviewAssumption DEF Interview
  <2>2. QED
    BY <1>1, <1>3, <1>4, <2>1 DEF StampedTooLate, IsExpired
<1>10. EffectsAccounted'
  <2>1. \A op \in Ops : op \in Effects(interview') =>
          rows'[op].type \in PlannedTypes /\ rows'[op].status = "succeeded"
    BY <1>3, EffectsStay
  <2>2. \A op \in Ops \ {c.op} : rows'[op].type \in PlannedTypes /\ rows'[op].status = "succeeded" =>
          op \in Effects(interview')
    BY <1>1, <1>3, <1>4, Ids DEF Story, EffectsAccounted, Waits
  <2>3. QED
    BY <1>3, <1>9, <2>1, <2>2 DEF EffectsAccounted, Waits
<1>11. QED
  BY <1>3, <1>6, <1>7, <1>8, <1>10 DEF Story

-------------------------------------------------------------------------------
(* Retry acceptance. *)

LEMMA RefreshFields ==
  ASSUME NEW i \in Interview, NEW at
  PROVE  /\ Refresh(i, at).status = i.status /\ Refresh(i, at).version = i.version
         /\ Refresh(i, at).pending = [i.pending EXCEPT !.acceptedAt = at]
         /\ RefreshReportRetry(i, at) = [i EXCEPT !.lastActivity = at]
  BY DEF Refresh, RefreshReportRetry, Interview

LEMMA CommandOfFields ==
  ASSUME NEW id
  PROVE  /\ CommandOf(id).type = rows[id].type /\ CommandOf(id).op = id
         /\ CommandOf(id).expectedVersion = rows[id].expectedVersion
         /\ CommandOf(id).occurredAt = rows[id].createdAt
  BY DEF CommandOf, Command

(* What the repository readmits, and what it makes of the interview.       *)
LEMMA RetryAdmits ==
  ASSUME Ledger, Story, NEW r \in Ops, AcceptRetry(r)
  PROVE  LET id == rows[r].target
         IN  \/ /\ id = ReportOp /\ interview.status = "report_pending"
                /\ ReportMatches /\ interview' = RefreshReportRetry(interview, now)
             \/ /\ id \in Ops /\ rows[id].type \in PlannedTypes /\ rows[id].status = "failed"
                /\ CanRetry(interview, CommandOf(id), now)
                /\ interview' = AcceptRetriedOperation(interview, CommandOf(id), now)
             \/ /\ id \in Ops /\ rows[id].type \in PlannedTypes /\ rows[id].status = "processing"
                /\ CanRefresh(interview, id, now)
                /\ interview' = Refresh(interview, now)
<1> DEFINE id == rows[r].target
<1>1. /\ id \in RowIds /\ rows[id].type \in RetriedTypes
      /\ CanRetryFailed(rows[id]) \/ CanReclaim(rows[id], now)
  BY RetryRows
<1>2. /\ interview' = Readmitted(id)
      /\ IF rows[id].type = "generate_report"
         THEN ReportMatches /\ CanRefreshReportRetry(interview, now)
         ELSE IF rows[id].status = "failed"
              THEN CanRetry(interview, CommandOf(id), now)
              ELSE CanRefresh(interview, id, now)
  BY DEF AcceptRetry, RetryAdmitted
<1> HIDE DEF id
<1>3. FitsKind(id, rows[id])
  BY <1>1 DEF Ledger, RowKinds
<1>4. CASE rows[id].type = "generate_report"
  <2>1. id = ReportOp
    BY <1>1, <1>3, <1>4, Ids DEF FitsKind, RowIds, ProgressTypes, PlannedTypes, ImmediateTypes
  <2>2. QED
    BY <1>2, <1>4, <2>1 DEF ReportMatches, Readmitted, id
<1>5. CASE rows[id].type \in PlannedTypes
  <2>1. id \in Ops /\ id # ReportOp
    BY <1>1, <1>3, <1>5, Ids DEF FitsKind, RowIds, PlannedTypes
  <2>2. rows[id].type # "generate_report"
    BY <1>5 DEF PlannedTypes
  <2>3. rows[id].status \in {"failed", "processing"}
    BY <1>1 DEF CanRetryFailed, CanReclaim
  <2>4. QED
    BY <1>2, <1>5, <2>1, <2>2, <2>3 DEF Readmitted, id
<1>6. QED
  BY <1>1, <1>4, <1>5 DEF RetriedTypes

(* The rows of an accepted retry, away from its target.                    *)
LEMMA RetriedRows ==
  ASSUME Ledger, RowsMove, NEW r \in Ops, AcceptRetry(r), NEW id, id = rows[r].target
  PROVE  /\ id # r /\ id \in RowIds /\ rows'[r].type = "retry_operation"
         /\ rows'[id].type = rows[id].type /\ rows'[id].status = "processing"
         /\ rows'[id].expectedVersion = rows[id].expectedVersion
         /\ rows'[id].createdAt = rows[id].createdAt /\ rows'[id].lastAttemptAt = now
         /\ \A k \in RowIds \ {r, id} : rows'[k] = rows[k]
<1>1. /\ id \in RowIds /\ id # r /\ rows[r].type = "retry_operation"
      /\ rows'[id] = Claimed(rows[id], now, Expiry)
      /\ \A k \in RowIds \ {r, id} : rows'[k] = rows[k]
  BY RetryRows
<1>2. /\ rows[id] \in Row /\ now \in Nat /\ Expiry \in Nat
  BY <1>1, NowType DEF Ledger, Tables
<1>3. /\ rows'[id].type = rows[id].type /\ rows'[id].status = "processing"
      /\ rows'[id].expectedVersion = rows[id].expectedVersion
      /\ rows'[id].createdAt = rows[id].createdAt /\ rows'[id].lastAttemptAt = now
  BY <1>1, <1>2, ClaimedFields
<1>4. rows'[r].type = "retry_operation"
  BY <1>1, Ids DEF RowsMove, RowMoves
<1>5. QED
  BY <1>1, <1>3, <1>4

LEMMA AcceptRetryStory ==
  ASSUME Ledger, RowsMove, Story, NEW r \in Ops, AcceptRetry(r),
         NEW id, id = rows[r].target
  PROVE  Story'
<1>1. /\ id # r /\ id \in RowIds /\ rows'[r].type = "retry_operation"
      /\ rows'[id].type = rows[id].type /\ rows'[id].status = "processing"
      /\ rows'[id].expectedVersion = rows[id].expectedVersion
      /\ rows'[id].createdAt = rows[id].createdAt /\ rows'[id].lastAttemptAt = now
      /\ \A k \in RowIds \ {r, id} : rows'[k] = rows[k]
  BY RetriedRows
<1>2. interview \in Interview /\ Sound(interview) /\ now \in Times
  BY DEF Story, Ledger, Tables
<1>3. \/ /\ id = ReportOp /\ interview.status = "report_pending"
         /\ ReportMatches /\ interview' = RefreshReportRetry(interview, now)
      \/ /\ id \in Ops /\ rows[id].type \in PlannedTypes /\ rows[id].status = "failed"
         /\ CanRetry(interview, CommandOf(id), now)
         /\ interview' = AcceptRetriedOperation(interview, CommandOf(id), now)
      \/ /\ id \in Ops /\ rows[id].type \in PlannedTypes /\ rows[id].status = "processing"
         /\ CanRefresh(interview, id, now)
         /\ interview' = Refresh(interview, now)
  BY RetryAdmits
<1>4. NoneSucceeded
  BY <1>1, Ids DEF NoneSucceeded, PlannedTypes
<1>5. CASE /\ id = ReportOp /\ interview.status = "report_pending"
           /\ ReportMatches /\ interview' = RefreshReportRetry(interview, now)
  <2>1. interview' = [interview EXCEPT !.lastActivity = now]
    BY <1>2, <1>5, RefreshFields
  <2>2. /\ interview'.status = "report_pending" /\ interview'.pending = interview.pending
        /\ interview'.version = interview.version /\ interview'.reportKind = interview.reportKind
        /\ interview'.reportRequestedAt = interview.reportRequestedAt
    BY <1>2, <1>5, <2>1 DEF Interview
  <2>3. interview' \in Interview /\ Sound(interview') /\ Effects(interview') = Effects(interview)
    BY <1>2, <1>5, RefreshType, RefreshSound, StillEffects
  <2>4. ~ IsPending(interview) /\ ~ IsPending(interview')
    BY <1>5, <2>2, PendingIds DEF IsPending
  <2>5. NoneOpened
    BY <1>1, <1>5, Ids DEF NoneOpened, PlannedTypes
  <2>6. PendingHasItsRow'
    BY <2>4, <2>5, PendingIdle
  <2>7. ReportStaysReachable'
    BY <1>1, <1>5, <2>2 DEF ReportStaysReachable, ReportMatches
  <2>8. NotYet' /\ ClosedInterviewsAreQuiet'
    BY <1>1, <1>5, <2>2, Ids DEF Story, NotYet, ClosedInterviewsAreQuiet
  <2>9. EffectsAccounted'
    BY <1>4, <1>5, <2>3, EffectsKept DEF Waits
  <2>10. QED
    BY <2>3, <2>6, <2>7, <2>8, <2>9 DEF Story
<1>6. CASE /\ id \in Ops /\ rows[id].type \in PlannedTypes /\ rows[id].status = "failed"
           /\ CanRetry(interview, CommandOf(id), now)
           /\ interview' = AcceptRetriedOperation(interview, CommandOf(id), now)
  <2> DEFINE c == CommandOf(id)
  <2>1. c \in PlannedCommand /\ c.op = id /\ c.type = rows[id].type
        /\ c.expectedVersion = rows[id].expectedVersion
    BY <1>6, CommandType, CommandOfFields DEF Ledger
  <2>2. /\ FitsPhase(interview, c) /\ ~ IsPending(interview) /\ interview.status = "active"
        /\ interview.version = c.expectedVersion + 1
    BY <1>6 DEF CanRetry, FitsPhase
  <2>3. interview' = AcceptRetriedOperation(interview, c, now)
    BY <1>6
  <2> HIDE DEF c
  <2>4. interview' \in Interview /\ Sound(interview') /\ Effects(interview') = Effects(interview)
    BY <1>2, <2>1, <2>2, <2>3, AcceptRetriedType, AcceptSound, StillEffects
  <2>5. /\ interview'.status = "active" /\ interview'.version = interview.version
        /\ interview'.pending = [op |-> c.op, kind |-> OperationKind(c), position |-> interview.position,
                                 acceptedAt |-> now, previous |-> RequiredPhase(c)]
    BY <1>2, <2>2, <2>3, AcceptFields
  <2>6. PendingHasItsRow'
    <3>1. MatchesRow(interview.pending, rows[id])'
      BY <1>1, <2>1, <2>2, <2>5, AcceptedMatches
    <3>2. \A op \in Ops : rows'[op].type \in PlannedTypes /\ IsOpen(rows'[op]) => op = id
      BY <1>1, <2>2, Ids, NothingPlannedOpen DEF PlannedTypes
    <3>3. QED
      BY <2>1, <2>5, <3>1, <3>2 DEF PendingHasItsRow
  <2>7. rows'[ReportOp] = rows[ReportOp] /\ rows'[CreateOp] = rows[CreateOp]
    BY <1>1, <1>6, Ids
  <2>8. ReportStaysReachable' /\ NotYet'
    BY <2>2, <2>5, <2>7, ReportKept, NotYetKept
  <2>9. ClosedInterviewsAreQuiet' /\ EffectsAccounted'
    BY <1>4, <2>2, <2>4, <2>5, QuietKept, EffectsKept DEF Waits
  <2>10. QED
    BY <2>4, <2>6, <2>8, <2>9 DEF Story
<1>7. CASE /\ id \in Ops /\ rows[id].type \in PlannedTypes /\ rows[id].status = "processing"
           /\ CanRefresh(interview, id, now)
           /\ interview' = Refresh(interview, now)
  <2>1. interview' \in Interview /\ Sound(interview') /\ Effects(interview') = Effects(interview)
    BY <1>2, <1>7, RefreshType, RefreshSound, StillEffects
  <2>2. /\ interview.status = "active" /\ interview.pending.op = id
        /\ interview'.status = "active" /\ interview'.version = interview.version
        /\ interview'.pending = [interview.pending EXCEPT !.acceptedAt = now]
    BY <1>2, <1>7, RefreshFields DEF CanRefresh
  <2>3. IsPending(interview) /\ interview.pending \in Pending
    BY <1>2, <1>7, <2>2, Ids DEF IsPending, Interview
  <2>4. MatchesRow(interview.pending, rows[id])
    BY <2>2, <2>3, PendingIds
  <2>5. /\ interview'.pending.op = id /\ interview'.pending.acceptedAt = now
        /\ interview'.pending.kind = interview.pending.kind
        /\ interview'.pending.previous = interview.pending.previous
    BY <2>2, <2>3 DEF Pending
  <2>6. MatchesRow(interview.pending, rows[id])'
    BY <1>1, <2>2, <2>4, <2>5 DEF MatchesRow
  <2>7. \A op \in Ops : rows'[op].type \in PlannedTypes /\ IsOpen(rows'[op]) => op = id
    BY <1>1, <2>2, Ids DEF Story, PendingHasItsRow, PlannedTypes
  <2>8. PendingHasItsRow'
    BY <2>5, <2>6, <2>7 DEF PendingHasItsRow
  <2>9. rows'[ReportOp] = rows[ReportOp] /\ rows'[CreateOp] = rows[CreateOp]
    BY <1>1, <1>7, Ids
  <2>10. ReportStaysReachable' /\ NotYet'
    BY <2>2, <2>9, ReportKept, NotYetKept
  <2>11. ClosedInterviewsAreQuiet' /\ EffectsAccounted'
    BY <1>4, <2>1, <2>2, QuietKept, EffectsKept DEF Waits
  <2>12. QED
    BY <2>1, <2>8, <2>10, <2>11 DEF Story
<1>8. QED
  BY <1>3, <1>5, <1>6, <1>7

-------------------------------------------------------------------------------
(* Finalization. *)

(* What settling an operation does to the table, as the Story sees it.     *)
LEMMA SettledTable ==
  ASSUME Ledger, NEW e \in executions, NEW target, NEW retry, Settle(e, target, retry),
         SettledAs(rows[e.op], target),
         e.retry # NoOp => SettledAs(rows[e.retry], retry)
  PROVE  /\ Ledger' /\ RowsMove /\ rows'[e.op] = target
         /\ \A op \in Ops \ {e.op} : rows'[op].type \in PlannedTypes => rows'[op] = rows[op]
         /\ \A id \in RowIds : IsOpen(rows'[id]) => rows'[id] = rows[id]
         /\ rows'[CreateOp] = rows[CreateOp]
         /\ e.op # ReportOp => rows'[ReportOp] = rows[ReportOp]
<1>1. /\ Ledger' /\ RowsMove /\ rows'[e.op] = target
      /\ \A k \in RowIds \ {e.op, e.retry} : rows'[k] = rows[k]
  BY SettleLedger
<1>2. HoldsLeases(e) /\ rows' = SettledRows(e, target, retry)
  BY DEF Settle
<1>3. /\ e.op \in RowIds /\ rows[e.op].type \in RetriedTypes
      /\ e.retry # NoOp => /\ e.retry \in RowIds /\ e.retry # e.op
                           /\ rows[e.retry].type = "retry_operation"
  BY <1>2, RetryIsOpen
<1>4. e.retry # NoOp => rows'[e.retry] = retry /\ rows'[e.retry].type = "retry_operation"
  BY <1>2, <1>3 DEF SettledRows, SettledAs
<1>5. e.retry = NoOp => e.retry \notin RowIds
  BY Ids
<1>6. FitsKind(CreateOp, rows[CreateOp]) /\ FitsKind(ReportOp, rows[ReportOp])
  BY Ids DEF Ledger, RowKinds
<1>7. CreateOp \notin {e.op, e.retry} /\ ReportOp # e.retry
  BY <1>3, <1>5, <1>6, Ids DEF FitsKind, RetriedTypes, PlannedTypes
<1>8. ASSUME NEW op \in Ops \ {e.op}, rows'[op].type \in PlannedTypes
      PROVE  rows'[op] = rows[op]
  BY <1>1, <1>4, <1>8, Ids DEF PlannedTypes
<1>9. ASSUME NEW id \in RowIds, IsOpen(rows'[id])
      PROVE  rows'[id] = rows[id]
  BY <1>1, <1>4, <1>5, <1>9 DEF IsOpen, SettledAs
<1>10. QED
  BY <1>1, <1>7, <1>8, <1>9, Ids

(* The work a finalization rebuilds is the one the interview waits for.    *)
LEMMA Reconstructed ==
  ASSUME Ledger, Story, NEW e \in executions, Reconstructs(e)
  PROVE  /\ IsPending(interview) /\ interview.status = "active" /\ interview.pending.op = e.op
         /\ e.op \in Ops /\ rows[e.op].type \in PlannedTypes
         /\ ReconstructedPlan(e.op) \in Plan
         /\ ReconstructedPlan(e.op).command = CommandOf(e.op)
         /\ CommandOf(e.op).op = e.op
<1>1. IsPending(interview) /\ interview.pending.op = e.op
  BY ExecutionIds, Ids DEF Reconstructs, IsPending
<1>2. /\ e.op \in Ops /\ interview.status = "active" /\ rows[e.op].type \in PlannedTypes
  BY <1>1, PendingIds
<1>3. CommandOf(e.op) \in PlannedCommand /\ CommandOf(e.op).op = e.op
  BY <1>2, CommandType, CommandOfFields DEF Ledger
<1>4. interview \in Interview /\ interview.pending \in Pending
  BY <1>1 DEF Story, Interview, IsPending
<1>5. interview.pending.acceptedAt \in Times /\ interview.pending.position \in Positions
  BY <1>4 DEF Pending
<1> DEFINE c == CommandOf(e.op)
           p == PlanOf(interview, c, interview, interview.pending.acceptedAt)
<1>6. p \in Plan /\ p.command = c
  <2> c \in PlannedCommand
    BY <1>3
  <2> HIDE DEF c
  <2>1. p \in Plan
    BY <1>4, <1>5, PlanOfType
  <2>2. p.command = c
    BY DEF PlanOf
  <2>3. QED
    BY <2>1, <2>2
<1>7. ReconstructedPlan(e.op) = [p EXCEPT !.position = interview.pending.position]
  BY DEF ReconstructedPlan
<1> HIDE DEF p, c
<1>8. ReconstructedPlan(e.op) \in Plan /\ ReconstructedPlan(e.op).command = c
  BY <1>5, <1>6, <1>7 DEF Plan
<1>9. QED
  BY <1>1, <1>2, <1>3, <1>8 DEF c

(* Every finalization of an operation that needed a model: the interview no *)
(* longer waits for it, and its effect is there exactly if it succeeded.    *)
LEMMA ReleaseStory ==
  ASSUME Ledger, Story, NEW e \in executions, Reconstructs(e),
         NEW target, NEW retry, Settle(e, target, retry),
         SettledAs(rows[e.op], target),
         e.retry # NoOp => SettledAs(rows[e.retry], retry),
         interview' \in Interview, Sound(interview'),
         interview'.status = "active", ~ IsPending(interview'),
         Effects(interview') =
           IF target.status = "succeeded" THEN Effects(interview) \cup {e.op} ELSE Effects(interview)
  PROVE  Ledger' /\ RowsMove /\ Story'
<1>1. /\ interview.status = "active" /\ e.op \in Ops /\ interview.pending.op = e.op
      /\ rows[e.op].type \in PlannedTypes /\ IsPending(interview)
  BY Reconstructed
<1>2. /\ Ledger' /\ RowsMove /\ rows'[e.op] = target
      /\ \A op \in Ops \ {e.op} : rows'[op].type \in PlannedTypes => rows'[op] = rows[op]
      /\ \A id \in RowIds : IsOpen(rows'[id]) => rows'[id] = rows[id]
      /\ rows'[CreateOp] = rows[CreateOp]
      /\ e.op # ReportOp => rows'[ReportOp] = rows[ReportOp]
  BY SettledTable
<1>3. rows'[ReportOp] = rows[ReportOp]
  BY <1>1, <1>2, Ids
<1>4. /\ rows'[e.op].type \in PlannedTypes /\ ~ IsOpen(rows'[e.op])
  BY <1>1, <1>2 DEF SettledAs, IsOpen
<1>5. PendingHasItsRow'
  <2>1. ASSUME NEW op \in Ops, rows'[op].type \in PlannedTypes, IsOpen(rows'[op])
        PROVE  FALSE
    <3>1. op # e.op /\ rows'[op] = rows[op]
      BY <1>2, <1>4, <2>1, Ids
    <3>2. interview.pending.op = op
      BY <2>1, <3>1 DEF Story, PendingHasItsRow
    <3>3. QED
      BY <1>1, <3>1, <3>2
  <2>2. QED
    BY <2>1 DEF PendingHasItsRow
<1>6. ReportStaysReachable' /\ NotYet' /\ ClosedInterviewsAreQuiet'
  BY <1>1, <1>2, <1>3, ReportKept, NotYetKept, QuietKept DEF Waits
<1>7. EffectsAccounted'
  <2>1. ASSUME NEW op \in Ops
        PROVE  /\ op \in Effects(interview') =>
                    rows'[op].type \in PlannedTypes /\ rows'[op].status = "succeeded"
               /\ rows'[op].type \in PlannedTypes /\ rows'[op].status = "succeeded" =>
                    op \in Effects(interview')
    <3>1. CASE op = e.op
      <4>1. op \notin Effects(interview)
        BY <1>1, <3>1, PendingIds DEF Story, EffectsAccounted
      <4>2. QED
        BY <1>2, <1>4, <3>1, <4>1
    <3>2. CASE op # e.op
      <4>1. op \in Effects(interview') <=> op \in Effects(interview)
        BY <3>2
      <4>2. op \in Effects(interview) => rows'[op].type \in PlannedTypes /\ rows'[op].status = "succeeded"
        BY <1>2, EffectsStay
      <4>3. rows'[op].type \in PlannedTypes /\ rows'[op].status = "succeeded" => op \in Effects(interview)
        BY <1>1, <1>2, <3>2 DEF Story, EffectsAccounted, Waits
      <4>4. QED
        BY <4>1, <4>2, <4>3
    <3>3. QED
      BY <3>1, <3>2
  <2>2. QED
    BY <2>1 DEF EffectsAccounted
<1>8. QED
  BY <1>2, <1>5, <1>6, <1>7 DEF Story

LEMMA CompletionFields ==
  ASSUME NEW i \in Interview, NEW p, NEW x
  PROVE  LET a == CompleteClarification(i, p)
             b == CompleteWithFollowUp(i, p, x)
             c == CompleteWithEvaluation(i, p, x)
         IN  /\ a.status = i.status /\ ~ IsPending(a)
             /\ b.status = i.status /\ ~ IsPending(b)
             /\ c.status = i.status /\ ~ IsPending(c)
<1>1. CompleteClarification(i, p).status = i.status /\ ~ IsPending(CompleteClarification(i, p))
  BY DEF CompleteClarification, WithCurrentQuestion, Interview, IsPending, NoPending
<1>2. CompleteWithFollowUp(i, p, x).status = i.status /\ ~ IsPending(CompleteWithFollowUp(i, p, x))
  BY DEF CompleteWithFollowUp, WithCurrentQuestion, Interview, IsPending, NoPending
<1>3. CompleteWithEvaluation(i, p, x).status = i.status /\ ~ IsPending(CompleteWithEvaluation(i, p, x))
  BY DEF CompleteWithEvaluation, WithCurrentQuestion, Interview, IsPending, NoPending
<1>4. QED
  BY <1>1, <1>2, <1>3

(* The rows of a finalization are the ones SettledIs speaks of.            *)
LEMMA SettlesAs ==
  ASSUME Ledger, NEW e \in executions, HoldsLeases(e)
  PROVE  /\ SettledAs(rows[e.op], Succeeded(rows[e.op]))
         /\ Succeeded(rows[e.op]).status = "succeeded"
         /\ e.retry # NoOp => SettledAs(rows[e.retry], Succeeded(RetryRow(e)))
         /\ \A b \in BOOLEAN : /\ SettledAs(rows[e.op], Failed(rows[e.op], b))
                               /\ Failed(rows[e.op], b).status = "failed"
         /\ e.retry # NoOp => SettledAs(rows[e.retry], Failed(RetryRow(e), FALSE))
<1>1. rows[e.op] \in Row /\ (e.retry # NoOp => rows[e.retry] \in Row /\ RetryRow(e) = rows[e.retry])
  BY RetryIsOpen DEF RetryRow
<1>2. QED
  BY <1>1, SettledIs, SucceededType, FailedType

LEMMA CompletionStory ==
  ASSUME Ledger, Story, NEW e \in executions, Reconstructs(e), SettleSucceeded(e),
         interview' \in Interview, Sound(interview'),
         interview'.status = "active", ~ IsPending(interview'),
         Effects(interview') = Effects(interview) \cup {e.op}
  PROVE  Ledger' /\ RowsMove /\ Story'
<1>1. HoldsLeases(e) /\ Settle(e, Succeeded(rows[e.op]), Succeeded(RetryRow(e)))
  BY DEF SettleSucceeded, Settle
<1>2. QED
  BY <1>1, SettlesAs, ReleaseStory

LEMMA FinalizeClarificationStory ==
  ASSUME Ledger, Story, NEW e \in executions, FinalizeClarification(e)
  PROVE  Ledger' /\ RowsMove /\ Story'
<1> DEFINE p == ReconstructedPlan(e.op)
<1>1. /\ Reconstructs(e) /\ Completes(e, p) /\ ~ IsAnswer(p.command)
      /\ interview' = CompleteClarification(interview, p) /\ SettleSucceeded(e)
  BY DEF FinalizeClarification
<1>2. p \in Plan /\ p.command.op = e.op /\ interview.status = "active"
  BY <1>1, Reconstructed
<1> HIDE DEF p
<1>3. IsAccepted(interview, p)
  BY <1>1 DEF Completes, CanComplete
<1>4. interview \in Interview /\ Sound(interview)
  BY DEF Story
<1>5. /\ interview' \in Interview /\ Sound(interview')
      /\ Effects(interview') = Effects(interview) \cup {e.op}
  BY <1>1, <1>2, <1>3, <1>4, ClarificationType, ClarificationSound, ClarificationEffects
<1>6. interview'.status = "active" /\ ~ IsPending(interview')
  BY <1>1, <1>2, <1>4, CompletionFields
<1>7. QED
  BY <1>1, <1>5, <1>6, CompletionStory

LEMMA FinalizeFollowUpStory ==
  ASSUME Ledger, Story, NEW e \in executions, NEW kind \in FollowUpKinds, FinalizeFollowUp(e, kind)
  PROVE  Ledger' /\ RowsMove /\ Story'
<1> DEFINE p == ReconstructedPlan(e.op)
<1>1. /\ Reconstructs(e) /\ Completes(e, p)
      /\ interview' = CompleteWithFollowUp(interview, p, kind) /\ SettleSucceeded(e)
  BY DEF FinalizeFollowUp
<1>2. p \in Plan /\ p.command.op = e.op /\ interview.status = "active"
  BY <1>1, Reconstructed
<1> HIDE DEF p
<1>3. IsAccepted(interview, p)
  BY <1>1 DEF Completes, CanComplete
<1>4. interview \in Interview /\ Sound(interview)
  BY DEF Story
<1>5. /\ interview' \in Interview /\ Sound(interview')
      /\ Effects(interview') = Effects(interview) \cup {e.op}
  BY <1>1, <1>2, <1>3, <1>4, FollowUpType, FollowUpSound, FollowUpEffects
<1>6. interview'.status = "active" /\ ~ IsPending(interview')
  BY <1>1, <1>2, <1>4, CompletionFields
<1>7. QED
  BY <1>1, <1>5, <1>6, CompletionStory

LEMMA FinalizeEvaluationStory ==
  ASSUME Ledger, Story, NEW e \in executions, NEW outcome \in EvaluatedOutcomes,
         FinalizeEvaluation(e, outcome)
  PROVE  Ledger' /\ RowsMove /\ Story'
<1> DEFINE p == ReconstructedPlan(e.op)
<1>1. /\ Reconstructs(e) /\ Completes(e, p)
      /\ interview' = CompleteWithEvaluation(interview, p, outcome) /\ SettleSucceeded(e)
  BY DEF FinalizeEvaluation
<1>2. p \in Plan /\ p.command.op = e.op /\ interview.status = "active"
  BY <1>1, Reconstructed
<1> HIDE DEF p
<1>3. IsAccepted(interview, p)
  BY <1>1 DEF Completes, CanComplete
<1>4. interview \in Interview /\ Sound(interview)
  BY DEF Story
<1>5. /\ interview' \in Interview /\ Sound(interview')
      /\ Effects(interview') = Effects(interview) \cup {e.op}
  BY <1>1, <1>2, <1>3, <1>4, EvaluationType, EvaluationSound, EvaluationEffects
<1>6. interview'.status = "active" /\ ~ IsPending(interview')
  BY <1>1, <1>2, <1>4, CompletionFields
<1>7. QED
  BY <1>1, <1>5, <1>6, CompletionStory

LEMMA FailModelStory ==
  ASSUME Ledger, Story, NEW e \in executions, NEW retryable \in BOOLEAN, FailModel(e, retryable)
  PROVE  Ledger' /\ RowsMove /\ Story'
<1> DEFINE target == Failed(rows[e.op], retryable)
           retry == Failed(RetryRow(e), FALSE)
<1>1. /\ Reconstructs(e) /\ interview' = CancelOperation(interview)
      /\ Settle(e, target, retry) /\ HoldsLeases(e)
  BY DEF FailModel, SettleFailed, Settle
<1>2. interview.status = "active" /\ IsPending(interview) /\ interview \in Interview /\ Sound(interview)
  BY <1>1, Reconstructed DEF Story
<1>3. /\ interview' \in Interview /\ Sound(interview') /\ Effects(interview') = Effects(interview)
  BY <1>1, <1>2, CancelType, CancelSound, StillEffects
<1>4. interview'.status = "active" /\ ~ IsPending(interview')
  BY <1>1, <1>2 DEF CancelOperation, Interview, IsPending, NoPending
<1>5. /\ SettledAs(rows[e.op], target) /\ target.status # "succeeded"
      /\ e.retry # NoOp => SettledAs(rows[e.retry], retry)
  BY <1>1, SettlesAs
<1> HIDE DEF target, retry
<1>6. QED
  BY <1>1, <1>3, <1>4, <1>5, ReleaseStory

LEMMA RecordReportFields ==
  ASSUME NEW i \in Interview
  PROVE  /\ RecordReport(i).status \in {"completed", "early_ended"}
         /\ ~ IsPending(RecordReport(i))
         /\ RecordReport(i).lastActivity = i.lastActivity
  BY DEF RecordReport, Interview, IsPending, NoPending

LEMMA CompleteReportStory ==
  ASSUME Ledger, Story, NEW e \in executions, CompleteReport(e)
  PROVE  Ledger' /\ RowsMove /\ Story'
<1>1. /\ e.op = ReportOp /\ interview.status = "report_pending" /\ ~ IsPending(interview)
      /\ interview' = RecordReport(interview)
      /\ Settle(e, Succeeded(rows[e.op]), Succeeded(RetryRow(e))) /\ HoldsLeases(e)
  BY DEF CompleteReport, ReportMatches, Admits, SettleSucceeded, Settle
<1>2. interview \in Interview /\ Sound(interview) /\ rows[CreateOp].status # "pending"
  BY <1>1 DEF Story, NotYet
<1>3. /\ interview' \in Interview /\ Sound(interview') /\ Effects(interview') = Effects(interview)
      /\ interview'.status \in {"completed", "early_ended"} /\ ~ IsPending(interview')
  BY <1>1, <1>2, RecordReportType, RecordReportSound, StillEffects, RecordReportFields
<1>4. /\ Ledger' /\ RowsMove /\ rows'[ReportOp].status = "succeeded"
      /\ \A op \in Ops : rows'[op].type \in PlannedTypes => rows'[op] = rows[op]
      /\ \A id \in RowIds : IsOpen(rows'[id]) => rows'[id] = rows[id]
      /\ rows'[CreateOp] = rows[CreateOp]
  BY <1>1, SettlesAs, SettledTable, Ids
<1>5. PendingHasItsRow'
  BY <1>1, <1>3, <1>4, PendingIdle DEF NoneOpened
<1>6. ReportStaysReachable' /\ NotYet'
  BY <1>2, <1>3, <1>4 DEF ReportStaysReachable, NotYet, IsOpen
<1>7. ClosedInterviewsAreQuiet'
  <2>1. ASSUME NEW id \in RowIds, IsOpen(rows'[id])
        PROVE  rows'[id].type = "retry_operation"
    <3>1. rows'[id] = rows[id] /\ id # ReportOp
      BY <1>4, <2>1 DEF IsOpen
    <3>2. FitsKind(id, rows[id]) /\ id # CreateOp
      BY <1>2, <2>1, <3>1 DEF Ledger, RowKinds, FitsKind, IsOpen
    <3>3. id \in Ops
      BY <3>1, <3>2 DEF RowIds
    <3>4. rows[id].type \notin PlannedTypes
      BY <1>1, <2>1, <3>1, <3>3, NothingPlannedOpen
    <3>5. QED
      BY <2>1, <3>1, <3>2, <3>3, <3>4 DEF FitsKind, IsOpen, ProgressTypes
  <2>2. QED
    BY <1>3, <2>1 DEF ClosedInterviewsAreQuiet
<1>8. EffectsAccounted'
  BY <1>1, <1>3, <1>4, EffectsKept DEF NoneSucceeded, Waits
<1>9. QED
  BY <1>3, <1>4, <1>5, <1>6, <1>7, <1>8 DEF Story

LEMMA FailReportStory ==
  ASSUME Ledger, Story, NEW e \in executions, FailReport(e)
  PROVE  Ledger' /\ RowsMove /\ Story'
<1>1. /\ e.op = ReportOp /\ interview' = interview
      /\ Settle(e, Failed(rows[e.op], TRUE), Failed(RetryRow(e), FALSE)) /\ HoldsLeases(e)
  BY DEF FailReport, SettleFailed, Settle
<1>2. rows[ReportOp] \in Row /\ interview.status = "report_pending" /\ ReportMatches
  BY <1>1, RetryIsOpen DEF Story, ReportStaysReachable, IsOpen
<1>3. /\ Ledger' /\ RowsMove /\ rows'[ReportOp] = Failed(rows[ReportOp], TRUE)
      /\ \A op \in Ops : rows'[op].type \in PlannedTypes => rows'[op] = rows[op]
      /\ \A id \in RowIds : IsOpen(rows'[id]) => rows'[id] = rows[id]
      /\ rows'[CreateOp] = rows[CreateOp]
  BY <1>1, SettlesAs, SettledTable, Ids
<1>4. /\ CanRetryFailed(rows'[ReportOp]) /\ ~ IsOpen(rows'[ReportOp])
      /\ rows'[ReportOp].expectedVersion = rows[ReportOp].expectedVersion
      /\ rows'[ReportOp].createdAt = rows[ReportOp].createdAt
  BY <1>2, <1>3 DEF Failed, Row, CanRetryFailed, IsOpen
<1>5. ~ IsPending(interview)
  BY <1>2, PendingIds
<1>6. PendingHasItsRow'
  BY <1>1, <1>3, <1>5, PendingIdle DEF NoneOpened
<1>7. ReportStaysReachable' /\ NotYet' /\ ClosedInterviewsAreQuiet'
  BY <1>1, <1>2, <1>3, <1>4 DEF Story, ReportStaysReachable, ReportMatches, NotYet, ClosedInterviewsAreQuiet
<1>8. EffectsAccounted'
  BY <1>1, <1>2, <1>3, EffectsKept DEF NoneSucceeded, Waits
<1>9. QED
  BY <1>1, <1>3, <1>6, <1>7, <1>8 DEF Story

-------------------------------------------------------------------------------
(* Expiry and deletion: the interview closes and its open rows fail.       *)

LEMMA ClosingStory ==
  ASSUME Ledger, Story, rows' = CancelledOpen(rows), UNCHANGED <<now, executions, rejected>>,
         interview' \in Interview, Sound(interview'), ~ IsPending(interview'),
         ~ Waits(interview'), Effects(interview') = Effects(interview),
         interview'.lastActivity = interview.lastActivity
  PROVE  Ledger' /\ RowsMove /\ Story'
<1>1. /\ Ledger' /\ RowsMove
      /\ \A id \in RowIds : /\ ~ IsOpen(rows'[id])
                            /\ ~ IsOpen(rows[id]) => rows'[id] = rows[id]
  BY CancelLedger
<1>2. NoneSucceeded
  <2> SUFFICES ASSUME NEW op \in Ops, rows'[op].status = "succeeded", IsOpen(rows[op])
               PROVE  FALSE
    BY <1>1, Ids DEF NoneSucceeded
  <2>1. op \in RowIds /\ rows[op] \in Row /\ rows \in [RowIds -> Row]
    BY Ids DEF Ledger, Tables
  <2>2. rows'[op] = Failed(rows[op], FALSE)
    BY <2>1 DEF CancelledOpen
  <2>3. QED
    BY <2>1, <2>2, FailedType
<1>3. PendingHasItsRow' /\ ReportStaysReachable' /\ ClosedInterviewsAreQuiet'
  BY <1>1, Ids DEF PendingHasItsRow, ReportStaysReachable, ClosedInterviewsAreQuiet, Waits
<1>4. NotYet'
  BY <1>1, Ids DEF NotYet, Waits, IsOpen
<1>5. EffectsAccounted'
  BY <1>1, <1>2, EffectsKept
<1>6. QED
  BY <1>1, <1>3, <1>4, <1>5 DEF Story

LEMMA ExpireStory ==
  ASSUME Ledger, Story, ExpireInterview
  PROVE  Ledger' /\ RowsMove /\ Story'
<1>1. /\ interview.status = "active" /\ interview' = Abandon(interview) /\ rows' = CancelledOpen(rows)
      /\ UNCHANGED <<now, executions, rejected>>
  BY DEF ExpireInterview, Expired, IsExpired
<1>2. interview \in Interview /\ Sound(interview)
  BY DEF Story
<1>3. /\ interview' \in Interview /\ Sound(interview') /\ ~ IsPending(interview')
      /\ interview'.status = "abandoned" /\ Effects(interview') = Effects(interview)
      /\ interview'.lastActivity = interview.lastActivity
  BY <1>1, <1>2, CloseType, CloseSound, CloseFields, StillEffects
<1>4. QED
  BY <1>1, <1>3, ClosingStory DEF Waits

LEMMA DeleteStory ==
  ASSUME Ledger, Story, DeleteInterview
  PROVE  Ledger' /\ RowsMove /\ Story'
<1> DEFINE a == Abandon(interview)
<1>1. /\ interview' = [a EXCEPT !.status = "deleting"] /\ rows' = CancelledOpen(rows)
      /\ UNCHANGED <<now, executions, rejected>>
  BY DEF DeleteInterview
<1>2. interview \in Interview /\ Sound(interview)
  BY DEF Story
<1>3. interview' \in Interview /\ Sound(interview')
  BY <1>1, <1>2, DeleteSound
<1>4. /\ a \in Interview /\ ~ IsPending(a) /\ a.lastActivity = interview.lastActivity
      /\ Effects(a) = Effects(interview)
  BY <1>2, CloseType, CloseFields, StillEffects
<1> HIDE DEF a
<1>5. /\ interview'.status = "deleting" /\ interview'.pending = a.pending
      /\ interview'.lastActivity = a.lastActivity /\ interview'.questions = a.questions
  BY <1>1, <1>4 DEF Interview
<1>6. Effects(interview') = Effects(interview) /\ ~ IsPending(interview')
  BY <1>4, <1>5, SameEffects DEF IsPending
<1>7. QED
  BY <1>1, <1>3, <1>4, <1>5, <1>6, ClosingStory DEF Waits

-------------------------------------------------------------------------------
(* The invariant holds initially and every step keeps it, moving rows only  *)
(* as RowsMove allows.                                                       *)

LEMMA InitInv == Init => Inv
<1> SUFFICES ASSUME Init
             PROVE  Inv
  OBVIOUS
<1> DEFINE creation == Created("create_interview", 0, 0, NoOp)
<1>1. /\ now = 0 /\ interview = FreshInterview /\ executions = {} /\ rejected = {}
      /\ \A id \in RowIds : rows[id] = IF id = CreateOp THEN creation ELSE NoRow
      /\ rows = [id \in RowIds |-> rows[id]]
  BY DEF Init
<1>2. creation \in Row /\ NoRow \in Row /\ 0 \in Times
  BY CreatedType, NoRowType, InterviewAssumption DEF OperationTypes
<1>3. /\ creation.type = "create_interview" /\ creation.status = "pending"
      /\ creation.attempts = 0 /\ creation.lastAttemptAt = 0
  BY CreatedFields
<1>4. /\ NoRow.type = "none" /\ NoRow.status = "none" /\ NoRow.attempts = 0 /\ NoRow.lastAttemptAt = 0
  BY DEF NoRow
<1> HIDE DEF creation
<1>5. Tables
  BY <1>1, <1>2 DEF Tables
<1>6. RowKinds
  BY <1>1, <1>3, <1>4, Ids DEF RowKinds, FitsKind, ImmediateTypes
<1>7. Executing /\ Unique /\ Paired
  BY <1>1 DEF Executing, Unique, Paired
<1>8. /\ interview \in Interview /\ Sound(interview)
      /\ interview.status = "active" /\ ~ IsPending(interview)
  BY <1>1, FreshType, FreshSound DEF FreshInterview, IsPending, NoPending
<1>9. Effects(interview) = {}
  BY <1>1 DEF Effects, Traces, MaterialIds, FreshInterview, FreshQuestion
<1>10. \A op \in Ops : rows[op] = NoRow /\ op # CreateOp
  BY <1>1, Ids
<1>11. NotYet
  BY <1>1, <1>8, Ids DEF NotYet
<1>12. PendingHasItsRow
  BY <1>4, <1>8, <1>10 DEF PendingHasItsRow, IsOpen
<1>13. ReportStaysReachable
  BY <1>1, <1>4, <1>8, Ids DEF ReportStaysReachable, IsOpen
<1>14. ClosedInterviewsAreQuiet
  BY <1>8 DEF ClosedInterviewsAreQuiet
<1>15. EffectsAccounted
  BY <1>4, <1>9, <1>10 DEF EffectsAccounted
<1>16. QED
  BY <1>5, <1>6, <1>7, <1>8, <1>11, <1>12, <1>13, <1>14, <1>15 DEF Inv, Ledger, Story

LEMMA ClientCommandStep ==
  ASSUME Ledger, Story, NEW c \in ClientCommand, Accepts(c)
  PROVE  Ledger' /\ RowsMove /\ Story'
<1>1. CASE AcceptPlanned(c)
  BY <1>1, AcceptPlannedLedger, AcceptPlannedStory
<1>2. CASE HandleImmediate(c)
  BY <1>2, ClientLedger, HandleImmediateStory
<1>3. CASE HandleReportRequest(c)
  <2>1. CanHandle(c) /\ c.type \in ImmediateTypes /\ ~ IsPending(interview) /\ interview' = Handled(c)
    BY <1>3 DEF HandleReportRequest, Admitted, Admits
  <2>2. rows[ReportOp] = NoRow /\ interview'.version \in Nat
    BY <2>1, HandledFacts DEF Story, NotYet, Immediately, Interview
  <2>3. QED
    BY <1>3, <2>2, HandleReportRequestLedger, HandleReportRequestStory
<1>4. CASE HandleExpired(c)
  BY <1>4, ClientLedger, HandleExpiredStory
<1>5. CASE RejectCommand(c)
  BY <1>5, ClientLedger, RejectCommandStory
<1>6. QED
  BY <1>1, <1>2, <1>3, <1>4, <1>5 DEF Accepts

LEMMA ClientStepInv ==
  ASSUME Ledger, Story, NEW op \in Ops, NEW version \in 1..interview.version, NEW at \in AppTime,
         ClientStep(op, version, at)
  PROVE  Ledger' /\ RowsMove /\ Story'
<1>1. interview.version \in Nat
  BY DEF Story, Interview
<1>2. version \in Nat /\ at \in Times
  BY <1>1 DEF AppTime
<1>3. ASSUME NEW type \in ProgressTypes, Accepts(Command(type, op, version, at))
      PROVE  Ledger' /\ RowsMove /\ Story'
  BY <1>2, <1>3, ClientCommandType, ClientCommandStep
<1>4. ASSUME NEW target \in RowIds, RequestRetry(op, target, version, at)
      PROVE  Ledger' /\ RowsMove /\ Story'
  BY <1>2, <1>4, RequestRetryLedger, RequestRetryStory
<1>5. QED
  BY <1>3, <1>4 DEF ClientStep

LEMMA RetryStepInv ==
  ASSUME Ledger, Story, NEW r \in Ops, RetryStep(r)
  PROVE  Ledger' /\ RowsMove /\ Story'
<1>1. CASE AcceptRetry(r)
  BY <1>1, AcceptRetryLedger, AcceptRetryStory
<1>2. CASE RejectRetry(r)
  <2>1. interview' = interview /\ rows' = rows
    BY <1>2 DEF RejectRetry
  <2>2. QED
    BY <1>2, <2>1, RejectRetryLedger, StillStory
<1>3. CASE FailRetry(r)
  BY <1>3, FailRetryLedger, FailRetryStory
<1>4. QED
  BY <1>1, <1>2, <1>3 DEF RetryStep

LEMMA DropInv ==
  ASSUME Ledger, Story, UNCHANGED <<now, interview, rows>>,
         executions' \subseteq executions, rejected' \subseteq rejected
  PROVE  Ledger' /\ RowsMove /\ Story'
  BY DropLedger, StillStory

LEMMA ExecutionStepInv ==
  ASSUME Ledger, Story, NEW e \in executions, ExecutionStep(e)
  PROVE  Ledger' /\ RowsMove /\ Story'
<1>1. CASE FinalizeClarification(e)
  BY <1>1, FinalizeClarificationStory
<1>2. CASE \E kind \in FollowUpKinds : FinalizeFollowUp(e, kind)
  BY <1>2, FinalizeFollowUpStory
<1>3. CASE \E outcome \in EvaluatedOutcomes : FinalizeEvaluation(e, outcome)
  BY <1>3, FinalizeEvaluationStory
<1>4. CASE \E retryable \in BOOLEAN : FailModel(e, retryable)
  BY <1>4, FailModelStory
<1>5. CASE CompleteReport(e)
  BY <1>5, CompleteReportStory
<1>6. CASE FailReport(e)
  BY <1>6, FailReportStory
<1>7. CASE AbandonExecution(e)
  BY <1>7, DropInv DEF AbandonExecution
<1>8. QED
  BY <1>1, <1>2, <1>3, <1>4, <1>5, <1>6, <1>7 DEF ExecutionStep

LEMMA NextInv ==
  ASSUME Ledger, Story, Next
  PROVE  Ledger' /\ RowsMove /\ Story'
<1>1. CASE FinalizeCreation
  BY <1>1, FinalizeCreationLedger, FinalizeCreationStory
<1>2. CASE \E op \in Ops, version \in 1..interview.version, at \in AppTime : ClientStep(op, version, at)
  BY <1>2, ClientStepInv
<1>3. CASE \E r \in Ops : RetryStep(r)
  BY <1>3, RetryStepInv
<1>4. CASE \E e \in executions : ExecutionStep(e)
  BY <1>4, ExecutionStepInv
<1>5. CASE ExpireInterview
  BY <1>5, ExpireStory
<1>6. CASE DeleteInterview
  BY <1>6, DeleteStory
<1>7. CASE Crash
  BY <1>7, DropInv DEF Crash
<1>8. CASE Tick
  <2>1. interview' = interview /\ rows' = rows
    BY <1>8 DEF Tick
  <2>2. QED
    BY <1>8, <2>1, TickLedger, StillStory
<1>9. QED
  BY <1>1, <1>2, <1>3, <1>4, <1>5, <1>6, <1>7, <1>8 DEF Next

LEMMA StepInv == Inv /\ [Next]_vars => Inv' /\ RowsMove
<1> SUFFICES ASSUME Inv, [Next]_vars
             PROVE  Inv' /\ RowsMove
  OBVIOUS
<1>1. CASE Next
  BY <1>1, NextInv DEF Inv
<1>2. CASE UNCHANGED vars
  BY <1>2, DropInv DEF Inv, vars
<1>3. QED
  BY <1>1, <1>2

(* The inductive invariant holds in every reachable state. *)
THEOREM RunnerInvariant == Spec => []Inv
<1>1. Inv /\ [Next]_vars => Inv'
  BY StepInv
<1>2. QED
  BY InitInv, <1>1, PTL DEF Spec

(* Every variable of the server keeps the shape the schema and the          *)
(* in-memory records declare, through every interleaving of transactions.   *)
THEOREM TypeCorrect == Spec => []TypeOK
<1>1. Inv => TypeOK
  BY DEF Inv, Ledger, Tables, Story, TypeOK
<1>2. QED
  BY RunnerInvariant, <1>1, PTL

(* An interview's pending operation always has the processing row every     *)
(* load checks it against, and no answer is processing that the interview   *)
(* forgot (pendingOperationMatchesRow), after any failure, crash, takeover, *)
(* retry or expiry.                                                          *)
THEOREM PendingRows == Spec => []PendingHasItsRow
<1>1. Inv => PendingHasItsRow
  BY DEF Inv, Story
<1>2. QED
  BY RunnerInvariant, <1>1, PTL

(* An interview waiting for its report always has a report row somebody     *)
(* works on or a retry can claim, and that row still matches the interview. *)
THEOREM ReportsStayReachable == Spec => []ReportStaysReachable
<1>1. Inv => ReportStaysReachable
  BY DEF Inv, Story
<1>2. QED
  BY RunnerInvariant, <1>1, PTL

(* An abandoned, expired or deleted interview leaves no row a late worker   *)
(* could complete.                                                           *)
THEOREM ClosedQuietly == Spec => []ClosedInterviewsAreQuiet
<1>1. Inv => ClosedInterviewsAreQuiet
  BY DEF Inv, Story
<1>2. QED
  BY RunnerInvariant, <1>1, PTL

(* The effect of an accepted answer or clarification is in the interview    *)
(* exactly when its row succeeded, however often it was retried, taken over  *)
(* or finished late; the one exception is a command stamped past the limit.  *)
THEOREM EffectsMatchRows == Spec => []EffectIffSucceeded
<1>1. Inv => EffectIffSucceeded
  <2> SUFFICES ASSUME Inv, NEW op \in Ops, rows[op].type \in PlannedTypes
               PROVE  LET happened == \E k \in Positions :
                            op \in MaterialIds(interview.questions[k])
                                     \cup interview.questions[k].clarifications
                      IN  /\ happened => rows[op].status = "succeeded"
                          /\ rows[op].status = "succeeded" => happened \/ StampedTooLate(rows[op])
    BY DEF EffectIffSucceeded
  <2>1. op \in Effects(interview) <=>
          \E k \in Positions : op \in MaterialIds(interview.questions[k])
                                        \cup interview.questions[k].clarifications
    BY DEF Effects, Traces
  <2>2. /\ op \in Effects(interview) => rows[op].status = "succeeded"
        /\ rows[op].status = "succeeded" => op \in Effects(interview) \/ StampedTooLate(rows[op])
    BY DEF Inv, Story, EffectsAccounted
  <2>3. QED
    BY <2>1, <2>2
<1>2. QED
  BY RunnerInvariant, <1>1, PTL

(* At most one execution can settle a row at any instant, and whoever can    *)
(* settle the target of a retry can settle the retry with it.                *)
THEOREM ExclusiveLeases == Spec => []LeasesAreExclusive
<1>1. Inv => LeasesAreExclusive
  <2> SUFFICES ASSUME Inv, NEW e \in executions, HoldsLease(rows[e.op], e.attempt, now)
               PROVE  /\ \A f \in executions \ {e} :
                           f.op = e.op => ~ HoldsLease(rows[f.op], f.attempt, now)
                      /\ e.retry # NoOp =>
                           /\ HoldsLease(rows[e.retry], e.retryAttempt, now)
                           /\ rows[e.retry].leaseExpiresAt = rows[e.op].leaseExpiresAt
    BY DEF LeasesAreExclusive
  <2>1. Unique /\ Paired
    BY DEF Inv, Ledger
  <2>2. \A f \in executions \ {e} : f.op = e.op => ~ HoldsLease(rows[f.op], f.attempt, now)
    BY <2>1 DEF Unique, SharesAttempt, HoldsLease
  <2>3. QED
    BY <2>1, <2>2 DEF Paired
<1>2. QED
  BY RunnerInvariant, <1>1, PTL

(* No step touches a row that succeeded or failed for good, or takes an     *)
(* attempt back: a repeated command always finds the result it was given.   *)
THEOREM SettledForGood == Spec => SettledRowsStay
<1>1. Inv /\ [Next]_vars =>
        [\A id \in RowIds :
           /\ rows'[id].attempts >= rows[id].attempts
           /\ rows[id].status = "succeeded" \/ (rows[id].status = "failed" /\ ~ rows[id].retryable)
                => rows'[id] = rows[id]]_vars
  BY StepInv DEF RowsMove, RowMoves, Final
<1>2. QED
  BY RunnerInvariant, <1>1, PTL DEF Spec, SettledRowsStay

-------------------------------------------------------------------------------
(* The refinement: every transaction leaves the interview by a transition   *)
(* the persistence layer accepts.                                            *)

LEMMA HandledSaved ==
  ASSUME Story, Tallied(interview), NEW c \in ClientCommand, c.type \in ImmediateTypes, CanHandle(c),
         ~ IsPending(interview)
  PROVE  SaveAccepts(interview, Handled(c)) /\ Tallied(Handled(c))
<1>1. interview \in Interview /\ Sound(interview) /\ c.occurredAt \in Times
  BY DEF Story, ClientCommand
<1>2. CASE c.type = "mark_question_unknown"
  <2>1. CanRecordUnevaluated(interview) /\ Handled(c) = RecordUnevaluated(interview, "unknown", c.occurredAt)
    BY <1>2 DEF CanHandle, Handled, PlannedTypes
  <2>2. QED
    BY <1>1, <2>1, RecordUnevaluatedSaved
<1>3. CASE c.type = "skip_question"
  <2>1. CanRecordUnevaluated(interview) /\ Handled(c) = RecordUnevaluated(interview, "skipped", c.occurredAt)
    BY <1>3 DEF CanHandle, Handled, PlannedTypes
  <2>2. QED
    BY <1>1, <2>1, RecordUnevaluatedSaved
<1>4. CASE c.type = "continue_interview"
  <2>1. CanContinue(interview) /\ Handled(c) = Continue(interview, c.occurredAt)
    BY <1>4 DEF CanHandle, Handled, PlannedTypes
  <2>2. QED
    BY <1>1, <2>1, ContinueSaved
<1>5. CASE c.type = "end_interview_early"
  <2>1. CanEndEarly(interview) /\ Handled(c) = EndEarly(interview, c.occurredAt)
    BY <1>5 DEF CanHandle, Handled, PlannedTypes
  <2>2. QED
    BY <1>1, <2>1, EndEarlySaved
<1>6. CASE c.type = "abandon_interview"
  <2>1. interview.status = "active" /\ Handled(c) = Abandon(interview)
    BY <1>6 DEF CanHandle, Handled, PlannedTypes
  <2>2. QED
    BY <1>1, <2>1, CloseSaved
<1>7. QED
  BY <1>2, <1>3, <1>4, <1>5, <1>6 DEF ImmediateTypes

Saved == (SaveAccepts(interview, interview') \/ interview' = interview) /\ Tallied(interview')

LEMMA ClientSaved ==
  ASSUME Ledger, Story, Tallied(interview), NEW c \in ClientCommand, Accepts(c)
  PROVE  Saved
<1>1. interview \in Interview /\ c.occurredAt \in Times /\ c \in ClientCommand
  BY DEF Story, ClientCommand
<1>2. CASE AcceptPlanned(c)
  <2>1. /\ c.type \in PlannedTypes /\ CanPlan(interview, c)
        /\ interview' = AcceptOperation(interview, c, c.occurredAt)
    BY <1>2 DEF AcceptPlanned, Admitted, CanHandle, PlannedTypes
  <2>2. c \in PlannedCommand /\ FitsPhase(interview, c) /\ ~ IsPending(interview)
        /\ c.occurredAt >= interview.lastActivity
    BY <2>1, PlannedCommandType DEF CanPlan, Admits
  <2>3. QED
    BY <1>1, <2>1, <2>2, AcceptSaved DEF Saved
<1>3. CASE HandleImmediate(c) \/ HandleReportRequest(c)
  <2>1. /\ c.type \in ImmediateTypes /\ CanHandle(c) /\ ~ IsPending(interview)
        /\ interview' = Handled(c)
    BY <1>3 DEF HandleImmediate, HandleReportRequest, Admitted, Admits
  <2>2. QED
    BY <2>1, HandledSaved DEF Saved
<1>4. CASE HandleExpired(c)
  BY <1>1, <1>4, CloseSaved DEF HandleExpired, IsExpired, Saved
<1>5. CASE RejectCommand(c)
  BY <1>5 DEF RejectCommand, Saved
<1>6. QED
  BY <1>2, <1>3, <1>4, <1>5 DEF Accepts

LEMMA RetrySaved ==
  ASSUME Ledger, Story, Tallied(interview), NEW r \in Ops, AcceptRetry(r)
  PROVE  Saved
<1> DEFINE id == rows[r].target
<1>1. interview \in Interview /\ Sound(interview) /\ now \in Times
  BY DEF Story, Ledger, Tables
<1>2. CASE interview' = RefreshReportRetry(interview, now) /\ id = ReportOp
  <2>1. CanRefreshReportRetry(interview, now)
    <3>1. rows[ReportOp].type = "generate_report"
      BY <1>2, RetryRows, Ids DEF Ledger, RowKinds, FitsKind, RetriedTypes, PlannedTypes
    <3>2. QED
      BY <1>2, <3>1 DEF AcceptRetry, RetryAdmitted
  <2>2. QED
    BY <1>1, <1>2, <2>1, RefreshReportRetrySaved DEF Saved
<1>3. CASE /\ id \in Ops /\ rows[id].type \in PlannedTypes
           /\ CanRetry(interview, CommandOf(id), now)
           /\ interview' = AcceptRetriedOperation(interview, CommandOf(id), now)
  <2>1. CommandOf(id) \in PlannedCommand
    BY <1>3, CommandType DEF Ledger
  <2>2. FitsPhase(interview, CommandOf(id)) /\ ~ IsPending(interview) /\ now >= interview.lastActivity
    BY <1>3 DEF CanRetry
  <2>3. QED
    BY <1>1, <1>3, <2>1, <2>2, AcceptSaved DEF Saved
<1>4. CASE id \in Ops /\ CanRefresh(interview, id, now) /\ interview' = Refresh(interview, now)
  BY <1>1, <1>4, RefreshSaved DEF Saved
<1>5. QED
  BY <1>2, <1>3, <1>4, RetryAdmits

LEMMA FinalizationSaved ==
  ASSUME Ledger, Story, Tallied(interview), NEW e \in executions, ExecutionStep(e)
  PROVE  Saved
<1> DEFINE p == ReconstructedPlan(e.op)
<1>1. interview \in Interview /\ Sound(interview)
  BY DEF Story
<1>2. ASSUME Reconstructs(e)
      PROVE  /\ p \in Plan /\ IsPending(interview)
             /\ p.materialKind = MaterialKind(CurrentQuestion(interview), p.command)
  <2>1. p \in Plan /\ IsPending(interview) /\ p.command = CommandOf(e.op)
    BY <1>2, Reconstructed
  <2>2. p.materialKind = MaterialKind(CurrentQuestion(interview), CommandOf(e.op))
    BY DEF ReconstructedPlan, PlanOf
  <2>3. QED
    BY <2>1, <2>2
<1>3. CASE FinalizeClarification(e)
  <2>1. /\ Reconstructs(e) /\ IsAccepted(interview, p) /\ ~ IsAnswer(p.command)
        /\ interview' = CompleteClarification(interview, p)
    BY <1>3 DEF FinalizeClarification, Completes, CanComplete
  <2> HIDE DEF p
  <2>2. QED
    BY <1>1, <1>2, <2>1, ClarificationSaved DEF Saved
<1>4. ASSUME NEW kind \in FollowUpKinds, FinalizeFollowUp(e, kind)
      PROVE  Saved
  <2>1. /\ Reconstructs(e) /\ IsAccepted(interview, p) /\ IsAnswer(p.command)
        /\ CanFollowUp(interview, kind) /\ interview' = CompleteWithFollowUp(interview, p, kind)
    BY <1>4 DEF FinalizeFollowUp, Completes, CanComplete
  <2> HIDE DEF p
  <2>2. QED
    BY <1>1, <1>2, <2>1, FollowUpSaved DEF Saved
<1>5. ASSUME NEW outcome \in EvaluatedOutcomes, FinalizeEvaluation(e, outcome)
      PROVE  Saved
  <2>1. /\ Reconstructs(e) /\ IsAccepted(interview, p) /\ IsAnswer(p.command)
        /\ interview' = CompleteWithEvaluation(interview, p, outcome)
    BY <1>5 DEF FinalizeEvaluation, Completes, CanComplete
  <2> HIDE DEF p
  <2>2. QED
    BY <1>1, <1>2, <2>1, EvaluationSaved DEF Saved
<1>6. ASSUME NEW retryable \in BOOLEAN, FailModel(e, retryable)
      PROVE  Saved
  <2>1. Reconstructs(e) /\ interview' = CancelOperation(interview)
    BY <1>6 DEF FailModel
  <2> HIDE DEF p
  <2>2. QED
    BY <1>1, <1>2, <2>1, CancelSaved DEF Saved
<1>7. CASE CompleteReport(e)
  <2>1. /\ \E t \in AppTime :
             LET at == NotBefore(NotBefore(t, interview.reportRequestedAt), interview.lastActivity)
             IN  CanRecordReport(interview, interview.reportKind, at)
        /\ interview' = RecordReport(interview)
    BY <1>7 DEF CompleteReport
  <2>2. PICK at : CanRecordReport(interview, interview.reportKind, at)
    BY <2>1
  <2>3. QED
    BY <1>1, <2>1, <2>2, RecordReportSaved DEF Saved
<1>8. CASE FailReport(e) \/ AbandonExecution(e)
  BY <1>8 DEF FailReport, AbandonExecution, Saved
<1>9. QED
  BY <1>3, <1>4, <1>5, <1>6, <1>7, <1>8 DEF ExecutionStep

LEMMA NextSaved ==
  ASSUME Ledger, Story, Tallied(interview), [Next]_vars
  PROVE  Saved
<1>1. interview \in Interview /\ interview.version \in Nat /\ now \in Times
  BY DEF Story, Ledger, Tables, Interview
<1>2. ASSUME NEW op \in Ops, NEW version \in 1..interview.version, NEW at \in AppTime,
             ClientStep(op, version, at)
      PROVE  Saved
  <2>1. version \in Nat /\ at \in Times
    BY <1>1 DEF AppTime
  <2>2. ASSUME NEW type \in ProgressTypes, Accepts(Command(type, op, version, at))
        PROVE  Saved
    BY <2>1, <2>2, ClientCommandType, ClientSaved
  <2>3. QED
    BY <1>2, <2>2 DEF ClientStep, RequestRetry, Saved
<1>3. ASSUME NEW r \in Ops, RetryStep(r)
      PROVE  Saved
  BY <1>3, RetrySaved DEF RetryStep, RejectRetry, FailRetry, Saved
<1>4. ASSUME NEW e \in executions, ExecutionStep(e)
      PROVE  Saved
  BY <1>4, FinalizationSaved
<1>5. CASE ExpireInterview
  <2>1. IsExpired(interview, now) /\ interview.status = "active" /\ interview' = Abandon(interview)
    BY <1>5 DEF ExpireInterview, Expired, IsExpired
  <2>2. QED
    BY <1>1, <2>1, CloseSaved DEF Saved
<1>6. CASE DeleteInterview
  BY <1>1, <1>6, DeleteSaved DEF DeleteInterview, Saved
<1>7. CASE FinalizeCreation \/ Crash \/ Tick \/ UNCHANGED vars
  BY <1>7 DEF FinalizeCreation, Crash, Tick, vars, Saved
<1>8. QED
  BY <1>2, <1>3, <1>4, <1>5, <1>6, <1>7 DEF Next

(* Both copies of the rules are the same definitions. *)
LEMMA CanonicalStep ==
  SaveAccepts(interview, interview') => Canonical!SaveAccepts(interview, interview')
  BY DEF Canonical!SaveAccepts, SaveAccepts,
         Canonical!ReportRetryRefreshed, ReportRetryRefreshed,
         Canonical!OperationAccepted, OperationAccepted,
         Canonical!OperationRefreshed, OperationRefreshed,
         Canonical!OperationCancelled, OperationCancelled,
         Canonical!ClarificationCompleted, ClarificationCompleted,
         Canonical!FollowUpCompleted, FollowUpCompleted,
         Canonical!EvaluationCompleted, EvaluationCompleted,
         Canonical!UnevaluatedOutcomeRecorded, UnevaluatedOutcomeRecorded,
         Canonical!QuestionFrozen, QuestionFrozen, Canonical!EndedEarly, EndedEarly,
         Canonical!ReportStored, ReportStored, Canonical!Abandoned, Abandoned,
         Canonical!ExpiredOnAccess, ExpiredOnAccess, Canonical!Deleting, Deleting,
         Canonical!Pends, Pends, Canonical!ExpectedMaterialKind, ExpectedMaterialKind,
         Canonical!Answered, Answered, Canonical!Released, Released, Canonical!Frozen, Frozen,
         Canonical!ReportAwaited, ReportAwaited, Canonical!Closed, Closed,
         Canonical!CurrentQuestion, CurrentQuestion,
         Canonical!WithCurrentQuestion, WithCurrentQuestion, Canonical!NoPending, NoPending,
         Canonical!Pending, Pending, Canonical!OperationKinds, OperationKinds,
         Canonical!Positions, Positions, Canonical!WaitingPhases, WaitingPhases,
         Canonical!FollowUpKinds, FollowUpKinds,
         Canonical!EvaluatedOutcomes, EvaluatedOutcomes, Canonical!NoTime, NoTime

LEMMA CanonicalInit ==
  Init => Canonical!Init
  BY DEF Init, Canonical!Init, Canonical!FreshInterview, FreshInterview,
         Canonical!FreshQuestion, FreshQuestion, Canonical!NoPending, NoPending,
         Canonical!Positions, Positions, Canonical!NoTime, NoTime

(* Every transaction of the server, whatever their interleaving, changes the *)
(* interview's aggregate only as the repository's own rules accept it.       *)
THEOREM RunnerIsCanonical == Spec => RepositoryAcceptsEveryStep
<1>1. Init => Inv /\ Tallied(interview) /\ Canonical!Init
  BY InitInv, FreshTallied, CanonicalInit DEF Init
<1>2. Inv /\ Tallied(interview) /\ [Next]_vars =>
        Inv' /\ Tallied(interview)' /\ [Canonical!Next]_interview
  <2> SUFFICES ASSUME Inv, Tallied(interview), [Next]_vars
               PROVE  Inv' /\ Tallied(interview') /\ [Canonical!Next]_interview
    OBVIOUS
  <2>1. Inv'
    BY StepInv
  <2>2. Saved
    BY NextSaved DEF Inv
  <2>3. QED
    BY <2>1, <2>2, CanonicalStep DEF Saved, Canonical!Next
<1>3. QED
  BY <1>1, <1>2, PTL DEF Spec, RepositoryAcceptsEveryStep, Canonical!Spec
===============================================================================
