--------------------------- MODULE MCOperationRunner ---------------------------
(***************************************************************************)
(* Client operation ids are interchangeable: nothing orders them.  Two      *)
(* states that differ only in dead columns have the same future.  A row     *)
(* that succeeded or failed for good is only ever asked for its status, and  *)
(* by the invariants whether it was a planned command and, if it succeeded,  *)
(* stamped too late.  Nobody asks a retry command for its stamp.             *)
(***************************************************************************)
EXTENDS OperationRunner, TLC

Symmetry == Permutations(Ops)

Settled(row) == row.status = "succeeded" \/ (row.status = "failed" /\ ~ row.retryable)

LiveColumns(row) ==
  CASE Settled(row) ->
         <<row.status, row.type \in PlannedTypes,
           row.type \in PlannedTypes /\ row.status = "succeeded" /\ StampedTooLate(row)>>
    [] row.type = "retry_operation" -> [row EXCEPT !.createdAt = NoTime]
    [] OTHER -> row

LiveView == <<now, interview, [id \in RowIds |-> LiveColumns(rows[id])], executions, rejected>>
===============================================================================
