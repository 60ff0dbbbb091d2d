------------------------------- MODULE RowLocks -------------------------------
(***************************************************************************)
(* The transactions around one interview, statement by statement.           *)
(* Elsewhere a transaction is one step; here each of its statements is, as  *)
(* PostgreSQL runs them at its default level READ COMMITTED: a plain SELECT  *)
(* sees what is committed when it starts and waits for nobody; an UPDATE, a  *)
(* DELETE or a SELECT FOR UPDATE waits for the holder of a row it matches,   *)
(* matches it again, and keeps it until its transaction ends; of             *)
(* transactions that wait for each other one is aborted.                     *)
(*                                                                         *)
(* An INSERT also locks the rows its foreign keys name, until its            *)
(* transaction ends, against a SELECT FOR UPDATE and a DELETE.  All but one  *)
(* of these fall on rows that the transaction has locked itself and are left *)
(* out; the one is a report's on its owner (insertReport).  Two reports of   *)
(* one interview would share that lock, but the second waits for the         *)
(* interview's row first.  Purges come days after everything here.           *)
(***************************************************************************)
EXTENDS Naturals, FiniteSets, SequencesExt

CONSTANTS
  Askers,      \* deliveries of one continue_interview request, under one key
  Retriers,    \* deliveries of retry_operation requests for one target
  CommandOf,   \* the operation row of each retrier's request
  Finishers,   \* finalizations, each of some execution
  Deleters,    \* interview deletions
  Leavers,     \* account deletions
  Refreshers,  \* session refreshes
  Sweepers,    \* maintenance sweeps of expired interviews
  Casts,       \* which of them may meet in one behaviour
  Nobody       \* also: no row

Kinds == <<Askers, Retriers, Finishers, Deleters, Leavers, Refreshers, Sweepers>>
Transactions ==
  UNION {Askers, Retriers, Finishers, Deleters, Leavers, Refreshers, Sweepers}

Commands == {CommandOf[t] : t \in Retriers}
Operations == {"target"} \cup Commands
Rows == {"session", "user", "interview", "command"} \cup Operations

(* Every transaction is of one kind, and the rows are different rows.       *)
ASSUME LocksAssumption ==
  /\ IsFiniteSet(Transactions)
  /\ Casts \subseteq SUBSET Transactions
  /\ \A i, j \in DOMAIN Kinds : i # j => Kinds[i] \cap Kinds[j] = {}
  /\ CommandOf \in [Retriers -> Commands]
  /\ Commands \cap {"session", "user", "interview", "command", "target"} = {}
  /\ Nobody \notin Transactions \cup Rows

VARIABLES
  db,          \* the committed rows
  held,        \* who holds each row
  tx,          \* each transaction: its statement, writes and what it read
  executions,  \* accepted attempts at the target, in the server's memory
  lapsed,      \* operations in progress whose lease is over
  stale        \* the interview's last activity is more than 24 hours ago

vars == <<db, held, tx, executions, lapsed, stale>>

(* The target, a supplement to the first question of an active interview or  *)
(* the report of one that waits for it, is being worked on, or has failed    *)
(* and may be retried.  `pending` is the interview's reference to a           *)
(* supplement, and `position` stands for its version too: only a continue     *)
(* and a stored report move them here.                                       *)
InitRows(lifecycle, status) ==
  [r \in Rows |->
     CASE r = "session" -> [status |-> "kept"]
       [] r = "user" -> [status |-> "active"]
       [] r = "interview" ->
            [status |-> lifecycle, position |-> 1,
             pending |-> lifecycle = "active" /\ status = "processing"]
       [] r = "command" -> [status |-> "none", position |-> 0]
       [] r = "target" -> [status |-> status, attempt |-> 1]
       [] OTHER -> [status |-> "none"]]

(* Fault: a retry's command is stored without the user's and the            *)
(* interview's lock.                                                        *)
FaultFirstStatement(t) ==
  CASE t \in Askers -> "find"
    [] t \in Retriers -> "insert"
    [] t \in Deleters -> "lockUser"
    [] t \in Finishers -> "load"
    [] t \in Leavers \cup Refreshers -> "lockSession"
    [] t \in Sweepers -> "sweep"

FirstStatement(t) ==
  CASE t \in Askers -> "find"
    [] t \in Retriers \cup Deleters -> "lockUser"
    [] t \in Finishers -> "load"
    [] t \in Leavers \cup Refreshers -> "lockSession"
    [] t \in Sweepers -> "sweep"

(* `undo` marks a transaction that found the interview expired: it is       *)
(* rolled back, and the expiry persisted by another.                        *)
NoReads == [position |-> 0, pending |-> FALSE, target |-> "none",
            execution |-> [attempt |-> 0, command |-> Nobody]]

Transaction(statement, reply) ==
  [at |-> statement, writes |-> <<>>, read |-> NoReads, left |-> <<>>, undo |-> FALSE,
   reply |-> reply]

Init ==
  /\ \E lifecycle \in {"active", "report_pending"}, status \in {"processing", "failed"} :
       /\ db = InitRows(lifecycle, status)
       /\ executions = IF status = "processing" THEN {[attempt |-> 1, command |-> Nobody]} ELSE {}
  /\ held = [r \in Rows |-> Nobody]
  /\ \E cast \in Casts :
       tx = [t \in Transactions |-> Transaction(IF t \in cast THEN FirstStatement(t) ELSE "done", "none")]
  /\ lapsed = {} /\ stale = FALSE
-------------------------------------------------------------------------------
(* What a statement of t sees: its own writes over what is committed.      *)
Put(writes, r, row) == [s \in DOMAIN writes \cup {r} |-> IF s = r THEN row ELSE writes[s]]

Seen(t) == [r \in Rows |-> IF r \in DOMAIN tx[t].writes THEN tx[t].writes[r] ELSE db[r]]

IsOpen(row) == row.status \in {"pending", "processing"}

(* assertInterviewMutable: commands are stored and claimed only here.       *)
IsMutable(interview) == interview.status \in {"active", "report_pending"}

Lapsed(t, r) == Seen(t)[r].status = "processing" /\ r \in lapsed

(* assertDuplicateMatches: the command is stored for another position.      *)
Contradicts(t) ==
  db["command"].status # "none" /\ db["command"].position # tx[t].read.position

(* Every access of the repositories first expires the interview if it is    *)
(* due; findByIdempotencyKey only does for an operation it finds.           *)
Accesses(t) ==
  \/ tx[t].at \in {"read", "insert", "claimCommand", "readTarget", "readInterview",
                   "claimTarget", "saveRetry", "reject", "load", "settleTarget",
                   "saveInterview", "settleCommand"}
  \/ tx[t].at = "find" /\ db["command"].status # "none"
  \/ tx[t].at = "decide" /\ ~ Contradicts(t)

IsDueToExpire(t) == stale /\ Seen(t)["interview"].status = "active"

(* The row that the next statement of t locks for itself ...                *)
RowOf(t) ==
  CASE tx[t].at = "lockSession" -> "session"
    [] tx[t].at \in {"lockUser", "relockUser", "insertReport"} -> "user"
    [] tx[t].at \in {"lockInterview", "relockInterview", "close", "persistExpiry",
                     "saveRetry", "saveInterview"} -> "interview"
    [] tx[t].at \in {"claimCommand", "reject"} -> CommandOf[t]
    [] tx[t].at \in {"claimTarget", "settleTarget"} -> "target"
    [] tx[t].at = "settleCommand" -> tx[t].read.execution.command
    [] tx[t].at = "cancel" /\ tx[t].left # <<>> -> Head(tx[t].left)
    [] OTHER -> Nobody

(* ... if its WHERE clause matches it.                                      *)
Matches(t) ==
  LET seen == Seen(t)
      read == tx[t].read
  IN  CASE tx[t].at = "lockSession" -> seen["session"].status = "kept"
        [] tx[t].at \in {"claimCommand", "reject"} ->
             seen[CommandOf[t]].status = "pending" \/ Lapsed(t, CommandOf[t])
        [] tx[t].at = "claimTarget" ->
             seen["target"].status = read.target
               /\ (read.target = "failed" \/ Lapsed(t, "target"))
        [] tx[t].at \in {"saveRetry", "saveInterview"} ->
             IsMutable(seen["interview"]) /\ seen["interview"].pending = read.pending
               /\ seen["interview"].position = 1
        [] tx[t].at = "settleTarget" ->
             seen["target"] = [status |-> "processing", attempt |-> read.execution.attempt]
               /\ "target" \notin lapsed
        [] tx[t].at = "settleCommand" ->
             seen[read.execution.command].status = "processing"
               /\ read.execution.command \notin lapsed
        [] tx[t].at = "close" -> seen["interview"].status # "deleting"
        [] tx[t].at = "persistExpiry" -> IsDueToExpire(t)
        [] tx[t].at = "cancel" /\ tx[t].left # <<>> -> IsOpen(seen[Head(tx[t].left)])
        [] OTHER -> RowOf(t) # Nobody

Wanted(t) ==
  IF Accesses(t) /\ IsDueToExpire(t) THEN "interview"
  ELSE IF Matches(t) THEN RowOf(t) ELSE Nobody

Waits(t) == Wanted(t) # Nobody /\ held[Wanted(t)] \notin {t, Nobody}

(* The next statement of t is `statement`, and nothing keeps it from running. *)
Runs(t, statement) ==
  /\ tx[t].at = statement
  /\ ~ Waits(t)
  /\ ~ (Accesses(t) /\ IsDueToExpire(t))

Locks(t) == held' = IF Wanted(t) = Nobody THEN held ELSE [held EXCEPT ![Wanted(t)] = t]

Released(t) == [r \in Rows |-> IF held[r] = t THEN Nobody ELSE held[r]]

Goes(t, statement) == tx' = [tx EXCEPT ![t].at = statement]

Writes(t, r, row, statement) ==
  tx' = [tx EXCEPT ![t].at = statement, ![t].writes = Put(@, r, row)]

(* A transaction ends without a trace, and its caller goes on or is told.   *)
GivesUp(t, statement, reply) ==
  /\ held' = Released(t)
  /\ tx' = [tx EXCEPT ![t] = Transaction(statement, reply)]
  /\ UNCHANGED <<db, executions, lapsed, stale>>

OnlyLocks == UNCHANGED <<db, executions, lapsed, stale>>
OnlyReads == UNCHANGED <<db, held, executions, lapsed, stale>>
-------------------------------------------------------------------------------
(* SELECT ... FOR UPDATE, and what each transaction does next.              *)
AfterLock(t, statement) ==
  CASE statement = "lockSession" -> "lockUser"
    [] statement = "lockUser" ->
         IF t \in Leavers THEN "leave"
         ELSE IF t \in Refreshers \/ (t \in Deleters /\ db["user"].status = "deleting") THEN "commit"
         ELSE "lockInterview"
    [] statement = "lockInterview" ->
         IF t \in Askers THEN "decide" ELSE IF t \in Retriers THEN "insert" ELSE "close"
    [] statement = "relockUser" -> "relockInterview"
    [] statement = "relockInterview" -> "claimTarget"

LockRow(t, statement) ==
  /\ Runs(t, statement)
  /\ IF t \in Refreshers /\ statement = "lockSession" /\ ~ Matches(t) THEN Goes(t, "commit")
     ELSE Goes(t, AfterLock(t, statement))
  /\ Locks(t) /\ OnlyLocks

Commit(t) ==
  LET claimed == {r \in Operations \cap DOMAIN tx[t].writes : tx[t].writes[r].status = "processing"}
      retried == "target" \in claimed
  IN  /\ Runs(t, "commit")
      /\ db' = Seen(t)
      /\ held' = Released(t)
      /\ tx' = [tx EXCEPT ![t] =
                  Transaction(IF t \in Retriers /\ tx[t].reply = "stored" THEN "claimCommand" ELSE "done",
                              IF @.reply = "stored" THEN "none" ELSE @.reply)]
      /\ executions' =
           IF retried
           THEN executions \cup {[attempt |-> Seen(t)["target"].attempt, command |-> CommandOf[t]]}
           ELSE executions
      /\ lapsed' = (lapsed \ claimed) \cap {r \in Operations : IsOpen(Seen(t)[r])}
      /\ stale' = (stale /\ ~ retried /\ Seen(t)["interview"].position = db["interview"].position)
-------------------------------------------------------------------------------
(* acceptProgress.  What precedes createOrLoad's locks is read at three     *)
(* different moments: the key, the interview, the rows that go with it.     *)
FindByKey(t) ==
  LET found == db["command"].status # "none" /\ db["interview"].status # "deleting"
  IN  /\ Runs(t, "find")
      /\ tx' = [tx EXCEPT ![t].at = IF found THEN "lockUser" ELSE "read",
                          ![t].read.position = db["command"].position]
      /\ OnlyReads

(* Fault: a lapsed target, too, is taken over under the interview's lock.   *)
FaultAfterRead(t) == IF t \in Askers THEN "lockUser" ELSE "relockUser"

(* Where a transaction goes with the interview it has read.                 *)
AfterRead(t) ==
  IF t \in Askers THEN "lockUser"
  ELSE IF tx[t].read.target = "failed" THEN "relockUser" ELSE "claimTarget"

ReadInterview(t) ==
  LET interview == db["interview"]
  IN  /\ Runs(t, "read")
      /\ IF interview.status = "deleting" THEN GivesUp(t, "done", "refused")
         ELSE /\ tx' = [tx EXCEPT ![t].at = IF interview.pending THEN "readPending" ELSE AfterRead(t),
                                  ![t].read.position = interview.position]
              /\ OnlyReads

(* The load refuses an interview whose pending operation is not processing. *)
ReadPending(t) ==
  /\ Runs(t, "readPending")
  /\ IF db["target"].status # "processing" THEN GivesUp(t, "done", "unreadable")
     ELSE Goes(t, AfterRead(t)) /\ OnlyReads

(* createOrLoad under its locks, the command and its save: no other row is  *)
(* waited for, and no one else sees a step of it.  Whether the target left   *)
(* the question with an outcome, to continue from, is left open.             *)
Decide(t) ==
  LET seen      == Seen(t)
      interview == seen["interview"]
      existing  == seen["command"]
      fits      == interview.status = "active" /\ ~ interview.pending /\ interview.position = 1
      Answer(status) == Put(<<>>, "command", [status |-> status, position |-> tx[t].read.position])
  IN  /\ Runs(t, "decide")
      /\ IF interview.status = "deleting" THEN GivesUp(t, "done", "refused")
         ELSE IF existing.status # "none"
         THEN GivesUp(t, "done", IF Contradicts(t) THEN "conflict" ELSE "original")
         ELSE IF ~ IsMutable(interview) THEN GivesUp(t, "done", "refused")
         ELSE \E handled \in {FALSE, fits} :
              /\ tx' = [tx EXCEPT
                   ![t].at = "commit", ![t].reply = "original",
                   ![t].writes = IF handled THEN Put(Answer("succeeded"), "interview",
                                                     [interview EXCEPT !.position = 2])
                                 ELSE Answer("failed")]
              /\ UNCHANGED <<db, held, executions, lapsed, stale>>
-------------------------------------------------------------------------------
(* Retry acceptance: createOrLoad in a transaction of its own ...           *)
StoreCommand(t) ==
  LET seen == Seen(t)
  IN  /\ Runs(t, "insert")
      /\ IF seen["interview"].status = "deleting" THEN GivesUp(t, "done", "refused")
         ELSE IF seen[CommandOf[t]].status # "none"
         THEN GivesUp(t, IF IsOpen(seen[CommandOf[t]]) THEN "claimCommand" ELSE "done", "none")
         ELSE IF ~ IsMutable(seen["interview"]) THEN GivesUp(t, "done", "refused")
         ELSE /\ tx' = [tx EXCEPT ![t].at = "commit", ![t].reply = "stored",
                                  ![t].writes = Put(<<>>, CommandOf[t], [status |-> "pending"])]
              /\ UNCHANGED <<db, held, executions, lapsed, stale>>

(* ... then the command is claimed, or claimed again once its lease is over. *)
ClaimCommand(t) ==
  /\ Runs(t, "claimCommand")
  /\ IF ~ IsMutable(db["interview"]) THEN GivesUp(t, "reject", "none")
     ELSE IF ~ Matches(t) THEN GivesUp(t, "done", "none")
     ELSE /\ Writes(t, CommandOf[t], [status |-> "processing"], "readTarget")
          /\ Locks(t) /\ OnlyLocks

ReadTarget(t) ==
  /\ Runs(t, "readTarget")
  /\ tx' = [tx EXCEPT ![t].at = "readInterview", ![t].read.target = db["target"].status]
  /\ OnlyReads

(* A failed target is retried under the user's and the interview's locks; a *)
(* lapsed one is taken over without.                                        *)
ChooseClaim(t) ==
  LET interview == db["interview"]
      target    == tx[t].read.target
  IN  /\ Runs(t, "readInterview")
      /\ IF \/ ~ IsMutable(interview) \/ interview.position # 1
            \/ target = "settled"
         THEN GivesUp(t, "reject", "none")
         ELSE /\ tx' = [tx EXCEPT ![t].at = IF interview.pending THEN "readPending" ELSE AfterRead(t),
                                  ![t].read.pending = interview.pending]
              /\ OnlyReads

ClaimTarget(t) ==
  /\ Runs(t, "claimTarget")
  /\ IF \/ ~ IsMutable(Seen(t)["interview"]) \/ ~ Matches(t)
        \/ /\ Seen(t)["interview"].status = "active"
           /\ tx[t].read.pending # (tx[t].read.target = "processing")
     THEN GivesUp(t, "reject", "none")
     ELSE /\ Writes(t, "target", [status |-> "processing", attempt |-> db["target"].attempt + 1], "saveRetry")
          /\ Locks(t) /\ OnlyLocks

(* A report's retry only moves the time of the last activity.               *)
SaveRetry(t) ==
  /\ Runs(t, "saveRetry")
  /\ IF ~ Matches(t) THEN GivesUp(t, "done", "aborted")
     ELSE /\ Writes(t, "interview", [db["interview"] EXCEPT !.pending = @ \/ db["interview"].status = "active"],
                    "commit")
          /\ Locks(t) /\ OnlyLocks

(* failRetryCommand.  On an interview that has ended only a pending row can *)
(* be failed; a deleted interview shows none.                               *)
RejectCommand(t) ==
  LET row == db[CommandOf[t]]
  IN  /\ Runs(t, "reject")
      /\ IF \/ ~ Matches(t) \/ db["interview"].status = "deleting"
            \/ ~ IsMutable(db["interview"]) /\ row.status # "pending"
         THEN GivesUp(t, "done", "none")
         ELSE /\ Writes(t, CommandOf[t], [status |-> "settled"], "commit")
              /\ Locks(t) /\ OnlyLocks
-------------------------------------------------------------------------------
(* Finalization: the operation, the interview, the report and the row of its *)
(* owner, the command of the retry.  One that has read no pending reference  *)
(* is a report's.                                                            *)
LoadExecution(t, e) ==
  LET interview == db["interview"]
  IN  /\ Runs(t, "load")
      /\ e \in executions
      /\ executions' = executions \ {e}
      /\ IF /\ IsMutable(interview) /\ interview.pending = (interview.status = "active")
            /\ db["target"].status = "processing"
         THEN tx' = [tx EXCEPT ![t].at = "settleTarget", ![t].read.execution = e,
                               ![t].read.pending = interview.pending]
         ELSE tx' = [tx EXCEPT ![t] = Transaction("done", "aborted")]
      /\ UNCHANGED <<db, held, lapsed, stale>>

AfterSave(t) == IF tx[t].read.execution.command = Nobody THEN "commit" ELSE "settleCommand"

(* A report that has failed leaves its interview as it is.                  *)
SettleTarget(t, status) ==
  /\ Runs(t, "settleTarget")
  /\ IF ~ Matches(t) THEN GivesUp(t, "done", "aborted")
     ELSE /\ Writes(t, "target", [db["target"] EXCEPT !.status = status],
                    IF status = "settled" \/ tx[t].read.pending THEN "saveInterview" ELSE AfterSave(t))
          /\ Locks(t) /\ OnlyLocks

SaveInterview(t) ==
  LET interview == db["interview"]
  IN  /\ Runs(t, "saveInterview")
      /\ IF ~ Matches(t) THEN GivesUp(t, "done", "aborted")
         ELSE /\ IF tx[t].read.pending
                 THEN Writes(t, "interview", [interview EXCEPT !.pending = FALSE], AfterSave(t))
                 ELSE Writes(t, "interview", [interview EXCEPT !.status = "completed", !.position = 2],
                             "insertReport")
              /\ Locks(t) /\ OnlyLocks

(* The report names its owner, whose row nothing before has locked.         *)
InsertReport(t) ==
  /\ Runs(t, "insertReport")
  /\ Goes(t, AfterSave(t))
  /\ Locks(t) /\ OnlyLocks

SettleCommand(t) ==
  /\ Runs(t, "settleCommand")
  /\ IF ~ Matches(t) THEN GivesUp(t, "done", "aborted")
     ELSE /\ Writes(t, tx[t].read.execution.command, [status |-> "settled"], "commit")
          /\ Locks(t) /\ OnlyLocks
-------------------------------------------------------------------------------
(* Whatever closes an interview cancels its open operations afterwards.     *)
Closed(t) ==
  [Seen(t)["interview"] EXCEPT !.status = IF t \in Deleters \cup Leavers THEN "deleting" ELSE "abandoned",
                               !.pending = FALSE]

Leave(t) ==
  /\ Runs(t, "leave")
  /\ tx' = [tx EXCEPT ![t].at = "close",
                      ![t].writes = Put(Put(<<>>, "user", [status |-> "deleting"]),
                                        "session", [status |-> "gone"])]
  /\ OnlyReads

(* One interview, and its owner's row with it, unless either is locked.     *)
Sweep(t) ==
  LET due == /\ stale /\ db["interview"].status = "active" /\ db["user"].status = "active"
             /\ held["interview"] = Nobody /\ held["user"] = Nobody
  IN  /\ Runs(t, "sweep")
      /\ IF due THEN /\ held' = [held EXCEPT !["interview"] = t, !["user"] = t]
                     /\ Goes(t, "persistExpiry")
                     /\ OnlyLocks
         ELSE GivesUp(t, "done", "none")

Close(t) ==
  /\ Runs(t, "close")
  /\ IF Matches(t) THEN Writes(t, "interview", Closed(t), "scan")
     ELSE IF t \in Leavers THEN Goes(t, "scan") ELSE Goes(t, "commit")
  /\ Locks(t) /\ OnlyLocks

PersistExpiry(t) ==
  /\ Runs(t, "persistExpiry")
  /\ IF Matches(t) THEN Writes(t, "interview", Closed(t), "scan") ELSE Goes(t, "commit")
  /\ Locks(t) /\ OnlyLocks

(* An access that finds the interview due expires it within its own         *)
(* transaction, which is then rolled back ...                               *)
ExpireOnAccess(t) ==
  /\ Accesses(t) /\ IsDueToExpire(t) /\ ~ Waits(t)
  /\ tx' = [tx EXCEPT ![t].at = "scan", ![t].undo = TRUE,
                      ![t].writes = Put(@, "interview", Closed(t))]
  /\ Locks(t) /\ OnlyLocks

(* cancelOpenOperations: one UPDATE, whose rows come in no given order.     *)
Scan(t) ==
  /\ Runs(t, "scan")
  /\ \E order \in SetToSeqs({r \in Operations : IsOpen(Seen(t)[r])}) :
       tx' = [tx EXCEPT ![t].at = "cancel", ![t].left = order]
  /\ OnlyReads

Cancel(t) ==
  /\ tx[t].at = "cancel" /\ tx[t].left # <<>> /\ ~ Waits(t)
  /\ LET r == Head(tx[t].left)
     IN  tx' = [tx EXCEPT ![t].left = Tail(@),
                          ![t].writes = IF Matches(t) THEN Put(@, r, [Seen(t)[r] EXCEPT !.status = "settled"])
                                        ELSE @]
  /\ Locks(t) /\ OnlyLocks

(* ... and the expiry persisted by another transaction.                     *)
CancelledAll(t) ==
  /\ tx[t].at = "cancel" /\ tx[t].left = <<>>
  /\ IF tx[t].undo THEN GivesUp(t, "persistExpiry", "refused")
     ELSE Goes(t, "commit") /\ OnlyReads

(* Of transactions that wait for each other, PostgreSQL aborts one.         *)
Deadlocks ==
  LET waiting == {t \in Transactions : Waits(t)}
      holder  == [t \in waiting |-> held[Wanted(t)]]
  IN  {D \in SUBSET waiting : D # {} /\ \A t \in D : holder[t] \in D}

Abort(t) ==
  /\ Waits(t)
  /\ \E D \in Deadlocks : t \in D
  /\ GivesUp(t, "done", "aborted")
-------------------------------------------------------------------------------
(* A retry's command and its target are leased until the same moment, and   *)
(* an older command's lease is over by then.                                *)
Lapse ==
  LET leased == {r \in Operations : db[r].status = "processing"}
  IN  /\ ~ (leased \subseteq lapsed)
      /\ lapsed' = leased
      /\ UNCHANGED <<db, held, tx, executions, stale>>

(* 24 hours have passed since the last activity.                            *)
GrowStale ==
  /\ ~ stale /\ db["interview"].status = "active"
  /\ stale' = TRUE
  /\ UNCHANGED <<db, held, tx, executions, lapsed>>

Next ==
  \/ \E t \in Transactions :
       \/ \E s \in {"lockSession", "lockUser", "lockInterview", "relockUser", "relockInterview"} :
            LockRow(t, s)
       \/ FindByKey(t) \/ ReadInterview(t) \/ ReadPending(t) \/ Decide(t)
       \/ StoreCommand(t) \/ ClaimCommand(t) \/ ReadTarget(t) \/ ChooseClaim(t)
       \/ ClaimTarget(t) \/ SaveRetry(t) \/ RejectCommand(t)
       \/ \E e \in executions : LoadExecution(t, e)
       \/ \E status \in {"failed", "settled"} : SettleTarget(t, status)
       \/ SaveInterview(t) \/ InsertReport(t) \/ SettleCommand(t)
       \/ Leave(t) \/ Sweep(t) \/ Close(t) \/ PersistExpiry(t) \/ ExpireOnAccess(t)
       \/ Scan(t) \/ Cancel(t) \/ CancelledAll(t) \/ Commit(t) \/ Abort(t)
  \/ Lapse
  \/ GrowStale

Spec == Init /\ [][Next]_vars
-------------------------------------------------------------------------------
(* Every transaction takes the rows it shares with others in one order, from *)
(* the user's down, with two exceptions: what closes an interview locks its  *)
(* operations last while a finalization locks its operation first, and a     *)
(* report names the user when its interview is locked already.  Only there    *)
(* may PostgreSQL have to abort one: in every deadlock operations are being   *)
(* cancelled, or a report waits for its owner's row while the holder of that  *)
(* row waits for the interview.                                              *)
DeadlocksAreKnown ==
  \A D \in Deadlocks : \E t \in D :
    \/ tx[t].at = "cancel"
    \/ tx[t].at = "insertReport" /\ Wanted(held["user"]) = "interview" /\ held["interview"] = t

(* What is committed agrees row by row, as if each transaction had run at    *)
(* once: an active interview's reference with its operation, a waiting or     *)
(* completed interview with its report's, an open retry with its target, a    *)
(* closed interview with no open operation at all, and a leaving user with     *)
(* nothing that is left open.                                                *)
CommittedRowsAgree ==
  /\ db["interview"].pending <=>
       db["interview"].status = "active" /\ db["target"].status = "processing"
  /\ db["interview"].status = "report_pending" => db["target"].status # "settled"
  /\ db["interview"].status = "completed" => db["target"].status = "settled"
  /\ db["interview"].status \in {"abandoned", "deleting"} => \A r \in Operations : ~ IsOpen(db[r])
  /\ \A r \in Commands :
       db[r].status = "processing" => db["target"].status = "processing" \/ r \in lapsed
  /\ db["user"].status = "deleting" =>
       db["session"].status = "gone" /\ db["interview"].status = "deleting"

(* "WHEN the same authenticated user repeats a command with the same         *)
(* Idempotency Key THEN the system returns the original Operation and        *)
(* result" (openspec, interview-session/spec.md): no delivery is told that   *)
(* its key stands for another command.                                       *)
RepeatReturnsTheOriginal == \A t \in Askers : tx[t].reply # "conflict"
===============================================================================
