---------------------------- MODULE RowLocksProofs ----------------------------
(***************************************************************************)
(* CommittedRowsAgree and DeadlocksAreKnown, for any number of transactions  *)
(* of each kind and any casts.  Both follow from Inv: what each              *)
(* transaction has written, holds and relies on at each of its statements.   *)
(* The predicates take a transaction t, its record x, the rows h it holds,   *)
(* the committed rows d and the lapsed leases l as parameters, so that a     *)
(* step of one transaction is seen to concern no other.                      *)
(***************************************************************************)
EXTENDS RowLocks, FiniteSetTheorems, TLAPS

IsTx(x) ==
  /\ DOMAIN x = {"at", "writes", "read", "left", "undo", "reply"}
  /\ DOMAIN x.read = {"position", "pending", "target", "execution"}
  /\ DOMAIN x.writes \subseteq Rows
  /\ x.left \in Seq(Operations)
  /\ x.undo \in BOOLEAN

TxTyped ==
  /\ DOMAIN tx = Transactions
  /\ \A t \in Transactions : IsTx(tx[t])

HeldTyped == held \in [Rows -> Transactions \cup {Nobody}]

Mine(t) == {r \in Rows : held[r] = t}

InterviewRows ==
  [status : {"active", "report_pending", "completed", "abandoned", "deleting"},
   pending : BOOLEAN, position : Nat]
TargetRows == [status : {"processing", "failed", "settled"}, attempt : Nat \ {0}]
CommandRows == [status : {"none", "pending", "processing", "settled"}]

RowsTyped(d) ==
  /\ DOMAIN d = Rows
  /\ d["interview"] \in InterviewRows
  /\ d["target"] \in TargetRows
  /\ \A c \in Commands : d[c] \in CommandRows

(* What a transaction in state x sees in row r. *)
Shown(x, d, r) == IF r \in DOMAIN x.writes THEN x.writes[r] ELSE d[r]

-------------------------------------------------------------------------------
(* The rows a transaction may hold before each statement.                   *)
MayHold(at) ==
  CASE at = "lockUser" -> {"session"}
    [] at \in {"lockInterview", "leave"} -> {"session", "user"}
    [] at \in {"insert", "decide", "close", "persistExpiry"} -> {"session", "user", "interview"}
    [] at \in {"readTarget", "readInterview", "readPending", "relockUser"} -> Commands
    [] at = "relockInterview" -> Commands \cup {"user"}
    [] at = "claimTarget" -> Commands \cup {"user", "interview"}
    [] at = "saveRetry" -> Operations \cup {"user", "interview"}
    [] at = "saveInterview" -> {"target"}
    [] at = "insertReport" -> {"target", "interview"}
    [] at = "settleCommand" -> {"target", "interview", "user"}
    [] at \in {"scan", "cancel", "commit"} -> Rows
    [] OTHER -> {}

(* An operation and the interview are written by their holder alone; but a   *)
(* new command has no row to hold yet: the interview's lock keeps others     *)
(* from adding it.  Nothing below depends on who holds the other rows.       *)
Owned(t, x, h, d) ==
  /\ \A r \in DOMAIN x.writes :
       \/ r \in h
       \/ r \in {"command", "session", "user"}
       \/ x.at = "commit" /\ r \in Commands /\ d[r].status = "none" /\ "interview" \in h
  /\ h \subseteq MayHold(x.at)
  /\ \A c \in Commands \cap h : IsOpen(d[c])

(* Nothing is written before these statements. *)
Starting ==
  {"lockSession", "lockUser", "lockInterview", "leave", "find", "read", "decide", "insert",
   "claimCommand", "reject", "load", "settleTarget", "sweep", "persistExpiry", "done"}

(* Which kind of transaction runs which statement. *)
ByKind(t, at) ==
  /\ at = "lockSession" => t \in Leavers \cup Refreshers
  /\ at = "lockUser" => t \in Askers \cup Retriers \cup Deleters \cup Leavers \cup Refreshers
  /\ at = "lockInterview" => t \in Askers \cup Retriers \cup Deleters
  /\ at \in {"find", "read", "decide"} => t \in Askers
  /\ at \in {"insert", "claimCommand", "reject"} => t \in Retriers
  /\ at \in {"load", "settleTarget"} => t \in Finishers
  /\ at = "leave" => t \in Leavers
  /\ at = "sweep" => t \in Sweepers
  /\ at = "persistExpiry" => t \notin Deleters \cup Leavers

(* A retry has claimed its command, which was pending or had lapsed ...      *)
Claimed(t, x, h, d, l) ==
  /\ t \in Retriers
  /\ CommandOf[t] \in DOMAIN x.writes \cap h
  /\ x.writes[CommandOf[t]] = [status |-> "processing"]
  /\ d[CommandOf[t]].status = "pending" \/ CommandOf[t] \in l
  /\ Commands \cap h = {CommandOf[t]}

(* ... and its target, which had failed or lapsed.                           *)
TargetClaimed(t, x, h, d, l) ==
  /\ Claimed(t, x, h, d, l)
  /\ "target" \in DOMAIN x.writes \cap h
  /\ x.writes["target"] = [status |-> "processing", attempt |-> d["target"].attempt + 1]
  /\ \/ d["target"].status = "failed" /\ "interview" \in h
     \/ d["target"].status = "processing" /\ "target" \in l

(* A finalization has settled the attempt it finalizes.                      *)
TargetSettled(t, x, h, d) ==
  /\ t \in Finishers
  /\ "target" \in DOMAIN x.writes \cap h
  /\ d["target"].status = "processing"
  /\ d["target"].attempt = x.read.execution.attempt
  /\ x.writes["target"] \in TargetRows
  /\ x.writes["target"].status \in {"failed", "settled"}
  /\ x.writes["target"].attempt = d["target"].attempt

(* The interview has been saved: by a retry, for which a supplement pends     *)
(* again; ...                                                                *)
RetrySaved(x, h, d) ==
  /\ "interview" \in DOMAIN x.writes \cap h
  /\ IsMutable(d["interview"])
  /\ x.writes["interview"] = [d["interview"] EXCEPT !.pending = @ \/ d["interview"].status = "active"]

(* ... by the finalization of a supplement, or of a report, with the report.  *)
SupplementSaved(x, h, d) ==
  /\ "interview" \in DOMAIN x.writes \cap h
  /\ d["interview"].status = "active"
  /\ x.writes["interview"] = [d["interview"] EXCEPT !.pending = FALSE]

ReportSaved(x, h, d) ==
  /\ "interview" \in DOMAIN x.writes \cap h
  /\ d["interview"].status = "report_pending"
  /\ x.writes["interview"] = [d["interview"] EXCEPT !.status = "completed", !.position = 2]
  /\ x.writes["target"].status = "settled"

(* The finalization of a report that has failed saves no interview.          *)
ReportFailed(x, d) ==
  /\ "interview" \notin DOMAIN x.writes
  /\ d["interview"].status # "active"
  /\ x.writes["target"].status = "failed"

Concluded(x, h, d) == SupplementSaved(x, h, d) \/ ReportSaved(x, h, d) \/ ReportFailed(x, d)

(* The interview has been closed, or had been deleted before; what has been  *)
(* cancelled since is settled.                                               *)
Closes(t, x, h, d) ==
  /\ IF "interview" \in DOMAIN x.writes
     THEN /\ "interview" \in h
          /\ x.writes["interview"] \in InterviewRows
          /\ ~ x.writes["interview"].pending
          /\ \/ x.writes["interview"].status = "deleting" /\ d["interview"].status # "deleting"
             \/ /\ x.writes["interview"].status = "abandoned" /\ d["interview"].status = "active"
                /\ t \notin Leavers
     ELSE d["interview"].status = "deleting" /\ t \in Leavers
  /\ IF t \in Leavers
     THEN /\ {"user", "session"} \subseteq DOMAIN x.writes
          /\ x.writes["session"].status = "gone"
     ELSE "user" \notin DOMAIN x.writes /\ "session" \notin DOMAIN x.writes
  /\ \A c \in Commands \cap DOMAIN x.writes : x.writes[c] \in CommandRows /\ x.writes[c].status = "settled"
  /\ "target" \in DOMAIN x.writes =>
       x.writes["target"] = [status |-> "settled", attempt |-> d["target"].attempt]

OpenFor(x, d) == {r \in Operations : IsOpen(Shown(x, d, r))}

(* What may be committed: nothing; ...                                       *)
Idle(x) == DOMAIN x.writes = {}

(* ... a continue's answer, and its effect on the interview; ...             *)
Continued(t, x, h, d) ==
  /\ t \in Askers
  /\ DOMAIN x.writes \subseteq {"command", "interview"}
  /\ "interview" \in DOMAIN x.writes =>
       /\ "interview" \in h /\ d["interview"].status = "active"
       /\ x.writes["interview"] = [d["interview"] EXCEPT !.position = 2]

(* ... a retry's command, new ...                                            *)
Stored(t, x, h, d) ==
  /\ t \in Retriers
  /\ DOMAIN x.writes = {CommandOf[t]}
  /\ x.writes[CommandOf[t]] = [status |-> "pending"]
  /\ d[CommandOf[t]].status = "none"
  /\ "interview" \in h /\ IsMutable(d["interview"])

(* ... or rejected; ...                                                      *)
Rejected(t, x) ==
  /\ t \in Retriers
  /\ DOMAIN x.writes = {CommandOf[t]}
  /\ x.writes[CommandOf[t]] = [status |-> "settled"]

(* ... an accepted retry; ...                                                *)
Retried(t, x, h, d, l) ==
  /\ t \in Retriers
  /\ DOMAIN x.writes = {CommandOf[t], "target", "interview"}
  /\ TargetClaimed(t, x, h, d, l)
  /\ RetrySaved(x, h, d)

(* ... a finalization; ...                                                   *)
Finished(t, x, h, d) ==
  LET c == x.read.execution.command
  IN  /\ TargetSettled(t, x, h, d)
      /\ Concluded(x, h, d)
      /\ \/ c = Nobody /\ DOMAIN x.writes \subseteq {"target", "interview"}
         \/ /\ c \in Commands \cap DOMAIN x.writes
            /\ DOMAIN x.writes \subseteq {"target", "interview", c}
            /\ x.writes[c] = [status |-> "settled"]

(* ... or the end of an interview that has no open operation any more.       *)
Ended(t, x, h, d) == Closes(t, x, h, d) /\ OpenFor(x, d) = {}

Committable(t, x, h, d, l) ==
  \/ Idle(x) \/ Continued(t, x, h, d) \/ Stored(t, x, h, d) \/ Rejected(t, x)
  \/ Retried(t, x, h, d, l) \/ Finished(t, x, h, d) \/ Ended(t, x, h, d)

(* What a transaction relies on before each statement.                       *)
Staged(t, x, h, d, l) ==
  LET W  == DOMAIN x.writes
      at == x.at
  IN  /\ x.undo => at \in {"scan", "cancel"} /\ t \notin Leavers \cup Deleters
      /\ ByKind(t, at)
      /\ at \in Starting => W = {}
      /\ at \in {"insert", "decide"} => "interview" \in h
      /\ at = "readPending" =>
           \/ t \in Askers /\ W = {} /\ h = {}
           \/ t \in Retriers /\ W = {CommandOf[t]} /\ Claimed(t, x, h, d, l)
      /\ at \in {"readTarget", "readInterview", "relockUser", "relockInterview", "claimTarget"} =>
           t \in Retriers /\ W = {CommandOf[t]} /\ Claimed(t, x, h, d, l)
      /\ at \in {"relockUser", "relockInterview"} => x.read.target = "failed"
      /\ at = "claimTarget" => /\ "interview" \in h <=> x.read.target = "failed"
                               /\ "user" \in h => "interview" \in h
      /\ at = "saveRetry" =>
           t \in Retriers /\ W = {CommandOf[t], "target"} /\ TargetClaimed(t, x, h, d, l)
      /\ at = "settleTarget" => x.read.pending \/ d["interview"].status # "active"
      /\ at = "saveInterview" =>
           /\ W = {"target"} /\ TargetSettled(t, x, h, d)
           /\ x.read.pending \/ x.writes["target"].status = "settled"
      /\ at = "insertReport" =>
           W = {"target", "interview"} /\ TargetSettled(t, x, h, d) /\ ReportSaved(x, h, d)
      /\ at = "settleCommand" =>
           /\ W \subseteq {"target", "interview"} /\ TargetSettled(t, x, h, d) /\ Concluded(x, h, d)
           /\ x.read.execution.command \in Commands
      /\ at = "close" =>
           \/ t \in Deleters /\ W = {}
           \/ t \in Leavers /\ W = {"user", "session"} /\ x.writes["session"].status = "gone"
      /\ at \in {"scan", "cancel"} /\ ~ x.undo => Closes(t, x, h, d)
      /\ at = "cancel" /\ ~ x.undo =>
           \A r \in OpenFor(x, d) : \E k \in DOMAIN x.left : x.left[k] = r
      /\ at = "commit" => Committable(t, x, h, d, l)

Fits(t, x, h, d, l) == Owned(t, x, h, d) /\ Staged(t, x, h, d, l)
-------------------------------------------------------------------------------
(* Only the newest attempt can have a command that is still leased, and a     *)
(* leased command is the one its target's newest attempt belongs to.          *)
InFlight == executions \cup {tx[t].read.execution : t \in Transactions}

Leased(es, d, l) ==
  /\ \A e \in es : e.attempt \in Nat /\ e.attempt <= d["target"].attempt
                     /\ e.command \in Commands \cup {Nobody}
  /\ \A r \in l : r \in Operations /\ d[r].status = "processing"
  /\ \A c \in Commands : d[c].status = "processing" /\ c \notin l =>
       /\ d["target"].status = "processing" /\ "target" \notin l
       /\ \A e \in es : e.attempt = d["target"].attempt => e.command = c

(* CommittedRowsAgree, of any committed rows. *)
Agree(d, l) ==
  /\ d["interview"].pending <=> d["interview"].status = "active" /\ d["target"].status = "processing"
  /\ d["interview"].status = "report_pending" => d["target"].status # "settled"
  /\ d["interview"].status = "completed" => d["target"].status = "settled"
  /\ d["interview"].status \in {"abandoned", "deleting"} => \A r \in Operations : ~ IsOpen(d[r])
  /\ \A c \in Commands : d[c].status = "processing" => d["target"].status = "processing" \/ c \in l
  /\ d["user"].status = "deleting" =>
       d["session"].status = "gone" /\ d["interview"].status = "deleting"

Inv ==
  /\ TxTyped
  /\ HeldTyped
  /\ RowsTyped(db)
  /\ Leased(InFlight, db, lapsed)
  /\ Agree(db, lapsed)
  /\ \A t \in Transactions : Fits(t, tx[t], Mine(t), db, lapsed)
-------------------------------------------------------------------------------
(* Kinds and rows. *)

LEMMA KindsApart ==
  /\ Askers \cap Retriers = {} /\ Askers \cap Finishers = {} /\ Askers \cap Deleters = {}
  /\ Askers \cap Leavers = {} /\ Askers \cap Refreshers = {} /\ Askers \cap Sweepers = {}
  /\ Retriers \cap Finishers = {} /\ Retriers \cap Deleters = {} /\ Retriers \cap Leavers = {}
  /\ Retriers \cap Refreshers = {} /\ Retriers \cap Sweepers = {}
  /\ Finishers \cap Deleters = {} /\ Finishers \cap Leavers = {} /\ Finishers \cap Refreshers = {}
  /\ Finishers \cap Sweepers = {}
  /\ Deleters \cap Leavers = {} /\ Deleters \cap Refreshers = {} /\ Deleters \cap Sweepers = {}
  /\ Leavers \cap Refreshers = {} /\ Leavers \cap Sweepers = {} /\ Refreshers \cap Sweepers = {}
<1>1. \A i, j \in 1..7 : i # j => Kinds[i] \cap Kinds[j] = {}
  BY LocksAssumption DEF Kinds
<1>2. \A i, j \in {1, 2, 3, 4, 5, 6, 7} : i # j => Kinds[i] \cap Kinds[j] = {}
  BY <1>1
<1> QED BY <1>2 DEF Kinds

LEMMA RowsApart ==
  /\ Commands \subseteq Rows
  /\ Operations = Commands \cup {"target"}
  /\ Rows = {"session", "user", "interview", "command", "target"} \cup Commands
  /\ "session" \notin Commands /\ "user" \notin Commands /\ "interview" \notin Commands
  /\ "command" \notin Commands /\ "target" \notin Commands
  /\ Nobody \notin Rows /\ Nobody \notin Transactions
  /\ \A t \in Retriers : CommandOf[t] \in Commands
BY LocksAssumption DEF Rows, Operations, Commands

LEMMA Putting ==
  ASSUME NEW w, NEW r, NEW x
  PROVE  /\ DOMAIN Put(w, r, x) = {r} \cup DOMAIN w
         /\ Put(w, r, x)[r] = x
         /\ \A s \in DOMAIN w : s # r => Put(w, r, x)[s] = w[s]
BY DEF Put

LEMMA NothingPut ==
  ASSUME NEW r, NEW x
  PROVE  DOMAIN Put(<<>>, r, x) = {r} /\ Put(<<>>, r, x)[r] = x
<1>1. DOMAIN <<>> = {}
  OBVIOUS
<1>2. ASSUME NEW w, DOMAIN w = {}
      PROVE  DOMAIN Put(w, r, x) = {r} /\ Put(w, r, x)[r] = x
  <2>1. DOMAIN Put(w, r, x) = {r} \cup DOMAIN w /\ Put(w, r, x)[r] = x
    BY DEF Put
  <2> QED BY <1>2, <2>1
<1> QED BY <1>1, <1>2, Zenon

LEMMA SeenIs ==
  ASSUME NEW t
  PROVE  /\ DOMAIN Seen(t) = Rows
         /\ \A r \in Rows : Seen(t)[r] = Shown(tx[t], db, r)
BY DEF Seen, Shown

(* A transaction that begins, anew or after a rollback. *)
LEMMA Beginning ==
  ASSUME NEW at, NEW reply
  PROVE  LET x == Transaction(at, reply) IN
         /\ IsTx(x)
         /\ x.at = at /\ DOMAIN x.writes = {} /\ ~ x.undo /\ x.left = <<>>
         /\ x.read = NoReads
<1>1. DOMAIN <<>> = {}
  OBVIOUS
<1>2. <<>> \in Seq(Operations)
  OBVIOUS
<1> QED BY <1>1, <1>2 DEF Transaction, IsTx, NoReads
-------------------------------------------------------------------------------
(* Locks. *)

LEMMA WantedRow ==
  ASSUME Inv, NEW t \in Transactions
  PROVE  Wanted(t) \in Rows \cup {Nobody}
<1>1. IsTx(tx[t]) /\ Staged(t, tx[t], Mine(t), db, lapsed)
  BY DEF Inv, TxTyped, Fits
<1>2. RowOf(t) \in Rows \cup {Nobody}
  <2>1. CASE tx[t].at \in {"claimCommand", "reject"}
    <3>1. t \in Retriers \/ ~ (tx[t].at \in {"claimCommand", "reject"})
      BY <1>1 DEF Staged, ByKind
    <3> QED BY <2>1, <3>1, RowsApart DEF RowOf
  <2>2. CASE tx[t].at = "settleCommand"
    <3>1. tx[t].read.execution.command \in Commands
      BY <1>1, <2>2 DEF Staged
    <3> QED BY <2>2, <3>1, RowsApart DEF RowOf
  <2>3. CASE tx[t].at = "cancel"
    <3>1. tx[t].left # <<>> => Head(tx[t].left) \in Operations
      BY <1>1 DEF IsTx
    <3> QED BY <2>3, <3>1, RowsApart DEF RowOf
  <2>4. CASE tx[t].at \notin {"claimCommand", "reject", "settleCommand", "cancel"}
    BY <2>4, RowsApart DEF RowOf
  <2> QED BY <2>1, <2>2, <2>3, <2>4
<1> QED BY <1>2, RowsApart DEF Wanted

LEMMA Locking ==
  ASSUME Inv, NEW t \in Transactions, ~ Waits(t), Locks(t)
  PROVE  /\ HeldTyped'
         /\ Mine(t)' = Mine(t) \cup ({Wanted(t)} \ {Nobody})
         /\ \A u \in Transactions : u # t => Mine(u)' = Mine(u)
<1>1. Wanted(t) \in Rows \cup {Nobody}
  BY WantedRow
<1>2. held \in [Rows -> Transactions \cup {Nobody}]
  BY DEF Inv, HeldTyped
<1>3. CASE Wanted(t) = Nobody
  <2>1. held' = held
    BY <1>3 DEF Locks
  <2> QED BY <1>2, <1>3, <2>1 DEF HeldTyped, Mine
<1>4. CASE Wanted(t) # Nobody
  <2>1. Wanted(t) \in Rows /\ held[Wanted(t)] \in {t, Nobody}
    BY <1>1, <1>4 DEF Waits
  <2>2. held' = [held EXCEPT ![Wanted(t)] = t]
    BY <1>4 DEF Locks
  <2>3. held' \in [Rows -> Transactions \cup {Nobody}]
    BY <1>2, <2>1, <2>2
  <2>4. \A r \in Rows : held'[r] = IF r = Wanted(t) THEN t ELSE held[r]
    BY <1>2, <2>1, <2>2
  <2>5. Nobody \notin Transactions
    BY RowsApart
  <2> DEFINE w == Wanted(t)
  <2>6. w \in Rows /\ held[w] \in {t, Nobody} /\ \A r \in Rows : held'[r] = IF r = w THEN t ELSE held[r]
    BY <2>1, <2>4
  <2>7. w # Nobody
    BY <1>4
  <2> HIDE DEF w
  <2>8. Mine(t)' = Mine(t) \cup ({w} \ {Nobody})
    BY <2>6, <2>7 DEF Mine
  <2>9. \A u \in Transactions : u # t => Mine(u)' = Mine(u)
    BY <2>5, <2>6 DEF Mine
  <2> QED BY <2>3, <2>8, <2>9 DEF HeldTyped, w
<1> QED BY <1>3, <1>4

LEMMA Releasing ==
  ASSUME HeldTyped, NEW t \in Transactions, held' = Released(t)
  PROVE  /\ HeldTyped'
         /\ Mine(t)' = {}
         /\ \A u \in Transactions : u # t => Mine(u)' = Mine(u)
<1>1. held' \in [Rows -> Transactions \cup {Nobody}]
  BY DEF HeldTyped, Released
<1>2. \A r \in Rows : held'[r] = IF held[r] = t THEN Nobody ELSE held[r]
  BY DEF Released
<1> QED BY <1>1, <1>2, RowsApart DEF HeldTyped, Mine

LEMMA Holding ==
  ASSUME HeldTyped, held' = held
  PROVE  HeldTyped' /\ \A u : Mine(u)' = Mine(u)
BY DEF HeldTyped, Mine

LEMMA HeldByOne ==
  ASSUME NEW t, NEW u, t # u
  PROVE  Mine(t) \cap Mine(u) = {}
BY DEF Mine
-------------------------------------------------------------------------------
(* A statement of one transaction leaves what the others rely on alone.      *)

LEMMA OneMoves ==
  ASSUME Inv, NEW t \in Transactions,
         DOMAIN tx' = Transactions,
         \A u \in Transactions : u # t => tx'[u] = tx[u] /\ Mine(u)' = Mine(u),
         IsTx(tx'[t]), HeldTyped', db' = db, lapsed' = lapsed,
         executions' \subseteq executions,
         tx'[t].read.execution \in InFlight \cup {NoReads.execution},
         Fits(t, tx'[t], Mine(t)', db, lapsed)
  PROVE  Inv'
<1>1. TxTyped'
  BY DEF Inv, TxTyped
<1>2. RowsTyped(db)' /\ Agree(db, lapsed)'
  <2>1. RowsTyped(db) /\ Agree(db, lapsed)
    BY DEF Inv
  <2> QED BY <2>1 DEF RowsTyped, Agree
<1>3. InFlight' \subseteq InFlight \cup {NoReads.execution}
  <2>1. ASSUME NEW e \in InFlight', e \notin executions'
        PROVE  e \in InFlight \cup {NoReads.execution}
    <3>1. PICK u \in Transactions : e = tx'[u].read.execution
      BY <2>1 DEF InFlight
    <3> QED BY <3>1 DEF InFlight
  <2> QED BY <2>1 DEF InFlight
<1>4. Leased(InFlight, db, lapsed)'
  <2>1. Leased(InFlight, db, lapsed) /\ db["target"].attempt \in Nat \ {0}
    BY DEF Inv, RowsTyped, TargetRows
  <2>2. NoReads.execution = [attempt |-> 0, command |-> Nobody]
    BY DEF NoReads
  <2>3. ASSUME NEW es, es \subseteq InFlight \cup {NoReads.execution}
        PROVE  Leased(es, db, lapsed)
    BY <2>1, <2>2, <2>3 DEF Leased
  <2>4. Leased(InFlight', db, lapsed)
    BY <1>3, <2>3
  <2> QED BY <2>4 DEF Leased
<1>5. ASSUME NEW u \in Transactions PROVE Fits(u, tx'[u], Mine(u)', db', lapsed')
  <2>1. CASE u = t
    BY <2>1
  <2>2. CASE u # t
    <3>1. Fits(u, tx[u], Mine(u), db, lapsed)
      BY DEF Inv
    <3> QED BY <2>2, <3>1
  <2> QED BY <2>1, <2>2
<1> QED BY <1>1, <1>2, <1>4, <1>5 DEF Inv

(* A transaction that gives up, or ends, and goes on as new.                 *)
LEMMA BeginningFits ==
  ASSUME NEW t \in Transactions, NEW at, NEW reply, NEW d, NEW l,
         at \in {"find", "lockUser", "load", "lockSession", "sweep",
                 "done", "reject", "claimCommand", "persistExpiry"},
         ByKind(t, at)
  PROVE  Fits(t, Transaction(at, reply), {}, d, l)
<1> DEFINE x == Transaction(at, reply)
<1>1. x.at = at /\ DOMAIN x.writes = {} /\ ~ x.undo
  BY Beginning
<1> HIDE DEF x
<1>2. Owned(t, x, {}, d)
  BY <1>1 DEF Owned
<1>3. Staged(t, x, {}, d, l)
  BY <1>1 DEF Staged
<1> QED BY <1>2, <1>3 DEF Fits, x

LEMMA GivingUp ==
  ASSUME Inv, NEW t \in Transactions, NEW at, NEW reply, GivesUp(t, at, reply),
         at \in {"done", "reject", "claimCommand", "persistExpiry"}, ByKind(t, at)
  PROVE  Inv'
<1>1. /\ DOMAIN tx' = Transactions /\ tx'[t] = Transaction(at, reply)
      /\ \A u \in Transactions : u # t => tx'[u] = tx[u]
  BY DEF GivesUp, Inv, TxTyped
<1>2. HeldTyped' /\ Mine(t)' = {} /\ \A u \in Transactions : u # t => Mine(u)' = Mine(u)
  BY Releasing DEF GivesUp, Inv
<1>3. IsTx(tx'[t]) /\ tx'[t].read.execution \in InFlight \cup {NoReads.execution}
  BY <1>1, Beginning
<1>4. Fits(t, tx'[t], Mine(t)', db, lapsed)
  BY <1>1, <1>2, BeginningFits
<1>5. db' = db /\ lapsed' = lapsed /\ executions' \subseteq executions
  BY DEF GivesUp
<1> QED BY <1>1, <1>2, <1>3, <1>4, <1>5, OneMoves
-------------------------------------------------------------------------------
(* What the helpers do to the transaction that runs. *)

Same(x, y) == y.writes = x.writes /\ y.read = x.read /\ y.left = x.left /\ y.undo = x.undo

OthersWait(t) ==
  /\ DOMAIN tx' = Transactions
  /\ \A u \in Transactions : u # t => tx'[u] = tx[u]

LEMMA Going ==
  ASSUME Inv, NEW t \in Transactions, NEW at, Goes(t, at)
  PROVE  /\ OthersWait(t) /\ IsTx(tx'[t])
         /\ tx'[t].at = at /\ Same(tx[t], tx'[t])
<1>1. OthersWait(t) /\ tx'[t] = [tx[t] EXCEPT !.at = at]
  BY DEF Goes, Inv, TxTyped, OthersWait
<1>2. IsTx(tx[t])
  BY DEF Inv, TxTyped
<1> QED BY <1>1, <1>2 DEF IsTx, Same

LEMMA Writing ==
  ASSUME Inv, NEW t \in Transactions, NEW at, NEW r \in Rows, NEW row, Writes(t, r, row, at)
  PROVE  /\ OthersWait(t) /\ IsTx(tx'[t])
         /\ tx'[t].at = at /\ tx'[t].read = tx[t].read /\ tx'[t].left = tx[t].left
         /\ tx'[t].undo = tx[t].undo
         /\ DOMAIN tx'[t].writes = {r} \cup DOMAIN tx[t].writes
         /\ tx'[t].writes[r] = row
         /\ \A s \in DOMAIN tx[t].writes : s # r => tx'[t].writes[s] = tx[t].writes[s]
<1> DEFINE w == Put(tx[t].writes, r, row)
<1>1. OthersWait(t) /\ tx'[t] = [tx[t] EXCEPT !.at = at, !.writes = w]
  BY DEF Writes, Inv, TxTyped, OthersWait
<1>2. IsTx(tx[t])
  BY DEF Inv, TxTyped
<1>3. /\ DOMAIN w = {r} \cup DOMAIN tx[t].writes /\ w[r] = row
      /\ \A s \in DOMAIN tx[t].writes : s # r => w[s] = tx[t].writes[s]
  BY DEF Put
<1> HIDE DEF w
<1> QED BY <1>1, <1>2, <1>3 DEF IsTx

LEMMA Running ==
  ASSUME Inv, NEW t \in Transactions, NEW at, Runs(t, at)
  PROVE  /\ tx[t].at = at /\ ~ Waits(t)
         /\ Wanted(t) = IF Matches(t) THEN RowOf(t) ELSE Nobody
         /\ IsTx(tx[t]) /\ Fits(t, tx[t], Mine(t), db, lapsed)
         /\ tx[t].read.execution \in InFlight
BY DEF Runs, Wanted, Inv, TxTyped, InFlight

(* A statement that locks no row, or one it finds free, and only moves on.   *)
LEMMA OnlyGoing ==
  ASSUME Inv, NEW t \in Transactions, NEW at, Goes(t, at),
         HeldTyped', \A u \in Transactions : u # t => Mine(u)' = Mine(u), OnlyLocks,
         ASSUME NEW y, IsTx(y), y.at = at, Same(tx[t], y) PROVE Fits(t, y, Mine(t)', db, lapsed)
  PROVE  Inv'
<1>1. OthersWait(t) /\ IsTx(tx'[t]) /\ tx'[t].at = at /\ Same(tx[t], tx'[t])
  BY Going
<1>2. Fits(t, tx'[t], Mine(t)', db, lapsed)
  BY <1>1
<1>3. tx'[t].read.execution \in InFlight
  BY <1>1 DEF Same, InFlight
<1>4. db' = db /\ lapsed' = lapsed /\ executions' \subseteq executions
  BY DEF OnlyLocks
<1> QED BY <1>1, <1>2, <1>3, <1>4, OneMoves DEF OthersWait
-------------------------------------------------------------------------------
(* The statements, one by one.  First SELECT ... FOR UPDATE.                 *)

LEMMA LockSessionStep ==
  ASSUME Inv, NEW t \in Transactions, LockRow(t, "lockSession")
  PROVE  Inv'
<1> DEFINE x == tx[t]
           h == Mine(t)
<1>1. /\ x.at = "lockSession" /\ ~ Waits(t) /\ Fits(t, x, h, db, lapsed)
      /\ Wanted(t) = IF Matches(t) THEN RowOf(t) ELSE Nobody
  BY Running DEF LockRow
<1>2. t \in Leavers \cup Refreshers /\ h = {} /\ DOMAIN x.writes = {} /\ ~ x.undo
  BY <1>1 DEF Fits, Owned, MayHold, Staged, ByKind, Starting
<1>3. /\ HeldTyped' /\ Mine(t)' \subseteq {"session"}
      /\ \A u \in Transactions : u # t => Mine(u)' = Mine(u)
  <2>1. RowOf(t) = "session"
    BY <1>1 DEF RowOf
  <2> QED BY <1>1, <1>2, <2>1, Locking DEF LockRow
<1>4. PICK at \in {"lockUser", "commit"} : Goes(t, at)
  BY DEF LockRow, AfterLock
<1>5. ASSUME NEW y, IsTx(y), y.at = at, Same(x, y)
      PROVE  Fits(t, y, Mine(t)', db, lapsed)
  <2>1. Owned(t, y, Mine(t)', db)
    BY <1>2, <1>3, <1>4, <1>5, RowsApart DEF Owned, MayHold, Same
  <2>2. Staged(t, y, Mine(t)', db, lapsed)
    BY <1>2, <1>4, <1>5 DEF Staged, ByKind, Same, Committable, Idle
  <2> QED BY <2>1, <2>2 DEF Fits
<1> HIDE DEF x, h
<1> QED BY <1>3, <1>4, <1>5, OnlyGoing DEF LockRow, x

LEMMA LockUserStep ==
  ASSUME Inv, NEW t \in Transactions, LockRow(t, "lockUser")
  PROVE  Inv'
<1> DEFINE x == tx[t]
           h == Mine(t)
<1>1. /\ x.at = "lockUser" /\ ~ Waits(t) /\ Fits(t, x, h, db, lapsed)
      /\ Wanted(t) = IF Matches(t) THEN RowOf(t) ELSE Nobody
  BY Running DEF LockRow
<1>2. /\ t \in Askers \cup Retriers \cup Deleters \cup Leavers \cup Refreshers
      /\ h \subseteq {"session"} /\ DOMAIN x.writes = {} /\ ~ x.undo
  BY <1>1 DEF Fits, Owned, MayHold, Staged, ByKind, Starting
<1>3. /\ HeldTyped' /\ Mine(t)' \subseteq {"session", "user"}
      /\ \A u \in Transactions : u # t => Mine(u)' = Mine(u)
  <2>1. RowOf(t) = "user"
    BY <1>1 DEF RowOf
  <2> QED BY <1>1, <1>2, <2>1, Locking DEF LockRow
<1>4. PICK at \in {"leave", "commit", "lockInterview"} :
        /\ Goes(t, at)
        /\ at = "leave" => t \in Leavers
        /\ at = "lockInterview" => t \in Askers \cup Retriers \cup Deleters
  BY <1>1, <1>2 DEF LockRow, AfterLock
<1>5. ASSUME NEW y, IsTx(y), y.at = at, Same(x, y)
      PROVE  Fits(t, y, Mine(t)', db, lapsed)
  <2>1. Owned(t, y, Mine(t)', db)
    BY <1>2, <1>3, <1>4, <1>5, RowsApart DEF Owned, MayHold, Same
  <2>2. Staged(t, y, Mine(t)', db, lapsed)
    BY <1>2, <1>4, <1>5 DEF Staged, ByKind, Same, Committable, Idle
  <2> QED BY <2>1, <2>2 DEF Fits
<1> HIDE DEF x, h
<1> QED BY <1>3, <1>4, <1>5, OnlyGoing DEF LockRow, x

LEMMA LockInterviewStep ==
  ASSUME Inv, NEW t \in Transactions, LockRow(t, "lockInterview")
  PROVE  Inv'
<1> DEFINE x == tx[t]
           h == Mine(t)
<1>1. /\ x.at = "lockInterview" /\ ~ Waits(t) /\ Fits(t, x, h, db, lapsed)
      /\ Wanted(t) = IF Matches(t) THEN RowOf(t) ELSE Nobody
  BY Running DEF LockRow
<1>2. /\ t \in Askers \cup Retriers \cup Deleters
      /\ h \subseteq {"session", "user"} /\ DOMAIN x.writes = {} /\ ~ x.undo
  BY <1>1 DEF Fits, Owned, MayHold, Staged, ByKind, Starting
<1>3. /\ HeldTyped' /\ Mine(t)' \subseteq {"session", "user", "interview"} /\ "interview" \in Mine(t)'
      /\ \A u \in Transactions : u # t => Mine(u)' = Mine(u)
  <2>1. RowOf(t) = "interview" /\ Matches(t)
    BY <1>1, RowsApart DEF RowOf, Matches
  <2> QED BY <1>1, <1>2, <2>1, Locking, RowsApart DEF LockRow
<1>4. PICK at \in {"decide", "insert", "close"} :
        /\ Goes(t, at)
        /\ at = "decide" => t \in Askers
        /\ at = "insert" => t \in Retriers
        /\ at = "close" => t \in Deleters
  BY <1>1, <1>2, KindsApart DEF LockRow, AfterLock
<1>5. ASSUME NEW y, IsTx(y), y.at = at, Same(x, y)
      PROVE  Fits(t, y, Mine(t)', db, lapsed)
  <2>1. Owned(t, y, Mine(t)', db)
    BY <1>2, <1>3, <1>4, <1>5, RowsApart DEF Owned, MayHold, Same
  <2>2. Staged(t, y, Mine(t)', db, lapsed)
    BY <1>2, <1>3, <1>4, <1>5 DEF Staged, ByKind, Same
  <2> QED BY <2>1, <2>2 DEF Fits
<1> HIDE DEF x, h
<1> QED BY <1>3, <1>4, <1>5, OnlyGoing DEF LockRow, x

LEMMA RelockUserStep ==
  ASSUME Inv, NEW t \in Transactions, LockRow(t, "relockUser")
  PROVE  Inv'
<1> DEFINE x == tx[t]
           h == Mine(t)
<1>1. /\ x.at = "relockUser" /\ ~ Waits(t) /\ Fits(t, x, h, db, lapsed)
      /\ Wanted(t) = IF Matches(t) THEN RowOf(t) ELSE Nobody
  BY Running DEF LockRow
<1>2. /\ t \in Retriers /\ DOMAIN x.writes = {CommandOf[t]} /\ Claimed(t, x, h, db, lapsed)
      /\ x.read.target = "failed" /\ h \subseteq Commands /\ ~ x.undo
      /\ Owned(t, x, h, db)
  BY <1>1 DEF Fits, Owned, MayHold, Staged
<1>3. /\ HeldTyped' /\ Mine(t)' = h \cup {"user"}
      /\ \A u \in Transactions : u # t => Mine(u)' = Mine(u)
  <2>1. RowOf(t) = "user" /\ Matches(t)
    BY <1>1, RowsApart DEF RowOf, Matches
  <2> QED BY <1>1, <1>2, <2>1, Locking, RowsApart DEF LockRow
<1>4. Goes(t, "relockInterview")
  BY <1>2, KindsApart DEF LockRow, AfterLock
<1>5. ASSUME NEW y, IsTx(y), y.at = "relockInterview", Same(x, y)
      PROVE  Fits(t, y, Mine(t)', db, lapsed)
  <2>1. Owned(t, y, Mine(t)', db)
    BY <1>2, <1>3, <1>4, <1>5, RowsApart DEF Owned, MayHold, Same
  <2>2. Claimed(t, y, Mine(t)', db, lapsed)
    BY <1>2, <1>3, <1>5, RowsApart DEF Claimed, Same
  <2>3. Staged(t, y, Mine(t)', db, lapsed)
    BY <1>2, <1>5, <2>2 DEF Staged, ByKind, Same, Starting
  <2> QED BY <2>1, <2>3 DEF Fits
<1> HIDE DEF x, h
<1> QED BY <1>3, <1>4, <1>5, OnlyGoing DEF LockRow, x

LEMMA RelockInterviewStep ==
  ASSUME Inv, NEW t \in Transactions, LockRow(t, "relockInterview")
  PROVE  Inv'
<1> DEFINE x == tx[t]
           h == Mine(t)
<1>1. /\ x.at = "relockInterview" /\ ~ Waits(t) /\ Fits(t, x, h, db, lapsed)
      /\ Wanted(t) = IF Matches(t) THEN RowOf(t) ELSE Nobody
  BY Running DEF LockRow
<1>2. /\ t \in Retriers /\ DOMAIN x.writes = {CommandOf[t]} /\ Claimed(t, x, h, db, lapsed)
      /\ x.read.target = "failed" /\ h \subseteq Commands \cup {"user"} /\ ~ x.undo
      /\ Owned(t, x, h, db)
  BY <1>1 DEF Fits, Owned, MayHold, Staged
<1>3. /\ HeldTyped' /\ Mine(t)' = h \cup {"interview"}
      /\ \A u \in Transactions : u # t => Mine(u)' = Mine(u)
  <2>1. RowOf(t) = "interview" /\ Matches(t)
    BY <1>1, RowsApart DEF RowOf, Matches
  <2> QED BY <1>1, <1>2, <2>1, Locking, RowsApart DEF LockRow
<1>4. Goes(t, "claimTarget")
  BY <1>2, KindsApart DEF LockRow, AfterLock
<1>5. ASSUME NEW y, IsTx(y), y.at = "claimTarget", Same(x, y)
      PROVE  Fits(t, y, Mine(t)', db, lapsed)
  <2>1. Owned(t, y, Mine(t)', db)
    BY <1>2, <1>3, <1>4, <1>5, RowsApart DEF Owned, MayHold, Same
  <2>2. Claimed(t, y, Mine(t)', db, lapsed)
    BY <1>2, <1>3, <1>5, RowsApart DEF Claimed, Same
  <2>3. Staged(t, y, Mine(t)', db, lapsed)
    BY <1>2, <1>3, <1>5, <2>2 DEF Staged, ByKind, Same, Starting
  <2> QED BY <2>1, <2>3 DEF Fits
<1> HIDE DEF x, h
<1> QED BY <1>3, <1>4, <1>5, OnlyGoing DEF LockRow, x
-------------------------------------------------------------------------------
(* What acceptance reads, and what it decides.                               *)

LEMMA FindByKeyStep ==
  ASSUME Inv, NEW t \in Transactions, FindByKey(t)
  PROVE  Inv'
<1> DEFINE x == tx[t]
           y == tx'[t]
<1>1. /\ x.at = "find" /\ Fits(t, x, Mine(t), db, lapsed) /\ IsTx(x)
      /\ x.read.execution \in InFlight
  BY Running DEF FindByKey
<1>2. t \in Askers /\ Mine(t) = {} /\ DOMAIN x.writes = {} /\ ~ x.undo
  BY <1>1 DEF Fits, Owned, MayHold, Staged, ByKind, Starting
<1> DEFINE p == db["command"].position
<1>3. PICK at \in {"lockUser", "read"} :
        tx' = [tx EXCEPT ![t].at = at, ![t].read.position = p]
  BY DEF FindByKey
<1>4. OthersWait(t) /\ y = [x EXCEPT !.at = at, !.read.position = p]
  BY <1>3 DEF Inv, TxTyped, OthersWait
<1>5. /\ IsTx(y) /\ y.at = at /\ y.writes = x.writes /\ y.undo = x.undo
      /\ y.read.execution = x.read.execution
  BY <1>1, <1>4 DEF IsTx
<1>6. HeldTyped' /\ \A u \in Transactions : Mine(u)' = Mine(u)
  BY Holding DEF FindByKey, OnlyReads, Inv
<1>7. Fits(t, y, Mine(t)', db, lapsed)
  <2> HIDE DEF x, y
  <2>1. Owned(t, y, Mine(t)', db)
    BY <1>2, <1>3, <1>5, <1>6 DEF Owned
  <2>2. Staged(t, y, Mine(t)', db, lapsed)
    BY <1>2, <1>3, <1>5 DEF Staged, ByKind
  <2> QED BY <2>1, <2>2 DEF Fits
<1>8. db' = db /\ lapsed' = lapsed /\ executions' \subseteq executions
  BY DEF FindByKey, OnlyReads
<1> QED BY <1>1, <1>4, <1>5, <1>6, <1>7, <1>8, OneMoves DEF OthersWait

LEMMA ReadInterviewStep ==
  ASSUME Inv, NEW t \in Transactions, ReadInterview(t)
  PROVE  Inv'
<1> DEFINE x == tx[t]
           y == tx'[t]
<1>1. /\ x.at = "read" /\ Fits(t, x, Mine(t), db, lapsed) /\ IsTx(x)
      /\ x.read.execution \in InFlight
  BY Running DEF ReadInterview
<1>2. t \in Askers /\ Mine(t) = {} /\ DOMAIN x.writes = {} /\ ~ x.undo
  BY <1>1 DEF Fits, Owned, MayHold, Staged, ByKind, Starting
<1>3. CASE GivesUp(t, "done", "refused")
  BY <1>3, GivingUp DEF ByKind
<1>4. CASE ~ GivesUp(t, "done", "refused")
  <2>1. PICK at, p :
          at \in {"readPending", "lockUser"} /\ tx' = [tx EXCEPT ![t].at = at, ![t].read.position = p]
    BY <1>2, <1>4 DEF ReadInterview, AfterRead
  <2>2. OthersWait(t) /\ y = [x EXCEPT !.at = at, !.read.position = p]
    BY <2>1 DEF Inv, TxTyped, OthersWait
  <2>3. /\ IsTx(y) /\ y.at = at /\ y.writes = x.writes /\ y.undo = x.undo
        /\ y.read.execution = x.read.execution
    BY <1>1, <2>2 DEF IsTx
  <2>4. HeldTyped' /\ \A u \in Transactions : Mine(u)' = Mine(u)
    BY <1>4, Holding DEF ReadInterview, OnlyReads, Inv
  <2>5. Fits(t, y, Mine(t)', db, lapsed)
    <3> HIDE DEF x, y
    <3>1. Owned(t, y, Mine(t)', db)
      BY <1>2, <2>1, <2>3, <2>4 DEF Owned
    <3>2. Staged(t, y, Mine(t)', db, lapsed)
      BY <1>2, <2>1, <2>3, <2>4 DEF Staged, ByKind, Starting
    <3> QED BY <3>1, <3>2 DEF Fits
  <2>6. db' = db /\ lapsed' = lapsed /\ executions' \subseteq executions
    BY <1>4 DEF ReadInterview, OnlyReads
  <2> QED BY <1>1, <2>2, <2>3, <2>4, <2>5, <2>6, OneMoves DEF OthersWait
<1> QED BY <1>3, <1>4

LEMMA ReadPendingStep ==
  ASSUME Inv, NEW t \in Transactions, ReadPending(t)
  PROVE  Inv'
<1> DEFINE x == tx[t]
           h == Mine(t)
<1>1. x.at = "readPending" /\ Fits(t, x, h, db, lapsed) /\ IsTx(x)
  BY Running DEF ReadPending
<1>2. CASE GivesUp(t, "done", "unreadable")
  BY <1>2, GivingUp DEF ByKind
<1>3. CASE ~ GivesUp(t, "done", "unreadable")
  <2>1. Goes(t, AfterRead(t)) /\ OnlyReads /\ db["target"].status = "processing"
    BY <1>3 DEF ReadPending
  <2>2. HeldTyped' /\ \A u \in Transactions : Mine(u)' = Mine(u)
    BY <2>1, Holding DEF OnlyReads, Inv
  <2>3. Owned(t, x, h, db) /\ Staged(t, x, h, db, lapsed)
    BY <1>1 DEF Fits
  <2>4. \/ t \in Askers /\ DOMAIN x.writes = {} /\ h = {}
        \/ t \in Retriers /\ DOMAIN x.writes = {CommandOf[t]} /\ Claimed(t, x, h, db, lapsed)
    BY <1>1, <2>3 DEF Staged
  <2>5. ~ x.undo /\ h \subseteq Commands
    BY <1>1, <2>3 DEF Staged, Owned, MayHold
  <2>6. ASSUME NEW y, IsTx(y), y.at = AfterRead(t), Same(x, y)
        PROVE  Fits(t, y, Mine(t)', db, lapsed)
    <3>1. CASE t \in Askers
      <4>1. y.at = "lockUser" /\ DOMAIN x.writes = {} /\ h = {}
        BY <3>1, <2>4, <2>6, KindsApart DEF AfterRead
      <4>2. Owned(t, y, Mine(t)', db)
        BY <2>2, <2>6, <4>1 DEF Owned, Same
      <4>3. Staged(t, y, Mine(t)', db, lapsed)
        BY <2>2, <2>5, <2>6, <3>1, <4>1 DEF Staged, ByKind, Same
      <4> QED BY <4>2, <4>3 DEF Fits
    <3>2. CASE t \in Retriers
      <4>1. /\ DOMAIN x.writes = {CommandOf[t]} /\ Claimed(t, x, h, db, lapsed)
            /\ \/ y.at = "relockUser" /\ x.read.target = "failed"
               \/ y.at = "claimTarget" /\ x.read.target # "failed"
        BY <3>2, <2>4, <2>6, KindsApart DEF AfterRead
      <4>2. Owned(t, y, Mine(t)', db)
        BY <2>2, <2>3, <2>5, <2>6, <4>1, <1>1 DEF Owned, MayHold, Same
      <4>3. Claimed(t, y, Mine(t)', db, lapsed)
        BY <2>2, <2>6, <4>1 DEF Claimed, Same
      <4>4. Staged(t, y, Mine(t)', db, lapsed)
        BY <2>2, <2>5, <2>6, <3>2, <4>1, <4>3, RowsApart DEF Staged, ByKind, Same, Starting
      <4> QED BY <4>2, <4>4 DEF Fits
    <3> QED BY <2>4, <3>1, <3>2
  <2> HIDE DEF x, h
  <2>7. OnlyLocks
    BY <2>1 DEF OnlyReads, OnlyLocks
  <2> QED BY <2>1, <2>2, <2>6, <2>7, OnlyGoing DEF x
<1> QED BY <1>2, <1>3

LEMMA DecideStep ==
  ASSUME Inv, NEW t \in Transactions, Decide(t)
  PROVE  Inv'
<1> DEFINE x == tx[t]
           y == tx'[t]
           h == Mine(t)
<1>1. x.at = "decide" /\ Fits(t, x, h, db, lapsed) /\ IsTx(x) /\ x.read.execution \in InFlight
  BY Running DEF Decide
<1>2. /\ t \in Askers /\ DOMAIN x.writes = {} /\ ~ x.undo /\ "interview" \in h
      /\ \A c \in Commands \cap h : IsOpen(db[c])
  BY <1>1 DEF Fits, Owned, MayHold, Staged, ByKind, Starting
<1>3. CASE \E reply : GivesUp(t, "done", reply)
  BY <1>3, GivingUp DEF ByKind
<1>4. CASE ~ \E reply : GivesUp(t, "done", reply)
  <2>1. Seen(t)["interview"] = db["interview"] /\ Seen(t)["command"] = db["command"]
    BY <1>2, SeenIs, RowsApart DEF Shown
  <2>2. PICK w :
          /\ tx' = [tx EXCEPT ![t].at = "commit", ![t].reply = "original", ![t].writes = w]
          /\ UNCHANGED <<db, held, executions, lapsed, stale>>
          /\ \/ DOMAIN w = {"command"}
             \/ /\ DOMAIN w = {"command", "interview"}
                /\ db["interview"].status = "active"
                /\ w["interview"] = [db["interview"] EXCEPT !.position = 2]
    <3> DEFINE A(s) == Put(<<>>, "command", [status |-> s, position |-> x.read.position])
               B(s) == Put(A(s), "interview", [db["interview"] EXCEPT !.position = 2])
    <3>1. \A s : DOMAIN A(s) = {"command"}
      BY NothingPut
    <3>2. \A s : /\ DOMAIN B(s) = {"command", "interview"}
                 /\ B(s)["interview"] = [db["interview"] EXCEPT !.position = 2]
      <4>1. \A v, r, z : DOMAIN Put(v, r, z) = {r} \cup DOMAIN v /\ Put(v, r, z)[r] = z
        BY DEF Put
      <4> HIDE DEF A
      <4>2. \A s : DOMAIN B(s) = {"interview"} \cup DOMAIN A(s)
        BY <4>1
      <4>3. \A s : B(s)["interview"] = [db["interview"] EXCEPT !.position = 2]
        BY <4>1
      <4> HIDE DEF B
      <4> QED BY <3>1, <4>2, <4>3
    <3>3. PICK handled :
            /\ tx' = [tx EXCEPT ![t].at = "commit", ![t].reply = "original",
                                ![t].writes = IF handled THEN B("succeeded") ELSE A("failed")]
            /\ UNCHANGED <<db, held, executions, lapsed, stale>>
            /\ handled => db["interview"].status = "active"
      BY <1>4, <2>1 DEF Decide
    <3> HIDE DEF A, B
    <3> QED BY <3>1, <3>2, <3>3
  <2>3. OthersWait(t) /\ y = [x EXCEPT !.at = "commit", !.reply = "original", !.writes = w]
    BY <2>2 DEF Inv, TxTyped, OthersWait
  <2>4. /\ IsTx(y) /\ y.at = "commit" /\ y.writes = w /\ y.undo = x.undo
        /\ y.read = x.read
    <3>1. DOMAIN w \subseteq Rows
      BY <2>2, RowsApart
    <3> HIDE DEF x, y
    <3> QED BY <1>1, <2>3, <3>1 DEF IsTx
  <2>5. HeldTyped' /\ \A u \in Transactions : Mine(u)' = Mine(u)
    BY <2>2, Holding DEF Inv
  <2>6. Fits(t, y, Mine(t)', db, lapsed)
    <3> HIDE DEF x, y, h
    <3>0. h = Mine(t)
      BY DEF h
    <3>1. Owned(t, y, Mine(t)', db)
      <4>1. \A r \in DOMAIN y.writes : r \in h \/ r \in {"command", "session", "user"}
        BY <1>2, <2>2, <2>4
      <4>2. h \subseteq MayHold(y.at)
        BY <3>0, <2>4 DEF MayHold, Mine
      <4> QED BY <1>2, <2>5, <3>0, <4>1, <4>2 DEF Owned
    <3>2. Continued(t, y, Mine(t)', db)
      BY <1>2, <2>2, <2>4, <2>5, <3>0 DEF Continued
    <3>3. Staged(t, y, Mine(t)', db, lapsed)
      BY <1>2, <2>4, <3>2 DEF Staged, ByKind, Starting, Committable
    <3> QED BY <3>1, <3>3 DEF Fits
  <2>7. db' = db /\ lapsed' = lapsed /\ executions' \subseteq executions
    BY <2>2
  <2> QED BY <1>1, <2>3, <2>4, <2>5, <2>6, <2>7, OneMoves DEF OthersWait
<1> QED BY <1>3, <1>4
-------------------------------------------------------------------------------
(* Retry acceptance. *)

(* y is x with row r written. *)
Wrote(x, y, r, row) ==
  /\ y.read = x.read /\ y.left = x.left /\ y.undo = x.undo
  /\ DOMAIN y.writes = {r} \cup DOMAIN x.writes
  /\ y.writes[r] = row
  /\ \A s \in DOMAIN x.writes : s # r => y.writes[s] = x.writes[s]

LEMMA OnlyWriting ==
  ASSUME Inv, NEW t \in Transactions, NEW at, NEW r \in Rows, NEW row,
         Writes(t, r, row, at), ~ Waits(t), Locks(t), OnlyLocks,
         ASSUME NEW y, IsTx(y), y.at = at, Wrote(tx[t], y, r, row),
                Mine(t)' = Mine(t) \cup ({Wanted(t)} \ {Nobody})
         PROVE  Fits(t, y, Mine(t)', db, lapsed)
  PROVE  Inv'
<1>1. /\ OthersWait(t) /\ IsTx(tx'[t]) /\ tx'[t].at = at
      /\ Wrote(tx[t], tx'[t], r, row)
  BY Writing DEF Wrote
<1>2. /\ HeldTyped' /\ Mine(t)' = Mine(t) \cup ({Wanted(t)} \ {Nobody})
      /\ \A u \in Transactions : u # t => Mine(u)' = Mine(u)
  BY Locking
<1>3. Fits(t, tx'[t], Mine(t)', db, lapsed)
  BY <1>1, <1>2
<1>4. tx'[t].read.execution \in InFlight
  BY <1>1 DEF Wrote, InFlight
<1>5. db' = db /\ lapsed' = lapsed /\ executions' \subseteq executions
  BY DEF OnlyLocks
<1> QED BY <1>1, <1>2, <1>3, <1>4, <1>5, OneMoves DEF OthersWait

LEMMA StoreCommandStep ==
  ASSUME Inv, NEW t \in Transactions, StoreCommand(t)
  PROVE  Inv'
<1> DEFINE x == tx[t]
           y == tx'[t]
           h == Mine(t)
           c == CommandOf[t]
           w == Put(<<>>, c, [status |-> "pending"])
<1>1. x.at = "insert" /\ Fits(t, x, h, db, lapsed) /\ IsTx(x) /\ x.read.execution \in InFlight
  BY Running DEF StoreCommand
<1>2. /\ t \in Retriers /\ DOMAIN x.writes = {} /\ ~ x.undo /\ "interview" \in h
      /\ \A r \in Commands \cap h : IsOpen(db[r])
  BY <1>1 DEF Fits, Owned, MayHold, Staged, ByKind, Starting
<1>3. CASE \E at \in {"done", "claimCommand"} : \E reply : GivesUp(t, at, reply)
  BY <1>2, <1>3, GivingUp DEF ByKind
<1>4. CASE ~ \E at \in {"done", "claimCommand"} : \E reply : GivesUp(t, at, reply)
  <2>1. c \in Commands /\ c \in Rows
    BY <1>2, RowsApart
  <2>2. Seen(t)["interview"] = db["interview"] /\ Seen(t)[c] = db[c]
    <3>1. "interview" \in Rows /\ \A r \in Rows : Seen(t)[r] = Shown(x, db, r)
      BY SeenIs, RowsApart
    <3>2. \A r \in Rows : Shown(x, db, r) = db[r]
      BY <1>2 DEF Shown
    <3> QED BY <2>1, <3>1, <3>2
  <2>3. /\ tx' = [tx EXCEPT ![t].at = "commit", ![t].reply = "stored", ![t].writes = w]
        /\ UNCHANGED <<db, held, executions, lapsed, stale>>
        /\ IsMutable(db["interview"]) /\ db[c].status = "none"
    BY <1>4, <2>2 DEF StoreCommand
  <2>4. DOMAIN w = {c} /\ w[c] = [status |-> "pending"]
    BY NothingPut
  <2> HIDE DEF w
  <2>5. OthersWait(t) /\ y = [x EXCEPT !.at = "commit", !.reply = "stored", !.writes = w]
    BY <2>3 DEF Inv, TxTyped, OthersWait
  <2>6. /\ IsTx(y) /\ y.at = "commit" /\ y.writes = w /\ y.undo = x.undo
        /\ y.read = x.read
    BY <1>1, <2>1, <2>4, <2>5 DEF IsTx
  <2>7. HeldTyped' /\ \A u \in Transactions : Mine(u)' = Mine(u)
    BY <2>3, Holding DEF Inv
  <2>8. Fits(t, y, Mine(t)', db, lapsed)
    <3>0. h \subseteq MayHold(y.at) /\ Mine(t)' = h
      BY <2>6, <2>7 DEF MayHold, Mine
    <3> HIDE DEF x, y, h, c
    <3>1. Owned(t, y, h, db)
      BY <1>2, <2>1, <2>3, <2>4, <2>6, <3>0 DEF Owned
    <3>2. Stored(t, y, h, db)
      BY <1>2, <2>3, <2>4, <2>6 DEF Stored, c
    <3>3. Staged(t, y, h, db, lapsed)
      BY <1>2, <2>6, <3>2 DEF Staged, ByKind, Starting, Committable
    <3> QED BY <3>0, <3>1, <3>3 DEF Fits
  <2>9. db' = db /\ lapsed' = lapsed /\ executions' \subseteq executions
    BY <2>3
  <2> QED BY <1>1, <2>5, <2>6, <2>7, <2>8, <2>9, OneMoves DEF OthersWait
<1> QED BY <1>3, <1>4

LEMMA ClaimCommandStep ==
  ASSUME Inv, NEW t \in Transactions, ClaimCommand(t)
  PROVE  Inv'
<1> DEFINE x == tx[t]
           h == Mine(t)
           c == CommandOf[t]
<1>1. /\ x.at = "claimCommand" /\ Fits(t, x, h, db, lapsed) /\ IsTx(x) /\ ~ Waits(t)
      /\ Wanted(t) = IF Matches(t) THEN RowOf(t) ELSE Nobody
  BY Running DEF ClaimCommand
<1>2. t \in Retriers /\ DOMAIN x.writes = {} /\ ~ x.undo /\ h = {}
  BY <1>1 DEF Fits, Owned, MayHold, Staged, ByKind, Starting
<1>3. CASE \E at \in {"done", "reject"} : \E reply : GivesUp(t, at, reply)
  BY <1>2, <1>3, GivingUp DEF ByKind
<1>4. CASE ~ \E at \in {"done", "reject"} : \E reply : GivesUp(t, at, reply)
  <2>1. c \in Commands /\ c \in Rows /\ c # Nobody
    BY <1>2, RowsApart
  <2>2. /\ Writes(t, c, [status |-> "processing"], "readTarget")
        /\ Locks(t) /\ OnlyLocks /\ Matches(t)
    BY <1>4 DEF ClaimCommand
  <2>3. Wanted(t) = c
    BY <1>1, <2>2 DEF RowOf
  <2>4. db[c].status = "pending" \/ (db[c].status = "processing" /\ c \in lapsed)
    <3>1. Seen(t)[c] = db[c]
      BY <1>2, <2>1, SeenIs DEF Shown
    <3> QED BY <1>1, <2>2, <3>1 DEF Matches, Lapsed
  <2>5. ASSUME NEW y, IsTx(y), y.at = "readTarget", Wrote(x, y, c, [status |-> "processing"]),
               Mine(t)' = h \cup ({Wanted(t)} \ {Nobody})
        PROVE  Fits(t, y, Mine(t)', db, lapsed)
    <3>1. Mine(t)' = {c} /\ DOMAIN y.writes = {c} /\ y.writes[c] = [status |-> "processing"] /\ ~ y.undo
      BY <1>2, <2>1, <2>3, <2>5 DEF Wrote
    <3> HIDE DEF x, h
    <3>2. Owned(t, y, {c}, db)
      BY <2>1, <2>4, <2>5, <3>1 DEF Owned, MayHold, IsOpen
    <3>3. Claimed(t, y, {c}, db, lapsed)
      BY <1>2, <2>1, <2>4, <3>1 DEF Claimed
    <3>4. Staged(t, y, {c}, db, lapsed)
      BY <1>2, <2>5, <3>1, <3>3 DEF Staged, ByKind, Starting
    <3> QED BY <3>1, <3>2, <3>4 DEF Fits
  <2> QED BY <1>1, <2>1, <2>2, <2>5, OnlyWriting
<1> QED BY <1>3, <1>4

LEMMA ReadTargetStep ==
  ASSUME Inv, NEW t \in Transactions, ReadTarget(t)
  PROVE  Inv'
<1> DEFINE x == tx[t]
           y == tx'[t]
           h == Mine(t)
<1>1. x.at = "readTarget" /\ Fits(t, x, h, db, lapsed) /\ IsTx(x) /\ x.read.execution \in InFlight
  BY Running DEF ReadTarget
<1>2. /\ t \in Retriers /\ DOMAIN x.writes = {CommandOf[t]} /\ Claimed(t, x, h, db, lapsed)
      /\ h \subseteq Commands /\ ~ x.undo /\ Owned(t, x, h, db)
  BY <1>1 DEF Fits, Owned, MayHold, Staged
<1>3. PICK s : tx' = [tx EXCEPT ![t].at = "readInterview", ![t].read.target = s]
  BY DEF ReadTarget
<1>4. OthersWait(t) /\ y = [x EXCEPT !.at = "readInterview", !.read.target = s]
  BY <1>3 DEF Inv, TxTyped, OthersWait
<1>5. /\ IsTx(y) /\ y.at = "readInterview" /\ y.writes = x.writes /\ y.undo = x.undo
      /\ y.read.execution = x.read.execution
  BY <1>1, <1>4 DEF IsTx
<1>6. HeldTyped' /\ \A u \in Transactions : Mine(u)' = Mine(u)
  BY Holding DEF ReadTarget, OnlyReads, Inv
<1>7. Fits(t, y, Mine(t)', db, lapsed)
  <2>0. Mine(t)' = h
    BY <1>6
  <2> HIDE DEF x, y, h
  <2>1. Owned(t, y, h, db)
    BY <1>1, <1>2, <1>5 DEF Owned, MayHold
  <2>2. Claimed(t, y, h, db, lapsed)
    BY <1>2, <1>5 DEF Claimed
  <2>3. Staged(t, y, h, db, lapsed)
    BY <1>2, <1>5, <2>2 DEF Staged, ByKind, Starting
  <2> QED BY <2>0, <2>1, <2>3 DEF Fits
<1>8. db' = db /\ lapsed' = lapsed /\ executions' \subseteq executions
  BY DEF ReadTarget, OnlyReads
<1> QED BY <1>1, <1>4, <1>5, <1>6, <1>7, <1>8, OneMoves DEF OthersWait

LEMMA ChooseClaimStep ==
  ASSUME Inv, NEW t \in Transactions, ChooseClaim(t)
  PROVE  Inv'
<1> DEFINE x == tx[t]
           y == tx'[t]
           h == Mine(t)
<1>1. x.at = "readInterview" /\ Fits(t, x, h, db, lapsed) /\ IsTx(x) /\ x.read.execution \in InFlight
  BY Running DEF ChooseClaim
<1>2. /\ t \in Retriers /\ DOMAIN x.writes = {CommandOf[t]} /\ Claimed(t, x, h, db, lapsed)
      /\ h \subseteq Commands /\ ~ x.undo /\ Owned(t, x, h, db)
  BY <1>1 DEF Fits, Owned, MayHold, Staged
<1>3. CASE GivesUp(t, "reject", "none")
  BY <1>2, <1>3, GivingUp DEF ByKind
<1>4. CASE ~ GivesUp(t, "reject", "none")
  <2>1. PICK at, p :
          /\ at \in {"readPending", "relockUser", "claimTarget"}
          /\ tx' = [tx EXCEPT ![t].at = at, ![t].read.pending = p]
          /\ at = "relockUser" => x.read.target = "failed"
          /\ at = "claimTarget" => x.read.target # "failed"
    BY <1>2, <1>4, KindsApart DEF ChooseClaim, AfterRead
  <2>2. OthersWait(t) /\ y = [x EXCEPT !.at = at, !.read.pending = p]
    BY <2>1 DEF Inv, TxTyped, OthersWait
  <2>3. /\ IsTx(y) /\ y.at = at /\ y.writes = x.writes /\ y.undo = x.undo
        /\ y.read.execution = x.read.execution /\ y.read.target = x.read.target
    BY <1>1, <2>2 DEF IsTx
  <2>4. HeldTyped' /\ \A u \in Transactions : Mine(u)' = Mine(u)
    BY <1>4, Holding DEF ChooseClaim, OnlyReads, Inv
  <2>5. Fits(t, y, Mine(t)', db, lapsed)
    <3>0. Mine(t)' = h
      BY <2>4
    <3> HIDE DEF x, y, h
    <3>1. Owned(t, y, h, db)
      BY <1>1, <1>2, <2>1, <2>3, RowsApart DEF Owned, MayHold
    <3>2. Claimed(t, y, h, db, lapsed)
      BY <1>2, <2>3 DEF Claimed
    <3>3. Staged(t, y, h, db, lapsed)
      BY <1>2, <2>1, <2>3, <3>2, RowsApart DEF Staged, ByKind, Starting
    <3> QED BY <3>0, <3>1, <3>3 DEF Fits
  <2>6. db' = db /\ lapsed' = lapsed /\ executions' \subseteq executions
    BY <1>4 DEF ChooseClaim, OnlyReads
  <2> QED BY <1>1, <2>2, <2>3, <2>4, <2>5, <2>6, OneMoves DEF OthersWait
<1> QED BY <1>3, <1>4

LEMMA ClaimTargetStep ==
  ASSUME Inv, NEW t \in Transactions, ClaimTarget(t)
  PROVE  Inv'
<1> DEFINE x == tx[t]
           h == Mine(t)
           c == CommandOf[t]
           row == [status |-> "processing", attempt |-> db["target"].attempt + 1]
<1>1. /\ x.at = "claimTarget" /\ Fits(t, x, h, db, lapsed) /\ IsTx(x) /\ ~ Waits(t)
      /\ Wanted(t) = IF Matches(t) THEN RowOf(t) ELSE Nobody
  BY Running DEF ClaimTarget
<1>2. /\ t \in Retriers /\ DOMAIN x.writes = {c} /\ Claimed(t, x, h, db, lapsed)
      /\ h \subseteq Commands \cup {"user", "interview"} /\ ~ x.undo /\ Owned(t, x, h, db)
      /\ "interview" \in h <=> x.read.target = "failed"
  BY <1>1 DEF Fits, Owned, MayHold, Staged
<1>3. CASE GivesUp(t, "reject", "none")
  BY <1>2, <1>3, GivingUp DEF ByKind
<1>4. CASE ~ GivesUp(t, "reject", "none")
  <2>1. "target" \in Rows /\ "target" # Nobody /\ "target" # c /\ c \in Commands /\ "target" \notin h
    BY <1>2, RowsApart
  <2>2. Writes(t, "target", row, "saveRetry") /\ Locks(t) /\ OnlyLocks /\ Matches(t)
    BY <1>4 DEF ClaimTarget
  <2>3. Wanted(t) = "target"
    BY <1>1, <2>2 DEF RowOf
  <2>4. \/ db["target"].status = "failed" /\ "interview" \in h
        \/ db["target"].status = "processing" /\ "target" \in lapsed
    <3>1. Seen(t)["target"] = db["target"]
      BY <1>2, <2>1, SeenIs DEF Shown
    <3>2. /\ db["target"].status = x.read.target
          /\ x.read.target = "failed" \/ (db["target"].status = "processing" /\ "target" \in lapsed)
      BY <1>1, <2>2, <3>1 DEF Matches, Lapsed
    <3> QED BY <1>2, <3>2
  <2>5. ASSUME NEW y, IsTx(y), y.at = "saveRetry", Wrote(x, y, "target", row),
               Mine(t)' = h \cup ({Wanted(t)} \ {Nobody})
        PROVE  Fits(t, y, Mine(t)', db, lapsed)
    <3>1. /\ Mine(t)' = h \cup {"target"} /\ DOMAIN y.writes = {c, "target"} /\ ~ y.undo
          /\ y.writes[c] = x.writes[c] /\ y.writes["target"] = row
      BY <1>2, <2>1, <2>3, <2>5 DEF Wrote
    <3> DEFINE g == h \cup {"target"}
    <3> HIDE DEF x, h, c, row
    <3>2. Owned(t, y, g, db)
      <4>1. DOMAIN y.writes \subseteq g
        BY <1>2, <3>1 DEF Claimed, c
      <4>2. g \subseteq MayHold("saveRetry")
        BY <1>2, RowsApart DEF MayHold
      <4>3. \A r \in Commands \cap g : IsOpen(db[r])
        BY <1>2, RowsApart DEF Owned
      <4> QED BY <2>5, <4>1, <4>2, <4>3 DEF Owned
    <3>3. Claimed(t, y, g, db, lapsed)
      BY <1>2, <2>1, <3>1, RowsApart DEF Claimed, c
    <3>4. TargetClaimed(t, y, g, db, lapsed)
      BY <2>4, <3>1, <3>3 DEF TargetClaimed, row
    <3>5. Staged(t, y, g, db, lapsed)
      BY <1>2, <2>5, <3>1, <3>4 DEF Staged, ByKind, Starting, c
    <3> QED BY <3>1, <3>2, <3>5 DEF Fits
  <2> QED BY <1>1, <2>1, <2>2, <2>5, OnlyWriting
<1> QED BY <1>3, <1>4

LEMMA SaveRetryStep ==
  ASSUME Inv, NEW t \in Transactions, SaveRetry(t)
  PROVE  Inv'
<1> DEFINE x == tx[t]
           h == Mine(t)
           c == CommandOf[t]
           row == [db["interview"] EXCEPT !.pending = @ \/ db["interview"].status = "active"]
<1>1. /\ x.at = "saveRetry" /\ Fits(t, x, h, db, lapsed) /\ IsTx(x) /\ ~ Waits(t)
      /\ Wanted(t) = IF Matches(t) THEN RowOf(t) ELSE Nobody
  BY Running DEF SaveRetry
<1>2. /\ t \in Retriers /\ DOMAIN x.writes = {c, "target"} /\ TargetClaimed(t, x, h, db, lapsed)
      /\ ~ x.undo /\ Owned(t, x, h, db)
  BY <1>1 DEF Fits, Staged
<1>3. CASE GivesUp(t, "done", "aborted")
  BY <1>3, GivingUp DEF ByKind
<1>4. CASE ~ GivesUp(t, "done", "aborted")
  <2>1. /\ "interview" \in Rows /\ "interview" # Nobody /\ c \in Commands
        /\ "interview" # c /\ "target" # c /\ "interview" \notin Commands
    BY <1>2, RowsApart
  <2>2. Writes(t, "interview", row, "commit") /\ Locks(t) /\ OnlyLocks /\ Matches(t)
    BY <1>4 DEF SaveRetry
  <2>3. Wanted(t) = "interview"
    BY <1>1, <2>2 DEF RowOf
  <2>4. IsMutable(db["interview"])
    <3>1. Seen(t)["interview"] = db["interview"]
      BY <1>2, <2>1, SeenIs DEF Shown
    <3> QED BY <1>1, <2>2, <3>1 DEF Matches
  <2>5. ASSUME NEW y, IsTx(y), y.at = "commit", Wrote(x, y, "interview", row),
               Mine(t)' = h \cup ({Wanted(t)} \ {Nobody})
        PROVE  Fits(t, y, Mine(t)', db, lapsed)
    <3>1. /\ Mine(t)' = h \cup {"interview"} /\ DOMAIN y.writes = {c, "target", "interview"} /\ ~ y.undo
          /\ y.writes[c] = x.writes[c] /\ y.writes["target"] = x.writes["target"]
          /\ y.writes["interview"] = row
      BY <1>2, <2>1, <2>3, <2>5 DEF Wrote
    <3> DEFINE g == h \cup {"interview"}
    <3>0. g \subseteq Rows
      BY <2>1 DEF Mine
    <3> HIDE DEF x, h, c, row
    <3>2. Owned(t, y, g, db)
      <4>1. DOMAIN y.writes \subseteq g
        BY <1>2, <3>1 DEF TargetClaimed, Claimed, c
      <4>2. \A r \in Commands \cap g : IsOpen(db[r])
        BY <1>2, <2>1 DEF Owned
      <4> QED BY <2>5, <3>0, <4>1, <4>2 DEF Owned, MayHold
    <3>3. Claimed(t, y, g, db, lapsed)
      BY <1>2, <2>1, <3>1 DEF TargetClaimed, Claimed, c
    <3>4. TargetClaimed(t, y, g, db, lapsed)
      BY <1>2, <3>1, <3>3 DEF TargetClaimed
    <3>5. RetrySaved(y, g, db)
      BY <2>4, <3>1 DEF RetrySaved, row
    <3>6. Retried(t, y, g, db, lapsed)
      BY <1>2, <3>1, <3>4, <3>5 DEF Retried, c
    <3>7. Staged(t, y, g, db, lapsed)
      BY <1>2, <2>5, <3>1, <3>6 DEF Staged, ByKind, Starting, Committable
    <3> QED BY <3>1, <3>2, <3>7 DEF Fits
  <2> QED BY <1>1, <2>1, <2>2, <2>5, OnlyWriting
<1> QED BY <1>3, <1>4

LEMMA RejectCommandStep ==
  ASSUME Inv, NEW t \in Transactions, RejectCommand(t)
  PROVE  Inv'
<1> DEFINE x == tx[t]
           h == Mine(t)
           c == CommandOf[t]
           row == [status |-> "settled"]
<1>1. /\ x.at = "reject" /\ Fits(t, x, h, db, lapsed) /\ IsTx(x) /\ ~ Waits(t)
      /\ Wanted(t) = IF Matches(t) THEN RowOf(t) ELSE Nobody
  BY Running DEF RejectCommand
<1>2. t \in Retriers /\ DOMAIN x.writes = {} /\ ~ x.undo /\ h = {}
  BY <1>1 DEF Fits, Owned, MayHold, Staged, ByKind, Starting
<1>3. CASE GivesUp(t, "done", "none")
  BY <1>2, <1>3, GivingUp DEF ByKind
<1>4. CASE ~ GivesUp(t, "done", "none")
  <2>1. c \in Commands /\ c \in Rows /\ c # Nobody
    BY <1>2, RowsApart
  <2>2. Writes(t, c, row, "commit") /\ Locks(t) /\ OnlyLocks /\ Matches(t)
    BY <1>4 DEF RejectCommand
  <2>3. Wanted(t) = c
    BY <1>1, <2>2 DEF RowOf
  <2>4. IsOpen(db[c])
    <3>1. Seen(t)[c] = db[c]
      BY <1>2, <2>1, SeenIs DEF Shown
    <3> QED BY <1>1, <2>2, <3>1 DEF Matches, Lapsed, IsOpen
  <2>5. ASSUME NEW y, IsTx(y), y.at = "commit", Wrote(x, y, c, row),
               Mine(t)' = h \cup ({Wanted(t)} \ {Nobody})
        PROVE  Fits(t, y, Mine(t)', db, lapsed)
    <3>1. Mine(t)' = {c} /\ DOMAIN y.writes = {c} /\ y.writes[c] = row /\ ~ y.undo
      BY <1>2, <2>1, <2>3, <2>5 DEF Wrote
    <3> HIDE DEF x, h
    <3>2. Owned(t, y, {c}, db)
      BY <2>1, <2>4, <2>5, <3>1 DEF Owned, MayHold
    <3>3. Rejected(t, y)
      BY <1>2, <3>1 DEF Rejected
    <3>4. Staged(t, y, {c}, db, lapsed)
      BY <1>2, <2>5, <3>1, <3>3 DEF Staged, ByKind, Starting, Committable
    <3> QED BY <3>1, <3>2, <3>4 DEF Fits
  <2> QED BY <1>1, <2>1, <2>2, <2>5, OnlyWriting
<1> QED BY <1>3, <1>4
-------------------------------------------------------------------------------
(* Finalization. *)

LEMMA LoadExecutionStep ==
  ASSUME Inv, NEW t \in Transactions, NEW e \in executions, LoadExecution(t, e)
  PROVE  Inv'
<1> DEFINE x == tx[t]
           y == tx'[t]
           h == Mine(t)
           p == db["interview"].pending
<1>1. x.at = "load" /\ Fits(t, x, h, db, lapsed) /\ IsTx(x)
  BY Running DEF LoadExecution
<1>2. t \in Finishers /\ DOMAIN x.writes = {} /\ ~ x.undo /\ h = {}
  BY <1>1 DEF Fits, Owned, MayHold, Staged, ByKind, Starting
<1>3. HeldTyped' /\ \A u \in Transactions : Mine(u)' = Mine(u)
  BY Holding DEF LoadExecution, Inv
<1>4. db' = db /\ lapsed' = lapsed /\ executions' \subseteq executions
  BY DEF LoadExecution
<1>5. CASE /\ tx' = [tx EXCEPT ![t].at = "settleTarget", ![t].read.execution = e, ![t].read.pending = p]
           /\ p = (db["interview"].status = "active")
  <2>1. OthersWait(t) /\ y = [x EXCEPT !.at = "settleTarget", !.read.execution = e, !.read.pending = p]
    BY <1>5 DEF Inv, TxTyped, OthersWait
  <2>2. /\ IsTx(y) /\ y.at = "settleTarget" /\ y.writes = x.writes /\ y.undo = x.undo
        /\ y.read.execution = e /\ y.read.pending = p
    <3> DEFINE z == [x.read EXCEPT !.execution = e, !.pending = p]
    <3>1. y = [x EXCEPT !.at = "settleTarget", !.read = z]
      BY <1>1, <2>1 DEF IsTx
    <3>2. DOMAIN z = DOMAIN x.read /\ z.execution = e /\ z.pending = p
      BY <1>1 DEF IsTx
    <3> HIDE DEF x, y, z
    <3> QED BY <1>1, <3>1, <3>2 DEF IsTx
  <2>3. Fits(t, y, Mine(t)', db, lapsed)
    <3>0. Mine(t)' = {}
      BY <1>2, <1>3
    <3> HIDE DEF x, y, h
    <3>1. Owned(t, y, {}, db)
      BY <1>2, <2>2 DEF Owned
    <3>2. Staged(t, y, {}, db, lapsed)
      BY <1>2, <1>5, <2>2 DEF Staged, ByKind
    <3> QED BY <3>0, <3>1, <3>2 DEF Fits
  <2>4. y.read.execution \in InFlight
    BY <2>2 DEF InFlight
  <2> QED BY <1>3, <1>4, <2>1, <2>2, <2>3, <2>4, OneMoves DEF OthersWait
<1>6. CASE tx' = [tx EXCEPT ![t] = Transaction("done", "aborted")]
  <2>1. OthersWait(t) /\ y = Transaction("done", "aborted")
    BY <1>6 DEF Inv, TxTyped, OthersWait
  <2>2. IsTx(y) /\ y.read = NoReads
    BY <2>1, Beginning
  <2>3. Fits(t, y, Mine(t)', db, lapsed)
    <3>1. ByKind(t, "done")
      BY DEF ByKind
    <3> QED BY <1>2, <1>3, <2>1, <3>1, BeginningFits
  <2> QED BY <1>3, <1>4, <2>1, <2>2, <2>3, OneMoves DEF OthersWait
<1> QED BY <1>5, <1>6 DEF LoadExecution

(* The interview has what the execution leaves it, and the command is next.  *)
LEMMA Concluding ==
  ASSUME NEW t, NEW y, NEW g, NEW d, NEW l,
         TargetSettled(t, y, g, d), Concluded(y, g, d), ~ y.undo,
         DOMAIN y.writes \subseteq {"target", "interview"} \cap g,
         g \subseteq {"target", "interview", "user"},
         y.read.execution.command \in Commands \cup {Nobody},
         y.at = IF y.read.execution.command = Nobody THEN "commit" ELSE "settleCommand"
  PROVE  Fits(t, y, g, d, l)
<1>1. Owned(t, y, g, d)
  <2>1. Commands \cap g = {}
    BY RowsApart
  <2>2. g \subseteq MayHold(y.at)
    BY RowsApart DEF MayHold
  <2> QED BY <2>1, <2>2 DEF Owned
<1>2. CASE y.read.execution.command = Nobody
  <2>1. Finished(t, y, g, d)
    BY <1>2 DEF Finished
  <2>2. Staged(t, y, g, d, l)
    BY <1>2, <2>1 DEF Staged, ByKind, Starting, Committable
  <2> QED BY <1>1, <2>2 DEF Fits
<1>3. CASE y.read.execution.command # Nobody
  <2>1. Staged(t, y, g, d, l)
    BY <1>3 DEF Staged, ByKind, Starting
  <2> QED BY <1>1, <2>1 DEF Fits
<1> QED BY <1>2, <1>3

LEMMA SettleTargetStep ==
  ASSUME Inv, NEW t \in Transactions, NEW status \in {"failed", "settled"}, SettleTarget(t, status)
  PROVE  Inv'
<1> DEFINE x == tx[t]
           h == Mine(t)
           row == [db["target"] EXCEPT !.status = status]
           at == IF status = "settled" \/ x.read.pending THEN "saveInterview" ELSE AfterSave(t)
<1>1. /\ x.at = "settleTarget" /\ Fits(t, x, h, db, lapsed) /\ IsTx(x) /\ ~ Waits(t)
      /\ Wanted(t) = (IF Matches(t) THEN RowOf(t) ELSE Nobody)
      /\ x.read.execution \in InFlight
  BY Running DEF SettleTarget
<1>2. /\ t \in Finishers /\ DOMAIN x.writes = {} /\ ~ x.undo /\ h = {}
      /\ x.read.pending \/ db["interview"].status # "active"
  BY <1>1 DEF Fits, Owned, MayHold, Staged, ByKind, Starting
<1>3. CASE GivesUp(t, "done", "aborted")
  BY <1>3, GivingUp DEF ByKind
<1>4. CASE ~ GivesUp(t, "done", "aborted")
  <2>1. "target" \in Rows /\ "target" # Nobody /\ "target" \notin Commands
    BY RowsApart
  <2>2. Writes(t, "target", row, at) /\ Locks(t) /\ OnlyLocks /\ Matches(t)
    BY <1>4 DEF SettleTarget
  <2>3. Wanted(t) = "target"
    BY <1>1, <2>2 DEF RowOf
  <2>4. db["target"] = [status |-> "processing", attempt |-> x.read.execution.attempt]
    <3>1. Seen(t)["target"] = db["target"]
      BY <1>2, <2>1, SeenIs DEF Shown
    <3> QED BY <1>1, <2>2, <3>1 DEF Matches
  <2>5. db["target"] \in TargetRows
    BY DEF Inv, RowsTyped
  <2>6. x.read.execution.command \in Commands \cup {Nobody}
    BY <1>1 DEF Inv, Leased
  <2>7. ASSUME NEW y, IsTx(y), y.at = at, Wrote(x, y, "target", row),
               Mine(t)' = h \cup ({Wanted(t)} \ {Nobody})
        PROVE  Fits(t, y, Mine(t)', db, lapsed)
    <3>1. /\ Mine(t)' = {"target"} /\ DOMAIN y.writes = {"target"} /\ ~ y.undo
          /\ y.writes["target"] = row /\ y.read = x.read
      BY <1>2, <2>1, <2>3, <2>7 DEF Wrote
    <3>2. row \in TargetRows /\ row.status = status /\ row.attempt = db["target"].attempt
      BY <2>5 DEF TargetRows
    <3>3. TargetSettled(t, y, {"target"}, db)
      <4> HIDE DEF x, h, row
      <4> QED BY <1>2, <2>4, <3>1, <3>2 DEF TargetSettled
    <3>4. CASE status = "settled" \/ x.read.pending
      <4>1. y.at = "saveInterview"
        BY <2>7, <3>4
      <4> HIDE DEF x, h, row, at
      <4>2. Owned(t, y, {"target"}, db)
        BY <2>1, <3>1, <4>1 DEF Owned, MayHold
      <4>3. Staged(t, y, {"target"}, db, lapsed)
        BY <3>1, <3>2, <3>3, <3>4, <4>1 DEF Staged, ByKind, Starting
      <4> QED BY <3>1, <4>2, <4>3 DEF Fits
    <3>5. CASE ~ (status = "settled" \/ x.read.pending)
      <4>1. y.at = IF y.read.execution.command = Nobody THEN "commit" ELSE "settleCommand"
        BY <2>7, <3>1, <3>5 DEF AfterSave
      <4> HIDE DEF x, h, row, at
      <4>2. Concluded(y, {"target"}, db)
        BY <1>2, <3>1, <3>2, <3>5 DEF Concluded, ReportFailed
      <4>3. y.read.execution.command \in Commands \cup {Nobody}
        BY <2>6, <3>1
      <4>4. DOMAIN y.writes \subseteq {"target", "interview"} \cap {"target"}
        BY <3>1
      <4> QED BY <3>1, <3>3, <4>1, <4>2, <4>3, <4>4, Concluding
    <3> QED BY <3>4, <3>5
  <2> HIDE DEF at
  <2> QED BY <1>1, <2>1, <2>2, <2>7, OnlyWriting
<1> QED BY <1>3, <1>4

LEMMA SaveInterviewStep ==
  ASSUME Inv, NEW t \in Transactions, SaveInterview(t)
  PROVE  Inv'
<1> DEFINE x == tx[t]
           h == Mine(t)
           g == h \cup {"interview"}
           kept == [db["interview"] EXCEPT !.pending = FALSE]
           done == [db["interview"] EXCEPT !.status = "completed", !.position = 2]
<1>1. /\ x.at = "saveInterview" /\ Fits(t, x, h, db, lapsed) /\ IsTx(x) /\ ~ Waits(t)
      /\ Wanted(t) = (IF Matches(t) THEN RowOf(t) ELSE Nobody)
      /\ x.read.execution \in InFlight
  BY Running DEF SaveInterview
<1>2. /\ DOMAIN x.writes = {"target"} /\ TargetSettled(t, x, h, db) /\ ~ x.undo /\ h \subseteq {"target"}
      /\ x.read.pending \/ x.writes["target"].status = "settled"
  BY <1>1 DEF Fits, Owned, MayHold, Staged
<1>3. CASE GivesUp(t, "done", "aborted")
  BY <1>3, GivingUp DEF ByKind
<1>4. CASE ~ GivesUp(t, "done", "aborted")
  <2>1. "interview" \in Rows /\ "interview" # Nobody /\ "interview" \notin Commands /\ "target" \notin Commands
        /\ "target" \in Rows
    BY RowsApart
  <2>2. /\ Locks(t) /\ OnlyLocks /\ Matches(t)
        /\ IF x.read.pending THEN Writes(t, "interview", kept, AfterSave(t))
           ELSE Writes(t, "interview", done, "insertReport")
    BY <1>4 DEF SaveInterview
  <2>3. Wanted(t) = "interview"
    BY <1>1, <2>2 DEF RowOf
  <2>4. IsMutable(db["interview"]) /\ db["interview"].pending = x.read.pending
    <3>1. Seen(t)["interview"] = db["interview"]
      BY <1>2, <2>1, SeenIs DEF Shown
    <3> QED BY <1>1, <2>2, <3>1 DEF Matches
  <2>5. db["interview"].status = IF x.read.pending THEN "active" ELSE "report_pending"
    <3>1. db["target"].status = "processing" /\ Agree(db, lapsed)
      BY <1>2 DEF TargetSettled, Inv
    <3> QED BY <2>4, <3>1 DEF Agree, IsMutable
  <2>6. x.read.execution.command \in Commands \cup {Nobody}
    BY <1>1 DEF Inv, Leased
  <2>7. ASSUME NEW y, NEW row, Wrote(x, y, "interview", row),
               Mine(t)' = h \cup ({Wanted(t)} \ {Nobody})
        PROVE  /\ Mine(t)' = g /\ g = {"target", "interview"}
               /\ DOMAIN y.writes = {"target", "interview"} /\ ~ y.undo
               /\ y.writes["interview"] = row /\ y.writes["target"] = x.writes["target"]
               /\ y.read = x.read /\ TargetSettled(t, y, g, db)
    <3>1. /\ Mine(t)' = g /\ DOMAIN y.writes = {"target", "interview"} /\ ~ y.undo
          /\ y.writes["interview"] = row /\ y.writes["target"] = x.writes["target"]
          /\ y.read = x.read
      BY <1>2, <2>1, <2>3, <2>7 DEF Wrote
    <3>2. g = {"target", "interview"}
      BY <1>2 DEF TargetSettled
    <3> HIDE DEF x, h, g
    <3>3. TargetSettled(t, y, g, db)
      BY <1>2, <3>1, <3>2 DEF TargetSettled
    <3> QED BY <3>1, <3>2, <3>3
  <2>8. CASE x.read.pending
    <3>1. ASSUME NEW y, IsTx(y), y.at = AfterSave(t), Wrote(x, y, "interview", kept),
                 Mine(t)' = h \cup ({Wanted(t)} \ {Nobody})
          PROVE  Fits(t, y, Mine(t)', db, lapsed)
      <4>1. /\ Mine(t)' = g /\ g = {"target", "interview"}
            /\ DOMAIN y.writes = {"target", "interview"} /\ ~ y.undo
            /\ y.writes["interview"] = kept /\ y.read = x.read /\ TargetSettled(t, y, g, db)
        BY <2>7, <3>1
      <4>2. y.at = IF y.read.execution.command = Nobody THEN "commit" ELSE "settleCommand"
        BY <3>1, <4>1 DEF AfterSave
      <4> HIDE DEF x, h, g
      <4>3. Concluded(y, g, db)
        BY <2>5, <2>8, <4>1 DEF Concluded, SupplementSaved
      <4>4. y.read.execution.command \in Commands \cup {Nobody}
        BY <2>6, <4>1
      <4>5. DOMAIN y.writes \subseteq {"target", "interview"} \cap g /\ g \subseteq {"target", "interview", "user"}
        BY <4>1
      <4> QED BY <4>1, <4>2, <4>3, <4>4, <4>5, Concluding
    <3>2. Writes(t, "interview", kept, AfterSave(t))
      BY <2>2, <2>8
    <3> HIDE DEF kept
    <3> QED BY <1>1, <2>1, <2>2, <3>1, <3>2, OnlyWriting
  <2>9. CASE ~ x.read.pending
    <3>1. ASSUME NEW y, IsTx(y), y.at = "insertReport", Wrote(x, y, "interview", done),
                 Mine(t)' = h \cup ({Wanted(t)} \ {Nobody})
          PROVE  Fits(t, y, Mine(t)', db, lapsed)
      <4>1. /\ Mine(t)' = g /\ g = {"target", "interview"}
            /\ DOMAIN y.writes = {"target", "interview"} /\ ~ y.undo
            /\ y.writes["interview"] = done /\ y.writes["target"] = x.writes["target"]
            /\ y.read = x.read /\ TargetSettled(t, y, g, db)
        BY <2>7, <3>1
      <4> HIDE DEF x, h, g
      <4>2. Owned(t, y, g, db)
        BY <2>1, <3>1, <4>1 DEF Owned, MayHold
      <4>3. ReportSaved(y, g, db)
        BY <1>2, <2>5, <2>9, <4>1 DEF ReportSaved
      <4>4. Staged(t, y, g, db, lapsed)
        BY <3>1, <4>1, <4>3 DEF Staged, ByKind, Starting
      <4> QED BY <4>1, <4>2, <4>4 DEF Fits
    <3>2. Writes(t, "interview", done, "insertReport")
      BY <2>2, <2>9
    <3> HIDE DEF done
    <3> QED BY <1>1, <2>1, <2>2, <3>1, <3>2, OnlyWriting
  <2> QED BY <2>8, <2>9
<1> QED BY <1>3, <1>4

LEMMA InsertReportStep ==
  ASSUME Inv, NEW t \in Transactions, InsertReport(t)
  PROVE  Inv'
<1> DEFINE x == tx[t]
           h == Mine(t)
<1>1. /\ x.at = "insertReport" /\ Fits(t, x, h, db, lapsed) /\ ~ Waits(t)
      /\ Wanted(t) = (IF Matches(t) THEN RowOf(t) ELSE Nobody)
      /\ x.read.execution \in InFlight
  BY Running DEF InsertReport
<1>2. /\ DOMAIN x.writes = {"target", "interview"} /\ TargetSettled(t, x, h, db)
      /\ ReportSaved(x, h, db) /\ ~ x.undo /\ h \subseteq {"target", "interview"}
  BY <1>1 DEF Fits, Owned, MayHold, Staged
<1>3. /\ HeldTyped' /\ h \subseteq Mine(t)' /\ Mine(t)' \subseteq {"target", "interview", "user"}
      /\ \A u \in Transactions : u # t => Mine(u)' = Mine(u)
  <2>1. RowOf(t) = "user"
    BY <1>1 DEF RowOf
  <2> QED BY <1>1, <1>2, <2>1, Locking DEF InsertReport
<1>4. x.read.execution.command \in Commands \cup {Nobody}
  BY <1>1 DEF Inv, Leased
<1>5. ASSUME NEW y, IsTx(y), y.at = AfterSave(t), Same(x, y)
      PROVE  Fits(t, y, Mine(t)', db, lapsed)
  <2> DEFINE g == Mine(t)'
  <2>1. /\ y.writes = x.writes /\ y.read = x.read /\ ~ y.undo
        /\ y.at = IF y.read.execution.command = Nobody THEN "commit" ELSE "settleCommand"
    BY <1>2, <1>5 DEF Same, AfterSave
  <2>2. h \subseteq g /\ g \subseteq {"target", "interview", "user"}
    BY <1>3
  <2> HIDE DEF x, h, g
  <2>3. TargetSettled(t, y, g, db)
    BY <1>2, <2>1, <2>2 DEF TargetSettled
  <2>4. Concluded(y, g, db)
    BY <1>2, <2>1, <2>2 DEF Concluded, ReportSaved
  <2>5. DOMAIN y.writes \subseteq {"target", "interview"} \cap g
    BY <1>2, <2>1, <2>2 DEF TargetSettled, ReportSaved
  <2>6. y.read.execution.command \in Commands \cup {Nobody}
    BY <1>4, <2>1
  <2>7. Fits(t, y, g, db, lapsed)
    BY <2>1, <2>2, <2>3, <2>4, <2>5, <2>6, Concluding
  <2> QED BY <2>7 DEF g
<1> HIDE DEF x, h
<1> QED BY <1>3, <1>5, OnlyGoing DEF InsertReport, x

LEMMA SettleCommandStep ==
  ASSUME Inv, NEW t \in Transactions, SettleCommand(t)
  PROVE  Inv'
<1> DEFINE x == tx[t]
           h == Mine(t)
           c == x.read.execution.command
           row == [status |-> "settled"]
<1>1. /\ x.at = "settleCommand" /\ Fits(t, x, h, db, lapsed) /\ IsTx(x) /\ ~ Waits(t)
      /\ Wanted(t) = (IF Matches(t) THEN RowOf(t) ELSE Nobody)
  BY Running DEF SettleCommand
<1>2. /\ DOMAIN x.writes \subseteq {"target", "interview"} /\ TargetSettled(t, x, h, db)
      /\ Concluded(x, h, db) /\ c \in Commands
      /\ ~ x.undo /\ h \subseteq {"target", "interview", "user"}
  BY <1>1 DEF Fits, Owned, MayHold, Staged
<1>3. CASE GivesUp(t, "done", "aborted")
  BY <1>3, GivingUp DEF ByKind
<1>4. CASE ~ GivesUp(t, "done", "aborted")
  <2>1. /\ c \in Rows /\ c # Nobody /\ c # "interview" /\ c # "target"
        /\ "interview" \notin Commands /\ "target" \notin Commands
        /\ "target" \in Rows /\ "interview" \in Rows
    BY <1>2, RowsApart
  <2>2. Writes(t, c, row, "commit") /\ Locks(t) /\ OnlyLocks /\ Matches(t)
    BY <1>4 DEF SettleCommand
  <2>3. Wanted(t) = c
    BY <1>1, <2>2 DEF RowOf
  <2>4. IsOpen(db[c])
    <3>1. Seen(t)[c] = db[c]
      BY <1>2, <2>1, SeenIs DEF Shown
    <3> QED BY <1>1, <2>2, <3>1 DEF Matches, IsOpen
  <2>5. ASSUME NEW y, IsTx(y), y.at = "commit", Wrote(x, y, c, row),
               Mine(t)' = h \cup ({Wanted(t)} \ {Nobody})
        PROVE  Fits(t, y, Mine(t)', db, lapsed)
    <3>1. /\ Mine(t)' = h \cup {c} /\ DOMAIN y.writes = {c} \cup DOMAIN x.writes /\ ~ y.undo
          /\ \A r \in DOMAIN x.writes : y.writes[r] = x.writes[r]
          /\ y.writes[c] = row /\ y.read = x.read
      BY <1>2, <2>1, <2>3, <2>5 DEF Wrote
    <3> DEFINE g == h \cup {c}
    <3>2. g \subseteq Rows
      BY <2>1 DEF Mine
    <3>3. y.read.execution.command = c /\ DOMAIN x.writes \subseteq g
      BY <1>2, <3>1 DEF TargetSettled, Concluded, SupplementSaved, ReportSaved, ReportFailed
    <3> HIDE DEF x, row, c
    <3>4. Owned(t, y, g, db)
      <4>1. \A r \in Commands \cap g : r = c
        BY <1>2, <2>1, RowsApart
      <4> QED BY <2>4, <2>5, <3>1, <3>2, <3>3, <4>1 DEF Owned, MayHold
    <3>5. TargetSettled(t, y, g, db)
      BY <1>2, <3>1 DEF TargetSettled
    <3>6. Concluded(y, g, db)
      <4>1. y.writes["target"] = x.writes["target"]
        BY <1>2, <3>1 DEF TargetSettled
      <4>2. "interview" \in DOMAIN y.writes <=> "interview" \in DOMAIN x.writes
        BY <2>1, <3>1
      <4> QED BY <1>2, <3>1, <4>1, <4>2 DEF Concluded, SupplementSaved, ReportSaved, ReportFailed
    <3>7. Finished(t, y, g, db)
      BY <1>2, <3>1, <3>3, <3>5, <3>6 DEF Finished, row
    <3>8. Staged(t, y, g, db, lapsed)
      BY <2>5, <3>1, <3>7 DEF Staged, ByKind, Starting, Committable
    <3> QED BY <3>1, <3>4, <3>8 DEF Fits, g
  <2> QED BY <1>1, <2>1, <2>2, <2>5, OnlyWriting
<1> QED BY <1>3, <1>4
-------------------------------------------------------------------------------
(* What closes the interview. *)

LEMMA LeaveStep ==
  ASSUME Inv, NEW t \in Transactions, Leave(t)
  PROVE  Inv'
<1> DEFINE x == tx[t]
           y == tx'[t]
           h == Mine(t)
           w == Put(Put(<<>>, "user", [status |-> "deleting"]), "session", [status |-> "gone"])
<1>1. x.at = "leave" /\ Fits(t, x, h, db, lapsed) /\ IsTx(x) /\ x.read.execution \in InFlight
  BY Running DEF Leave
<1>2. t \in Leavers /\ ~ x.undo /\ h \subseteq {"session", "user"}
  BY <1>1 DEF Fits, Owned, MayHold, Staged, ByKind
<1>3. DOMAIN w = {"user", "session"} /\ w["session"] = [status |-> "gone"]
  <2>1. DOMAIN Put(<<>>, "user", [status |-> "deleting"]) = {"user"}
    BY NothingPut
  <2>2. ASSUME NEW a, DOMAIN a = {"user"}, NEW z
        PROVE  DOMAIN Put(a, "session", z) = {"user", "session"} /\ Put(a, "session", z)["session"] = z
    BY <2>2 DEF Put
  <2> QED BY <2>1, <2>2
<1>4. OthersWait(t) /\ y = [x EXCEPT !.at = "close", !.writes = w]
  BY DEF Leave, Inv, TxTyped, OthersWait
<1> HIDE DEF w
<1>5. IsTx(y) /\ y.at = "close" /\ y.writes = w /\ y.undo = x.undo /\ y.read = x.read
  BY <1>1, <1>3, <1>4, RowsApart DEF IsTx
<1>6. HeldTyped' /\ \A u \in Transactions : Mine(u)' = Mine(u)
  BY Holding DEF Leave, OnlyReads, Inv
<1>7. Fits(t, y, Mine(t)', db, lapsed)
  <2>0. Mine(t)' = h
    BY <1>6
  <2> HIDE DEF x, y, h
  <2>1. Owned(t, y, h, db)
    BY <1>2, <1>3, <1>5, RowsApart DEF Owned, MayHold
  <2>2. Staged(t, y, h, db, lapsed)
    BY <1>2, <1>3, <1>5 DEF Staged, ByKind, Starting
  <2> QED BY <2>0, <2>1, <2>2 DEF Fits
<1>8. db' = db /\ lapsed' = lapsed /\ executions' \subseteq executions
  BY DEF Leave, OnlyReads
<1> QED BY <1>1, <1>4, <1>5, <1>6, <1>7, <1>8, OneMoves DEF OthersWait

LEMMA SweepStep ==
  ASSUME Inv, NEW t \in Transactions, Sweep(t)
  PROVE  Inv'
<1> DEFINE x == tx[t]
           h == Mine(t)
<1>1. x.at = "sweep" /\ Fits(t, x, h, db, lapsed) /\ IsTx(x)
  BY Running DEF Sweep
<1>2. t \in Sweepers /\ DOMAIN x.writes = {} /\ ~ x.undo /\ h = {}
  BY <1>1 DEF Fits, Owned, MayHold, Staged, ByKind, Starting
<1>3. CASE GivesUp(t, "done", "none")
  BY <1>3, GivingUp DEF ByKind
<1>4. CASE ~ GivesUp(t, "done", "none")
  <2>1. /\ held["interview"] = Nobody /\ held["user"] = Nobody
        /\ held' = [held EXCEPT !["interview"] = t, !["user"] = t]
        /\ Goes(t, "persistExpiry") /\ OnlyLocks
    BY <1>4 DEF Sweep
  <2>2. /\ HeldTyped' /\ Mine(t)' = {"user", "interview"}
        /\ \A u \in Transactions : u # t => Mine(u)' = Mine(u)
    <3>1. held \in [Rows -> Transactions \cup {Nobody}] /\ "user" \in Rows /\ "interview" \in Rows
      BY RowsApart DEF Inv, HeldTyped
    <3>2. \A r \in Rows : held'[r] = IF r \in {"user", "interview"} THEN t ELSE held[r]
      BY <2>1, <3>1
    <3>3. held' \in [Rows -> Transactions \cup {Nobody}]
      BY <2>1, <3>1
    <3>4. \A r \in Rows : held[r] # t
      BY <1>2 DEF Mine
    <3>5. Mine(t)' = {"user", "interview"}
      BY <3>1, <3>2, <3>4 DEF Mine
    <3>6. \A u \in Transactions : u # t => Mine(u)' = Mine(u)
      BY <2>1, <3>2, RowsApart DEF Mine
    <3> QED BY <3>3, <3>5, <3>6 DEF HeldTyped
  <2>3. ASSUME NEW y, IsTx(y), y.at = "persistExpiry", Same(x, y)
        PROVE  Fits(t, y, Mine(t)', db, lapsed)
    <3>1. Owned(t, y, {"user", "interview"}, db)
      BY <1>2, <2>3, RowsApart DEF Owned, MayHold, Same
    <3>2. Staged(t, y, {"user", "interview"}, db, lapsed)
      BY <1>2, <2>3, KindsApart DEF Staged, ByKind, Same
    <3> QED BY <2>2, <3>1, <3>2 DEF Fits
  <2> HIDE DEF x, h
  <2> QED BY <2>1, <2>2, <2>3, OnlyGoing DEF x
<1> QED BY <1>3, <1>4

LEMMA CloseStep ==
  ASSUME Inv, NEW t \in Transactions, Close(t)
  PROVE  Inv'
<1> DEFINE x == tx[t]
           h == Mine(t)
           row == Closed(t)
<1>1. /\ x.at = "close" /\ Fits(t, x, h, db, lapsed) /\ IsTx(x) /\ ~ Waits(t)
      /\ Wanted(t) = (IF Matches(t) THEN RowOf(t) ELSE Nobody)
  BY Running DEF Close
<1>2. /\ \/ t \in Deleters /\ DOMAIN x.writes = {}
         \/ t \in Leavers /\ DOMAIN x.writes = {"user", "session"} /\ x.writes["session"].status = "gone"
      /\ ~ x.undo /\ Owned(t, x, h, db)
  BY <1>1 DEF Fits, Staged
<1>3. Seen(t)["interview"] = db["interview"] /\ "interview" \in Rows /\ "interview" # Nobody
  BY <1>2, SeenIs, RowsApart DEF Shown
<1>4. Matches(t) <=> db["interview"].status # "deleting"
  BY <1>1, <1>3 DEF Matches
<1>5. RowOf(t) = "interview" /\ h \subseteq Rows
  BY <1>1 DEF RowOf, Mine
<1>6. db["interview"] \in InterviewRows
  BY DEF Inv, RowsTyped
<1>7. CASE Matches(t)
  <2>1. Writes(t, "interview", row, "scan") /\ Locks(t) /\ OnlyLocks
    BY <1>7 DEF Close
  <2>2. row \in InterviewRows /\ row.status = "deleting" /\ ~ row.pending
    BY <1>2, <1>3, <1>6 DEF Closed, InterviewRows
  <2>3. ASSUME NEW y, IsTx(y), y.at = "scan", Wrote(x, y, "interview", row),
               Mine(t)' = h \cup ({Wanted(t)} \ {Nobody})
        PROVE  Fits(t, y, Mine(t)', db, lapsed)
    <3> DEFINE g == h \cup {"interview"}
    <3>1. Mine(t)' = g
      BY <1>1, <1>3, <1>5, <1>7, <2>3
    <3>2. /\ y.writes["interview"] = row /\ DOMAIN y.writes = {"interview"} \cup DOMAIN x.writes
          /\ "session" \in DOMAIN x.writes => y.writes["session"] = x.writes["session"]
          /\ ~ y.undo
      BY <1>2, <2>3 DEF Wrote
    <3> HIDE DEF x, h, row
    <3>3. Owned(t, y, g, db)
      BY <1>2, <1>3, <1>5, <2>3, <3>2, RowsApart DEF Owned, MayHold
    <3>4. Closes(t, y, g, db)
      <4>1. /\ "interview" \in DOMAIN y.writes
            /\ "interview" \in g
            /\ y.writes["interview"] \in InterviewRows
            /\ ~ y.writes["interview"].pending
            /\ y.writes["interview"].status = "deleting" /\ db["interview"].status # "deleting"
        BY <1>4, <1>7, <2>2, <3>2
      <4>2. IF t \in Leavers
            THEN /\ {"user", "session"} \subseteq DOMAIN y.writes
                 /\ y.writes["session"].status = "gone"
            ELSE "user" \notin DOMAIN y.writes /\ "session" \notin DOMAIN y.writes
        BY <1>2, <3>2, KindsApart
      <4>3. Commands \cap DOMAIN y.writes = {} /\ "target" \notin DOMAIN y.writes
        BY <1>2, <3>2, RowsApart
      <4> QED BY <4>1, <4>2, <4>3 DEF Closes
    <3>5. Staged(t, y, g, db, lapsed)
      BY <2>3, <3>2, <3>4 DEF Staged, ByKind, Starting
    <3> QED BY <3>1, <3>3, <3>5 DEF Fits
  <2> QED BY <1>1, <1>3, <2>1, <2>3, OnlyWriting
<1>8. CASE ~ Matches(t)
  <2>1. PICK at \in {"scan", "commit"} :
          /\ Goes(t, at) /\ Locks(t) /\ OnlyLocks
          /\ at = "scan" <=> t \in Leavers
    BY <1>8 DEF Close
  <2>2. /\ HeldTyped' /\ Mine(t)' = h
        /\ \A u \in Transactions : u # t => Mine(u)' = Mine(u)
    BY <1>1, <1>8, <2>1, Locking
  <2>3. ASSUME NEW y, IsTx(y), y.at = at, Same(x, y)
        PROVE  Fits(t, y, Mine(t)', db, lapsed)
    <3>1. y.writes = x.writes /\ ~ y.undo
      BY <1>2, <2>3 DEF Same
    <3> HIDE DEF x
    <3>2. Owned(t, y, h, db)
      BY <1>2, <1>5, <2>1, <2>3, <3>1 DEF Owned, MayHold
    <3>3. CASE t \in Leavers
      <4>1. /\ DOMAIN y.writes = {"user", "session"} /\ y.writes["session"].status = "gone"
            /\ y.at = "scan" /\ db["interview"].status = "deleting"
        BY <1>2, <1>4, <1>8, <2>1, <2>3, <3>1, <3>3, KindsApart
      <4>2. Closes(t, y, h, db)
        BY <3>3, <4>1, RowsApart DEF Closes
      <4>3. Staged(t, y, h, db, lapsed)
        BY <3>1, <4>1, <4>2 DEF Staged, ByKind, Starting
      <4> QED BY <2>2, <3>2, <4>3 DEF Fits
    <3>4. CASE t \notin Leavers
      <4>1. DOMAIN y.writes = {} /\ y.at = "commit"
        BY <1>2, <2>1, <2>3, <3>1, <3>4
      <4>2. Staged(t, y, h, db, lapsed)
        BY <3>1, <4>1 DEF Staged, ByKind, Starting, Committable, Idle
      <4> QED BY <2>2, <3>2, <4>2 DEF Fits
    <3> QED BY <3>3, <3>4
  <2> HIDE DEF x, h
  <2> QED BY <2>1, <2>2, <2>3, OnlyGoing DEF x
<1> QED BY <1>7, <1>8

LEMMA PersistExpiryStep ==
  ASSUME Inv, NEW t \in Transactions, PersistExpiry(t)
  PROVE  Inv'
<1> DEFINE x == tx[t]
           h == Mine(t)
           row == Closed(t)
<1>1. /\ x.at = "persistExpiry" /\ Fits(t, x, h, db, lapsed) /\ IsTx(x) /\ ~ Waits(t)
      /\ Wanted(t) = (IF Matches(t) THEN RowOf(t) ELSE Nobody)
  BY Running DEF PersistExpiry
<1>2. t \notin Deleters \cup Leavers /\ DOMAIN x.writes = {} /\ ~ x.undo /\ Owned(t, x, h, db)
  BY <1>1 DEF Fits, Staged, ByKind, Starting
<1>3. Seen(t)["interview"] = db["interview"] /\ "interview" \in Rows /\ "interview" # Nobody
  BY <1>2, SeenIs, RowsApart DEF Shown
<1>4. RowOf(t) = "interview" /\ h \subseteq Rows
  BY <1>1 DEF RowOf, Mine
<1>5. db["interview"] \in InterviewRows
  BY DEF Inv, RowsTyped
<1>6. CASE Matches(t)
  <2>0. db["interview"].status = "active"
    BY <1>1, <1>3, <1>6 DEF Matches, IsDueToExpire
  <2>1. Writes(t, "interview", row, "scan") /\ Locks(t) /\ OnlyLocks
    BY <1>6 DEF PersistExpiry
  <2>2. row \in InterviewRows /\ row.status = "abandoned" /\ ~ row.pending
    BY <1>2, <1>3, <1>5 DEF Closed, InterviewRows
  <2>3. ASSUME NEW y, IsTx(y), y.at = "scan", Wrote(x, y, "interview", row),
               Mine(t)' = h \cup ({Wanted(t)} \ {Nobody})
        PROVE  Fits(t, y, Mine(t)', db, lapsed)
    <3> DEFINE g == h \cup {"interview"}
    <3>1. Mine(t)' = g
      BY <1>1, <1>3, <1>4, <1>6, <2>3
    <3>2. y.writes["interview"] = row /\ DOMAIN y.writes = {"interview"} /\ ~ y.undo
      BY <1>2, <2>3 DEF Wrote
    <3> HIDE DEF x, h, row
    <3>3. Owned(t, y, g, db)
      BY <1>2, <1>3, <1>4, <2>3, <3>2, RowsApart DEF Owned, MayHold
    <3>4. Closes(t, y, g, db)
      BY <1>2, <2>0, <2>2, <3>2, RowsApart DEF Closes
    <3>5. Staged(t, y, g, db, lapsed)
      BY <2>3, <3>2, <3>4 DEF Staged, ByKind, Starting
    <3> QED BY <3>1, <3>3, <3>5 DEF Fits
  <2> QED BY <1>1, <1>3, <2>1, <2>3, OnlyWriting
<1>7. CASE ~ Matches(t)
  <2>1. Goes(t, "commit") /\ Locks(t) /\ OnlyLocks
    BY <1>7 DEF PersistExpiry
  <2>2. /\ HeldTyped' /\ Mine(t)' = h
        /\ \A u \in Transactions : u # t => Mine(u)' = Mine(u)
    BY <1>1, <1>7, <2>1, Locking
  <2>3. ASSUME NEW y, IsTx(y), y.at = "commit", Same(x, y)
        PROVE  Fits(t, y, Mine(t)', db, lapsed)
    <3>1. DOMAIN y.writes = {} /\ ~ y.undo
      BY <1>2, <2>3 DEF Same
    <3> HIDE DEF x
    <3>2. Owned(t, y, h, db)
      BY <1>2, <1>4, <2>3, <3>1 DEF Owned, MayHold
    <3>3. Staged(t, y, h, db, lapsed)
      BY <2>3, <3>1 DEF Staged, ByKind, Starting, Committable, Idle
    <3> QED BY <2>2, <3>2, <3>3 DEF Fits
  <2> HIDE DEF x, h
  <2> QED BY <2>1, <2>2, <2>3, OnlyGoing DEF x
<1> QED BY <1>6, <1>7

LEMMA ExpireOnAccessStep ==
  ASSUME Inv, NEW t \in Transactions, ExpireOnAccess(t)
  PROVE  Inv'
<1> DEFINE x == tx[t]
           y == tx'[t]
           h == Mine(t)
           w == Put(x.writes, "interview", Closed(t))
           g == h \cup {"interview"}
<1>1. /\ Accesses(t) /\ IsDueToExpire(t) /\ ~ Waits(t) /\ Locks(t)
      /\ tx' = [tx EXCEPT ![t].at = "scan", ![t].undo = TRUE, ![t].writes = w]
  BY DEF ExpireOnAccess
<1>2. IsTx(x) /\ Fits(t, x, h, db, lapsed) /\ x.read.execution \in InFlight /\ h \subseteq Rows
  BY DEF Inv, TxTyped, InFlight, Mine
<1>3. "interview" \in Rows /\ "interview" # Nobody /\ "interview" \notin Commands
  BY RowsApart
<1>4. Wanted(t) = "interview"
  BY <1>1 DEF Wanted
<1>5. HeldTyped' /\ Mine(t)' = g /\ \A u \in Transactions : u # t => Mine(u)' = Mine(u)
  BY <1>1, <1>3, <1>4, Locking
<1>6. x.at # "commit" /\ t \notin Leavers \cup Deleters
  <2>1. x.at \in {"find", "read", "decide", "insert", "claimCommand", "readTarget", "readInterview",
                  "claimTarget", "saveRetry", "reject", "load", "settleTarget", "saveInterview", "settleCommand"}
    BY <1>1 DEF Accesses
  <2>2. t \in Askers \cup Retriers \cup Finishers
    <3>1. Staged(t, x, h, db, lapsed)
      BY <1>2 DEF Fits
    <3> HIDE DEF x, h
    <3> QED BY <2>1, <3>1 DEF Staged, ByKind, TargetSettled
  <2> QED BY <2>1, <2>2, KindsApart
<1>7. OthersWait(t) /\ y = [x EXCEPT !.at = "scan", !.undo = TRUE, !.writes = w]
  BY <1>1 DEF Inv, TxTyped, OthersWait
<1>8. DOMAIN w = {"interview"} \cup DOMAIN x.writes
  BY Putting
<1> HIDE DEF w
<1>9. IsTx(y) /\ y.at = "scan" /\ y.writes = w /\ y.undo /\ y.read = x.read
  <2> HIDE DEF x, y
  <2> QED BY <1>2, <1>3, <1>7, <1>8 DEF IsTx
<1>10. Fits(t, y, Mine(t)', db, lapsed)
  <2>1. Owned(t, x, h, db)
    BY <1>2 DEF Fits
  <2>2. Owned(t, y, g, db)
    <3> HIDE DEF x, y, h
    <3>1. \A r \in DOMAIN y.writes : r \in g \/ r \in {"command", "session", "user"}
      BY <1>6, <1>8, <1>9, <2>1 DEF Owned
    <3>2. g \subseteq MayHold(y.at)
      BY <1>2, <1>3, <1>9 DEF MayHold
    <3>3. \A c \in Commands \cap g : IsOpen(db[c])
      BY <1>3, <2>1 DEF Owned
    <3> QED BY <3>1, <3>2, <3>3 DEF Owned
  <2>3. Staged(t, y, g, db, lapsed)
    <3> HIDE DEF x, y, h
    <3> QED BY <1>6, <1>9 DEF Staged, ByKind, Starting
  <2> QED BY <1>5, <2>2, <2>3 DEF Fits
<1>11. db' = db /\ lapsed' = lapsed /\ executions' \subseteq executions
  BY DEF ExpireOnAccess, OnlyLocks
<1> QED BY <1>2, <1>5, <1>7, <1>9, <1>10, <1>11, OneMoves DEF OthersWait
-------------------------------------------------------------------------------
(* The operations of a closed interview are cancelled. *)

LEMMA FiniteOperations == IsFiniteSet(Operations)
<1>1. IsFiniteSet(Retriers)
  <2>1. Retriers \subseteq Transactions
    BY DEF Transactions
  <2> QED BY <2>1, FS_Subset, LocksAssumption
<1>2. CommandOf \in Surjection(Retriers, Commands)
  BY LocksAssumption DEF Surjection, Commands
<1>3. IsFiniteSet(Commands)
  BY <1>1, <1>2, FS_Surjection
<1> QED BY <1>3, FS_AddElement, RowsApart

(* Every order of a finite set of operations contains each of them. *)
LEMMA OrderIsComplete ==
  ASSUME NEW S, S \subseteq Operations, NEW order \in SetToSeqs(S)
  PROVE  order \in Seq(Operations) /\ \A r \in S : \E k \in DOMAIN order : order[k] = r
<1> DEFINE n == Cardinality(S)
<1>1. IsFiniteSet(S) /\ n \in Nat
  BY FiniteOperations, FS_Subset, FS_CardinalityType
<1>2. order \in [1..n -> S] /\ \A i, j \in 1..n : i # j => order[i] # order[j]
  BY DEF SetToSeqs
<1>3. IsFiniteSet(1..n) /\ Cardinality(1..n) = n
  BY <1>1, FS_Interval
<1>4. order \in Injection(1..n, S)
  BY <1>2 DEF Injection, IsInjective
<1>5. order \in Surjection(1..n, S)
  BY <1>1, <1>3, <1>4, FS_Injection
<1> HIDE DEF n
<1>6. order \in Seq(Operations)
  BY <1>1, <1>2
<1> QED BY <1>2, <1>5, <1>6 DEF Surjection

LEMMA ScanStep ==
  ASSUME Inv, NEW t \in Transactions, Scan(t)
  PROVE  Inv'
<1> DEFINE x == tx[t]
           y == tx'[t]
           h == Mine(t)
           S == {r \in Operations : IsOpen(Seen(t)[r])}
<1>1. x.at = "scan" /\ Fits(t, x, h, db, lapsed) /\ IsTx(x) /\ x.read.execution \in InFlight
  BY Running DEF Scan
<1>2. PICK order \in SetToSeqs(S) : tx' = [tx EXCEPT ![t].at = "cancel", ![t].left = order]
  BY DEF Scan
<1>3. order \in Seq(Operations) /\ \A r \in S : \E k \in DOMAIN order : order[k] = r
  BY OrderIsComplete
<1>4. S = OpenFor(x, db)
  BY SeenIs, RowsApart DEF OpenFor
<1>5. OthersWait(t) /\ y = [x EXCEPT !.at = "cancel", !.left = order]
  BY <1>2 DEF Inv, TxTyped, OthersWait
<1> HIDE DEF S
<1>6. /\ IsTx(y) /\ y.at = "cancel" /\ y.left = order
      /\ y.writes = x.writes /\ y.undo = x.undo /\ y.read = x.read
  <2> HIDE DEF x, y
  <2> QED BY <1>1, <1>3, <1>5 DEF IsTx
<1>7. HeldTyped' /\ \A u \in Transactions : Mine(u)' = Mine(u)
  BY Holding DEF Scan, OnlyReads, Inv
<1>8. Fits(t, y, Mine(t)', db, lapsed)
  <2>0. Mine(t)' = h
    BY <1>7
  <2> HIDE DEF x, y, h
  <2>1. Owned(t, y, h, db)
    BY <1>1, <1>6 DEF Fits, Owned, MayHold
  <2>2. x.undo => t \notin Leavers \cup Deleters
    BY <1>1 DEF Fits, Staged
  <2>3. ~ x.undo => Closes(t, y, h, db)
    BY <1>1, <1>6 DEF Fits, Staged, Closes
  <2>4. \A r \in OpenFor(y, db) : \E k \in DOMAIN y.left : y.left[k] = r
    BY <1>3, <1>4, <1>6 DEF OpenFor, Shown
  <2>5. Staged(t, y, h, db, lapsed)
    BY <1>6, <2>2, <2>3, <2>4 DEF Staged, ByKind, Starting
  <2> QED BY <2>0, <2>1, <2>5 DEF Fits
<1>9. db' = db /\ lapsed' = lapsed /\ executions' \subseteq executions
  BY DEF Scan, OnlyReads
<1> QED BY <1>1, <1>5, <1>6, <1>7, <1>8, <1>9, OneMoves DEF OthersWait

LEMMA CancelledAllStep ==
  ASSUME Inv, NEW t \in Transactions, CancelledAll(t)
  PROVE  Inv'
<1> DEFINE x == tx[t]
           h == Mine(t)
<1>1. x.at = "cancel" /\ x.left = <<>> /\ Fits(t, x, h, db, lapsed) /\ h \subseteq Rows
  BY DEF CancelledAll, Inv, Mine
<1>2. CASE x.undo
  <2>1. t \notin Leavers \cup Deleters
    BY <1>1, <1>2 DEF Fits, Staged
  <2>2. GivesUp(t, "persistExpiry", "refused")
    BY <1>2 DEF CancelledAll
  <2> QED BY <2>1, <2>2, GivingUp DEF ByKind
<1>3. CASE ~ x.undo
  <2>1. Goes(t, "commit") /\ OnlyReads
    BY <1>3 DEF CancelledAll
  <2>2. HeldTyped' /\ \A u \in Transactions : Mine(u)' = Mine(u)
    BY <2>1, Holding DEF OnlyReads, Inv
  <2>3. Closes(t, x, h, db) /\ Owned(t, x, h, db)
    BY <1>1, <1>3 DEF Fits, Staged
  <2>4. OpenFor(x, db) = {}
    <3>1. DOMAIN x.left = {}
      BY <1>1
    <3> QED BY <1>1, <1>3, <3>1 DEF Fits, Staged
  <2>5. ASSUME NEW y, IsTx(y), y.at = "commit", Same(x, y)
        PROVE  Fits(t, y, Mine(t)', db, lapsed)
    <3>0. Mine(t)' = h
      BY <2>2
    <3> HIDE DEF x, h
    <3>1. y.writes = x.writes /\ ~ y.undo
      BY <1>3, <2>5 DEF Same
    <3>2. Owned(t, y, h, db)
      BY <1>1, <2>3, <2>5, <3>1 DEF Owned, MayHold
    <3>3. Ended(t, y, h, db)
      BY <2>3, <2>4, <3>1 DEF Ended, Closes, OpenFor, Shown
    <3>4. Staged(t, y, h, db, lapsed)
      BY <2>5, <3>1, <3>3 DEF Staged, ByKind, Starting, Committable
    <3> QED BY <3>0, <3>2, <3>4 DEF Fits
  <2>6. OnlyLocks
    BY <2>1 DEF OnlyReads, OnlyLocks
  <2> HIDE DEF x, h
  <2> QED BY <2>1, <2>2, <2>5, <2>6, OnlyGoing DEF x
<1> QED BY <1>2, <1>3

LEMMA AbortStep ==
  ASSUME Inv, NEW t \in Transactions, Abort(t)
  PROVE  Inv'
<1>1. GivesUp(t, "done", "aborted") /\ ByKind(t, "done")
  BY DEF Abort, ByKind
<1> QED BY <1>1, GivingUp

LEMMA CancelStep ==
  ASSUME Inv, NEW t \in Transactions, Cancel(t)
  PROVE  Inv'
<1> DEFINE x == tx[t]
           y == tx'[t]
           h == Mine(t)
           r == Head(x.left)
           row == [Seen(t)[r] EXCEPT !.status = "settled"]
           w == IF Matches(t) THEN Put(x.writes, r, row) ELSE x.writes
           g == Mine(t)'
<1>1. /\ x.at = "cancel" /\ x.left # <<>> /\ ~ Waits(t) /\ Locks(t)
      /\ Fits(t, x, h, db, lapsed) /\ IsTx(x) /\ x.read.execution \in InFlight
      /\ h \subseteq Rows
  BY DEF Cancel, Inv, TxTyped, InFlight, Mine
<1>2. r \in Operations /\ r \in Rows /\ r # Nobody
  <2>1. x.left \in Seq(Operations)
    BY <1>1 DEF IsTx
  <2>2. r \in Operations
    BY <1>1, <2>1
  <2> QED BY <2>2, RowsApart
<1>3. /\ Matches(t) <=> IsOpen(Shown(x, db, r))
      /\ row = [Shown(x, db, r) EXCEPT !.status = "settled"]
      /\ Wanted(t) = IF Matches(t) THEN r ELSE Nobody
  <2>1. Seen(t)[r] = Shown(x, db, r)
    BY <1>2, SeenIs
  <2>2. Matches(t) <=> IsOpen(Seen(t)[r])
    BY <1>1 DEF Matches
  <2>3. Wanted(t) = IF Matches(t) THEN RowOf(t) ELSE Nobody
    BY <1>1 DEF Wanted, Accesses
  <2>4. RowOf(t) = r
    BY <1>1 DEF RowOf
  <2> QED BY <2>1, <2>2, <2>3, <2>4
<1>4. /\ HeldTyped' /\ g = h \cup (IF Matches(t) THEN {r} ELSE {})
      /\ \A u \in Transactions : u # t => Mine(u)' = Mine(u)
  <2>1. HeldTyped' /\ g = h \cup ({Wanted(t)} \ {Nobody})
        /\ \A u \in Transactions : u # t => Mine(u)' = Mine(u)
    BY <1>1, Locking
  <2> HIDE DEF g, h, r
  <2> QED BY <1>2, <1>3, <2>1
<1>5. OthersWait(t) /\ y = [x EXCEPT !.left = Tail(x.left), !.writes = w]
  BY DEF Cancel, Inv, TxTyped, OthersWait
<1>6. /\ DOMAIN w = DOMAIN x.writes \cup (IF Matches(t) THEN {r} ELSE {})
      /\ Matches(t) => w[r] = row
      /\ \A s \in DOMAIN x.writes : (Matches(t) /\ s = r) \/ w[s] = x.writes[s]
  <2> HIDE DEF x, row, r
  <2> QED BY DEF Put
<1>7. /\ Tail(x.left) \in Seq(Operations)
      /\ \A k \in DOMAIN x.left : x.left[k] = r \/ \E j \in DOMAIN Tail(x.left) : Tail(x.left)[j] = x.left[k]
  <2>1. x.left \in Seq(Operations)
    BY <1>1 DEF IsTx
  <2>2. ASSUME NEW s \in Seq(Operations), s # <<>>
        PROVE  /\ Tail(s) \in Seq(Operations)
               /\ \A k \in DOMAIN s : s[k] = Head(s) \/ \E j \in DOMAIN Tail(s) : Tail(s)[j] = s[k]
    <3>1. Tail(s) \in Seq(Operations) /\ Len(Tail(s)) = Len(s) - 1 /\ Head(s) = s[1]
      BY <2>2
    <3>2. \A j \in 1..Len(Tail(s)) : Tail(s)[j] = s[j + 1]
      BY <2>2
    <3>3. ASSUME NEW k \in DOMAIN s, k # 1
          PROVE  \E j \in DOMAIN Tail(s) : Tail(s)[j] = s[k]
      <4>1. k - 1 \in 1..Len(Tail(s)) /\ (k - 1) + 1 = k
        BY <3>1, <3>3
      <4>2. Tail(s)[k - 1] = s[k] /\ k - 1 \in DOMAIN Tail(s)
        BY <3>1, <3>2, <4>1
      <4> QED BY <4>2
    <3> QED BY <3>1, <3>3
  <2> QED BY <1>1, <2>1, <2>2
<1> HIDE DEF w, row
<1>8. /\ IsTx(y) /\ y.at = "cancel" /\ y.left = Tail(x.left)
      /\ y.writes = w /\ y.undo = x.undo /\ y.read = x.read
  <2>1. DOMAIN w \subseteq Rows
    BY <1>1, <1>2, <1>6 DEF IsTx
  <2> HIDE DEF x, y, r
  <2> QED BY <1>1, <1>5, <1>7, <2>1 DEF IsTx
<1>9. Fits(t, y, g, db, lapsed)
  <2>1. Owned(t, x, h, db)
    BY <1>1 DEF Fits
  <2>2. x.undo => t \notin Leavers \cup Deleters
    BY <1>1 DEF Fits, Staged
  <2> HIDE DEF x, y, h, r, g
  <2>3. Owned(t, y, g, db)
    <3>1. \A s \in DOMAIN y.writes : s \in g \/ s \in {"command", "session", "user"}
      BY <1>1, <1>4, <1>6, <1>8, <2>1 DEF Owned
    <3>2. g \subseteq MayHold(y.at)
      BY <1>1, <1>2, <1>4, <1>8 DEF MayHold
    <3>3. ASSUME Matches(t), r \in Commands PROVE IsOpen(db[r])
      <4>1. CASE r \in DOMAIN x.writes
        <5>1. r \in h
          BY <1>1, <2>1, <3>3, <4>1, RowsApart DEF Owned
        <5> QED BY <2>1, <3>3, <5>1 DEF Owned
      <4>2. CASE r \notin DOMAIN x.writes
        BY <1>3, <3>3, <4>2 DEF Shown
      <4> QED BY <4>1, <4>2
    <3>4. \A c \in Commands \cap g : IsOpen(db[c])
      BY <1>4, <2>1, <3>3 DEF Owned
    <3> QED BY <3>1, <3>2, <3>4 DEF Owned
  <2>4. ASSUME ~ x.undo
        PROVE  /\ Closes(t, y, g, db)
               /\ \A s \in OpenFor(y, db) : \E k \in DOMAIN y.left : y.left[k] = s
    <3>1. Closes(t, x, h, db) /\ \A s \in OpenFor(x, db) : \E k \in DOMAIN x.left : x.left[k] = s
      BY <1>1, <2>4 DEF Fits, Staged
    <3>2. ASSUME Matches(t)
          PROVE  /\ r \notin DOMAIN x.writes /\ row = [db[r] EXCEPT !.status = "settled"]
                 /\ row.status = "settled"
                 /\ r \in Commands => row \in CommandRows
                 /\ r = "target" => row = [status |-> "settled", attempt |-> db["target"].attempt]
      <4>1. r \in DOMAIN x.writes => x.writes[r].status = "settled"
        BY <1>2, <3>1, RowsApart DEF Closes
      <4>2. r \notin DOMAIN x.writes
        BY <1>3, <3>2, <4>1 DEF Shown, IsOpen
      <4>3. row = [db[r] EXCEPT !.status = "settled"]
        BY <1>3, <4>2 DEF Shown
      <4>4. RowsTyped(db)
        BY DEF Inv
      <4>5. CASE r \in Commands
        <5>1. db[r] \in CommandRows
          BY <4>4, <4>5 DEF RowsTyped
        <5> QED BY <4>2, <4>3, <4>5, <5>1, RowsApart DEF CommandRows
      <4>6. CASE r = "target"
        <5>1. db[r] \in TargetRows
          BY <4>4, <4>6 DEF RowsTyped
        <5> QED BY <4>2, <4>3, <4>6, <5>1, RowsApart DEF TargetRows
      <4> QED BY <1>2, <4>5, <4>6, RowsApart
    <3>3. /\ "interview" \in DOMAIN y.writes <=> "interview" \in DOMAIN x.writes
          /\ "interview" \in DOMAIN x.writes => y.writes["interview"] = x.writes["interview"]
          /\ "user" \in DOMAIN y.writes <=> "user" \in DOMAIN x.writes
          /\ "session" \in DOMAIN y.writes <=> "session" \in DOMAIN x.writes
          /\ "session" \in DOMAIN x.writes => y.writes["session"] = x.writes["session"]
          /\ h \subseteq g
      BY <1>2, <1>4, <1>6, <1>8, RowsApart
    <3>4. \A c \in Commands \cap DOMAIN y.writes : y.writes[c] \in CommandRows /\ y.writes[c].status = "settled"
      BY <1>6, <1>8, <3>1, <3>2 DEF Closes
    <3>5. "target" \in DOMAIN y.writes =>
            y.writes["target"] = [status |-> "settled", attempt |-> db["target"].attempt]
      BY <1>6, <1>8, <3>1, <3>2 DEF Closes
    <3>6. Closes(t, y, g, db)
      <4>1. IF "interview" \in DOMAIN y.writes
            THEN /\ "interview" \in g
                 /\ y.writes["interview"] \in InterviewRows
                 /\ ~ y.writes["interview"].pending
                 /\ \/ y.writes["interview"].status = "deleting" /\ db["interview"].status # "deleting"
                    \/ /\ y.writes["interview"].status = "abandoned" /\ db["interview"].status = "active"
                       /\ t \notin Leavers
            ELSE db["interview"].status = "deleting" /\ t \in Leavers
        BY <3>1, <3>3 DEF Closes
      <4>2. IF t \in Leavers
            THEN /\ {"user", "session"} \subseteq DOMAIN y.writes
                 /\ y.writes["session"].status = "gone"
            ELSE "user" \notin DOMAIN y.writes /\ "session" \notin DOMAIN y.writes
        BY <3>1, <3>3 DEF Closes
      <4> QED BY <3>4, <3>5, <4>1, <4>2 DEF Closes
    <3>7. ASSUME NEW s \in OpenFor(y, db)
          PROVE  \E k \in DOMAIN y.left : y.left[k] = s
      <4>1. s # r
        <5>1. ASSUME s = r PROVE FALSE
          <6>1. CASE Matches(t)
            BY <1>6, <1>8, <3>2, <3>7, <5>1, <6>1 DEF OpenFor, Shown, IsOpen
          <6>2. CASE ~ Matches(t)
            BY <1>3, <1>6, <1>8, <3>7, <5>1, <6>2 DEF OpenFor, Shown
          <6> QED BY <6>1, <6>2
        <5> QED BY <5>1
      <4>2. s \in OpenFor(x, db)
        BY <1>6, <1>8, <3>7, <4>1 DEF OpenFor, Shown
      <4>3. PICK k \in DOMAIN x.left : x.left[k] = s
        BY <3>1, <4>2
      <4> QED BY <1>7, <1>8, <4>1, <4>3
    <3> QED BY <3>6, <3>7
  <2>5. Staged(t, y, g, db, lapsed)
    BY <1>8, <2>2, <2>4 DEF Staged, ByKind, Starting
  <2> QED BY <2>3, <2>5 DEF Fits
<1>10. db' = db /\ lapsed' = lapsed /\ executions' \subseteq executions
  BY DEF Cancel, OnlyLocks
<1> QED BY <1>1, <1>4, <1>5, <1>8, <1>9, <1>10, OneMoves DEF OthersWait
-------------------------------------------------------------------------------
(* Time. *)

(* More leases that are over disturb nobody. *)
LEMMA MoreLapsed ==
  ASSUME NEW t, NEW x, NEW h, NEW d, NEW l, NEW m, l \subseteq m, Fits(t, x, h, d, l)
  PROVE  Fits(t, x, h, d, m)
<1>1. Claimed(t, x, h, d, l) => Claimed(t, x, h, d, m)
  BY DEF Claimed
<1>2. TargetClaimed(t, x, h, d, l) => TargetClaimed(t, x, h, d, m)
  BY <1>1 DEF TargetClaimed
<1>3. Committable(t, x, h, d, l) => Committable(t, x, h, d, m)
  BY <1>2 DEF Committable, Retried
<1>4. Staged(t, x, h, d, l)
  BY DEF Fits
<1>5. Staged(t, x, h, d, m)
  BY <1>1, <1>2, <1>3, <1>4 DEF Staged
<1> QED BY <1>5 DEF Fits

LEMMA LapseStep ==
  ASSUME Inv, Lapse
  PROVE  Inv'
<1>1. /\ lapsed' = {r \in Operations : db[r].status = "processing"}
      /\ UNCHANGED <<db, held, tx, executions, stale>>
  BY DEF Lapse
<1>2. lapsed \subseteq lapsed'
  BY <1>1 DEF Inv, Leased
<1>3. TxTyped' /\ HeldTyped' /\ RowsTyped(db)' /\ InFlight' = InFlight /\ \A t : Mine(t)' = Mine(t)
  BY <1>1 DEF Inv, TxTyped, HeldTyped, RowsTyped, InFlight, Mine
<1>4. Leased(InFlight, db, lapsed)'
  <2>1. Leased(InFlight, db, lapsed)
    BY DEF Inv
  <2>2. Leased(InFlight, db, lapsed')
    BY <1>1, <2>1, RowsApart DEF Leased
  <2> QED BY <1>1, <1>3, <2>2 DEF Leased
<1>5. Agree(db, lapsed)'
  BY <1>1, <1>2 DEF Inv, Agree
<1>6. ASSUME NEW t \in Transactions
      PROVE  Fits(t, tx[t], Mine(t), db, lapsed)'
  <2>1. Fits(t, tx[t], Mine(t), db, lapsed)
    BY DEF Inv
  <2>2. Fits(t, tx[t], Mine(t), db, lapsed')
    BY <1>2, <2>1, MoreLapsed
  <2>3. tx' = tx /\ db' = db /\ Mine(t)' = Mine(t)
    BY <1>1, <1>3
  <2> QED BY <2>2, <2>3
<1> QED BY <1>3, <1>4, <1>5, <1>6 DEF Inv

LEMMA GrowStaleStep ==
  ASSUME Inv, UNCHANGED <<db, held, tx, executions, lapsed>>
  PROVE  Inv'
<1>1. TxTyped' /\ HeldTyped' /\ RowsTyped(db)' /\ InFlight' = InFlight /\ \A t : Mine(t)' = Mine(t)
  BY DEF Inv, TxTyped, HeldTyped, RowsTyped, InFlight, Mine
<1>2. Leased(InFlight, db, lapsed)' /\ Agree(db, lapsed)'
  BY <1>1 DEF Inv, Leased, Agree
<1>3. ASSUME NEW t \in Transactions
      PROVE  Fits(t, tx[t], Mine(t), db, lapsed)'
  <2>1. Fits(t, tx[t], Mine(t), db, lapsed)
    BY DEF Inv
  <2> QED BY <1>1, <2>1
<1> QED BY <1>1, <1>2, <1>3 DEF Inv
-------------------------------------------------------------------------------
(* Commits: the rows e and lapsed leases m that t leaves behind, and the      *)
(* executions fs in flight after it.                                         *)

Taken(x) == {r \in Operations \cap DOMAIN x.writes : x.writes[r].status = "processing"}

Commits(t, x, d, l, e, m, es, fs) ==
  /\ DOMAIN e = Rows
  /\ \A r \in Rows : e[r] = Shown(x, d, r)
  /\ m = (l \ Taken(x)) \cap {r \in Operations : IsOpen(e[r])}
  /\ \A f \in fs :
       \/ f \in es \/ f = [attempt |-> 0, command |-> Nobody]
       \/ "target" \in Taken(x) /\ f = [attempt |-> e["target"].attempt, command |-> CommandOf[t]]

Kept(d, l, es) == RowsTyped(d) /\ Leased(es, d, l) /\ Agree(d, l)

(* A commit that leaves the target alone and claims nothing. *)
LEMMA QuietCommit ==
  ASSUME NEW t, NEW x, NEW d, NEW l, NEW e, NEW m, NEW es, NEW fs,
         Commits(t, x, d, l, e, m, es, fs), Kept(d, l, es),
         DOMAIN x.writes \cap {"target", "user", "session"} = {},
         \A c \in Commands \cap DOMAIN x.writes :
            /\ x.writes[c] \in CommandRows
            /\ \/ x.writes[c].status = "settled"
               \/ x.writes[c].status = "pending" /\ d[c].status = "none" /\ IsMutable(d["interview"]),
         "interview" \in DOMAIN x.writes =>
            d["interview"].status = "active" /\ x.writes["interview"] = [d["interview"] EXCEPT !.position = 2]
  PROVE  Kept(e, m, fs)
<1>1. /\ e["target"] = d["target"] /\ e["user"] = d["user"] /\ e["session"] = d["session"]
      /\ \A c \in Commands :
           \/ e[c] = d[c]
           \/ e[c] \in CommandRows /\ e[c].status = "settled"
           \/ /\ e[c] \in CommandRows /\ e[c].status = "pending" /\ d[c].status = "none"
              /\ IsMutable(d["interview"])
  BY RowsApart DEF Commits, Shown
<1>2. /\ e["interview"] \in InterviewRows
      /\ e["interview"].status = d["interview"].status /\ e["interview"].pending = d["interview"].pending
  <2>1. d["interview"] \in InterviewRows /\ e["interview"] = Shown(x, d, "interview")
    BY RowsApart DEF Commits, Kept, RowsTyped
  <2> QED BY <2>1 DEF Shown, InterviewRows
<1>3. Taken(x) = {}
  BY RowsApart DEF Taken
<1>4. m \subseteq l /\ (\A r \in l : e[r] = d[r] => r \in m) /\ \A r \in m : r \in Operations /\ IsOpen(e[r])
  <2>1. \A r \in l : r \in Operations /\ d[r].status = "processing"
    BY DEF Kept, Leased
  <2> QED BY <1>3, <2>1 DEF Commits, IsOpen
<1>5. RowsTyped(e)
  BY <1>1, <1>2 DEF Commits, Kept, RowsTyped
<1>6. Leased(fs, e, m)
  <2>1. \A f \in fs : f \in es \/ f = [attempt |-> 0, command |-> Nobody]
    BY <1>3 DEF Commits
  <2>2. e["target"].attempt \in Nat \ {0}
    BY <1>1 DEF Kept, RowsTyped, TargetRows
  <2>3. \A f \in fs : f.attempt \in Nat /\ f.attempt <= e["target"].attempt
                     /\ f.command \in Commands \cup {Nobody}
    BY <1>1, <2>1, <2>2 DEF Kept, Leased
  <2>4. ASSUME NEW r \in m PROVE r \in Operations /\ e[r].status = "processing"
    <3>1. r \in Operations /\ d[r].status = "processing" /\ IsOpen(e[r])
      BY <1>4 DEF Kept, Leased
    <3> QED BY <1>1, <3>1, RowsApart DEF IsOpen
  <2>5. ASSUME NEW c \in Commands, e[c].status = "processing", c \notin m
        PROVE  /\ e["target"].status = "processing" /\ "target" \notin m
               /\ \A f \in fs : f.attempt = e["target"].attempt => f.command = c
    <3>1. d[c].status = "processing" /\ c \notin l
      BY <1>1, <1>4, <2>5
    <3> QED BY <1>1, <1>4, <2>1, <2>2, <3>1 DEF Kept, Leased
  <2> QED BY <2>3, <2>4, <2>5 DEF Leased
<1>7. Agree(e, m)
  <2>1. e["interview"].status \in {"abandoned", "deleting"} => \A r \in Operations : ~ IsOpen(e[r])
    BY <1>1, <1>2, RowsApart DEF Kept, Agree, IsOpen, IsMutable
  <2>2. \A c \in Commands : e[c].status = "processing" => e["target"].status = "processing" \/ c \in m
    BY <1>1, <1>4 DEF Kept, Agree
  <2> QED BY <1>1, <1>2, <2>1, <2>2 DEF Kept, Agree
<1> QED BY <1>5, <1>6, <1>7 DEF Kept

LEMMA RetryCommit ==
  ASSUME NEW t, NEW x, NEW h, NEW d, NEW l, NEW e, NEW m, NEW es, NEW fs,
         Commits(t, x, d, l, e, m, es, fs), Kept(d, l, es), Retried(t, x, h, d, l)
  PROVE  Kept(e, m, fs)
<1> DEFINE c0 == CommandOf[t]
<1>1. /\ c0 \in Commands /\ DOMAIN x.writes = {c0, "target", "interview"}
      /\ x.writes[c0] = [status |-> "processing"]
      /\ x.writes["target"] = [status |-> "processing", attempt |-> d["target"].attempt + 1]
      /\ x.writes["interview"] = [d["interview"] EXCEPT !.pending = @ \/ d["interview"].status = "active"]
      /\ IsMutable(d["interview"])
      /\ d["target"].status = "failed" \/ "target" \in l
  BY RowsApart DEF Retried, TargetClaimed, Claimed, RetrySaved
<1>2. /\ e["target"] = [status |-> "processing", attempt |-> d["target"].attempt + 1]
      /\ e["interview"] = [d["interview"] EXCEPT !.pending = @ \/ d["interview"].status = "active"]
      /\ e["user"] = d["user"] /\ e["session"] = d["session"]
      /\ e[c0] = [status |-> "processing"]
      /\ \A c \in Commands : c # c0 => e[c] = d[c]
  BY <1>1, RowsApart DEF Commits, Shown
<1>3. Taken(x) = {c0, "target"}
  <2>1. "interview" \notin Operations /\ c0 \in Operations /\ "target" \in Operations
    BY <1>1, RowsApart
  <2> HIDE DEF c0
  <2> QED BY <1>1, <2>1 DEF Taken
<1>4. d["target"].attempt \in Nat \ {0} /\ d["interview"] \in InterviewRows
  BY DEF Kept, RowsTyped, TargetRows
<1>5. RowsTyped(e)
  <2>1. e["target"] \in TargetRows
    BY <1>2, <1>4 DEF TargetRows
  <2>2. e["interview"] \in InterviewRows
    BY <1>2, <1>4 DEF InterviewRows
  <2>3. \A c \in Commands : e[c] \in CommandRows
    BY <1>2 DEF Kept, RowsTyped, CommandRows
  <2> QED BY <2>1, <2>2, <2>3 DEF Commits, RowsTyped
<1> HIDE DEF c0
<1>6. Leased(fs, e, m)
  <2>1. ASSUME NEW f \in fs
        PROVE  /\ f.attempt \in Nat /\ f.command \in Commands \cup {Nobody}
               /\ f.attempt <= d["target"].attempt \/ f = [attempt |-> d["target"].attempt + 1, command |-> c0]
    <3>1. CASE f \in es
      BY <3>1 DEF Kept, Leased
    <3>2. CASE f = [attempt |-> 0, command |-> Nobody]
      BY <1>4, <3>2
    <3>3. CASE f = [attempt |-> e["target"].attempt, command |-> CommandOf[t]]
      BY <1>1, <1>2, <1>4, <3>3 DEF c0
    <3> QED BY <3>1, <3>2, <3>3 DEF Commits
  <2>2. \A f \in fs : f.attempt \in Nat /\ f.attempt <= e["target"].attempt
                     /\ f.command \in Commands \cup {Nobody}
    BY <1>2, <1>4, <2>1
  <2>3. ASSUME NEW r \in m PROVE r \in Operations /\ e[r].status = "processing"
    <3>1. r \in l /\ r \notin {c0, "target"}
      BY <1>3 DEF Commits
    <3>2. r \in Operations /\ d[r].status = "processing"
      BY <3>1 DEF Kept, Leased
    <3> QED BY <1>2, <3>1, <3>2, RowsApart
  <2>4. ASSUME NEW c \in Commands, e[c].status = "processing", c \notin m
        PROVE  /\ e["target"].status = "processing" /\ "target" \notin m
               /\ \A f \in fs : f.attempt = e["target"].attempt => f.command = c
    <3>1. c = c0
      <4>1. ASSUME c # c0 PROVE FALSE
        <5>1. d[c].status = "processing" /\ e[c] = d[c]
          BY <1>2, <2>4, <4>1
        <5>2. c \notin l
          BY <1>3, <2>4, <4>1, <5>1, RowsApart DEF Commits, IsOpen
        <5>3. d["target"].status = "processing" /\ "target" \notin l
          BY <5>1, <5>2 DEF Kept, Leased
        <5> QED BY <1>1, <5>3
      <4> QED BY <4>1
    <3>2. "target" \notin m
      BY <1>3 DEF Commits
    <3>3. e["target"].attempt = d["target"].attempt + 1 /\ e["target"].status = "processing"
      BY <1>2
    <3>4. ASSUME NEW f \in fs, f.attempt = e["target"].attempt PROVE f.command = c
      <4>1. ~ (f.attempt <= d["target"].attempt)
        BY <1>4, <3>3, <3>4
      <4> QED BY <2>1, <3>1, <4>1
    <3> QED BY <3>2, <3>3, <3>4
  <2> QED BY <2>2, <2>3, <2>4 DEF Leased
<1>7. Agree(e, m)
  <2>1. /\ e["interview"].status = d["interview"].status
        /\ e["interview"].pending <=> d["interview"].pending \/ d["interview"].status = "active"
    BY <1>2, <1>4 DEF InterviewRows
  <2>2. /\ d["interview"].pending => d["interview"].status = "active"
        /\ d["user"].status = "deleting" => d["interview"].status = "deleting"
    BY DEF Kept, Agree
  <2> QED BY <1>1, <1>2, <2>1, <2>2 DEF Agree, IsMutable
<1> QED BY <1>5, <1>6, <1>7 DEF Kept

LEMMA FinalizationCommit ==
  ASSUME NEW t, NEW x, NEW h, NEW d, NEW l, NEW e, NEW m, NEW es, NEW fs,
         Commits(t, x, d, l, e, m, es, fs), Kept(d, l, es), Finished(t, x, h, d),
         x.read.execution \in es
  PROVE  Kept(e, m, fs)
<1> DEFINE c0 == x.read.execution.command
<1>1. /\ x.writes["target"] \in TargetRows /\ x.writes["target"].status \in {"failed", "settled"}
      /\ x.writes["target"].attempt = d["target"].attempt
      /\ d["target"].attempt = x.read.execution.attempt
      /\ d["target"].status = "processing" /\ "target" \in DOMAIN x.writes
      /\ Concluded(x, h, d)
      /\ \/ c0 = Nobody /\ DOMAIN x.writes \subseteq {"target", "interview"}
         \/ /\ c0 \in Commands \cap DOMAIN x.writes
            /\ DOMAIN x.writes \subseteq {"target", "interview", c0}
            /\ x.writes[c0] = [status |-> "settled"]
  BY DEF Finished, TargetSettled
<1> HIDE DEF c0
<1>2. /\ e["target"] = x.writes["target"]
      /\ e["interview"] = Shown(x, d, "interview")
      /\ e["user"] = d["user"] /\ e["session"] = d["session"]
      /\ \A c \in Commands : IF c = c0 THEN e[c] = [status |-> "settled"] ELSE e[c] = d[c]
  BY <1>1, RowsApart DEF Commits, Shown
<1>3. Taken(x) = {}
  <2>1. "interview" \notin Operations
    BY RowsApart
  <2> QED BY <1>1, <2>1 DEF Taken
<1>4. /\ e["interview"] \in InterviewRows /\ ~ e["interview"].pending
      /\ \/ e["interview"].status = "active" /\ d["interview"].status = "active"
         \/ /\ e["interview"].status = "completed" /\ e["target"].status = "settled"
            /\ d["interview"].status = "report_pending"
         \/ /\ e["interview"].status = "report_pending" /\ e["target"].status = "failed"
            /\ d["interview"].status = "report_pending"
  <2>1. d["interview"] \in InterviewRows /\ Agree(d, l)
    BY DEF Kept, RowsTyped
  <2>2. CASE SupplementSaved(x, h, d)
    BY <1>2, <2>1, <2>2 DEF SupplementSaved, Shown, InterviewRows
  <2>3. CASE ReportSaved(x, h, d)
    <3>1. ~ d["interview"].pending
      BY <2>1, <2>3 DEF ReportSaved, Agree
    <3>2. e["interview"] = [d["interview"] EXCEPT !.status = "completed", !.position = 2]
      BY <1>2, <2>3 DEF ReportSaved, Shown
    <3> DEFINE q == [d["interview"] EXCEPT !.status = "completed"]
    <3>3. q \in InterviewRows /\ q.status = "completed" /\ q.pending = d["interview"].pending
      BY <2>1 DEF InterviewRows
    <3>4. e["interview"] = [q EXCEPT !.position = 2]
      BY <3>2
    <3> HIDE DEF q
    <3>5. e["interview"] \in InterviewRows
      BY <3>3, <3>4 DEF InterviewRows
    <3>6. e["interview"].status = "completed" /\ e["interview"].pending = d["interview"].pending
      BY <3>3, <3>4 DEF InterviewRows
    <3>7. e["target"].status = "settled" /\ d["interview"].status = "report_pending"
      BY <1>2, <2>3 DEF ReportSaved
    <3> QED BY <3>1, <3>5, <3>6, <3>7
  <2>4. CASE ReportFailed(x, d)
    <3>1. e["interview"] = d["interview"] /\ e["target"].status = "failed"
      BY <1>2, <2>4 DEF ReportFailed, Shown
    <3>2. d["interview"].status = "report_pending" /\ ~ d["interview"].pending
      <4>1. IsOpen(d["target"]) /\ "target" \in Operations
        BY <1>1, RowsApart DEF IsOpen
      <4>2. d["interview"].status \notin {"active", "completed", "abandoned", "deleting"}
        BY <1>1, <2>1, <2>4, <4>1 DEF ReportFailed, Agree
      <4> QED BY <2>1, <4>2 DEF Agree, InterviewRows
    <3> QED BY <2>1, <3>1, <3>2
  <2> QED BY <1>1, <2>2, <2>3, <2>4 DEF Concluded
<1>5. RowsTyped(e)
  <2>1. e["interview"] \in InterviewRows
    BY <1>4
  <2>2. \A c \in Commands : e[c] \in CommandRows
    BY <1>2 DEF Kept, RowsTyped, CommandRows
  <2> QED BY <1>1, <1>2, <2>1, <2>2 DEF Commits, RowsTyped
<1>6. ASSUME NEW c \in Commands, e[c].status = "processing"
      PROVE  c \in m
  <2>1. c # c0 /\ d[c].status = "processing" /\ e[c] = d[c]
    BY <1>2, <1>6
  <2>2. c \in l
    BY <1>1, <2>1 DEF Kept, Leased, c0
  <2> QED BY <1>3, <2>1, <2>2, RowsApart DEF Commits, IsOpen
<1>7. Leased(fs, e, m)
  <2>1. \A f \in fs : f.attempt \in Nat /\ f.attempt <= e["target"].attempt
                     /\ f.command \in Commands \cup {Nobody}
    <3>1. \A f \in fs : f \in es \/ f = [attempt |-> 0, command |-> Nobody]
      BY <1>3 DEF Commits
    <3>2. d["target"].attempt \in Nat
      BY DEF Kept, RowsTyped, TargetRows
    <3> QED BY <1>1, <1>2, <3>1, <3>2 DEF Kept, Leased
  <2>2. ASSUME NEW r \in m PROVE r \in Operations /\ e[r].status = "processing"
    <3>1. r \in l /\ IsOpen(e[r])
      BY DEF Commits
    <3>2. r \in Operations /\ d[r].status = "processing"
      BY <3>1 DEF Kept, Leased
    <3>3. r # "target" /\ r # c0
      BY <1>1, <1>2, <3>1, <3>2, RowsApart DEF IsOpen
    <3> QED BY <1>2, <3>2, <3>3, RowsApart
  <2> QED BY <1>6, <2>1, <2>2 DEF Leased
<1>8. Agree(e, m)
  <2>1. d["user"].status = "deleting" => d["interview"].status = "deleting"
    BY DEF Kept, Agree
  <2> QED BY <1>1, <1>2, <1>4, <1>6, <2>1 DEF Agree
<1> QED BY <1>5, <1>7, <1>8 DEF Kept

LEMMA EndingCommit ==
  ASSUME NEW t, NEW x, NEW h, NEW d, NEW l, NEW e, NEW m, NEW es, NEW fs,
         Commits(t, x, d, l, e, m, es, fs), Kept(d, l, es), Ended(t, x, h, d)
  PROVE  Kept(e, m, fs)
<1>1. Closes(t, x, h, d) /\ \A r \in Operations : ~ IsOpen(e[r])
  BY RowsApart DEF Ended, OpenFor, Commits
<1>2. Taken(x) = {} /\ m = {}
  <2>1. \A c \in Commands \cap DOMAIN x.writes : x.writes[c].status # "processing"
    BY <1>1 DEF Closes
  <2>2. "target" \in DOMAIN x.writes => x.writes["target"].status # "processing"
    BY <1>1 DEF Closes
  <2>3. Taken(x) = {}
    BY <2>1, <2>2, RowsApart DEF Taken
  <2> QED BY <1>1, <2>3 DEF Commits
<1>3. \A r \in Rows : e[r] = IF r \in DOMAIN x.writes THEN x.writes[r] ELSE d[r]
  BY DEF Commits, Shown
<1>4. d["target"] \in TargetRows
  BY DEF Kept, RowsTyped
<1>5. e["target"] \in TargetRows /\ e["target"].attempt = d["target"].attempt
  <2>1. "target" \in DOMAIN x.writes =>
          x.writes["target"] = [status |-> "settled", attempt |-> d["target"].attempt]
    BY <1>1 DEF Closes
  <2> QED BY <1>3, <1>4, <2>1, RowsApart DEF TargetRows
<1>6. e["interview"] \in InterviewRows /\ ~ e["interview"].pending
      /\ e["interview"].status \in {"abandoned", "deleting"}
      /\ (t \in Leavers \/ d["interview"].status = "deleting" => e["interview"].status = "deleting")
  <2>1. CASE "interview" \in DOMAIN x.writes
    BY <1>1, <1>3, <2>1, RowsApart DEF Closes
  <2>2. CASE "interview" \notin DOMAIN x.writes
    <3>1. e["interview"] = d["interview"] /\ d["interview"].status = "deleting"
      BY <1>1, <1>3, <2>2, RowsApart DEF Closes
    <3>2. ~ IsOpen(d["target"])
      BY <3>1, RowsApart DEF Kept, Agree
    <3> QED BY <3>1, <3>2 DEF Kept, RowsTyped, Agree, IsOpen
  <2> QED BY <2>1, <2>2
<1>7. RowsTyped(e)
  <2>1. ASSUME NEW c \in Commands PROVE e[c] \in CommandRows
    BY <1>1, <1>3, RowsApart DEF Closes, Kept, RowsTyped
  <2> QED BY <1>5, <1>6, <2>1 DEF Commits, RowsTyped
<1>8. Leased(fs, e, m)
  <2>1. \A f \in fs : f \in es \/ f = [attempt |-> 0, command |-> Nobody]
    BY <1>2 DEF Commits
  <2>2. \A f \in fs : f.attempt \in Nat /\ f.attempt <= e["target"].attempt
                     /\ f.command \in Commands \cup {Nobody}
    BY <1>4, <1>5, <2>1 DEF Kept, Leased, TargetRows
  <2>3. \A c \in Commands : e[c].status # "processing"
    BY <1>1, RowsApart DEF IsOpen
  <2> QED BY <1>2, <2>2, <2>3 DEF Leased
<1>9. Agree(e, m)
  <2>1. e["target"].status # "processing" /\ \A c \in Commands : e[c].status # "processing"
    BY <1>1, RowsApart DEF IsOpen
  <2>2. ASSUME e["user"].status = "deleting"
        PROVE  e["session"].status = "gone" /\ e["interview"].status = "deleting"
    <3>1. CASE t \in Leavers
      BY <1>1, <1>3, <1>6, <3>1, RowsApart DEF Closes
    <3>2. CASE t \notin Leavers
      <4>1. e["user"] = d["user"] /\ e["session"] = d["session"]
        BY <1>1, <1>3, <3>2, RowsApart DEF Closes
      <4> QED BY <1>6, <2>2, <4>1 DEF Kept, Agree
    <3> QED BY <3>1, <3>2
  <2> QED BY <1>1, <1>6, <2>1, <2>2 DEF Agree
<1> QED BY <1>7, <1>8, <1>9 DEF Kept

LEMMA CommitKeeps ==
  ASSUME NEW t, NEW x, NEW h, NEW d, NEW l, NEW e, NEW m, NEW es, NEW fs,
         Commits(t, x, d, l, e, m, es, fs), Kept(d, l, es), Committable(t, x, h, d, l),
         x.read.execution \in es
  PROVE  Kept(e, m, fs)
<1>1. CASE Idle(x)
  BY <1>1, QuietCommit DEF Idle
<1>2. CASE Continued(t, x, h, d)
  BY <1>2, QuietCommit, RowsApart DEF Continued
<1>3. CASE Stored(t, x, h, d)
  <2>1. CommandOf[t] \in Commands
    BY <1>3, RowsApart DEF Stored
  <2>2. DOMAIN x.writes \cap {"target", "user", "session", "interview"} = {}
    BY <1>3, <2>1, RowsApart DEF Stored
  <2>3. \A c \in Commands \cap DOMAIN x.writes :
          /\ x.writes[c] \in CommandRows /\ x.writes[c].status = "pending"
          /\ d[c].status = "none" /\ IsMutable(d["interview"])
    BY <1>3 DEF Stored, CommandRows
  <2> QED BY <2>2, <2>3, QuietCommit
<1>4. CASE Rejected(t, x)
  <2>1. CommandOf[t] \in Commands
    BY <1>4, RowsApart DEF Rejected
  <2>2. DOMAIN x.writes \cap {"target", "user", "session", "interview"} = {}
    BY <1>4, <2>1, RowsApart DEF Rejected
  <2>3. \A c \in Commands \cap DOMAIN x.writes :
          x.writes[c] \in CommandRows /\ x.writes[c].status = "settled"
    BY <1>4 DEF Rejected, CommandRows
  <2> QED BY <2>2, <2>3, QuietCommit
<1>5. CASE Retried(t, x, h, d, l)
  BY <1>5, RetryCommit
<1>6. CASE Finished(t, x, h, d)
  BY <1>6, FinalizationCommit
<1>7. CASE Ended(t, x, h, d)
  BY <1>7, EndingCommit
<1> QED BY <1>1, <1>2, <1>3, <1>4, <1>5, <1>6, <1>7 DEF Committable

(* The commit of one transaction leaves what another one relies on alone:    *)
(* the rows d, of which t writes x, become e, and u keeps its record y and    *)
(* its rows g.                                                               *)
LEMMA OthersStillFit ==
  ASSUME NEW t, NEW x, NEW h, NEW u, NEW y, NEW g, NEW d, NEW l, NEW e, NEW m, NEW es, NEW fs,
         Commits(t, x, d, l, e, m, es, fs), Kept(d, l, es), g \cap h = {}, g \subseteq Rows,
         Owned(t, x, h, d), Committable(t, x, h, d, l), x.at = "commit",
         DOMAIN y.writes \subseteq Rows, Fits(u, y, g, d, l)
  PROVE  Fits(u, y, g, e, m)
<1>1. Owned(u, y, g, d) /\ Staged(u, y, g, d, l)
  BY DEF Fits
<1>2. \A r \in Rows : r \notin DOMAIN x.writes => e[r] = d[r]
  BY DEF Commits, Shown
<1>3. \A r \in DOMAIN x.writes \cap Operations : r \in h \/ (r \in Commands /\ d[r].status = "none")
  BY RowsApart DEF Owned
<1>4. \A r \in g \cap (Operations \cup {"interview"}) : r \notin DOMAIN x.writes
  <2>1. ASSUME NEW r \in g \cap Operations, r \in DOMAIN x.writes PROVE FALSE
    <3>1. r \in Commands /\ d[r].status = "none"
      BY <1>3, <2>1
    <3>2. IsOpen(d[r])
      BY <1>1, <3>1 DEF Owned
    <3> QED BY <3>1, <3>2 DEF IsOpen
  <2>2. ASSUME "interview" \in g, "interview" \in DOMAIN x.writes PROVE FALSE
    BY <2>2, RowsApart DEF Owned
  <2> QED BY <2>1, <2>2
<1>5. \A r \in g \cap (Operations \cup {"interview"}) : e[r] = d[r]
  BY <1>2, <1>4
<1>6. \A r \in l \cap g : r \in m
  <2>1. ASSUME NEW r \in l \cap g PROVE r \in m
    <3>1. r \in Operations /\ d[r].status = "processing"
      BY DEF Kept, Leased
    <3>2. e[r] = d[r] /\ r \notin DOMAIN x.writes
      BY <1>4, <1>5, <3>1
    <3> QED BY <3>1, <3>2 DEF Commits, Taken, IsOpen
  <2> QED BY <2>1
<1>7. d["interview"].status = "deleting" => e["interview"].status = "deleting"
  <2>1. ASSUME "interview" \in DOMAIN x.writes, d["interview"].status = "deleting" PROVE FALSE
    BY <2>1, RowsApart DEF Committable, Idle, Continued, Stored, Rejected, Retried, Finished, Ended,
       RetrySaved, Concluded, SupplementSaved, ReportSaved, ReportFailed, Closes, IsMutable
  <2> QED BY <1>2, <2>1, RowsApart
<1>7a. d["interview"].status # "active" => e["interview"].status # "active"
  <2>1. CASE "interview" \notin DOMAIN x.writes
    BY <1>2, <2>1, RowsApart
  <2>2. CASE "interview" \in DOMAIN x.writes
    <3>1. e["interview"] = x.writes["interview"] /\ d["interview"] \in InterviewRows
      BY <2>2, RowsApart DEF Commits, Shown, Kept, RowsTyped
    <3>2. CASE Retried(t, x, h, d, l)
      BY <3>1, <3>2 DEF Retried, RetrySaved, InterviewRows
    <3>3. CASE Finished(t, x, h, d)
      BY <2>2, <3>1, <3>3 DEF Finished, Concluded, SupplementSaved, ReportSaved, ReportFailed, InterviewRows
    <3>4. CASE Ended(t, x, h, d)
      BY <2>2, <3>1, <3>4 DEF Ended, Closes
    <3>5. CASE Idle(x) \/ Continued(t, x, h, d) \/ Stored(t, x, h, d) \/ Rejected(t, x)
      BY <2>2, <3>5, RowsApart DEF Idle, Continued, Stored, Rejected
    <3> QED BY <3>2, <3>3, <3>4, <3>5 DEF Committable
  <2> QED BY <2>1, <2>2
<1>8. \A c \in Commands : d[c].status = "none" /\ "interview" \in g => e[c].status = "none"
  <2>1. ASSUME NEW c \in Commands, d[c].status = "none", "interview" \in g, c \in DOMAIN x.writes PROVE FALSE
    <3>1. "interview" \notin h
      BY <2>1
    <3>2. c \in h
      BY <2>1, <3>1, RowsApart DEF Owned
    <3>3. IsOpen(d[c])
      BY <3>2 DEF Owned
    <3> QED BY <2>1, <3>3 DEF IsOpen
  <2> QED BY <1>2, <2>1, RowsApart
<1>9. "interview" \in g \/ d["interview"].status = "deleting" =>
        \A r \in Operations : IsOpen(e[r]) => IsOpen(d[r])
  <2>1. ASSUME NEW r \in Operations, IsOpen(e[r]), ~ IsOpen(d[r]),
               "interview" \in g \/ d["interview"].status = "deleting"
        PROVE  FALSE
    <3>1. r \in DOMAIN x.writes /\ r \in Rows
      BY <1>2, <2>1, RowsApart
    <3>2. e[r] = x.writes[r]
      BY <3>1 DEF Commits, Shown
    <3>3. ~ ("interview" \in h /\ IsMutable(d["interview"]))
      BY <2>1 DEF IsMutable
    <3>4. CASE Idle(x)
      BY <3>1, <3>4 DEF Idle
    <3>5. CASE Continued(t, x, h, d)
      BY <2>1, <3>1, <3>5, RowsApart DEF Continued
    <3>6. CASE Stored(t, x, h, d)
      BY <3>3, <3>6 DEF Stored
    <3>7. CASE Rejected(t, x)
      BY <2>1, <3>1, <3>2, <3>7 DEF Rejected, IsOpen
    <3>8. CASE Retried(t, x, h, d, l)
      BY <3>3, <3>8 DEF Retried, RetrySaved
    <3>9. CASE Finished(t, x, h, d)
      BY <2>1, <3>1, <3>2, <3>9, RowsApart DEF Finished, TargetSettled, IsOpen
    <3>10. CASE Ended(t, x, h, d)
      <4>1. r \notin OpenFor(x, d)
        BY <3>10 DEF Ended
      <4> QED BY <2>1, <3>1, <4>1 DEF OpenFor, Commits
    <3> QED BY <3>4, <3>5, <3>6, <3>7, <3>8, <3>9, <3>10 DEF Committable
  <2> QED BY <2>1
<1>10. "target" \in g => e["target"] = d["target"]
  BY <1>5, RowsApart
<1>11. "interview" \in g => e["interview"] = d["interview"]
  BY <1>5
<1>12. Owned(u, y, g, e)
  BY <1>1, <1>5, <1>8, RowsApart DEF Owned
<1>13. Claimed(u, y, g, d, l) => Claimed(u, y, g, e, m)
  BY <1>5, <1>6, RowsApart DEF Claimed
<1>14. TargetClaimed(u, y, g, d, l) => TargetClaimed(u, y, g, e, m)
  BY <1>6, <1>10, <1>13 DEF TargetClaimed
<1>15. TargetSettled(u, y, g, d) => TargetSettled(u, y, g, e)
  BY <1>10 DEF TargetSettled
<1>16. /\ RetrySaved(y, g, d) => RetrySaved(y, g, e)
       /\ ReportSaved(y, g, d) => ReportSaved(y, g, e)
       /\ Concluded(y, g, d) => Concluded(y, g, e)
  BY <1>11, <1>7a DEF RetrySaved, Concluded, SupplementSaved, ReportSaved, ReportFailed
<1>17. ASSUME Closes(u, y, g, d)
       PROVE  Closes(u, y, g, e) /\ OpenFor(y, e) \subseteq OpenFor(y, d)
  <2>1. "target" \in DOMAIN y.writes => "target" \in g
    BY <1>1, RowsApart DEF Owned
  <2>2. "interview" \in g \/ d["interview"].status = "deleting"
    BY <1>17 DEF Closes
  <2>3. OpenFor(y, e) \subseteq OpenFor(y, d)
    BY <1>9, <2>2 DEF OpenFor, Shown
  <2>4. IF "interview" \in DOMAIN y.writes
        THEN /\ "interview" \in g
             /\ y.writes["interview"] \in InterviewRows
             /\ ~ y.writes["interview"].pending
             /\ \/ y.writes["interview"].status = "deleting" /\ e["interview"].status # "deleting"
                \/ /\ y.writes["interview"].status = "abandoned" /\ e["interview"].status = "active"
                   /\ u \notin Leavers
        ELSE e["interview"].status = "deleting" /\ u \in Leavers
    BY <1>7, <1>11, <1>17 DEF Closes
  <2>5. "target" \in DOMAIN y.writes =>
          y.writes["target"] = [status |-> "settled", attempt |-> e["target"].attempt]
    BY <1>10, <1>17, <2>1 DEF Closes
  <2> QED BY <1>17, <2>3, <2>4, <2>5 DEF Closes
<1>18. Committable(u, y, g, d, l) => Committable(u, y, g, e, m)
  <2>1. Continued(u, y, g, d) => Continued(u, y, g, e)
    BY <1>11 DEF Continued
  <2>2. Stored(u, y, g, d) => Stored(u, y, g, e)
    BY <1>8, <1>11, RowsApart DEF Stored
  <2>3. Retried(u, y, g, d, l) => Retried(u, y, g, e, m)
    BY <1>14, <1>16 DEF Retried
  <2>4. Finished(u, y, g, d) => Finished(u, y, g, e)
    BY <1>15, <1>16 DEF Finished
  <2>5. Ended(u, y, g, d) => Ended(u, y, g, e)
    BY <1>17 DEF Ended
  <2> QED BY <2>1, <2>2, <2>3, <2>4, <2>5 DEF Committable
<1>19. Staged(u, y, g, e, m)
  BY <1>1, <1>13, <1>14, <1>15, <1>16, <1>17, <1>18, <1>7a DEF Staged
<1> QED BY <1>12, <1>19 DEF Fits

LEMMA CommitStep ==
  ASSUME Inv, NEW t \in Transactions, Commit(t)
  PROVE  Inv'
<1> DEFINE x == tx[t]
           h == Mine(t)
           at == IF t \in Retriers /\ x.reply = "stored" THEN "claimCommand" ELSE "done"
           reply == IF x.reply = "stored" THEN "none" ELSE x.reply
<1>1. /\ x.at = "commit" /\ Fits(t, x, h, db, lapsed) /\ IsTx(x) /\ x.read.execution \in InFlight
  BY Running DEF Commit
<1>2. Owned(t, x, h, db) /\ Committable(t, x, h, db, lapsed)
  BY <1>1 DEF Fits, Staged
<1>3. /\ DOMAIN tx' = Transactions /\ tx'[t] = Transaction(at, reply)
      /\ \A u \in Transactions : u # t => tx'[u] = tx[u]
  <2>1. tx' = [tx EXCEPT ![t] = Transaction(at, IF @.reply = "stored" THEN "none" ELSE @.reply)]
    BY DEF Commit
  <2>2. DOMAIN tx = Transactions
    BY DEF Inv, TxTyped
  <2> QED BY <2>1, <2>2
<1>4. HeldTyped' /\ Mine(t)' = {} /\ \A u \in Transactions : u # t => Mine(u)' = Mine(u)
  BY Releasing DEF Commit, Inv
<1>5. IsTx(tx'[t]) /\ tx'[t].read = NoReads
  BY <1>3, Beginning
<1>6. Commits(t, x, db, lapsed, db', lapsed', InFlight, InFlight')
  <2>1. db' = Seen(t) /\ DOMAIN db' = Rows /\ \A r \in Rows : db'[r] = Shown(x, db, r)
    BY SeenIs DEF Commit
  <2>2. lapsed' = (lapsed \ Taken(x)) \cap {r \in Operations : IsOpen(db'[r])}
    BY <2>1 DEF Commit, Taken
  <2>3. /\ "target" \in Taken(x) =>
             executions' = executions \cup {[attempt |-> db'["target"].attempt, command |-> CommandOf[t]]}
        /\ "target" \notin Taken(x) => executions' = executions
    BY <2>1 DEF Commit, Taken
  <2>4. ASSUME NEW f \in InFlight'
        PROVE  \/ f \in InFlight \/ f = [attempt |-> 0, command |-> Nobody]
               \/ "target" \in Taken(x) /\ f = [attempt |-> db'["target"].attempt, command |-> CommandOf[t]]
    <3>1. CASE f \in executions'
      BY <2>3, <3>1 DEF InFlight
    <3>2. CASE f \notin executions'
      <4>1. PICK u \in Transactions : f = tx'[u].read.execution
        BY <3>2 DEF InFlight
      <4>2. CASE u = t
        BY <1>5, <4>1, <4>2 DEF NoReads
      <4>3. CASE u # t
        BY <1>3, <4>1, <4>3 DEF InFlight
      <4> QED BY <4>2, <4>3
    <3> QED BY <3>1, <3>2
  <2> HIDE DEF x
  <2> QED BY <2>1, <2>2, <2>4 DEF Commits
<1>7. Kept(db, lapsed, InFlight)
  BY DEF Inv, Kept
<1>8. Kept(db', lapsed', InFlight')
  BY <1>1, <1>2, <1>6, <1>7, CommitKeeps
<1>9. RowsTyped(db)' /\ Leased(InFlight, db, lapsed)' /\ Agree(db, lapsed)'
  BY <1>8 DEF Kept, RowsTyped, Leased, Agree
<1>10. ASSUME NEW u \in Transactions PROVE Fits(u, tx'[u], Mine(u)', db', lapsed')
  <2>1. CASE u = t
    <3>1. at \in {"claimCommand", "done"} /\ ByKind(t, at)
      BY DEF ByKind
    <3>2. Fits(t, Transaction(at, reply), {}, db', lapsed')
      BY <3>1, BeginningFits
    <3> QED BY <1>3, <1>4, <2>1, <3>2
  <2>2. CASE u # t
    <3>1. Fits(u, tx[u], Mine(u), db, lapsed) /\ IsTx(tx[u]) /\ Mine(u) \subseteq Rows
      BY DEF Inv, TxTyped, Mine
    <3>2. Mine(u) \cap h = {}
      BY <2>2, HeldByOne
    <3>3. DOMAIN tx[u].writes \subseteq Rows
      BY <3>1 DEF IsTx
    <3> HIDE DEF x, h
    <3>4. Fits(u, tx[u], Mine(u), db', lapsed')
      BY <1>1, <1>2, <1>6, <1>7, <3>1, <3>2, <3>3, OthersStillFit
    <3> QED BY <1>3, <1>4, <2>2, <3>4
  <2> QED BY <2>1, <2>2
<1>11. TxTyped'
  BY <1>3, <1>5 DEF Inv, TxTyped
<1> QED BY <1>4, <1>9, <1>10, <1>11 DEF Inv
-------------------------------------------------------------------------------
LEMMA InitInv == Init => Inv
<1> SUFFICES ASSUME Init PROVE Inv
  OBVIOUS
<1>1. PICK lifecycle \in {"active", "report_pending"}, status \in {"processing", "failed"} :
        /\ db = InitRows(lifecycle, status)
        /\ executions = IF status = "processing" THEN {[attempt |-> 1, command |-> Nobody]} ELSE {}
  BY DEF Init
<1>2. PICK cast :
        tx = [t \in Transactions |-> Transaction(IF t \in cast THEN FirstStatement(t) ELSE "done", "none")]
  BY DEF Init
<1>3. held = [r \in Rows |-> Nobody] /\ lapsed = {}
  BY DEF Init
<1>4. /\ DOMAIN db = Rows
      /\ db["user"].status = "active"
      /\ db["interview"] = [status |-> lifecycle, position |-> 1,
                            pending |-> lifecycle = "active" /\ status = "processing"]
      /\ db["target"] = [status |-> status, attempt |-> 1]
      /\ \A c \in Commands : db[c] = [status |-> "none"]
  BY <1>1, RowsApart DEF InitRows
<1>5. \A t \in Transactions : tx[t].read.execution = [attempt |-> 0, command |-> Nobody] /\ IsTx(tx[t])
  BY <1>2, Beginning DEF NoReads
<1>6. TxTyped
  BY <1>2, <1>5 DEF TxTyped
<1>7. HeldTyped /\ \A t \in Transactions : Mine(t) = {}
  BY <1>3, RowsApart DEF HeldTyped, Mine
<1>8. RowsTyped(db)
  BY <1>4 DEF RowsTyped, InterviewRows, TargetRows, CommandRows
<1>9. Leased(InFlight, db, lapsed)
  <2>1. \A e \in InFlight : e = [attempt |-> 0, command |-> Nobody] \/ e = [attempt |-> 1, command |-> Nobody]
    BY <1>1, <1>5 DEF InFlight
  <2> QED BY <1>3, <1>4, <2>1 DEF Leased
<1>10. Agree(db, lapsed)
  <2>1. db["interview"].pending <=> db["interview"].status = "active" /\ db["target"].status = "processing"
    <3>1. /\ db["interview"].pending = (lifecycle = "active" /\ status = "processing")
          /\ db["interview"].status = lifecycle /\ db["target"].status = status
      BY <1>4
    <3> QED BY <3>1
  <2>2. /\ db["interview"].status \in {"active", "report_pending"} /\ db["user"].status = "active"
        /\ db["target"].status # "settled" /\ \A c \in Commands : db[c].status = "none"
    BY <1>4
  <2> QED BY <2>1, <2>2 DEF Agree
<1>11. ASSUME NEW t \in Transactions PROVE Fits(t, tx[t], Mine(t), db, lapsed)
  <2>1. PICK at \in {"find", "lockUser", "load", "lockSession", "sweep", "done"} :
          tx[t] = Transaction(at, "none") /\ ByKind(t, at)
    <3>1. ByKind(t, "done")
      BY DEF ByKind
    <3>2. /\ FirstStatement(t) \in {"find", "lockUser", "load", "lockSession", "sweep"}
          /\ ByKind(t, FirstStatement(t))
      <4>1. CASE t \in Askers
        BY <4>1, KindsApart DEF FirstStatement, ByKind
      <4>2. CASE t \in Retriers \cup Deleters
        BY <4>2, KindsApart DEF FirstStatement, ByKind
      <4>3. CASE t \in Finishers
        BY <4>3, KindsApart DEF FirstStatement, ByKind
      <4>4. CASE t \in Leavers \cup Refreshers
        BY <4>4, KindsApart DEF FirstStatement, ByKind
      <4>5. CASE t \in Sweepers
        BY <4>5, KindsApart DEF FirstStatement, ByKind
      <4> QED BY <4>1, <4>2, <4>3, <4>4, <4>5 DEF Transactions
    <3> QED BY <1>2, <3>1, <3>2
  <2> QED BY <1>7, <2>1, BeginningFits
<1> QED BY <1>6, <1>7, <1>8, <1>9, <1>10, <1>11 DEF Inv

LEMMA NextInv == Inv /\ [Next]_vars => Inv'
<1> SUFFICES ASSUME Inv, [Next]_vars PROVE Inv'
  OBVIOUS
<1>1. ASSUME NEW t \in Transactions,
             NEW s \in {"lockSession", "lockUser", "lockInterview", "relockUser", "relockInterview"},
             LockRow(t, s)
      PROVE  Inv'
  BY <1>1, LockSessionStep, LockUserStep, LockInterviewStep, RelockUserStep, RelockInterviewStep
<1>2. ASSUME NEW t \in Transactions,
             FindByKey(t) \/ ReadInterview(t) \/ ReadPending(t) \/ Decide(t)
      PROVE  Inv'
  BY <1>2, FindByKeyStep, ReadInterviewStep, ReadPendingStep, DecideStep
<1>3. ASSUME NEW t \in Transactions,
             StoreCommand(t) \/ ClaimCommand(t) \/ ReadTarget(t) \/ ChooseClaim(t)
             \/ ClaimTarget(t) \/ SaveRetry(t) \/ RejectCommand(t)
      PROVE  Inv'
  BY <1>3, StoreCommandStep, ClaimCommandStep, ReadTargetStep, ChooseClaimStep,
     ClaimTargetStep, SaveRetryStep, RejectCommandStep
<1>4. ASSUME NEW t \in Transactions, NEW e \in executions, LoadExecution(t, e) PROVE Inv'
  BY <1>4, LoadExecutionStep
<1>5. ASSUME NEW t \in Transactions, NEW status \in {"failed", "settled"}, SettleTarget(t, status) PROVE Inv'
  BY <1>5, SettleTargetStep
<1>6. ASSUME NEW t \in Transactions,
             SaveInterview(t) \/ InsertReport(t) \/ SettleCommand(t) \/ Leave(t) \/ Sweep(t)
             \/ Close(t) \/ PersistExpiry(t) \/ ExpireOnAccess(t)
      PROVE  Inv'
  BY <1>6, SaveInterviewStep, InsertReportStep, SettleCommandStep, LeaveStep, SweepStep, CloseStep,
     PersistExpiryStep, ExpireOnAccessStep
<1>7. ASSUME NEW t \in Transactions,
             Scan(t) \/ Cancel(t) \/ CancelledAll(t) \/ Commit(t) \/ Abort(t)
      PROVE  Inv'
  BY <1>7, ScanStep, CancelStep, CancelledAllStep, CommitStep, AbortStep
<1>8. CASE Lapse
  BY <1>8, LapseStep
<1>9. CASE GrowStale \/ UNCHANGED vars
  BY <1>9, GrowStaleStep DEF GrowStale, vars
<1> QED BY <1>1, <1>2, <1>3, <1>4, <1>5, <1>6, <1>7, <1>8, <1>9 DEF Next

(* What each transaction has written, holds and relies on at each statement  *)
(* is as Inv says, whatever the others do: the statements of acceptance,     *)
(* retry, finalization, deletion and expiry, as they interleave.             *)
THEOREM RowsInvariant == Spec => []Inv
<1>1. Inv /\ [Next]_vars => Inv'
  BY NextInv
<1> QED BY InitInv, <1>1, PTL DEF Spec

(* What is committed agrees row by row under every interleaving of the       *)
(* statements of every number of transactions: no lost update of the         *)
(* interview's reference, of its operations or of a leaving user's rows.     *)
THEOREM RowsAgree == Spec => []CommittedRowsAgree
<1>1. Inv => CommittedRowsAgree
  BY DEF Inv, Agree, CommittedRowsAgree
<1> QED BY <1>1, RowsInvariant, PTL
-------------------------------------------------------------------------------
(* Who waits for whom. *)

(* What a transaction waits for, unless it cancels operations. *)
LEMMA WaitsFor ==
  ASSUME Inv, NEW t \in Transactions, Waits(t), tx[t].at # "cancel"
  PROVE  /\ Wanted(t) \notin Mine(t)
         /\ tx[t].at \notin {"scan", "commit", "leave", "readPending"}
         /\ \/ Wanted(t) = "interview"
            \/ tx[t].at = "lockSession" /\ Wanted(t) = "session"
            \/ tx[t].at \in {"lockUser", "relockUser", "insertReport"} /\ Wanted(t) = "user"
            \/ tx[t].at \in {"claimCommand", "reject"} /\ Wanted(t) \in Commands
            \/ tx[t].at \in {"claimTarget", "settleTarget"} /\ Wanted(t) = "target" /\ Matches(t)
            \/ /\ tx[t].at = "settleCommand" /\ Wanted(t) = tx[t].read.execution.command
               /\ Wanted(t) \in Commands /\ Matches(t)
<1> DEFINE at == tx[t].at
<1>1. Staged(t, tx[t], Mine(t), db, lapsed)
  BY DEF Inv, Fits
<1>2. /\ at \in {"claimCommand", "reject"} => CommandOf[t] \in Commands
      /\ at = "settleCommand" => tx[t].read.execution.command \in Commands
  BY <1>1, RowsApart DEF Staged, ByKind
<1>3. Wanted(t) \notin Mine(t)
  BY DEF Waits, Mine
<1>4. Wanted(t) # Nobody
  BY DEF Waits
<1>5. CASE Accesses(t) /\ IsDueToExpire(t)
  <2>1. Wanted(t) = "interview"
    BY <1>5 DEF Wanted
  <2>2. at \notin {"scan", "commit", "leave", "readPending"}
    BY <1>5 DEF Accesses
  <2> QED BY <1>3, <2>1, <2>2
<1>6. CASE ~ (Accesses(t) /\ IsDueToExpire(t))
  <2>1. Wanted(t) = RowOf(t) /\ Matches(t) /\ RowOf(t) # Nobody
    BY <1>4, <1>6 DEF Wanted
  <2> QED BY <1>2, <1>3, <2>1 DEF RowOf
<1> QED BY <1>5, <1>6

(* Each member of a deadlock waits for a row that another member holds. *)
LEMMA Blocked ==
  ASSUME Inv, NEW D \in Deadlocks, NEW t \in D
  PROVE  /\ t \in Transactions /\ Waits(t)
         /\ \E u \in D : u # t /\ Wanted(t) \in Mine(u)
<1> DEFINE waiting == {v \in Transactions : Waits(v)}
           holder == [v \in waiting |-> held[Wanted(v)]]
<1>1. D \subseteq waiting /\ holder[t] \in D
  BY DEF Deadlocks
<1>2. t \in waiting /\ holder[t] = held[Wanted(t)]
  BY <1>1
<1>3. held[Wanted(t)] \in D /\ held[Wanted(t)] # t /\ Wanted(t) \in Rows
  BY <1>1, <1>2, WantedRow DEF Waits
<1>4. t \in Transactions /\ Waits(t)
  BY <1>2
<1> QED BY <1>3, <1>4 DEF Mine

(* A retry's command that its finalization waits for is leased, while a      *)
(* retry only holds one that was pending or whose lease was over.            *)
LEMMA CommandIsFree ==
  ASSUME Inv, NEW D \in Deadlocks, \A t \in D : tx[t].at # "cancel", NEW u \in D,
         tx[u].at = "settleCommand"
  PROVE  Wanted(u) = "interview"
<1> SUFFICES ASSUME Wanted(u) # "interview" PROVE FALSE
  OBVIOUS
<1>1. /\ u \in Transactions /\ Waits(u) /\ Staged(u, tx[u], Mine(u), db, lapsed)
      /\ Wanted(u) = tx[u].read.execution.command /\ Wanted(u) \in Commands /\ Matches(u)
  BY Blocked, WaitsFor DEF Inv, Fits
<1>2. PICK v \in D : v # u /\ Wanted(u) \in Mine(v)
  BY Blocked
<1>3. /\ v \in Transactions /\ Waits(v) /\ Owned(v, tx[v], Mine(v), db)
      /\ Staged(v, tx[v], Mine(v), db, lapsed)
  BY Blocked DEF Inv, Fits
<1>4. tx[v].at \notin {"scan", "commit", "cancel", "readPending"} /\ Wanted(u) \in MayHold(tx[v].at)
  BY <1>2, <1>3, WaitsFor DEF Owned
<1> DEFINE c == Wanted(u)
<1>5. db[c].status = "processing" /\ c \notin lapsed
  <2>1. DOMAIN tx[u].writes \subseteq {"target", "interview"}
    BY <1>1 DEF Staged
  <2>2. Seen(u)[c] = db[c]
    BY <1>1, <2>1, SeenIs, RowsApart DEF Shown
  <2> QED BY <1>1, <2>2 DEF Matches
<1>6. tx[v].at \in {"readTarget", "readInterview", "relockUser", "relockInterview", "claimTarget", "saveRetry"}
  BY <1>1, <1>4, RowsApart DEF MayHold
<1>7. Claimed(v, tx[v], Mine(v), db, lapsed)
  BY <1>3, <1>6 DEF Staged, TargetClaimed
<1>8. c = CommandOf[v]
  BY <1>1, <1>2, <1>7 DEF Claimed
<1> HIDE DEF c
<1> QED BY <1>5, <1>7, <1>8 DEF Claimed

(* A report waits for its owner's row only while the holder of that row       *)
(* waits for the interview, which the report's finalization holds.           *)
LEMMA ReportBlocks ==
  ASSUME Inv, NEW D \in Deadlocks, \A t \in D : tx[t].at # "cancel", NEW t \in D,
         tx[t].at = "insertReport"
  PROVE  Wanted(held["user"]) = "interview" /\ held["interview"] = t
<1>1. /\ t \in Transactions /\ Waits(t) /\ Staged(t, tx[t], Mine(t), db, lapsed)
  BY Blocked DEF Inv, Fits
<1>2. "interview" \in Mine(t) /\ held["interview"] = t
  BY <1>1 DEF Staged, ReportSaved, Mine
<1>3. Wanted(t) = "user"
  <2>1. Wanted(t) # "interview"
    BY <1>1, <1>2, WaitsFor
  <2> QED BY <1>1, <2>1, WaitsFor
<1>4. PICK u \in D : u # t /\ "user" \in Mine(u)
  BY <1>3, Blocked
<1>5. held["user"] = u
  BY <1>4 DEF Mine
<1>6. /\ u \in Transactions /\ Waits(u) /\ Owned(u, tx[u], Mine(u), db)
      /\ Staged(u, tx[u], Mine(u), db, lapsed)
  BY Blocked DEF Inv, Fits
<1>7. "interview" \notin Mine(u)
  BY <1>2, <1>4, HeldByOne
<1>8. tx[u].at \notin {"scan", "commit", "leave", "cancel"} /\ "user" \in MayHold(tx[u].at)
  BY <1>4, <1>6, WaitsFor DEF Owned
<1>9. tx[u].at \in {"lockInterview", "insert", "decide", "close", "persistExpiry", "relockInterview",
                    "claimTarget", "saveRetry", "settleCommand"}
  BY <1>8, RowsApart DEF MayHold
<1>10. tx[u].at \notin {"insert", "decide", "claimTarget"}
  BY <1>4, <1>6, <1>7 DEF Staged
<1>11. CASE tx[u].at = "settleCommand"
  BY <1>2, <1>5, <1>11, CommandIsFree
<1>12. CASE tx[u].at \in {"lockInterview", "close", "persistExpiry", "relockInterview", "saveRetry"}
  <2>1. Wanted(u) = "interview"
    BY <1>6, <1>12, WaitsFor
  <2> QED BY <1>2, <1>5, <2>1
<1> QED BY <1>9, <1>10, <1>11, <1>12

(* Without either, the rows are locked in one order.                         *)
LEMMA OrderedOtherwise ==
  ASSUME Inv, NEW D \in Deadlocks
  PROVE  \E t \in D : tx[t].at \in {"cancel", "insertReport"}
<1> SUFFICES ASSUME \A t \in D : tx[t].at \notin {"cancel", "insertReport"}
             PROVE  FALSE
  OBVIOUS
<1>1. ASSUME NEW t \in D
      PROVE  /\ t \in Transactions /\ Waits(t) /\ tx[t].at \notin {"cancel", "insertReport"}
             /\ Fits(t, tx[t], Mine(t), db, lapsed) /\ Mine(t) \subseteq Rows
             /\ \E u \in D : u # t /\ Wanted(t) \in Mine(u)
  BY Blocked DEF Inv, Mine
<1>2. ASSUME NEW u \in D, "interview" \in Mine(u)
      PROVE  FALSE
  <2>1. Wanted(u) # "interview" /\ Owned(u, tx[u], Mine(u), db) /\ Staged(u, tx[u], Mine(u), db, lapsed)
    BY <1>1, <1>2, WaitsFor DEF Fits
  <2>2. tx[u].at \in {"insert", "decide", "close", "persistExpiry", "relockInterview", "claimTarget",
                      "saveRetry", "settleCommand"}
    <3>1. "interview" \in MayHold(tx[u].at)
      BY <1>2, <2>1 DEF Owned
    <3>2. tx[u].at \notin {"scan", "commit"}
      BY <1>1, WaitsFor
    <3> QED BY <1>1, <3>1, <3>2, RowsApart DEF MayHold
  <2>3. tx[u].at # "settleCommand"
    BY <1>1, <2>1, CommandIsFree
  <2>4. tx[u].at = "claimTarget" /\ Wanted(u) = "target" /\ Matches(u)
    BY <1>1, <2>1, <2>2, <2>3, WaitsFor
  <2>5. PICK v \in D : v # u /\ Wanted(u) \in Mine(v)
    BY <1>1
  <2>6. Owned(v, tx[v], Mine(v), db) /\ Staged(v, tx[v], Mine(v), db, lapsed)
    BY <1>1 DEF Fits
  <2>7. /\ tx[v].at \notin {"scan", "commit", "cancel", "insertReport"}
        /\ Wanted(u) \in MayHold(tx[v].at)
    BY <1>1, <2>5, <2>6, WaitsFor DEF Owned
  <2>8. db["target"].status = "failed"
    <3>1. tx[u].read.target = "failed" /\ DOMAIN tx[u].writes = {CommandOf[u]} /\ u \in Retriers
      BY <1>2, <2>1, <2>4 DEF Staged
    <3>2. Seen(u)["target"] = db["target"]
      BY <3>1, SeenIs, RowsApart DEF Shown
    <3> QED BY <2>4, <3>1, <3>2 DEF Matches
  <2>9. tx[v].at \in {"saveRetry", "saveInterview", "settleCommand"}
    BY <2>4, <2>7, RowsApart DEF MayHold
  <2>10. TargetClaimed(v, tx[v], Mine(v), db, lapsed) \/ TargetSettled(v, tx[v], Mine(v), db)
    BY <2>6, <2>9 DEF Staged
  <2>11. TargetClaimed(v, tx[v], Mine(v), db, lapsed) => "interview" \in Mine(v)
    BY <2>8 DEF TargetClaimed
  <2> QED BY <1>2, <2>5, <2>8, <2>10, <2>11, HeldByOne DEF TargetSettled
<1>3. ASSUME NEW t \in D
      PROVE  /\ Wanted(t) # "interview"
             /\ tx[t].at \notin {"scan", "commit", "leave", "readPending", "cancel", "insertReport",
                                 "settleCommand"}
             /\ \/ tx[t].at = "lockSession" /\ Wanted(t) = "session"
                \/ tx[t].at \in {"lockUser", "relockUser"} /\ Wanted(t) = "user"
                \/ tx[t].at \in {"claimCommand", "reject"} /\ Wanted(t) \in Commands
                \/ tx[t].at \in {"claimTarget", "settleTarget"} /\ Wanted(t) = "target"
             /\ \A r \in Mine(t) : r \in MayHold(tx[t].at)
  <2>1. Wanted(t) # "interview"
    BY <1>1, <1>2
  <2>2. tx[t].at # "settleCommand"
    BY <1>1, <2>1, CommandIsFree
  <2>3. \A r \in Mine(t) : r \in MayHold(tx[t].at)
    BY <1>1 DEF Fits, Owned
  <2> QED BY <1>1, <2>1, <2>2, <2>3, WaitsFor
<1>4. ASSUME NEW t \in D PROVE Wanted(t) # "user"
  <2>1. ASSUME NEW u \in D, "user" \in Mine(u) PROVE FALSE
    <3>1. "user" \in MayHold(tx[u].at)
      BY <1>3, <2>1
    <3>2. tx[u].at = "claimTarget"
      BY <1>3, <3>1, RowsApart DEF MayHold
    <3>3. "interview" \in Mine(u)
      BY <1>1, <2>1, <3>2 DEF Fits, Staged
    <3> QED BY <1>2, <3>3
  <2> QED BY <1>1, <2>1
<1>5. ASSUME NEW t \in D PROVE Wanted(t) # "session"
  <2>1. ASSUME NEW u \in D, "session" \in Mine(u) PROVE FALSE
    <3>1. "session" \in MayHold(tx[u].at)
      BY <1>3, <2>1
    <3> QED BY <1>3, <1>4, <3>1, RowsApart DEF MayHold
  <2> QED BY <1>1, <2>1
<1>6. ASSUME NEW t \in D PROVE Wanted(t) # "target"
  <2>1. ASSUME NEW u \in D, "target" \in Mine(u) PROVE FALSE
    <3>1. "target" \in MayHold(tx[u].at)
      BY <1>3, <2>1
    <3> QED BY <1>3, <3>1, RowsApart DEF MayHold
  <2> QED BY <1>1, <2>1
<1>7. ASSUME NEW t \in D PROVE Wanted(t) \notin Commands
  <2>1. ASSUME NEW u \in D, NEW c \in Commands, c \in Mine(u) PROVE FALSE
    <3>1. c \in MayHold(tx[u].at)
      BY <1>3, <2>1
    <3> QED BY <1>3, <1>4, <1>6, <3>1, RowsApart DEF MayHold
  <2> QED BY <1>1, <2>1
<1> QED
  <2>1. PICK t : t \in D
    BY DEF Deadlocks
  <2> QED BY <1>3, <1>4, <1>5, <1>6, <1>7, <2>1

LEMMA KnownDeadlocks == Inv => DeadlocksAreKnown
<1> SUFFICES ASSUME Inv, NEW D \in Deadlocks, \A t \in D : tx[t].at # "cancel"
             PROVE  \E t \in D : /\ tx[t].at = "insertReport"
                                 /\ Wanted(held["user"]) = "interview" /\ held["interview"] = t
  BY DEF DeadlocksAreKnown
<1>1. PICK t \in D : tx[t].at = "insertReport"
  BY OrderedOtherwise
<1> QED BY <1>1, ReportBlocks

(* Every transaction takes the rows it shares with others in one order, so    *)
(* that among any number of them a cycle needs the cancelling of operations,  *)
(* which locks them after the interview, or the insert of a report, which     *)
(* locks the user's row after it while the holder of that row waits for the   *)
(* interview: commands, retries, supplements, refreshes and deletions of      *)
(* accounts never block each other for good before that.                     *)
THEOREM DeadlocksAreAlwaysKnown == Spec => []DeadlocksAreKnown
BY RowsInvariant, KnownDeadlocks, PTL
===============================================================================
