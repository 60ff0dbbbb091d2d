---------------------------- MODULE InterviewIntake ----------------------------
(* How one account's interviews come into being while the question bank     *)
(* changes: importers synchronise releases under an advisory lock, request  *)
(* handlers create an interview in one serializable transaction and settle  *)
(* its operation in a second one (operation-acceptance.ts createInterview,  *)
(* interview-creation-service.ts, blueprint-selection-input-service.ts,     *)
(* question-bank-repository.ts).                                            *)
EXTENDS BlueprintSelection

CONSTANTS
  Importers,      \* runs of the import command
  Releases,       \* what a tree of YAML files may hold
  FirstRelease,   \* what the bank is seeded with
  Handlers,       \* requests to create an interview
  Keys,           \* idempotency keys of creation commands
  NoKey,          \* no creation under way
  Counts,         \* question counts a user may ask for
  RecentLimit,    \* RECENT_INTERVIEW_AVOIDANCE_LIMIT
  MaxAttempts     \* tries of the serializable transaction

ASSUME IntakeAssumption ==
  /\ FirstRelease \subseteq Definition /\ IsFiniteSet(FirstRelease) /\ IsRelease(FirstRelease)
  /\ \A release \in Releases : release \subseteq Definition /\ IsFiniteSet(release)
  /\ RecentLimit \in Nat \ {0} /\ MaxAttempts \in Nat \ {0}
  /\ Counts \subseteq {ShortCount} \cup DOMAIN Minimum

VARIABLES
  bank,         \* question -> its stored versions
  importers,    \* importer -> [pc, release, known]
  lock,         \* the importers holding the advisory lock
  interviews,   \* the account's interviews, oldest first: [key, status, asked]
  operations,   \* key -> its creation operation's status, "none" without a row
  handlers      \* handler -> [pc, key, count, attempt, seen]

vars == <<bank, importers, lock, interviews, operations, handlers>>

EmptyBank == [q \in Questions |-> {}]
Nothing == [eligible |-> {}, interviews |-> <<>>, operations |-> [k \in Keys |-> "none"]]

ImporterAtRest == [pc |-> "idle", release |-> {}, known |-> EmptyBank]
HandlerAtRest == [pc |-> "idle", key |-> NoKey, count |-> 0, attempt |-> 0, seen |-> Nothing]

Init ==
  /\ bank = Synchronize(EmptyBank, EmptyBank, FirstRelease)
  /\ importers = [i \in Importers |-> ImporterAtRest]
  /\ lock = {}
  /\ interviews = <<>>
  /\ operations = [k \in Keys |-> "none"]
  /\ handlers = [h \in Handlers |-> HandlerAtRest]
-------------------------------------------------------------------------------
(* Imports.  A tree the loader or the request check refuses starts none.    *)
BeginImport(i, release) ==
  /\ importers[i].pc = "idle" /\ IsRelease(release)
  /\ importers' = [importers EXCEPT ![i] = [ImporterAtRest EXCEPT
                                              !.pc = "waiting", !.release = release]]
  /\ UNCHANGED <<bank, lock, interviews, operations, handlers>>

(* The rows an import compares with are read in a statement after the one   *)
(* that waited for the lock.                                                *)
Known == bank

(* Fault: the lock is not taken.                                            *)
FaultTakeLock(i) ==
  /\ importers[i].pc = "waiting"
  /\ importers' = [importers EXCEPT ![i].pc = "importing", ![i].known = Known]
  /\ lock' = lock \cup {i}
  /\ UNCHANGED <<bank, interviews, operations, handlers>>

TakeLock(i) ==
  /\ importers[i].pc = "waiting" /\ lock = {}
  /\ importers' = [importers EXCEPT ![i].pc = "importing", ![i].known = Known]
  /\ lock' = {i}
  /\ UNCHANGED <<bank, interviews, operations, handlers>>

(* The entries, and the commit; on any error the transaction is rolled back *)
(* and the CLI reports the failure.  The lock goes with the transaction,    *)
(* and the process exits.                                                   *)
EndImport(i) ==
  LET import == importers[i]
  IN  /\ import.pc = "importing"
      /\ bank' = IF Synchronizes(bank, import.known, import.release)
                   THEN Synchronize(bank, import.known, import.release)
                   ELSE bank
      /\ importers' = [importers EXCEPT ![i] = [ImporterAtRest EXCEPT !.pc = "done"]]
      /\ lock' = lock \ {i}
      /\ UNCHANGED <<interviews, operations, handlers>>
-------------------------------------------------------------------------------
(* Creation.  The transaction's snapshot is taken by its first statement,   *)
(* the one that may have to wait for the lock on the user's row.            *)
Snapshot ==
  [eligible |-> Eligible(bank), interviews |-> interviews, operations |-> operations]

IsOpen(interview) == interview.status \in {"open", "stale"}
OpenOnes(list) == {n \in DOMAIN list : IsOpen(list[n])}

(* findRecentQuestionIds: the latest ended interviews nobody deletes.       *)
Ended(list) == {n \in DOMAIN list : list[n].status = "ended"}
RecentOnes(list) ==
  {n \in Ended(list) : Cardinality({m \in Ended(list) : m > n}) < RecentLimit}
RecentQuestions(list) ==
  UNION {list[n].asked : n \in RecentOnes(list)}

Offered(seen, count) ==
  Blueprints(seen.eligible, RecentQuestions(seen.interviews), count)

BeginCreation(h, key, count) ==
  /\ handlers[h].pc = "idle"
  /\ handlers' = [handlers EXCEPT ![h] =
       [pc |-> "creating", key |-> key, count |-> count, attempt |-> 1, seen |-> Snapshot]]
  /\ UNCHANGED <<bank, importers, lock, interviews, operations>>

Prepared(handler) == [handler EXCEPT !.pc = "prepared", !.seen = Nothing]
TryAgain(handler) == [handler EXCEPT !.attempt = @ + 1, !.seen = Snapshot]

Respond(h) == handlers' = [handlers EXCEPT ![h] = [HandlerAtRest EXCEPT !.pc = "done"]]

(* The key has been used: its operation is settled if it still has to be.   *)
CreatedBefore(h) ==
  LET status == handlers[h].seen.operations[handlers[h].key]
  IN  /\ handlers[h].pc = "creating" /\ status # "none"
      /\ IF status = "pending"
           THEN handlers' = [handlers EXCEPT ![h] = Prepared(@)]
           ELSE Respond(h)
      /\ UNCHANGED <<bank, importers, lock, interviews, operations>>

Creating(h) ==
  handlers[h].pc = "creating" /\ handlers[h].seen.operations[handlers[h].key] = "none"

(* Abandoning an interview settles the operation that created it.           *)
Abandoned(n) ==
  /\ interviews' = [interviews EXCEPT ![n].status = "ended"]
  /\ operations' = [operations EXCEPT ![interviews[n].key] = "settled"]

(* An open interview refuses another.  One inactive for a day is abandoned  *)
(* in a transaction of its own after this one is rolled back, and the       *)
(* request fails all the same.                                              *)
RefusedForOpenOne(h) ==
  /\ Creating(h)
  /\ \E n \in OpenOnes(handlers[h].seen.interviews) :
       IF handlers[h].seen.interviews[n].status = "stale" /\ interviews[n].status = "stale"
         THEN Abandoned(n)
         ELSE UNCHANGED <<interviews, operations>>
  /\ Respond(h)
  /\ UNCHANGED <<bank, importers, lock>>

(* BlueprintSelectionShortageError.                                         *)
RefusedForShortage(h) ==
  /\ Creating(h) /\ OpenOnes(handlers[h].seen.interviews) = {}
  /\ Offered(handlers[h].seen, handlers[h].count) = {}
  /\ Respond(h)
  /\ UNCHANGED <<bank, importers, lock, interviews, operations>>

(* Fault: the transaction is not serializable.                              *)
FaultConflicts(h) == FALSE

(* PostgreSQL refuses to commit a creation decided on a snapshot another    *)
(* creation of the account has committed after.                             *)
Conflicts(h) == Len(interviews) # Len(handlers[h].seen.interviews)

CreateInterview(h) ==
  /\ Creating(h) /\ OpenOnes(handlers[h].seen.interviews) = {} /\ ~Conflicts(h)
  /\ \E blueprint \in Offered(handlers[h].seen, handlers[h].count) :
       interviews' = Append(interviews,
         [key |-> handlers[h].key, status |-> "open",
          asked |-> {blueprint[n].question : n \in 1..Len(blueprint)}])
  /\ operations' = [operations EXCEPT ![handlers[h].key] = "pending"]
  /\ handlers' = [handlers EXCEPT ![h] = Prepared(@)]
  /\ UNCHANGED <<bank, importers, lock>>

RetryTransaction(h) ==
  /\ Creating(h) /\ OpenOnes(handlers[h].seen.interviews) = {} /\ Conflicts(h)
  /\ Offered(handlers[h].seen, handlers[h].count) # {}
  /\ IF handlers[h].attempt < MaxAttempts
       THEN handlers' = [handlers EXCEPT ![h] = TryAgain(@)]
       ELSE Respond(h)
  /\ UNCHANGED <<bank, importers, lock, interviews, operations>>

(* The second transaction claims the operation and completes it, unless     *)
(* another handler or the end of the interview has settled it.              *)
SettleCreation(h) ==
  /\ handlers[h].pc = "prepared"
  /\ operations' = [operations EXCEPT ![handlers[h].key] =
                      IF @ = "pending" THEN "settled" ELSE @]
  /\ Respond(h)
  /\ UNCHANGED <<bank, importers, lock, interviews>>

(* The server stops between the transactions.                               *)
CrashHandler(h) ==
  /\ handlers[h].pc = "prepared"
  /\ Respond(h)
  /\ UNCHANGED <<bank, importers, lock, interviews, operations>>
-------------------------------------------------------------------------------
(* What else happens to an interview: it is finished, which takes commands  *)
(* that an unsettled creation refuses; it is left alone for a day; it is    *)
(* abandoned; its user asks for its deletion.                               *)
FinishInterview(n) ==
  /\ IsOpen(interviews[n]) /\ operations[interviews[n].key] = "settled"
  /\ interviews' = [interviews EXCEPT ![n].status = "ended"]
  /\ UNCHANGED <<bank, importers, lock, operations, handlers>>

LeaveAlone(n) ==
  /\ interviews[n].status = "open"
  /\ interviews' = [interviews EXCEPT ![n].status = "stale"]
  /\ UNCHANGED <<bank, importers, lock, operations, handlers>>

AbandonInterview(n) ==
  /\ interviews[n].status = "stale"
  /\ Abandoned(n)
  /\ UNCHANGED <<bank, importers, lock, handlers>>

DeleteInterview(n) ==
  /\ interviews[n].status # "deleting"
  /\ interviews' = [interviews EXCEPT ![n].status = "deleting"]
  /\ operations' = [operations EXCEPT ![interviews[n].key] = "settled"]
  /\ UNCHANGED <<bank, importers, lock, handlers>>

Import(i) ==
  \/ \E release \in Releases : BeginImport(i, release)
  \/ TakeLock(i)
  \/ EndImport(i)

Handle(h) ==
  \/ \E key \in Keys, count \in Counts : BeginCreation(h, key, count)
  \/ CreatedBefore(h)
  \/ RefusedForOpenOne(h)
  \/ RefusedForShortage(h)
  \/ CreateInterview(h)
  \/ RetryTransaction(h)
  \/ SettleCreation(h)
  \/ CrashHandler(h)

Happen(n) ==
  \/ FinishInterview(n)
  \/ LeaveAlone(n)
  \/ AbandonInterview(n)
  \/ DeleteInterview(n)

Next ==
  \/ \E i \in Importers : Import(i)
  \/ \E h \in Handlers : Handle(h)
  \/ \E n \in DOMAIN interviews : Happen(n)

Spec == Init /\ [][Next]_vars
-------------------------------------------------------------------------------
(* Whatever imports run concurrently, fail or overlap, the newest imported  *)
(* version of a question alone decides whether it is offered: no older one  *)
(* is ever left active, and a newer tombstone leaves none.                  *)
NewestVersionDecides == NewestDecides(bank)

(* An account never has two open interviews and a creation key never has    *)
(* two interviews, however often and however concurrently it is sent; and   *)
(* every interview has the row of the operation that created it.            *)
OneInterviewPerKey ==
  /\ Cardinality(OpenOnes(interviews)) <= 1
  /\ \A m, n \in DOMAIN interviews : interviews[m].key = interviews[n].key => m = n
  /\ \A n \in DOMAIN interviews : operations[interviews[n].key] # "none"

Repeats(picked, recent) == Cardinality({c \in picked : c.question \in recent})

Neighbours(order) == {n \in 1..(Len(order) - 1) : order[n].domain = order[n + 1].domain}

(* A blueprint is refused only if no choice of eligible questions has the   *)
(* coverage its count asks for.  The one created has it, repeats as few     *)
(* questions of recent interviews as any choice with it would, and puts two *)
(* questions of a domain next to each other only if that domain has more    *)
(* than half of them.                                                       *)
BlueprintIsBest ==
  \A h \in Handlers : Creating(h) =>
    LET seen    == handlers[h].seen
        count   == handlers[h].count
        recent  == RecentQuestions(seen.interviews)
        covers  == {picked \in kSubset(count, seen.eligible) : Covers(picked, count)}
        offered == Offered(seen, count)
    IN  /\ offered = {} <=> covers = {}
        /\ \A order \in offered :
             LET picked == {order[n] : n \in 1..Len(order)}
             IN  /\ picked \in covers
                 /\ \A other \in covers : Repeats(picked, recent) <= Repeats(other, recent)
                 /\ Neighbours(order) # {} =>
                      \E d \in Domains : 2 * Cardinality(InDomain(picked, d)) > count + 1
===============================================================================
