--------------------------- MODULE AccountDeletion ---------------------------
(***************************************************************************)
(* Deletion of interviews and accounts: the marking transactions of        *)
(* packages/db/src/repositories/lifecycle-repository.ts, the triggers that *)
(* keep a marked account out (drizzle/0007), and the maintenance cycles of *)
(* lifecycle-service.ts that claim due requests under a lease and purge    *)
(* them.  Cycles run in several processes, may stop between any two        *)
(* transactions, and meet requests whose purge always throws.              *)
(*                                                                         *)
(* Times are kept as what the queries compare: a request's age, the time   *)
(* left of its lease and of its back-off, so the clock needs no bound.  A  *)
(* client's command may have been authenticated at any earlier moment, so  *)
(* a command's guard is only what its own transaction checks.              *)
(***************************************************************************)
EXTENDS Integers, FiniteSets

CONSTANTS
  Accounts, Interviews,
  Owner,           \* the account of each interview
  Workers,         \* processes running maintenance cycles
  Nobody,          \* "null" for a lease owner or a claim
  Poison,          \* subjects whose purge transaction throws whenever tried
  DueAge,          \* 6 days, in ticks
  DeadlineAge,     \* 7 days
  RetryMargin,     \* the minute before the deadline in which back-off ends
  SafetyWindow,    \* PURGE_DEADLINE_SAFETY_WINDOW_MS
  FenceLease,      \* PURGE_DEADLINE_FENCING_LEASE_DURATION_MS
  LeaseDuration,   \* purgeLeaseDurationMs
  RetryDelay,      \* failedPurgeRetryDelayMs
  AttemptLimit,    \* min(purgeBatchSize, maximumPurgeRequestsPerCycle)
  MaxCrashes       \* bound: how many times a cycle stops half way

Subjects == Accounts \cup Interviews

ASSUME DeletionAssumption ==
  /\ IsFiniteSet(Accounts) /\ IsFiniteSet(Interviews)
  /\ Accounts \cap Interviews = {}
  /\ Owner \in [Interviews -> Accounts]
  /\ Nobody \notin Workers \cup Subjects
  /\ Poison \subseteq Subjects
  /\ {DueAge, DeadlineAge, RetryMargin, SafetyWindow, FenceLease,
      LeaseDuration, RetryDelay, AttemptLimit} \subseteq Nat \ {0}
  /\ MaxCrashes \in Nat
  /\ DueAge < DeadlineAge - RetryMargin
  /\ SafetyWindow <= RetryMargin
  /\ FenceLease <= LeaseDuration

VARIABLES
  accounts,     \* user row: active, deleting (deletion_requested_at) or gone
  sessions,     \* whether the account has a session row
  interviews,   \* interview row: absent, live, deleting or gone
  requests,     \* the deletion request of each subject, if there is one
  before,       \* <<s, t>>: s was attempted (or falls due) before t
  workers,      \* where each maintenance cycle stands
  audits,       \* successful purges audited per subject
  crashes

vars == <<accounts, sessions, interviews, requests, before, workers, audits, crashes>>

data == <<accounts, sessions, interviews, audits>>

(* `age` saturates at the deadline; `lease` is what is left of lease_expires_at *)
(* while processing, `wait` of the back-off after a failure.  Attempt count,   *)
(* lease owner and token hash are one identity of a claim, kept as `holder`.   *)
Request ==
  [status : {"none", "pending", "processing", "failed"},
   age    : 0..DeadlineAge,
   lease  : 0..LeaseDuration,
   wait   : 0..RetryDelay,
   holder : Workers \cup {Nobody}]

NoRequest == [status |-> "none", age |-> 0, lease |-> 0, wait |-> 0, holder |-> Nobody]

FreshRequest == [NoRequest EXCEPT !.status = "pending"]

Worker ==
  [pc : {"idle", "sweeping"}, claim : {Nobody}, attempted : SUBSET Subjects]
    \cup [pc : {"purging", "failing"}, claim : Subjects, attempted : SUBSET Subjects]

IdleWorker == [pc |-> "idle", claim |-> Nobody, attempted |-> {}]

Init ==
  /\ accounts = [a \in Accounts |-> "active"]
  /\ sessions = [a \in Accounts |-> FALSE]
  /\ interviews = [i \in Interviews |-> "absent"]
  /\ requests = [s \in Subjects |-> NoRequest]
  /\ before = {}
  /\ workers = [w \in Workers |-> IdleWorker]
  /\ audits = [s \in Subjects |-> 0]
  /\ crashes = 0

OwnedBy(a) == {i \in Interviews : Owner[i] = a}

Requested(s) == requests[s].status # "none"

IsDue(s) == Requested(s) /\ requests[s].age >= DueAge

IsOverdue(s) == requests[s].age >= DeadlineAge
-------------------------------------------------------------------------------
(* Clients. *)

(* Fault: the session trigger does not look at the account.                *)
FaultAcceptsSession(a) == accounts[a] # "gone"

(* reject_session_for_deleting_user locks the user row and reads its marker; *)
(* without a user row the foreign key refuses the session.                  *)
AcceptsSession(a) == accounts[a] = "active"

IssueSession(a) ==
  /\ ~ sessions[a]
  /\ AcceptsSession(a)
  /\ sessions' = [sessions EXCEPT ![a] = TRUE]
  /\ UNCHANGED <<accounts, interviews, requests, before, workers, audits, crashes>>

(* Sign-out or session expiry. *)
EndSession(a) ==
  /\ sessions[a]
  /\ sessions' = [sessions EXCEPT ![a] = FALSE]
  /\ UNCHANGED <<accounts, interviews, requests, before, workers, audits, crashes>>

(* lockAccountForCreation, then the insert of one transaction. *)
StartInterview(i) ==
  /\ interviews[i] = "absent"
  /\ accounts[Owner[i]] = "active"
  /\ interviews' = [interviews EXCEPT ![i] = "live"]
  /\ UNCHANGED <<accounts, sessions, requests, before, workers, audits, crashes>>

FileRequest(s) ==
  /\ requests' = [requests EXCEPT ![s] = FreshRequest]
  /\ before' = before \cup ({t \in Subjects \ {s} : Requested(t)} \X {s})

(* Nothing is disclosed of another account's or a marked account's         *)
(* interview (null), and a second request changes nothing.                  *)
MarkInterviewDeleting(i) ==
  /\ accounts[Owner[i]] = "active"
  /\ interviews[i] = "live"
  /\ interviews' = [interviews EXCEPT ![i] = "deleting"]
  /\ FileRequest(i)
  /\ UNCHANGED <<accounts, sessions, workers, audits, crashes>>

MarkedInterviews(a) ==
  [i \in Interviews |->
     IF Owner[i] = a /\ interviews[i] = "live" THEN "deleting" ELSE interviews[i]]

(* A repeated call finds nothing left to change. *)
MarkAccountDeleting(a) ==
  /\ accounts[a] = "active"
  /\ accounts' = [accounts EXCEPT ![a] = "deleting"]
  /\ sessions' = [sessions EXCEPT ![a] = FALSE]
  /\ interviews' = MarkedInterviews(a)
  /\ FileRequest(a)
  /\ UNCHANGED <<workers, audits, crashes>>
-------------------------------------------------------------------------------
(* Maintenance cycles.  A cycle claims one request at a time, immediately  *)
(* before its purge, and never the same one twice.                          *)
StartCycle(w) ==
  /\ workers[w].pc = "idle"
  /\ workers' = [workers EXCEPT ![w] = [IdleWorker EXCEPT !.pc = "sweeping"]]
  /\ UNCHANGED <<data, requests, before, crashes>>

Claimable(s) ==
  LET r == requests[s]
  IN  /\ IsDue(s)
      /\ \/ r.status = "pending"
         \/ r.status = "failed" /\ (r.wait = 0 \/ r.age >= DeadlineAge - RetryMargin)
         \/ r.status = "processing" /\ r.lease = 0

Candidates(w) == {s \in Subjects \ workers[w].attempted : Claimable(s)}

(* Fault: due requests are taken youngest attempt first.                   *)
FaultPrecedes(s, t) ==
  \/ IsOverdue(s) /\ ~ IsOverdue(t)
  \/ IsOverdue(s) = IsOverdue(t) /\ <<t, s>> \in before

(* Overdue work first, then the oldest attempt or due time. *)
Precedes(s, t) ==
  \/ IsOverdue(s) /\ ~ IsOverdue(t)
  \/ IsOverdue(s) = IsOverdue(t) /\ <<s, t>> \in before

(* Fault: past the deadline no fencing lease is given.                     *)
FaultLeaseAt(age) ==
  LET left == DeadlineAge - SafetyWindow - age
  IN  IF left < LeaseDuration THEN left ELSE LeaseDuration

LeaseAt(age) ==
  LET left == DeadlineAge - SafetyWindow - age
  IN  IF left > 0 THEN (IF left < LeaseDuration THEN left ELSE LeaseDuration) ELSE FenceLease

Without(s) == {p \in before : p[1] # s /\ p[2] # s}

(* Setting last_attempt_at: behind every due request, still before those   *)
(* whose due time is ahead.                                                 *)
Attempted(s) ==
  LET others == {t \in Subjects \ {s} : Requested(t)}
  IN  Without(s) \cup ({t \in others : IsDue(t)} \X {s})
                \cup ({s} \X {t \in others : ~ IsDue(t)})

ClaimedBy(w, r) ==
  [status |-> "processing", age |-> r.age, lease |-> LeaseAt(r.age), wait |-> 0, holder |-> w]

Claim(w) ==
  /\ workers[w].pc = "sweeping"
  /\ Cardinality(workers[w].attempted) < AttemptLimit
  /\ \E s \in Candidates(w) :
       /\ \A t \in Candidates(w) \ {s} : Precedes(s, t)
       /\ requests' = [requests EXCEPT ![s] = ClaimedBy(w, @)]
       /\ before' = Attempted(s)
       /\ workers' = [workers EXCEPT ![w] = [pc |-> "purging", claim |-> s,
                                             attempted |-> @.attempted \cup {s}]]
  /\ UNCHANGED <<data, crashes>>

EndCycle(w) ==
  /\ workers[w].pc = "sweeping"
  /\ Candidates(w) = {} \/ Cardinality(workers[w].attempted) >= AttemptLimit
  /\ workers' = [workers EXCEPT ![w] = IdleWorker]
  /\ UNCHANGED <<data, requests, before, crashes>>

(* Fault: the claim is not compared with the row's.                        *)
FaultHolds(w, s) == requests[s].status = "processing"

(* Status, attempt count, lease owner and token hash of the claim. *)
Holds(w, s) == requests[s].status = "processing" /\ requests[s].holder = w

MayPurge(w, s) == Holds(w, s) /\ requests[s].lease > 0 /\ requests[s].age >= DueAge

(* Everything an account purge deletes; an interview purge its own only.   *)
Scope(s) == IF s \in Accounts THEN {s} \cup OwnedBy(s) ELSE {s}

(* Fault: an account purge leaves the interviews' own requests behind.     *)
FaultPurgedRequests(s) == [requests EXCEPT ![s] = NoRequest]

PurgedRequests(s) == [t \in Subjects |-> IF t \in Scope(s) THEN NoRequest ELSE requests[t]]

PurgedInterviews(s) ==
  [i \in Interviews |->
     IF i \in Scope(s) /\ interviews[i] # "absent" THEN "gone" ELSE interviews[i]]

(* One transaction: requests, interviews, the account, and its audit rows. *)
Purge(w, s) ==
  /\ workers[w].pc = "purging" /\ workers[w].claim = s
  /\ MayPurge(w, s) /\ s \notin Poison
  /\ requests' = PurgedRequests(s)
  /\ before' = {p \in before : p[1] \notin Scope(s) /\ p[2] \notin Scope(s)}
  /\ interviews' = PurgedInterviews(s)
  /\ accounts' = IF s \in Accounts THEN [accounts EXCEPT ![s] = "gone"] ELSE accounts
  /\ audits' = [audits EXCEPT ![s] = @ + 1]
  /\ workers' = [workers EXCEPT ![w].pc = "sweeping", ![w].claim = Nobody]
  /\ UNCHANGED <<sessions, crashes>>

(* The claim was lost or the transaction threw: nothing is deleted. *)
PurgeFails(w) ==
  /\ workers[w].pc = "purging"
  /\ ~ MayPurge(w, workers[w].claim) \/ workers[w].claim \in Poison
  /\ workers' = [workers EXCEPT ![w].pc = "failing"]
  /\ UNCHANGED <<data, requests, before, crashes>>

Failed(r) ==
  [status |-> "failed", age |-> r.age, lease |-> 0, wait |-> RetryDelay, holder |-> Nobody]

(* recordPurgeFailure asks for the claim but not for its lease. *)
RecordPurgeFailure(w) ==
  LET s == workers[w].claim
  IN  /\ workers[w].pc = "failing"
      /\ Holds(w, s)
      /\ requests' = [requests EXCEPT ![s] = Failed(@)]
      /\ before' = Attempted(s)
      /\ workers' = [workers EXCEPT ![w].pc = "sweeping", ![w].claim = Nobody]
      /\ UNCHANGED <<data, crashes>>

(* "Unable to persist purge failure" ends the cycle, whatever is still due. *)
AbortCycle(w) ==
  /\ workers[w].pc = "failing"
  /\ ~ Holds(w, workers[w].claim)
  /\ workers' = [workers EXCEPT ![w] = IdleWorker]
  /\ UNCHANGED <<data, requests, before, crashes>>

(* The process dies, or loses the database: its claim stays in the row.    *)
Crash(w) ==
  /\ workers[w].pc # "idle"
  /\ crashes < MaxCrashes
  /\ crashes' = crashes + 1
  /\ workers' = [workers EXCEPT ![w] = IdleWorker]
  /\ UNCHANGED <<data, requests, before>>
-------------------------------------------------------------------------------
Down(n) == IF n = 0 THEN 0 ELSE n - 1

Aged(r) ==
  IF r.status = "none" THEN r
  ELSE [r EXCEPT !.age = IF @ < DeadlineAge THEN @ + 1 ELSE @, !.lease = Down(@), !.wait = Down(@)]

(* statement_timestamp() moves on. *)
Tick ==
  /\ requests' = [s \in Subjects |-> Aged(requests[s])]
  /\ requests' # requests
  /\ UNCHANGED <<data, before, workers, crashes>>

ClientStep ==
  \/ \E a \in Accounts : IssueSession(a) \/ EndSession(a) \/ MarkAccountDeleting(a)
  \/ \E i \in Interviews : StartInterview(i) \/ MarkInterviewDeleting(i)

Sweep(w) ==
  \/ StartCycle(w) \/ Claim(w) \/ EndCycle(w)
  \/ \E s \in Subjects : Purge(w, s)
  \/ PurgeFails(w) \/ RecordPurgeFailure(w) \/ AbortCycle(w)

Next ==
  \/ ClientStep
  \/ \E w \in Workers : Sweep(w) \/ Crash(w)
  \/ Tick

Spec == Init /\ [][Next]_vars

(* Every process is started again and again and takes its steps; and a      *)
(* purge that could be made infinitely often is made: a worker is not slower *)
(* than its lease for ever.                                                  *)
FairSpec ==
  /\ Spec
  /\ WF_vars(Tick)
  /\ \A w \in Workers : WF_vars(Sweep(w))
  /\ \A s \in Subjects : SF_vars(\E w \in Workers : Purge(w, s))
-------------------------------------------------------------------------------
TypeOK ==
  /\ accounts \in [Accounts -> {"active", "deleting", "gone"}]
  /\ sessions \in [Accounts -> BOOLEAN]
  /\ interviews \in [Interviews -> {"absent", "live", "deleting", "gone"}]
  /\ requests \in [Subjects -> Request]
  /\ before \subseteq Subjects \X Subjects
  /\ workers \in [Workers -> Worker]
  /\ audits \in [Subjects -> Nat]
  /\ crashes \in 0..MaxCrashes

(* A marked account has no session to be used with and no interview that   *)
(* can still be read, also when a sign-in or a creation was under way while *)
(* it was marked; and nothing marked lacks the request that will purge it.  *)
MarkedIsDark ==
  /\ \A a \in Accounts :
       /\ accounts[a] # "active" =>
            ~ sessions[a] /\ \A i \in OwnedBy(a) : interviews[i] # "live"
       /\ accounts[a] = "deleting" <=> Requested(a)
       /\ accounts[a] = "gone" =>
            \A i \in OwnedBy(a) : interviews[i] \in {"absent", "gone"} /\ ~ Requested(i)
  /\ \A i \in Interviews :
       /\ interviews[i] = "deleting" => Requested(i) \/ Requested(Owner[i])
       /\ Requested(i) => interviews[i] = "deleting"

(* While a lease lasts, only the cycle that took it moves the request on,   *)
(* by its purge or by recording a failure; the one exception is the purge   *)
(* of the whole account.  A cycle whose lease was taken over cannot put the *)
(* request back into failed under its successor.                            *)
LiveLeaseIsHeld ==
  [][\A s \in Subjects :
       LET r == requests[s]
       IN  r.status = "processing" /\ r.lease > 0 /\ requests'[s].holder # r.holder =>
             \/ workers[r.holder].claim = s /\ workers'[r.holder].claim = Nobody
             \/ s \in Interviews /\ accounts'[Owner[s]] = "gone"]_vars

(* Every request whose purge can succeed is erased in the end, although     *)
(* poisoned requests are retried before it, cycles abort and processes die. *)
HealthyIsErased ==
  \A s \in Subjects \ Poison : Requested(s) ~> ~ Requested(s)

Shown(state) ==
  CASE state \in {"active", "live"} -> "kept"
    [] state = "deleting" -> "hidden"
    [] state = "gone" -> "erased"
    [] OTHER -> state

Promise == INSTANCE ErasureContract WITH
  account <- [a \in Accounts |-> Shown(accounts[a])],
  interview <- [i \in Interviews |-> Shown(interviews[i])],
  asked <- {s \in Subjects : Requested(s)},
  ripe <- {s \in Subjects : IsDue(s)},
  records <- audits

(* Marking hides at once and purging erases as a whole, once, recorded      *)
(* once, and never before the request is due.                               *)
KeepsThePromise == Promise!Spec
===============================================================================
