------------------------- MODULE AccountDeletionProofs -------------------------
(***************************************************************************)
(* AccountDeletion for any accounts, interviews, workers and times: types, *)
(* the darkness of what is marked, exclusive leases, and the refinement of *)
(* ErasureContract.                                                        *)
(***************************************************************************)
EXTENDS AccountDeletion, TLAPS

LEMMA Bounds ==
  /\ DueAge \in Nat /\ DeadlineAge \in Nat /\ RetryMargin \in Nat /\ SafetyWindow \in Nat
  /\ FenceLease \in Nat /\ LeaseDuration \in Nat /\ RetryDelay \in Nat /\ AttemptLimit \in Nat
  /\ DueAge < DeadlineAge /\ FenceLease <= LeaseDuration /\ SafetyWindow <= DeadlineAge
BY DeletionAssumption

LEMMA LeaseType ==
  ASSUME NEW age \in 0..DeadlineAge
  PROVE  LeaseAt(age) \in 0..LeaseDuration
BY Bounds DEF LeaseAt

LEMMA AgedType ==
  ASSUME NEW r \in Request
  PROVE  Aged(r) \in Request /\ Aged(r).status = r.status /\ Aged(r).holder = r.holder
<1>1. r.age \in Nat /\ r.lease \in Nat /\ r.wait \in Nat
  BY Bounds DEF Request
<1>2. Down(r.lease) \in 0..LeaseDuration /\ Down(r.wait) \in 0..RetryDelay
  BY <1>1, Bounds DEF Down, Request
<1>3. (IF r.age < DeadlineAge THEN r.age + 1 ELSE r.age) \in 0..DeadlineAge
  BY <1>1, Bounds DEF Request
<1>4. QED
  BY <1>2, <1>3 DEF Aged, Request

LEMMA FreshType == NoRequest \in Request /\ FreshRequest \in Request
BY Bounds DEF NoRequest, FreshRequest, Request

LEMMA InitTyped == Init => TypeOK
<1>1. IdleWorker \in Worker
  BY DEF IdleWorker, Worker
<1>2. QED
  BY <1>1, FreshType, DeletionAssumption DEF Init, TypeOK

LEMMA ClientStepTyped ==
  ASSUME TypeOK, ClientStep
  PROVE  TypeOK'
<1>1. ASSUME NEW s \in Subjects, FileRequest(s)
      PROVE  requests' \in [Subjects -> Request] /\ before' \subseteq Subjects \X Subjects
  BY <1>1, FreshType DEF FileRequest, TypeOK
<1>2. CASE \E a \in Accounts : IssueSession(a) \/ EndSession(a)
  BY <1>2 DEF IssueSession, EndSession, TypeOK
<1>3. CASE \E a \in Accounts : MarkAccountDeleting(a)
  BY <1>1, <1>3 DEF MarkAccountDeleting, MarkedInterviews, TypeOK, Subjects
<1>4. CASE \E i \in Interviews : StartInterview(i)
  BY <1>4 DEF StartInterview, TypeOK
<1>5. CASE \E i \in Interviews : MarkInterviewDeleting(i)
  BY <1>1, <1>5 DEF MarkInterviewDeleting, TypeOK, Subjects
<1>6. QED
  BY <1>2, <1>3, <1>4, <1>5 DEF ClientStep

LEMMA ClaimedType ==
  ASSUME NEW r \in Request, NEW w \in Workers
  PROVE  ClaimedBy(w, r) \in Request
<1>1. LeaseAt(r.age) \in 0..LeaseDuration
  BY LeaseType DEF Request
<1>2. QED
  BY <1>1, Bounds DEF ClaimedBy, Request

LEMMA FailedType ==
  ASSUME NEW r \in Request
  PROVE  Failed(r) \in Request
BY Bounds DEF Failed, Request

LEMMA AttemptedType ==
  ASSUME NEW s \in Subjects, before \subseteq Subjects \X Subjects
  PROVE  Attempted(s) \subseteq Subjects \X Subjects
BY DEF Attempted, Without

LEMMA ClaimTyped ==
  ASSUME TypeOK, NEW w \in Workers, Claim(w)
  PROVE  TypeOK'
<1>1. PICK s \in Subjects :
        /\ requests' = [requests EXCEPT ![s] = ClaimedBy(w, @)]
        /\ before' = Attempted(s)
        /\ workers' = [workers EXCEPT ![w] = [pc |-> "purging", claim |-> s,
                                              attempted |-> @.attempted \cup {s}]]
  BY DEF Claim, Candidates
<1>2. requests[s] \in Request /\ requests[s].age \in 0..DeadlineAge
  BY DEF TypeOK, Request
<1>3. requests' \in [Subjects -> Request]
  BY <1>1, <1>2, ClaimedType DEF TypeOK
<1>4. before' \subseteq Subjects \X Subjects
  BY <1>1, AttemptedType DEF TypeOK
<1>5. workers' \in [Workers -> Worker]
  BY <1>1 DEF TypeOK, Worker
<1>6. UNCHANGED <<data, crashes>>
  BY DEF Claim
<1>7. QED
  BY <1>3, <1>4, <1>5, <1>6 DEF TypeOK, data

LEMMA PurgeTyped ==
  ASSUME TypeOK, NEW w \in Workers, NEW s \in Subjects, Purge(w, s)
  PROVE  TypeOK'
<1>1. requests' \in [Subjects -> Request]
  BY FreshType DEF Purge, PurgedRequests, TypeOK
<1>2. before' \subseteq Subjects \X Subjects
  BY DEF Purge, TypeOK
<1>3. interviews' \in [Interviews -> {"absent", "live", "deleting", "gone"}]
  BY DEF Purge, PurgedInterviews, TypeOK
<1>4. accounts' \in [Accounts -> {"active", "deleting", "gone"}]
  BY DEF Purge, TypeOK
<1>5. workers' \in [Workers -> Worker]
  BY DEF Purge, TypeOK, Worker
<1>6. audits' \in [Subjects -> Nat]
  BY DEF Purge, TypeOK
<1>7. QED
  BY <1>1, <1>2, <1>3, <1>4, <1>5, <1>6 DEF Purge, TypeOK

LEMMA RecordFailureTyped ==
  ASSUME TypeOK, NEW w \in Workers, RecordPurgeFailure(w)
  PROVE  TypeOK'
<1> DEFINE s == workers[w].claim
<1>1. s \in Subjects
  BY DEF TypeOK, Worker, RecordPurgeFailure
<1>2. requests' \in [Subjects -> Request]
  BY <1>1, FailedType DEF TypeOK, RecordPurgeFailure
<1>3. before' \subseteq Subjects \X Subjects
  BY <1>1, AttemptedType DEF TypeOK, RecordPurgeFailure
<1>4. workers' \in [Workers -> Worker]
  BY DEF TypeOK, Worker, RecordPurgeFailure
<1>5. QED
  BY <1>2, <1>3, <1>4 DEF TypeOK, RecordPurgeFailure, data

LEMMA TickTyped ==
  ASSUME TypeOK, Tick
  PROVE  TypeOK'
BY AgedType DEF Tick, TypeOK, data

LEMMA TickRequests ==
  ASSUME TypeOK, Tick
  PROVE  \A s \in Subjects : Requested(s)' = Requested(s)
BY AgedType DEF Tick, Requested, TypeOK

LEMMA WorkerStepTyped ==
  ASSUME TypeOK, NEW w \in Workers, Sweep(w) \/ Crash(w)
  PROVE  TypeOK'
<1>1. CASE StartCycle(w)
  BY <1>1 DEF StartCycle, IdleWorker, Worker, TypeOK, data
<1>2. CASE Claim(w)
  BY <1>2, ClaimTyped
<1>3. CASE EndCycle(w)
  BY <1>3 DEF EndCycle, IdleWorker, Worker, TypeOK, data
<1>4. CASE \E s \in Subjects : Purge(w, s)
  BY <1>4, PurgeTyped
<1>5. CASE PurgeFails(w)
  BY <1>5 DEF PurgeFails, Worker, TypeOK, data
<1>6. CASE RecordPurgeFailure(w)
  BY <1>6, RecordFailureTyped
<1>7. CASE AbortCycle(w)
  BY <1>7 DEF AbortCycle, IdleWorker, Worker, TypeOK, data
<1>8. CASE Crash(w)
  <2>1. crashes' \in 0..MaxCrashes
    BY <1>8, DeletionAssumption DEF Crash, TypeOK
  <2>2. QED
    BY <1>8, <2>1 DEF Crash, IdleWorker, Worker, TypeOK, data
<1>9. QED
  BY <1>1, <1>2, <1>3, <1>4, <1>5, <1>6, <1>7, <1>8 DEF Sweep

(* Every marking, claim, purge, failure and crash keeps accounts, requests  *)
(* and workers within their types, leases never longer than configured.     *)
THEOREM TypeCorrect == Spec => []TypeOK
<1>1. TypeOK /\ UNCHANGED vars => TypeOK'
  BY DEF TypeOK, vars
<1>2. TypeOK /\ [Next]_vars => TypeOK'
  BY <1>1, ClientStepTyped, WorkerStepTyped, TickTyped DEF Next
<1>3. QED
  BY InitTyped, <1>2, PTL DEF Spec
-------------------------------------------------------------------------------
(* Darkness.  With the types MarkedIsDark is inductive.                     *)

Safe == TypeOK /\ MarkedIsDark

LEMMA InitDark == Init => MarkedIsDark
BY DeletionAssumption DEF Init, MarkedIsDark, Requested, NoRequest, OwnedBy, Subjects

LEMMA QuietStepDark ==
  ASSUME MarkedIsDark, UNCHANGED <<accounts, sessions, interviews>>,
         \A s \in Subjects : Requested(s)' = Requested(s)
  PROVE  MarkedIsDark'
BY DeletionAssumption DEF MarkedIsDark, OwnedBy, Subjects

LEMMA FilingRequests ==
  ASSUME TypeOK, NEW s \in Subjects, FileRequest(s), NEW t \in Subjects
  PROVE  Requested(t)' <=> (t = s \/ Requested(t))
BY DEF FileRequest, Requested, FreshRequest, NoRequest, TypeOK

LEMMA MarkInterviewDark ==
  ASSUME Safe, NEW i \in Interviews, MarkInterviewDeleting(i)
  PROVE  MarkedIsDark'
<1>1. \A t \in Subjects : Requested(t)' <=> (t = i \/ Requested(t))
  BY FilingRequests DEF Safe, MarkInterviewDeleting, Subjects
<1>2. \A a \in Accounts : a # i /\ a \in Subjects
  BY DeletionAssumption DEF Subjects
<1>3. \A j \in Interviews : interviews'[j] = IF j = i THEN "deleting" ELSE interviews[j]
  BY DEF MarkInterviewDeleting, Safe, TypeOK
<1>4. UNCHANGED <<accounts, sessions>> /\ accounts[Owner[i]] = "active"
  BY DEF MarkInterviewDeleting
<1>5. \A a \in Accounts :
        /\ accounts'[a] # "active" => ~ sessions'[a] /\ \A j \in OwnedBy(a) : interviews'[j] # "live"
        /\ accounts'[a] = "deleting" <=> Requested(a)'
  BY <1>1, <1>2, <1>3, <1>4 DEF Safe, MarkedIsDark, OwnedBy
<1>6. \A a \in Accounts : accounts'[a] = "gone" =>
        \A j \in OwnedBy(a) : interviews'[j] \in {"absent", "gone"} /\ ~ Requested(j)'
  <2> SUFFICES ASSUME NEW a \in Accounts, accounts'[a] = "gone", NEW j \in OwnedBy(a)
               PROVE  interviews'[j] \in {"absent", "gone"} /\ ~ Requested(j)'
    OBVIOUS
  <2>1. j # i /\ j \in Interviews
    BY <1>4 DEF OwnedBy
  <2>2. QED
    BY <1>1, <1>3, <1>4, <2>1 DEF Safe, MarkedIsDark, Subjects
<1>7. \A j \in Interviews :
        /\ interviews'[j] = "deleting" => Requested(j)' \/ Requested(Owner[j])'
        /\ Requested(j)' => interviews'[j] = "deleting"
  BY <1>1, <1>3, DeletionAssumption DEF Safe, MarkedIsDark, Subjects
<1>8. QED
  BY <1>5, <1>6, <1>7 DEF MarkedIsDark, OwnedBy

LEMMA MarkAccountDark ==
  ASSUME Safe, NEW a \in Accounts, MarkAccountDeleting(a)
  PROVE  MarkedIsDark'
<1>1. \A t \in Subjects : Requested(t)' <=> (t = a \/ Requested(t))
  BY FilingRequests DEF Safe, MarkAccountDeleting, Subjects
<1>2. \A i \in Interviews : i # a /\ i \in Subjects
  BY DeletionAssumption DEF Subjects
<1>3. \A i \in Interviews :
        interviews'[i] = IF Owner[i] = a /\ interviews[i] = "live" THEN "deleting" ELSE interviews[i]
  BY DEF MarkAccountDeleting, MarkedInterviews
<1>4. \A b \in Accounts :
        /\ accounts'[b] = IF b = a THEN "deleting" ELSE accounts[b]
        /\ sessions'[b] = IF b = a THEN FALSE ELSE sessions[b]
  BY DEF MarkAccountDeleting, Safe, TypeOK
<1>5. \A b \in Accounts :
        /\ accounts'[b] # "active" => ~ sessions'[b] /\ \A i \in OwnedBy(b) : interviews'[i] # "live"
        /\ accounts'[b] = "deleting" <=> Requested(b)'
  <2> TAKE b \in Accounts
  <2>1. \A i \in OwnedBy(b) : i \in Interviews /\ Owner[i] = b
    BY DEF OwnedBy
  <2>2. accounts'[b] # "active" => ~ sessions'[b] /\ \A i \in OwnedBy(b) : interviews'[i] # "live"
    BY <1>3, <1>4, <2>1 DEF Safe, MarkedIsDark
  <2>3. accounts'[b] = "deleting" <=> Requested(b)'
    BY <1>1, <1>4 DEF Safe, MarkedIsDark, Subjects
  <2>4. QED
    BY <2>2, <2>3
<1>6. \A b \in Accounts : accounts'[b] = "gone" =>
        \A i \in OwnedBy(b) : interviews'[i] \in {"absent", "gone"} /\ ~ Requested(i)'
  BY <1>1, <1>2, <1>3, <1>4 DEF Safe, MarkedIsDark, OwnedBy
<1>7. \A i \in Interviews :
        /\ interviews'[i] = "deleting" => Requested(i)' \/ Requested(Owner[i])'
        /\ Requested(i)' => interviews'[i] = "deleting"
  BY <1>1, <1>2, <1>3, DeletionAssumption DEF Safe, MarkedIsDark, Subjects
<1>8. QED
  BY <1>5, <1>6, <1>7 DEF MarkedIsDark, OwnedBy

(* A cycle purges only what has a request, so only a marked account, which  *)
(* has no session.                                                          *)
LEMMA PurgeDark ==
  ASSUME Safe, NEW w \in Workers, NEW s \in Subjects, Purge(w, s)
  PROVE  MarkedIsDark'
<1>1. Requested(s)
  BY DEF Purge, MayPurge, Holds, Requested
<1>2. \A t \in Subjects : Requested(t)' <=> (Requested(t) /\ t \notin Scope(s))
  BY DEF Purge, PurgedRequests, Requested, NoRequest
<1>3. \A i \in Interviews :
        interviews'[i] = IF i \in Scope(s) /\ interviews[i] # "absent" THEN "gone" ELSE interviews[i]
  BY DEF Purge, PurgedInterviews
<1>4. \A a \in Accounts : accounts'[a] = IF a = s THEN "gone" ELSE accounts[a]
  BY DEF Purge, Safe, TypeOK
<1>5. \A a \in Accounts : a \in Scope(s) <=> a = s
  BY DeletionAssumption DEF Scope, OwnedBy
<1>6. \A i \in Interviews : i \in Scope(s) <=> (i = s \/ Owner[i] = s)
  BY DeletionAssumption DEF Scope, OwnedBy, Subjects
<1>7. UNCHANGED sessions
  BY DEF Purge
<1>8. \A a \in Accounts :
        /\ accounts'[a] # "active" => ~ sessions'[a] /\ \A i \in OwnedBy(a) : interviews'[i] # "live"
        /\ accounts'[a] = "deleting" <=> Requested(a)'
  BY <1>1, <1>2, <1>3, <1>4, <1>5, <1>7 DEF Safe, MarkedIsDark, OwnedBy, Subjects
<1>9. \A a \in Accounts : accounts'[a] = "gone" =>
        \A i \in OwnedBy(a) : interviews'[i] \in {"absent", "gone"} /\ ~ Requested(i)'
  BY <1>2, <1>3, <1>4, <1>6 DEF Safe, MarkedIsDark, OwnedBy, Subjects
<1>10. \A i \in Interviews :
        /\ interviews'[i] = "deleting" => Requested(i)' \/ Requested(Owner[i])'
        /\ Requested(i)' => interviews'[i] = "deleting"
  <2> TAKE i \in Interviews
  <2>1. Owner[i] \in Accounts /\ Owner[i] \in Subjects /\ i \in Subjects
    BY DeletionAssumption DEF Subjects
  <2>2. QED
    BY <1>2, <1>3, <1>5, <1>6, <2>1 DEF Safe, MarkedIsDark
<1>11. QED
  BY <1>8, <1>9, <1>10 DEF MarkedIsDark, OwnedBy

LEMMA ClientStepDark ==
  ASSUME Safe, ClientStep
  PROVE  MarkedIsDark'
<1>1. CASE \E a \in Accounts : IssueSession(a)
  BY <1>1 DEF IssueSession, AcceptsSession, Safe, TypeOK, MarkedIsDark, Requested, OwnedBy
<1>2. CASE \E a \in Accounts : EndSession(a)
  BY <1>2 DEF EndSession, Safe, TypeOK, MarkedIsDark, Requested, OwnedBy
<1>3. CASE \E a \in Accounts : MarkAccountDeleting(a)
  BY <1>3, MarkAccountDark
<1>4. CASE \E i \in Interviews : StartInterview(i)
  BY <1>4 DEF StartInterview, Safe, TypeOK, MarkedIsDark, Requested, OwnedBy
<1>5. CASE \E i \in Interviews : MarkInterviewDeleting(i)
  BY <1>5, MarkInterviewDark
<1>6. QED
  BY <1>1, <1>2, <1>3, <1>4, <1>5 DEF ClientStep

(* Claims, failures and crashes change nothing about who is to be purged.   *)
LEMMA RequestsStay ==
  ASSUME TypeOK, NEW w \in Workers,
         \/ StartCycle(w) \/ Claim(w) \/ EndCycle(w) \/ PurgeFails(w)
         \/ RecordPurgeFailure(w) \/ AbortCycle(w) \/ Crash(w)
  PROVE  /\ \A s \in Subjects : Requested(s)' = Requested(s)
         /\ UNCHANGED data
<1>1. CASE StartCycle(w) \/ EndCycle(w) \/ PurgeFails(w) \/ AbortCycle(w) \/ Crash(w)
  BY <1>1 DEF StartCycle, EndCycle, PurgeFails, AbortCycle, Crash, data, Requested
<1>2. CASE Claim(w)
  BY <1>2 DEF Claim, Candidates, Claimable, IsDue, ClaimedBy, data, Requested, TypeOK
<1>3. CASE RecordPurgeFailure(w)
  BY <1>3 DEF RecordPurgeFailure, Holds, Failed, data, Requested, TypeOK
<1>4. QED
  BY <1>1, <1>2, <1>3

LEMMA StepDark ==
  ASSUME Safe, Next
  PROVE  MarkedIsDark'
<1>1. CASE ClientStep
  BY <1>1, ClientStepDark
<1>2. CASE \E w \in Workers, s \in Subjects : Purge(w, s)
  BY <1>2, PurgeDark
<1>3. ASSUME NEW w \in Workers,
             \/ StartCycle(w) \/ Claim(w) \/ EndCycle(w) \/ PurgeFails(w)
             \/ RecordPurgeFailure(w) \/ AbortCycle(w) \/ Crash(w)
      PROVE  MarkedIsDark'
  BY <1>3, RequestsStay, QuietStepDark DEF Safe, data
<1>4. CASE Tick
  BY <1>4, TickRequests, QuietStepDark DEF Safe, Tick, data
<1>5. QED
  BY <1>1, <1>2, <1>3, <1>4 DEF Next, Sweep

LEMMA AlwaysSafe == Spec => []Safe
<1>1. Init => Safe
  BY InitTyped, InitDark DEF Safe
<1>2. Safe /\ [Next]_vars => MarkedIsDark'
  <2>1. MarkedIsDark /\ UNCHANGED vars => MarkedIsDark'
    BY DEF MarkedIsDark, vars, Requested, OwnedBy
  <2>2. QED
    BY <2>1, StepDark DEF Safe
<1>3. (TypeOK /\ TypeOK') /\ Safe /\ [Next]_vars => Safe'
  BY <1>2 DEF Safe
<1>4. QED
  BY <1>1, <1>3, TypeCorrect, PTL DEF Spec

(* For any accounts, interviews and workers: what is marked has neither a   *)
(* session nor a readable interview, and a request that will purge it.       *)
THEOREM Dark == Spec => []MarkedIsDark
BY AlwaysSafe, PTL DEF Safe
-------------------------------------------------------------------------------
(* Leases. *)

(* The body of LiveLeaseIsHeld. *)
LeaseKept(s) ==
  requests[s].status = "processing" /\ requests[s].lease > 0
      /\ requests'[s].holder # requests[s].holder =>
    \/ workers[requests[s].holder].claim = s /\ workers'[requests[s].holder].claim = Nobody
    \/ s \in Interviews /\ accounts'[Owner[s]] = "gone"

LEMMA FilingKeepsLeases ==
  ASSUME TypeOK, NEW t \in Subjects, ~ Requested(t), FileRequest(t), NEW s \in Subjects
  PROVE  LeaseKept(s)
BY DEF FileRequest, Requested, LeaseKept, TypeOK

LEMMA MarkingKeepsLeases ==
  ASSUME Safe, ClientStep, NEW s \in Subjects
  PROVE  LeaseKept(s)
<1>1. CASE \E a \in Accounts : IssueSession(a) \/ EndSession(a)
  BY <1>1 DEF IssueSession, EndSession, LeaseKept
<1>2. CASE \E i \in Interviews : StartInterview(i)
  BY <1>2 DEF StartInterview, LeaseKept
<1>3. CASE \E a \in Accounts : MarkAccountDeleting(a)
  BY <1>3, FilingKeepsLeases DEF MarkAccountDeleting, Safe, MarkedIsDark, Subjects
<1>4. CASE \E i \in Interviews : MarkInterviewDeleting(i)
  BY <1>4, FilingKeepsLeases DEF MarkInterviewDeleting, Safe, MarkedIsDark, Subjects
<1>5. QED
  BY <1>1, <1>2, <1>3, <1>4 DEF ClientStep

(* Whoever purges or records a failure holds the claim, and lets go of it.  *)
LEMMA PurgeKeepsLeases ==
  ASSUME TypeOK, NEW w \in Workers, NEW t \in Subjects, Purge(w, t), NEW s \in Subjects
  PROVE  LeaseKept(s)
<1>1. CASE s = t
  <2>1. requests[s].holder = w /\ workers[w].claim = s
    BY <1>1 DEF Purge, MayPurge, Holds
  <2>2. workers'[w].claim = Nobody
    BY DEF Purge, TypeOK, Worker
  <2>3. QED
    BY <2>1, <2>2 DEF LeaseKept
<1>2. CASE s # t /\ s \in Scope(t)
  <2>1. t \in Accounts /\ s \in Interviews /\ Owner[s] = t
    BY <1>2 DEF Scope, OwnedBy
  <2>2. accounts'[t] = "gone"
    BY <2>1 DEF Purge, TypeOK
  <2>3. QED
    BY <2>1, <2>2 DEF LeaseKept
<1>3. CASE s \notin Scope(t)
  BY <1>3 DEF Purge, PurgedRequests, LeaseKept
<1>4. QED
  BY <1>1, <1>2, <1>3

(* A claim takes a request that is not under a live lease.                  *)
LEMMA ClaimKeepsLeases ==
  ASSUME TypeOK, NEW w \in Workers, Claim(w), NEW s \in Subjects
  PROVE  LeaseKept(s)
<1>1. PICK t \in Subjects : /\ Claimable(t)
                            /\ requests' = [requests EXCEPT ![t] = ClaimedBy(w, @)]
  BY DEF Claim, Candidates
<1>2. ~ (requests[t].status = "processing" /\ requests[t].lease > 0)
  BY <1>1, Bounds DEF Claimable, TypeOK, Request
<1>3. s # t => requests'[s] = requests[s]
  BY <1>1 DEF TypeOK
<1>4. QED
  BY <1>2, <1>3 DEF LeaseKept

LEMMA RecordingKeepsLeases ==
  ASSUME TypeOK, NEW w \in Workers, RecordPurgeFailure(w), NEW s \in Subjects
  PROVE  LeaseKept(s)
<1>1. CASE s = workers[w].claim
  <2>1. requests[s].holder = w
    BY <1>1 DEF RecordPurgeFailure, Holds
  <2>2. workers'[w].claim = Nobody
    BY DEF RecordPurgeFailure, TypeOK, Worker
  <2>3. QED
    BY <1>1, <2>1, <2>2 DEF LeaseKept
<1>2. CASE s # workers[w].claim
  BY <1>2 DEF RecordPurgeFailure, LeaseKept, TypeOK
<1>3. QED
  BY <1>1, <1>2

LEMMA StepKeepsLeases ==
  ASSUME Safe, [Next]_vars, NEW s \in Subjects
  PROVE  LeaseKept(s)
<1>1. CASE UNCHANGED vars
  BY <1>1 DEF vars, LeaseKept
<1>2. CASE ClientStep
  BY <1>2, MarkingKeepsLeases
<1>3. CASE Tick
  BY <1>3, AgedType DEF Tick, LeaseKept, Safe, TypeOK
<1>4. ASSUME NEW w \in Workers, Sweep(w) \/ Crash(w)
      PROVE  LeaseKept(s)
  <2>1. CASE StartCycle(w) \/ EndCycle(w) \/ PurgeFails(w) \/ AbortCycle(w) \/ Crash(w)
    BY <2>1 DEF StartCycle, EndCycle, PurgeFails, AbortCycle, Crash, LeaseKept
  <2>2. CASE Claim(w)
    BY <2>2, ClaimKeepsLeases DEF Safe
  <2>3. CASE \E t \in Subjects : Purge(w, t)
    BY <2>3, PurgeKeepsLeases DEF Safe
  <2>4. CASE RecordPurgeFailure(w)
    BY <2>4, RecordingKeepsLeases DEF Safe
  <2>5. QED
    BY <1>4, <2>1, <2>2, <2>3, <2>4 DEF Sweep
<1>5. QED
  BY <1>1, <1>2, <1>3, <1>4 DEF Next

(* For any number of cycles, crashes and lease times: while a lease lasts,  *)
(* only the cycle that took it ends the claim, but for an account's purge.   *)
THEOREM LeasesHeld == Spec => LiveLeaseIsHeld
<1>1. Safe /\ [Next]_vars =>
        \A s \in Subjects :
          LET r == requests[s]
          IN  r.status = "processing" /\ r.lease > 0 /\ requests'[s].holder # r.holder =>
                \/ workers[r.holder].claim = s /\ workers'[r.holder].claim = Nobody
                \/ s \in Interviews /\ accounts'[Owner[s]] = "gone"
  BY StepKeepsLeases DEF LeaseKept
<1>2. QED
  BY <1>1, AlwaysSafe, PTL DEF Spec, LiveLeaseIsHeld
-------------------------------------------------------------------------------
(* The refinement of ErasureContract. *)

LEMMA ShownStates ==
  /\ Shown("active") = "kept" /\ Shown("live") = "kept"
  /\ Shown("deleting") = "hidden" /\ Shown("gone") = "erased" /\ Shown("absent") = "absent"
BY DEF Shown

LEMMA InitPromised == Init => Promise!Init
BY ShownStates DEF Init, Promise!Init, Subjects, Requested, NoRequest, IsDue

(* What changes no state, no audit, no request and no due time keeps still. *)
LEMMA StutterPromised ==
  ASSUME UNCHANGED <<accounts, interviews, audits>>,
         \A s \in Subjects : Requested(s)' = Requested(s) /\ IsDue(s)' = IsDue(s)
  PROVE  UNCHANGED Promise!promised
BY DEF Promise!promised, Subjects

LEMMA SweepStutters ==
  ASSUME TypeOK, NEW w \in Workers,
         \/ StartCycle(w) \/ Claim(w) \/ EndCycle(w) \/ PurgeFails(w)
         \/ RecordPurgeFailure(w) \/ AbortCycle(w) \/ Crash(w)
  PROVE  UNCHANGED Promise!promised
<1>1. \A s \in Subjects : requests'[s].age = requests[s].age
  <2>1. CASE StartCycle(w) \/ EndCycle(w) \/ PurgeFails(w) \/ AbortCycle(w) \/ Crash(w)
    BY <2>1 DEF StartCycle, EndCycle, PurgeFails, AbortCycle, Crash
  <2>2. CASE Claim(w)
    BY <2>2 DEF Claim, Candidates, ClaimedBy, TypeOK
  <2>3. CASE RecordPurgeFailure(w)
    BY <2>3 DEF RecordPurgeFailure, Failed, TypeOK
  <2>4. QED
    BY <2>1, <2>2, <2>3
<1>2. \A s \in Subjects : Requested(s)' = Requested(s) /\ IsDue(s)' = IsDue(s)
  BY <1>1, RequestsStay DEF IsDue
<1>3. QED
  BY <1>2, RequestsStay, StutterPromised DEF data

LEMMA TickPromised ==
  ASSUME TypeOK, Tick
  PROVE  Promise!Ripen
<1>1. \A s \in Subjects : Requested(s)' = Requested(s)
  BY TickRequests
<1>2. \A s \in Subjects : IsDue(s) => IsDue(s)'
  <2> SUFFICES ASSUME NEW s \in Subjects, IsDue(s)
               PROVE  IsDue(s)'
    OBVIOUS
  <2>1. requests[s] \in Request /\ requests'[s] = Aged(requests[s])
    BY DEF Tick, TypeOK
  <2>2. requests[s].age \in Nat /\ Aged(requests[s]).age >= requests[s].age
    BY <2>1, Bounds DEF Aged, Request
  <2>3. Aged(requests[s]).age \in Nat
    BY <2>1, AgedType, Bounds DEF Request
  <2>4. QED
    BY <1>1, <2>1, <2>2, <2>3, Bounds DEF IsDue
<1>3. \A s \in Subjects : IsDue(s)' => Requested(s)
  BY <1>1 DEF IsDue
<1>4. UNCHANGED <<accounts, interviews, audits>>
  BY DEF Tick, data
<1>5. QED
  BY <1>1, <1>2, <1>3, <1>4 DEF Promise!Ripen, Subjects

LEMMA FilingIsNotDue ==
  ASSUME TypeOK, NEW t \in Subjects, FileRequest(t), ~ Requested(t), NEW s \in Subjects
  PROVE  /\ Requested(s)' <=> (s = t \/ Requested(s))
         /\ IsDue(s)' <=> IsDue(s)
<1>1. ~ (0 >= DueAge)
  BY Bounds, DeletionAssumption
<1>2. requests'[s] = IF s = t THEN FreshRequest ELSE requests[s]
  BY DEF FileRequest, TypeOK
<1>3. FreshRequest.age = 0 /\ FreshRequest.status = "pending"
  BY DEF FreshRequest, NoRequest
<1>4. QED
  BY <1>1, <1>2, <1>3 DEF Requested, IsDue

LEMMA StartPromised ==
  ASSUME TypeOK, NEW i \in Interviews, StartInterview(i)
  PROVE  Promise!Create(i)
BY ShownStates, DeletionAssumption DEF StartInterview, Promise!Create, Subjects, Requested, IsDue, TypeOK

LEMMA MarkInterviewPromised ==
  ASSUME Safe, NEW i \in Interviews, MarkInterviewDeleting(i)
  PROVE  Promise!HideInterview(i)
<1>1. i \in Subjects /\ ~ Requested(i)
  BY DEF MarkInterviewDeleting, Safe, MarkedIsDark, Subjects
<1>2. \A s \in Subjects : (Requested(s)' <=> (s = i \/ Requested(s))) /\ (IsDue(s)' <=> IsDue(s))
  BY <1>1, FilingIsNotDue DEF MarkInterviewDeleting, Safe
<1>3. Owner[i] \in Accounts
  BY DeletionAssumption
<1>4. QED
  BY <1>1, <1>2, <1>3, ShownStates
     DEF MarkInterviewDeleting, Promise!HideInterview, Subjects, Safe, TypeOK

LEMMA MarkAccountPromised ==
  ASSUME Safe, NEW a \in Accounts, MarkAccountDeleting(a)
  PROVE  Promise!HideAccount(a)
<1>1. a \in Subjects /\ ~ Requested(a)
  BY DEF MarkAccountDeleting, Safe, MarkedIsDark, Subjects
<1>2. \A s \in Subjects : (Requested(s)' <=> (s = a \/ Requested(s))) /\ (IsDue(s)' <=> IsDue(s))
  BY <1>1, FilingIsNotDue DEF MarkAccountDeleting, Safe
<1>3. [i \in Interviews |-> Shown(interviews'[i])] =
        [i \in Interviews |-> IF Owner[i] = a /\ Shown(interviews[i]) = "kept" THEN "hidden"
                              ELSE Shown(interviews[i])]
  BY ShownStates DEF MarkAccountDeleting, MarkedInterviews, Safe, TypeOK
<1>4. QED
  BY <1>1, <1>2, <1>3, ShownStates
     DEF MarkAccountDeleting, Promise!HideAccount, Subjects, Safe, TypeOK

LEMMA PurgePromised ==
  ASSUME Safe, NEW w \in Workers, NEW s \in Subjects, Purge(w, s)
  PROVE  Promise!Erase(s)
<1>1. Scope(s) \subseteq Promise!Belongings(s)
  BY DEF Scope, OwnedBy, Promise!Belongings
<1>2. Promise!Belongings(s) \subseteq Scope(s)
  BY DeletionAssumption DEF Scope, OwnedBy, Promise!Belongings, Subjects
<1>3. IsDue(s)
  BY DEF Purge, MayPurge, Holds, IsDue, Requested
<1>4. \A t \in Subjects : /\ Requested(t)' <=> (Requested(t) /\ t \notin Scope(s))
                          /\ IsDue(t)' <=> (IsDue(t) /\ t \notin Scope(s))
  BY DEF Purge, PurgedRequests, Requested, IsDue, NoRequest
<1>5. [a \in Accounts |-> Shown(accounts'[a])] =
        [a \in Accounts |-> IF a = s THEN "erased" ELSE Shown(accounts[a])]
  BY ShownStates DEF Purge, Safe, TypeOK
<1>6. [i \in Interviews |-> Shown(interviews'[i])] =
        [i \in Interviews |-> IF i \in Scope(s) /\ Shown(interviews[i]) # "absent" THEN "erased"
                              ELSE Shown(interviews[i])]
  BY ShownStates DEF Purge, PurgedInterviews, Safe, TypeOK
<1>7. audits' = [audits EXCEPT ![s] = audits[s] + 1]
  BY DEF Purge
<1>8. QED
  BY <1>1, <1>2, <1>3, <1>4, <1>5, <1>6, <1>7 DEF Promise!Erase, Subjects

LEMMA StepPromised ==
  ASSUME Safe, [Next]_vars
  PROVE  [Promise!Next]_(Promise!promised)
<1>1. CASE UNCHANGED vars
  BY <1>1, StutterPromised DEF vars, Requested, IsDue
<1>2. CASE ClientStep
  <2>1. CASE \E a \in Accounts : IssueSession(a) \/ EndSession(a)
    BY <2>1, StutterPromised DEF IssueSession, EndSession, Requested, IsDue
  <2>2. CASE \E i \in Interviews : StartInterview(i)
    BY <2>2, StartPromised DEF Safe, Promise!Next
  <2>3. CASE \E a \in Accounts : MarkAccountDeleting(a)
    BY <2>3, MarkAccountPromised DEF Promise!Next
  <2>4. CASE \E i \in Interviews : MarkInterviewDeleting(i)
    BY <2>4, MarkInterviewPromised DEF Promise!Next
  <2>5. QED
    BY <1>2, <2>1, <2>2, <2>3, <2>4 DEF ClientStep
<1>3. CASE Tick
  BY <1>3, TickPromised DEF Safe, Promise!Next
<1>4. ASSUME NEW w \in Workers, Sweep(w) \/ Crash(w)
      PROVE  [Promise!Next]_(Promise!promised)
  <2>1. CASE \E s \in Subjects : Purge(w, s)
    BY <2>1, PurgePromised DEF Promise!Next, Subjects
  <2>2. CASE \/ StartCycle(w) \/ Claim(w) \/ EndCycle(w) \/ PurgeFails(w)
             \/ RecordPurgeFailure(w) \/ AbortCycle(w) \/ Crash(w)
    BY <2>2, SweepStutters DEF Safe
  <2>3. QED
    BY <1>4, <2>1, <2>2 DEF Sweep
<1>5. QED
  BY <1>1, <1>2, <1>3, <1>4 DEF Next

(* For any accounts, interviews, workers, times and poisoned requests:      *)
(* deletion implements ErasureContract.                                     *)
THEOREM PromiseKept == Spec => KeepsThePromise
<1>1. Safe /\ [Next]_vars => [Promise!Next]_(Promise!promised)
  BY StepPromised
<1>2. QED
  BY <1>1, InitPromised, AlwaysSafe, PTL DEF Spec, KeepsThePromise, Promise!Spec
===============================================================================
