------------------------ MODULE InterviewSessionProofs ------------------------
(***************************************************************************)
(* What InterviewSession promises for every number of operations,          *)
(* questions and instants; and what InterviewStore, which keeps the same    *)
(* interview in rows, promises of the rows.                                 *)
(***************************************************************************)
EXTENDS InterviewStore, InterviewEngineProofs, SequenceTheorems, WellFoundedInduction

-------------------------------------------------------------------------------
(* Type correctness: every action stores an aggregate the engine returned  *)
(* and only adds plans built from it.                                       *)

LEMMA InitType == Init => TypeOK
  BY FreshType DEF Init, TypeOK

LEMMA AcceptPlanType ==
  ASSUME TypeOK, NEW c \in PlannedCommand, NEW at \in Times, NEW a \in Interview,
         AcceptPlan(a, c, at)
  PROVE  interview' \in Interview /\ plans' \subseteq Plan
  BY PlanOfType DEF AcceptPlan, TypeOK

LEMMA ClientType ==
  ASSUME TypeOK, NEW at \in Times, ClientStep(at)
  PROVE  TypeOK'
<1> USE DEF Immediately
<1>1. ASSUME NEW op \in Ops, NEW type \in PlannedTypes, SubmitPlanned(op, type, at)
      PROVE  TypeOK'
  <2> DEFINE c == [type |-> type, op |-> op, expectedVersion |-> interview.version, occurredAt |-> at]
  <2>1. c \in PlannedCommand
    BY NextVersionType DEF PlannedCommand, TypeOK
  <2>2. AcceptOperation(interview, c, at) \in Interview
    BY <2>1, AcceptType DEF TypeOK
  <2>3. AcceptPlan(AcceptOperation(interview, c, at), c, at) /\ failed' = failed
    BY <1>1 DEF SubmitPlanned
  <2> HIDE DEF c
  <2>4. QED
    BY <2>1, <2>2, <2>3, AcceptPlanType DEF TypeOK
<1>2. ASSUME NEW o \in {"unknown", "skipped"}, RecordOutcome(o, at)
      PROVE  TypeOK'
  BY <1>2, RecordUnevaluatedType DEF RecordOutcome, TypeOK
<1>3. CASE ContinueInterview(at)
  BY <1>3, ContinueType DEF ContinueInterview, TypeOK
<1>4. CASE EndInterviewEarly(at)
  BY <1>4, RequestReportType DEF EndInterviewEarly, EndEarly, ReportKinds, TypeOK
<1>5. CASE AbandonInterview(at)
  BY <1>5, CloseType DEF AbandonInterview, TypeOK
<1>6. ASSUME NEW p \in plans, RetryFailed(p, at)
      PROVE  TypeOK'
  <2>1. p.command \in PlannedCommand
    BY DEF TypeOK, Plan
  <2>2. AcceptRetriedOperation(interview, p.command, at) \in Interview
    BY <2>1, AcceptRetriedType DEF TypeOK
  <2>3. AcceptPlan(AcceptRetriedOperation(interview, p.command, at), p.command, at)
        /\ failed' = failed \ {p.command.op}
    BY <1>6 DEF RetryFailed
  <2>4. QED
    BY <2>1, <2>2, <2>3, AcceptPlanType DEF TypeOK
<1>7. ASSUME NEW p \in plans, TakeOver(p, at)
      PROVE  TypeOK'
  <2>1. p.command \in PlannedCommand
    BY DEF TypeOK, Plan
  <2>2. Refresh(interview, at) \in Interview
    BY RefreshType DEF TypeOK
  <2>3. AcceptPlan(Refresh(interview, at), p.command, at) /\ failed' = failed
    BY <1>7 DEF TakeOver
  <2>4. QED
    BY <2>1, <2>2, <2>3, AcceptPlanType DEF TypeOK
<1>8. CASE RetryReport(at)
  BY <1>8, RefreshType DEF RetryReport, TypeOK
<1>9. QED
  BY <1>1, <1>2, <1>3, <1>4, <1>5, <1>6, <1>7, <1>8 DEF ClientStep

LEMMA ServerType ==
  ASSUME TypeOK, NEW at \in Times, ServerStep(at)
  PROVE  TypeOK'
<1> USE DEF Immediately
<1>1. ASSUME NEW p \in plans, Clarified(p, at)
      PROVE  TypeOK'
  BY <1>1, ClarificationType DEF Clarified, TypeOK
<1>2. ASSUME NEW p \in plans, NEW kind \in FollowUpKinds, FollowedUp(p, kind, at)
      PROVE  TypeOK'
  BY <1>2, FollowUpType DEF FollowedUp, TypeOK
<1>3. ASSUME NEW p \in plans, NEW o \in EvaluatedOutcomes, Evaluated(p, o, at)
      PROVE  TypeOK'
  BY <1>3, EvaluationType DEF Evaluated, TypeOK
<1>4. ASSUME NEW p \in plans, CompletedTooLate(p, at)
      PROVE  TypeOK'
  BY <1>4, CloseType DEF CompletedTooLate, ExpireAcceptedOperation, TypeOK
<1>5. ASSUME NEW p \in plans, Cancelled(p)
      PROVE  TypeOK'
  BY <1>5, CancelType DEF Cancelled, TypeOK, Plan, PlannedCommand
<1>6. CASE StoreReport(at)
  BY <1>6, RecordReportType DEF StoreReport, TypeOK
<1>7. CASE ExpireOnCommand(at)
  BY <1>7, CloseType DEF ExpireOnCommand, TypeOK
<1>8. CASE ExpireStored(at)
  BY <1>8, CloseType DEF ExpireStored, TypeOK
<1>9. QED
  BY <1>1, <1>2, <1>3, <1>4, <1>5, <1>6, <1>7, <1>8 DEF ServerStep

(* Spec keeps every variable in its type: no accepted command, completion, *)
(* retry or expiry returns an aggregate outside the declared shape, for any *)
(* number of questions, operations and instants.                            *)
THEOREM TypeCorrect == Spec => []TypeOK
<1>1. TypeOK /\ [Next]_vars => TypeOK'
  <2> SUFFICES ASSUME TypeOK, [Next]_vars
               PROVE  TypeOK'
    OBVIOUS
  <2>1. CASE UNCHANGED vars
    BY <2>1 DEF vars, TypeOK
  <2>2. CASE Next
    BY <2>2, ClientType, ServerType DEF Next
  <2>3. QED
    BY <2>1, <2>2
<1>2. QED
  BY InitType, <1>1, PTL DEF Spec
-------------------------------------------------------------------------------
LEMMA SoundIsEnough ==
  Sound(interview) => OutcomeMatchesPhase /\ EvaluationCoversMaterial /\ QuestionsSettleInOrder
  BY DEF Sound, Phased, Ordered, Requested, Judged,
         OutcomeMatchesPhase, EvaluationCoversMaterial, QuestionsSettleInOrder

-------------------------------------------------------------------------------
(* Every action takes a sound aggregate to a sound one. *)

LEMMA ClientSound ==
  ASSUME TypeOK, Sound(interview), NEW at \in Times, ClientStep(at)
  PROVE  Sound(interview')
<1> USE DEF Immediately
<1> interview \in Interview
  BY DEF TypeOK
<1>1. ASSUME NEW op \in Ops, NEW type \in PlannedTypes, SubmitPlanned(op, type, at)
      PROVE  Sound(interview')
  <2> DEFINE c == [type |-> type, op |-> op, expectedVersion |-> interview.version, occurredAt |-> at]
  <2>1. c \in PlannedCommand
    BY NextVersionType DEF PlannedCommand
  <2>2. /\ interview' = AcceptOperation(interview, c, at)
        /\ FitsPhase(interview, c) /\ ~ IsPending(interview)
    BY <1>1 DEF SubmitPlanned, AcceptPlan, CanPlan, Admits
  <2> HIDE DEF c
  <2>3. QED
    BY <2>1, <2>2, AcceptSound
<1>2. ASSUME NEW o \in {"unknown", "skipped"}, RecordOutcome(o, at)
      PROVE  Sound(interview')
  BY <1>2, RecordUnevaluatedSound DEF RecordOutcome, Admits
<1>3. CASE ContinueInterview(at)
  BY <1>3, ContinueSound DEF ContinueInterview, Admits
<1>4. CASE EndInterviewEarly(at)
  BY <1>4, EndEarlySound DEF EndInterviewEarly
<1>5. CASE AbandonInterview(at)
  BY <1>5, CloseSound DEF AbandonInterview
<1>6. ASSUME NEW p \in plans, RetryFailed(p, at)
      PROVE  Sound(interview')
  <2>1. p.command \in PlannedCommand
    BY DEF TypeOK, Plan
  <2>2. /\ interview' = AcceptRetriedOperation(interview, p.command, at)
        /\ FitsPhase(interview, p.command) /\ ~ IsPending(interview)
    BY <1>6 DEF RetryFailed, AcceptPlan, CanRetry
  <2>3. QED
    BY <2>1, <2>2, AcceptSound
<1>7. ASSUME NEW p \in plans, TakeOver(p, at)
      PROVE  Sound(interview')
  BY <1>7, RefreshSound DEF TakeOver, AcceptPlan
<1>8. CASE RetryReport(at)
  BY <1>8, RefreshSound DEF RetryReport
<1>9. QED
  BY <1>1, <1>2, <1>3, <1>4, <1>5, <1>6, <1>7, <1>8 DEF ClientStep

LEMMA ServerSound ==
  ASSUME TypeOK, Sound(interview), NEW at \in Times, ServerStep(at)
  PROVE  Sound(interview')
<1> USE DEF Immediately
<1> interview \in Interview /\ plans \subseteq Plan
  BY DEF TypeOK
<1>1. ASSUME NEW p \in plans, Clarified(p, at)
      PROVE  Sound(interview')
  BY <1>1, ClarificationSound DEF Clarified, CanComplete
<1>2. ASSUME NEW p \in plans, NEW kind \in FollowUpKinds, FollowedUp(p, kind, at)
      PROVE  Sound(interview')
  BY <1>2, FollowUpSound DEF FollowedUp, CanComplete
<1>3. ASSUME NEW p \in plans, NEW o \in EvaluatedOutcomes, Evaluated(p, o, at)
      PROVE  Sound(interview')
  BY <1>3, EvaluationSound DEF Evaluated, CanComplete
<1>4. ASSUME NEW p \in plans, CompletedTooLate(p, at)
      PROVE  Sound(interview')
  BY <1>4, CloseSound DEF CompletedTooLate, ExpireAcceptedOperation, IsExpired
<1>5. ASSUME NEW p \in plans, Cancelled(p)
      PROVE  Sound(interview')
  <2>1. IsPending(interview)
    BY <1>5 DEF Cancelled, IsAccepted, Sound, Phased
  <2>2. QED
    BY <1>5, <2>1, CancelSound DEF Cancelled
<1>6. CASE StoreReport(at)
  BY <1>6, RecordReportSound DEF StoreReport, CanRecordReport
<1>7. CASE ExpireOnCommand(at)
  BY <1>7, CloseSound DEF ExpireOnCommand, IsExpired
<1>8. CASE ExpireStored(at)
  BY <1>8, CloseSound DEF ExpireStored, IsExpired
<1>9. QED
  BY <1>1, <1>2, <1>3, <1>4, <1>5, <1>6, <1>7, <1>8 DEF ServerStep

(* The inductive invariant holds throughout. *)
THEOREM AlwaysSound == Spec => []Sound(interview)
<1>1. Init => Sound(interview)
  BY FreshSound DEF Init
<1>2. TypeOK /\ Sound(interview) /\ [Next]_vars => Sound(interview)'
  <2> SUFFICES ASSUME TypeOK, Sound(interview), [Next]_vars
               PROVE  Sound(interview)'
    OBVIOUS
  <2>1. CASE UNCHANGED vars
    BY <2>1 DEF vars
  <2>2. CASE Next
    BY <2>2, ClientSound, ServerSound DEF Next
  <2>3. QED
    BY <2>1, <2>2
<1>3. QED
  BY <1>1, <1>2, TypeCorrect, PTL DEF Spec

(* The phase shown to the user always agrees with the outcome of the        *)
(* current question, however operations were accepted, cancelled, retried    *)
(* or taken over.                                                            *)
THEOREM PhaseIsHonest == Spec => []OutcomeMatchesPhase
  BY AlwaysSound, SoundIsEnough, PTL

(* No stored evaluation ever leaves out answer material of its question.    *)
THEOREM EvaluationsAreComplete == Spec => []EvaluationCoversMaterial
  BY AlwaysSound, SoundIsEnough, PTL

(* Questions settle in order, and a report is asked for only over settled   *)
(* questions.                                                                *)
THEOREM SettledInOrder == Spec => []QuestionsSettleInOrder
  BY AlwaysSound, SoundIsEnough, PTL

-------------------------------------------------------------------------------
(* Plans.  What an acceptance returned stays true of the interview for as   *)
(* long as its operation is pending, or failed with nothing accepted since.  *)

Waiting(p) ==
  \/ interview.pending.op = p.command.op
  \/ p.command.op \in failed /\ p.interview.version = interview.version

PlanMade(p) ==
  /\ p.position = p.interview.position
  /\ p.interview.version = p.command.expectedVersion + 1
  /\ p.interview.version <= interview.version
  /\ p.materialKind = MaterialKind(p.interview.questions[p.position], p.command)

PlanKept(p) ==
  Waiting(p) => /\ p.interview.version = interview.version
                /\ p.interview.questions = interview.questions
                /\ p.interview.position = interview.position

PlansInv ==
  /\ \A p \in plans : PlanMade(p) /\ PlanKept(p)
  /\ \A p, q \in plans : p.interview.version = q.interview.version <=> p.command.op = q.command.op
  /\ interview.pending.op \notin failed
  /\ \A op \in failed : \E p \in plans : p.command.op = op

Inv == TypeOK /\ Sound(interview) /\ Tallied(interview) /\ PlansInv

LEMMA PlanTypes ==
  ASSUME TypeOK, NEW p \in plans
  PROVE  /\ p \in Plan /\ p.command \in PlannedCommand /\ p.command.op \in Ops
         /\ p.interview.version \in Nat /\ interview.version \in Nat
  BY DEF TypeOK, Plan, PlannedCommand, Interview

LEMMA NoPlans ==
  ASSUME Init
  PROVE  PlansInv
  BY DEF Init, PlansInv

(* Steps that add no plan and leave nothing pending: what failed may have    *)
(* been answered since, but then the version moved or it was another's.      *)
LEMMA IdlePlans ==
  ASSUME TypeOK, PlansInv, plans' = plans, failed' = failed, ~ IsPending(interview'),
         interview'.version \in Nat, interview'.version >= interview.version,
         \A p \in plans :
           p.command.op \in failed /\ p.interview.version = interview'.version =>
             /\ interview'.questions = interview.questions
             /\ interview'.position = interview.position
  PROVE  PlansInv'
<1>1. interview'.pending.op = NoOp /\ NoOp \notin failed
  BY InterviewAssumption DEF IsPending, TypeOK
<1>2. ASSUME NEW p \in plans
      PROVE  PlanMade(p)' /\ PlanKept(p)'
  <2>1. /\ p.interview.version \in Nat /\ interview.version \in Nat /\ p.command.op \in Ops
        /\ PlanMade(p) /\ PlanKept(p)
    BY PlanTypes DEF PlansInv
  <2>2. PlanMade(p)'
    BY <2>1 DEF PlanMade
  <2>3. Waiting(p)' => p.command.op \in failed /\ p.interview.version = interview'.version
    BY <1>1, <2>1, InterviewAssumption DEF Waiting
  <2>4. Waiting(p)' => Waiting(p) /\ interview'.version = interview.version
    BY <2>1, <2>3 DEF PlanMade, Waiting
  <2>5. QED
    BY <2>1, <2>2, <2>3, <2>4 DEF PlanKept
<1>3. QED
  BY <1>1, <1>2 DEF PlansInv

(* Acceptances: of a new command, or again of one whose plan still stands. *)
LEMMA AcceptedPlans ==
  ASSUME TypeOK, PlansInv, NEW c \in PlannedCommand, NEW at,
         plans' = plans \cup {PlanOf(interview, c, interview', at)},
         interview'.questions = interview.questions, interview'.position = interview.position,
         interview'.pending.op = c.op, interview'.version = c.expectedVersion + 1,
         failed' \subseteq failed, c.op \notin failed',
         \/ interview'.version = interview.version + 1 /\ \A p \in plans : p.command.op # c.op
         \/ /\ interview'.version = interview.version
            /\ \E p \in plans : p.command.op = c.op
            /\ \A p \in plans : p.command.op = c.op => Waiting(p)
  PROVE  PlansInv'
<1> PICK x : x = PlanOf(interview, c, interview', at)
  OBVIOUS
<1>1. /\ x.command = c /\ x.position = interview.position /\ x.interview = interview'
      /\ x.materialKind = MaterialKind(interview.questions[interview.position], c)
  BY DEF PlanOf, CurrentQuestion
<1>2. plans' = plans \cup {x}
  OBVIOUS
<1>3. interview.version \in Nat /\ c.expectedVersion \in Nat /\ interview'.version \in Nat
  BY DEF TypeOK, Interview, PlannedCommand
<1>4. PlanMade(x)' /\ PlanKept(x)'
  BY <1>1, <1>3 DEF PlanMade, PlanKept
<1>5. ASSUME NEW p \in plans
      PROVE  /\ PlanMade(p)' /\ PlanKept(p)'
             /\ p.interview.version = x.interview.version <=> p.command.op = x.command.op
  <2>1. /\ p.interview.version \in Nat /\ PlanMade(p) /\ PlanKept(p)
    BY PlanTypes DEF PlansInv
  <2>2. PlanMade(p)'
    BY <1>3, <2>1 DEF PlanMade
  <2>3. CASE interview'.version = interview.version + 1 /\ \A q \in plans : q.command.op # c.op
    BY <1>1, <1>3, <2>1, <2>2, <2>3 DEF PlanMade, PlanKept, Waiting
  <2>4. CASE /\ interview'.version = interview.version
             /\ \E q \in plans : q.command.op = c.op
             /\ \A q \in plans : q.command.op = c.op => Waiting(q)
    <3>1. PICK q \in plans : q.command.op = c.op
      BY <2>4
    <3>2. q.interview.version = interview.version
      BY <2>4, <3>1 DEF PlansInv, PlanKept
    <3>3. p.interview.version = x.interview.version <=> p.command.op = x.command.op
      BY <1>1, <2>4, <3>1, <3>2 DEF PlansInv
    <3>4. Waiting(p)' => Waiting(p)
      BY <2>4 DEF Waiting
    <3>5. PlanKept(p)'
      BY <2>1, <2>4, <3>4 DEF PlanKept
    <3>6. QED
      BY <2>2, <3>3, <3>5
  <2>5. QED
    BY <2>3, <2>4
<1>6. interview'.pending.op \notin failed'
  OBVIOUS
<1>7. \A op \in failed' : \E p \in plans' : p.command.op = op
  BY DEF PlansInv
<1>8. \A p, q \in plans' : p.interview.version = q.interview.version <=> p.command.op = q.command.op
  BY <1>2, <1>5 DEF PlansInv
<1>9. \A p \in plans' : PlanMade(p)' /\ PlanKept(p)'
  BY <1>2, <1>4, <1>5
<1>10. QED
  BY <1>6, <1>7, <1>8, <1>9 DEF PlansInv

-------------------------------------------------------------------------------
(* What a step does to the questions. *)

Accepted == (SaveAccepts(interview, interview') \/ interview' = interview) /\ Tallied(interview')

SettledStay ==
  \A k \in Positions :
    interview.questions[k].frozen \/ interview.status # "active" =>
      interview'.questions[k] = interview.questions[k]

MaterialStays ==
  \A k \in Positions : interview'.questions[k].material = interview.questions[k].material

(* At most the current question of an active interview changes.            *)
Rewrites(q) ==
  /\ interview.status = "active"
  /\ interview'.questions = [interview.questions EXCEPT ![interview.position] = q]

LEMMA RewriteStays ==
  ASSUME interview \in Interview, Sound(interview), NEW q, Rewrites(q)
  PROVE  /\ SettledStay
         /\ interview'.questions[interview.position] = q
         /\ \A k \in Positions \ {interview.position} : interview'.questions[k] = interview.questions[k]
         /\ q.material = CurrentQuestion(interview).material => MaterialStays
<1>1. /\ interview.position \in Positions /\ ~ interview.questions[interview.position].frozen
      /\ interview.questions \in [Positions -> Question]
  BY DEF Interview, Sound, Requested, Rewrites, CurrentQuestion
<1>2. \A k \in Positions :
        interview'.questions[k] = IF k = interview.position THEN q ELSE interview.questions[k]
  BY <1>1 DEF Rewrites
<1>3. QED
  BY <1>1, <1>2 DEF SettledStay, MaterialStays, Rewrites, CurrentQuestion

LEMMA StillStays ==
  ASSUME interview'.questions = interview.questions
  PROVE  SettledStay /\ MaterialStays
  BY DEF SettledStay, MaterialStays

LEMMA MaterialKept ==
  ASSUME MaterialStays, plans \subseteq plans', MaterialOnPlannedQuestion
  PROVE  MaterialOnPlannedQuestion'
  BY DEF MaterialStays, MaterialOnPlannedQuestion

(* The conclusion about every action.                                       *)
Step ==
  /\ Accepted /\ PlansInv' /\ SettledStay
  /\ MaterialOnPlannedQuestion => MaterialOnPlannedQuestion'

(* Commands handled at once move the version, so no plan is waiting after. *)
LEMMA CommandStep ==
  ASSUME Inv, plans' = plans, failed' = failed, ~ IsPending(interview'),
         interview'.version = interview.version + 1, Accepted, SettledStay, MaterialStays
  PROVE  Step
<1>1. interview.version \in Nat /\ interview.version + 1 \in Nat
  BY DEF Inv, TypeOK, Interview
<1>2. \A p \in plans : p.interview.version \in Nat /\ p.interview.version <= interview.version
  BY PlanTypes DEF Inv, PlansInv, PlanMade
<1>3. PlansInv'
  BY <1>1, <1>2, IdlePlans DEF Inv
<1>4. QED
  BY <1>3, MaterialKept DEF Step

LEMMA RecordOutcomeStep ==
  ASSUME Inv, NEW at \in Times, NEW outcome \in {"unknown", "skipped"}, RecordOutcome(outcome, at)
  PROVE  Step
<1> DEFINE q == [CurrentQuestion(interview) EXCEPT !.evaluation = {}, !.outcome = outcome]
<1>1. /\ interview \in Interview /\ Sound(interview) /\ Tallied(interview)
      /\ ~ IsPending(interview) /\ CanRecordUnevaluated(interview)
      /\ interview' = RecordUnevaluated(interview, outcome, at)
      /\ plans' = plans /\ failed' = failed
  BY DEF Inv, TypeOK, RecordOutcome, Admits, Immediately
<1>2. Accepted
  BY <1>1, RecordUnevaluatedSaved DEF Accepted
<1>3. /\ interview'.version = interview.version + 1 /\ interview'.pending = interview.pending
      /\ Rewrites(q)
  BY <1>1 DEF RecordUnevaluated, WithCurrentQuestion, Interview, Rewrites, CanRecordUnevaluated
<1>4. q.material = CurrentQuestion(interview).material
  BY <1>1, CurrentQuestionType DEF Question
<1> HIDE DEF q
<1>5. SettledStay /\ MaterialStays
  BY <1>1, <1>3, <1>4, RewriteStays
<1>6. ~ IsPending(interview')
  BY <1>1, <1>3 DEF IsPending
<1>7. QED
  BY <1>1, <1>2, <1>3, <1>5, <1>6, CommandStep

LEMMA ContinueStep ==
  ASSUME Inv, NEW at \in Times, ContinueInterview(at)
  PROVE  Step
<1> DEFINE q == [CurrentQuestion(interview) EXCEPT !.frozen = TRUE]
           f == WithCurrentQuestion(interview, q)
<1>1. /\ interview \in Interview /\ Sound(interview) /\ Tallied(interview)
      /\ ~ IsPending(interview) /\ CanContinue(interview)
      /\ interview' = Continue(interview, at)
      /\ plans' = plans /\ failed' = failed
  BY DEF Inv, TypeOK, ContinueInterview, Admits, Immediately
<1>2. Accepted
  BY <1>1, ContinueSaved DEF Accepted
<1>3. q \in Question /\ q.material = CurrentQuestion(interview).material
  BY <1>1, CurrentQuestionType DEF Question
<1>4. interview' = IF interview.position = QuestionCount THEN RequestReport(f, "complete", at)
                   ELSE [f EXCEPT !.position = interview.position + 1, !.phase = "awaiting_response",
                                  !.version = interview.version + 1, !.lastActivity = at]
  BY <1>1 DEF Continue
<1> HIDE DEF q
<1>5. /\ f \in Interview /\ f.version = interview.version /\ f.pending = interview.pending
      /\ f.questions = [interview.questions EXCEPT ![interview.position] = q]
  BY <1>1, <1>3, WithCurrentQuestionType DEF WithCurrentQuestion, Interview
<1> HIDE DEF f
<1>6. /\ interview'.questions = f.questions /\ interview'.version = interview.version + 1
      /\ interview'.pending \in {f.pending, NoPending}
  BY <1>4, <1>5 DEF RequestReport, Interview
<1>7. Rewrites(q) /\ ~ IsPending(interview')
  BY <1>1, <1>5, <1>6 DEF Rewrites, CanContinue, IsPending, NoPending
<1>8. SettledStay /\ MaterialStays
  BY <1>1, <1>3, <1>7, RewriteStays
<1>9. QED
  BY <1>1, <1>2, <1>6, <1>7, <1>8, CommandStep

(* Ends of the interview: the questions stay as they are.                   *)
LEMMA EndStep ==
  ASSUME Inv, NEW at \in Times,
         \/ EndInterviewEarly(at) \/ AbandonInterview(at)
         \/ ExpireOnCommand(at) \/ ExpireStored(at) \/ StoreReport(at)
  PROVE  Step
<1>1. /\ interview \in Interview /\ Sound(interview) /\ Tallied(interview)
      /\ plans' = plans /\ failed' = failed
  BY DEF Inv, TypeOK, EndInterviewEarly, AbandonInterview, ExpireOnCommand, ExpireStored,
         StoreReport, Immediately
<1>2. CASE EndInterviewEarly(at)
  <2>1. interview' = RequestReport(interview, "incomplete", at)
        /\ CanEndEarly(interview) /\ ~ IsPending(interview)
    BY <1>2 DEF EndInterviewEarly, EndEarly, Immediately, Admits
  <2>2. /\ interview'.version = interview.version + 1 /\ ~ IsPending(interview')
        /\ interview'.questions = interview.questions
    BY <1>1, <2>1 DEF RequestReport, Interview, IsPending, NoPending
  <2>3. Accepted
    BY <1>1, <2>1, EndEarlySaved DEF Accepted, EndEarly
  <2>4. QED
    BY <1>1, <2>2, <2>3, StillStays, CommandStep
<1>3. CASE AbandonInterview(at) \/ ExpireOnCommand(at) \/ ExpireStored(at)
  <2>1. /\ interview' = Abandon(interview) /\ interview.status = "active"
        /\ ~ IsPending(interview) \/ IsExpired(interview, at)
    BY <1>3 DEF AbandonInterview, ExpireOnCommand, ExpireStored, Immediately, Admits, IsExpired
  <2>2. /\ interview'.version = interview.version + 1 /\ ~ IsPending(interview')
        /\ interview'.questions = interview.questions
    BY <1>1, <2>1 DEF Abandon, CloseAbandoned, Interview, IsPending, NoPending
  <2>3. Accepted
    BY <1>1, <2>1, CloseSaved DEF Accepted
  <2>4. QED
    BY <1>1, <2>2, <2>3, StillStays, CommandStep
<1>4. CASE StoreReport(at)
  <2>1. interview' = RecordReport(interview) /\ CanRecordReport(interview, interview.reportKind, at)
    BY <1>4 DEF StoreReport, Immediately
  <2>2. /\ interview'.version = interview.version + 1 /\ ~ IsPending(interview')
        /\ interview'.questions = interview.questions
    BY <1>1, <2>1 DEF RecordReport, Interview, IsPending, NoPending
  <2>3. Accepted
    BY <1>1, <2>1, RecordReportSaved DEF Accepted
  <2>4. QED
    BY <1>1, <2>2, <2>3, StillStays, CommandStep
<1>5. QED
  BY <1>2, <1>3, <1>4

LEMMA RetryReportStep ==
  ASSUME Inv, NEW at \in Times, RetryReport(at)
  PROVE  Step
<1>1. /\ interview \in Interview /\ Sound(interview) /\ Tallied(interview)
      /\ CanRefreshReportRetry(interview, at) /\ ~ IsPending(interview)
      /\ interview' = RefreshReportRetry(interview, at) /\ plans' = plans /\ failed' = failed
  BY DEF Inv, TypeOK, RetryReport, CanRefreshReportRetry, Immediately
<1>2. /\ interview'.version = interview.version /\ interview'.pending = interview.pending
      /\ interview'.questions = interview.questions /\ interview'.position = interview.position
      /\ interview.version \in Nat
  BY <1>1 DEF RefreshReportRetry, Interview
<1>3. ~ IsPending(interview')
  BY <1>1, <1>2 DEF IsPending
<1>4. PlansInv'
  BY <1>1, <1>2, <1>3, IdlePlans DEF Inv
<1>5. Accepted
  BY <1>1, RefreshReportRetrySaved DEF Accepted
<1>6. QED
  BY <1>1, <1>2, <1>4, <1>5, StillStays, MaterialKept DEF Step

(* A new submission.  Its operation id is new, so it is not a failed one.   *)
LEMMA SubmitStep ==
  ASSUME Inv, NEW at \in Times, NEW op \in Ops, NEW type \in PlannedTypes,
         SubmitPlanned(op, type, at)
  PROVE  Step
<1> PICK c : c = [type |-> type, op |-> op, expectedVersion |-> interview.version, occurredAt |-> at]
  OBVIOUS
<1>1. /\ interview \in Interview /\ Tallied(interview) /\ interview.version \in Nat
      /\ TypeOK /\ PlansInv
  BY DEF Inv, TypeOK, Interview
<1>2. c \in PlannedCommand /\ c.op = op /\ c.expectedVersion = interview.version
      /\ c.occurredAt = at
  BY <1>1 DEF PlannedCommand
<1>3. /\ \A p \in plans : p.command.op # c.op
      /\ CanPlan(interview, c) /\ failed' = failed
      /\ AcceptPlan(AcceptOperation(interview, c, at), c, at)
  BY <1>2 DEF SubmitPlanned
<1>4. /\ FitsPhase(interview, c) /\ ~ IsPending(interview) /\ at >= interview.lastActivity
      /\ interview' = AcceptOperation(interview, c, at)
      /\ plans' = plans \cup {PlanOf(interview, c, interview', at)}
  BY <1>2, <1>3 DEF CanPlan, Admits, AcceptPlan
<1>5. /\ interview'.questions = interview.questions /\ interview'.position = interview.position
      /\ interview'.pending.op = c.op /\ interview'.version = interview.version + 1
  BY <1>1, <1>4 DEF AcceptOperation, AcceptRetriedOperation, Interview
<1>6. c.op \notin failed
  BY <1>1, <1>3 DEF PlansInv
<1>7. PlansInv'
  BY <1>1, <1>2, <1>3, <1>4, <1>5, <1>6, AcceptedPlans
<1>8. Accepted
  BY <1>1, <1>2, <1>4, AcceptSaved DEF Accepted
<1>9. SettledStay /\ MaterialStays /\ plans \subseteq plans'
  BY <1>4, <1>5, StillStays
<1>10. QED
  BY <1>7, <1>8, <1>9, MaterialKept DEF Step

(* A retry.  It finds the interview at the version its first acceptance     *)
(* left, so the failed operation is the last that was accepted.             *)
LEMMA RetryStep ==
  ASSUME Inv, NEW at \in Times, NEW p \in plans, RetryFailed(p, at)
  PROVE  Step
<1> PICK c : c = p.command
  OBVIOUS
<1>1. /\ interview \in Interview /\ Tallied(interview) /\ interview.version \in Nat
      /\ TypeOK /\ PlansInv /\ c \in PlannedCommand
  BY PlanTypes DEF Inv, TypeOK, Interview
<1>2. /\ c.op \in failed /\ CanRetry(interview, c, at) /\ failed' = failed \ {c.op}
      /\ AcceptPlan(AcceptRetriedOperation(interview, c, at), c, at)
  BY DEF RetryFailed
<1>3. /\ FitsPhase(interview, c) /\ ~ IsPending(interview) /\ at >= interview.lastActivity
      /\ interview.version = c.expectedVersion + 1
      /\ interview' = AcceptRetriedOperation(interview, c, at)
      /\ plans' = plans \cup {PlanOf(interview, c, interview', at)}
  BY <1>2 DEF CanRetry, AcceptPlan
<1>4. /\ interview'.questions = interview.questions /\ interview'.position = interview.position
      /\ interview'.pending.op = c.op /\ interview'.version = interview.version
  BY <1>1, <1>3 DEF AcceptRetriedOperation, Interview
<1>5. p.interview.version = interview.version
  BY <1>1, <1>3 DEF PlansInv, PlanMade
<1>6. \A q \in plans : q.command.op = c.op => Waiting(q)
  BY <1>1, <1>2, <1>5 DEF PlansInv, Waiting
<1>7. PlansInv'
  BY <1>1, <1>2, <1>3, <1>4, <1>6, AcceptedPlans
<1>8. Accepted
  BY <1>1, <1>3, AcceptSaved DEF Accepted
<1>9. SettledStay /\ MaterialStays /\ plans \subseteq plans'
  BY <1>3, <1>4, StillStays
<1>10. QED
  BY <1>7, <1>8, <1>9, MaterialKept DEF Step

LEMMA TakeOverStep ==
  ASSUME Inv, NEW at \in Times, NEW p \in plans, TakeOver(p, at)
  PROVE  Step
<1> PICK c : c = p.command
  OBVIOUS
<1>1. /\ interview \in Interview /\ Tallied(interview) /\ interview.version \in Nat
      /\ TypeOK /\ PlansInv /\ c \in PlannedCommand /\ c.op \in Ops
  BY PlanTypes DEF Inv, TypeOK, Interview
<1>2. /\ CanRefresh(interview, c.op, at) /\ failed' = failed
      /\ interview' = Refresh(interview, at)
      /\ plans' = plans \cup {PlanOf(interview, c, interview', at)}
  BY DEF TakeOver, AcceptPlan
<1>3. /\ interview'.questions = interview.questions /\ interview'.position = interview.position
      /\ interview'.pending.op = interview.pending.op /\ interview'.version = interview.version
  BY <1>1 , <1>2 DEF Refresh, Interview, Pending
<1>4. interview.pending.op = c.op
  BY <1>2 DEF CanRefresh
<1>5. c.op \notin failed /\ \A q \in plans : q.command.op = c.op => Waiting(q)
  BY <1>1, <1>4 DEF PlansInv, Waiting
<1>6. interview.version = c.expectedVersion + 1
  BY <1>1, <1>5 DEF PlansInv, PlanMade, PlanKept
<1>7. PlansInv'
  BY <1>1, <1>2, <1>3, <1>4, <1>5, <1>6, AcceptedPlans
<1>8. Accepted
  BY <1>1, <1>2, RefreshSaved DEF Accepted
<1>9. SettledStay /\ MaterialStays /\ plans \subseteq plans'
  BY <1>2, <1>3, StillStays
<1>10. QED
  BY <1>7, <1>8, <1>9, MaterialKept DEF Step

(* Completions.  The plan let in is that of the pending operation, and was  *)
(* made for the questions as they still are.                                *)
LEMMA AcceptedStands ==
  ASSUME Inv, NEW p \in plans, IsAccepted(interview, p)
  PROVE  /\ p \in Plan /\ p.command.op \in Ops
         /\ interview.pending.op = p.command.op /\ IsPending(interview)
         /\ interview.status = "active"
         /\ p.position = interview.position
         /\ p.materialKind = MaterialKind(CurrentQuestion(interview), p.command)
         /\ \A q \in plans : q.interview.version = interview.version => q.command.op \notin failed
<1>1. p \in Plan /\ p.command.op \in Ops /\ PlanMade(p) /\ PlanKept(p)
  BY PlanTypes DEF Inv, PlansInv
<1>2. /\ interview.pending.op = p.command.op /\ p.position = interview.position
      /\ interview.status = "active"
  BY DEF IsAccepted
<1>3. IsPending(interview)
  BY <1>1, <1>2, InterviewAssumption DEF IsPending
<1>4. p.interview.version = interview.version /\ p.interview.questions = interview.questions
  BY <1>1, <1>2 DEF PlanKept, Waiting
<1>5. p.materialKind = MaterialKind(CurrentQuestion(interview), p.command)
  BY <1>1, <1>2, <1>4 DEF PlanMade, CurrentQuestion
<1>6. ASSUME NEW q \in plans, q.interview.version = interview.version
      PROVE  q.command.op \notin failed
  BY <1>2, <1>4, <1>6 DEF Inv, PlansInv
<1>7. QED
  BY <1>1, <1>2, <1>3, <1>5, <1>6

LEMMA CompletedPlans ==
  ASSUME Inv, NEW p \in plans, IsAccepted(interview, p), plans' = plans, failed' = failed,
         ~ IsPending(interview'), interview'.version = interview.version
  PROVE  PlansInv'
<1>1. interview.version \in Nat
  BY DEF Inv, TypeOK, Interview
<1>2. QED
  BY <1>1, AcceptedStands, IdlePlans DEF Inv

LEMMA ClarifiedStep ==
  ASSUME Inv, NEW at \in Times, NEW p \in plans, Clarified(p, at)
  PROVE  Step
<1> PICK q : q = [CurrentQuestion(interview) EXCEPT !.clarifications = @ \cup {p.command.op}]
  OBVIOUS
<1>1. /\ interview \in Interview /\ Sound(interview) /\ Tallied(interview)
      /\ IsAccepted(interview, p) /\ ~ IsAnswer(p.command)
      /\ interview' = CompleteClarification(interview, p)
      /\ plans' = plans /\ failed' = failed
  BY DEF Inv, TypeOK, Clarified, CanComplete, Immediately
<1>2. Accepted
  BY <1>1, AcceptedStands, ClarificationSaved DEF Accepted
<1>3. /\ interview'.version = interview.version /\ ~ IsPending(interview')
      /\ interview'.questions = [interview.questions EXCEPT ![interview.position] = q]
  BY <1>1 DEF CompleteClarification, WithCurrentQuestion, Interview, IsPending, NoPending
<1>4. q.material = CurrentQuestion(interview).material
  BY <1>1, CurrentQuestionType DEF Question
<1>5. SettledStay /\ MaterialStays
  BY <1>1, <1>3, <1>4, AcceptedStands, RewriteStays DEF Rewrites
<1>6. QED
  BY <1>1, <1>2, <1>3, <1>5, CompletedPlans, MaterialKept DEF Step

(* An answer: its material goes to the question it was accepted for.        *)
LEMMA AnswerStep ==
  ASSUME Inv, NEW p \in plans, IsAccepted(interview, p), plans' = plans, failed' = failed, Accepted,
         interview'.version = interview.version, ~ IsPending(interview'),
         NEW q, Rewrites(q), q.material = WithMaterial(CurrentQuestion(interview), p).material
  PROVE  Step
<1>1. /\ interview \in Interview /\ Sound(interview)
      /\ CurrentQuestion(interview) \in Question
  BY CurrentQuestionType DEF Inv, TypeOK
<1>2. q.material = CurrentQuestion(interview).material
                     \cup {[id |-> p.command.op, kind |-> p.materialKind]}
  BY <1>1 DEF WithMaterial, Question
<1>3. /\ SettledStay /\ interview'.questions[interview.position] = q
      /\ \A k \in Positions \ {interview.position} : interview'.questions[k] = interview.questions[k]
  BY <1>1, RewriteStays
<1>4. ASSUME MaterialOnPlannedQuestion, NEW k \in Positions,
             NEW m \in interview'.questions[k].material
      PROVE  \E r \in plans' : r.command.op = m.id /\ r.position = k /\ r.materialKind = m.kind
  <2>1. CASE m \in interview.questions[k].material
    BY <1>4, <2>1 DEF MaterialOnPlannedQuestion
  <2>2. CASE m \notin interview.questions[k].material
    <3>1. k = interview.position /\ m = [id |-> p.command.op, kind |-> p.materialKind]
      BY <1>2, <1>3, <1>4, <2>2 DEF CurrentQuestion
    <3>2. p.position = k
      BY <3>1, AcceptedStands
    <3>3. QED
      BY <3>1, <3>2
  <2>3. QED
    BY <2>1, <2>2
<1>5. MaterialOnPlannedQuestion => MaterialOnPlannedQuestion'
  BY <1>4 DEF MaterialOnPlannedQuestion
<1>6. QED
  BY <1>3, <1>5, CompletedPlans DEF Step

LEMMA FollowedUpStep ==
  ASSUME Inv, NEW at \in Times, NEW p \in plans, NEW kind \in FollowUpKinds, FollowedUp(p, kind, at)
  PROVE  Step
<1> PICK m : m = WithMaterial(CurrentQuestion(interview), p)
  OBVIOUS
<1> PICK q : q = [m EXCEPT !.followUps = @ \cup {kind}, !.evaluation = {}, !.outcome = "none"]
  OBVIOUS
<1>1. /\ interview \in Interview /\ Tallied(interview)
      /\ IsAccepted(interview, p) /\ IsAnswer(p.command) /\ CanFollowUp(interview, kind)
      /\ interview' = CompleteWithFollowUp(interview, p, kind)
      /\ plans' = plans /\ failed' = failed
  BY DEF Inv, TypeOK, FollowedUp, CanComplete, Immediately
<1>2. Accepted
  BY <1>1, AcceptedStands, FollowUpSaved DEF Accepted
<1>3. /\ interview'.version = interview.version /\ ~ IsPending(interview')
      /\ interview'.questions = [interview.questions EXCEPT ![interview.position] = q]
  BY <1>1 DEF CompleteWithFollowUp, WithCurrentQuestion, Interview, IsPending, NoPending
<1>4. q.material = m.material
  <2>1. CurrentQuestion(interview) \in Question
    BY <1>1, CurrentQuestionType
  <2>2. QED
    BY <2>1 DEF WithMaterial, Question
<1>5. Rewrites(q)
  BY <1>1, <1>3, AcceptedStands DEF Rewrites
<1>6. QED
  BY <1>1, <1>2, <1>3, <1>4, <1>5, AnswerStep

LEMMA EvaluatedStep ==
  ASSUME Inv, NEW at \in Times, NEW p \in plans, NEW o \in EvaluatedOutcomes, Evaluated(p, o, at)
  PROVE  Step
<1> PICK m : m = WithMaterial(CurrentQuestion(interview), p)
  OBVIOUS
<1> PICK q : q = [m EXCEPT !.evaluation = MaterialIds(m), !.outcome = o]
  OBVIOUS
<1>1. /\ interview \in Interview /\ Tallied(interview)
      /\ IsAccepted(interview, p) /\ IsAnswer(p.command)
      /\ interview' = CompleteWithEvaluation(interview, p, o)
      /\ plans' = plans /\ failed' = failed
  BY DEF Inv, TypeOK, Evaluated, CanComplete, Immediately
<1>2. Accepted
  BY <1>1, AcceptedStands, EvaluationSaved DEF Accepted
<1>3. /\ interview'.version = interview.version /\ ~ IsPending(interview')
      /\ interview'.questions = [interview.questions EXCEPT ![interview.position] = q]
  BY <1>1 DEF CompleteWithEvaluation, WithCurrentQuestion, Interview, IsPending, NoPending
<1>4. q.material = m.material
  <2>1. CurrentQuestion(interview) \in Question
    BY <1>1, CurrentQuestionType
  <2>2. QED
    BY <2>1 DEF WithMaterial, Question
<1>5. Rewrites(q)
  BY <1>1, <1>3, AcceptedStands DEF Rewrites
<1>6. QED
  BY <1>1, <1>2, <1>3, <1>4, <1>5, AnswerStep

LEMMA TooLateStep ==
  ASSUME Inv, NEW at \in Times, NEW p \in plans, CompletedTooLate(p, at)
  PROVE  Step
<1>1. /\ interview \in Interview /\ Tallied(interview) /\ IsAccepted(interview, p)
      /\ interview' = CloseAbandoned(interview) /\ plans' = plans /\ failed' = failed
  BY DEF Inv, TypeOK, CompletedTooLate, CanComplete, Immediately, ExpireAcceptedOperation
<1>2. /\ interview'.version = interview.version /\ ~ IsPending(interview')
      /\ interview'.questions = interview.questions
  BY <1>1 DEF CloseAbandoned, Interview, IsPending, NoPending
<1>3. Accepted
  BY <1>1, AcceptedStands, CloseSaved DEF Accepted
<1>4. QED
  BY <1>1, <1>2, <1>3, CompletedPlans, StillStays, MaterialKept DEF Step

(* A cancellation: the operation waits on, failed, at the same version.     *)
LEMMA CancelledStep ==
  ASSUME Inv, NEW p \in plans, Cancelled(p)
  PROVE  Step
<1>1. /\ interview \in Interview /\ Sound(interview) /\ Tallied(interview) /\ PlansInv
      /\ IsAccepted(interview, p) /\ plans' = plans
      /\ interview' = CancelOperation(interview) /\ failed' = failed \cup {p.command.op}
  BY DEF Inv, TypeOK, Cancelled
<1>2. /\ interview'.version = interview.version /\ interview'.pending.op = NoOp
      /\ interview'.questions = interview.questions /\ interview'.position = interview.position
  BY <1>1 DEF CancelOperation, Interview, NoPending
<1>3. interview.pending.op = p.command.op /\ NoOp \notin failed' /\ IsPending(interview)
  BY <1>1, AcceptedStands, InterviewAssumption DEF Inv, TypeOK
<1>4. ASSUME NEW q \in plans
      PROVE  PlanMade(q)' /\ PlanKept(q)'
  <2>1. PlanMade(q) /\ PlanKept(q) /\ q.command.op # NoOp
    BY <1>1, PlanTypes, InterviewAssumption DEF PlansInv, Inv
  <2>2. Waiting(q)' => Waiting(q)
    BY <1>1, <1>2, <1>3, <2>1 DEF Waiting
  <2>3. QED
    BY <1>2, <2>1, <2>2 DEF PlanMade, PlanKept
<1>5. PlansInv'
  <2>1. \A op \in failed' : \E q \in plans' : q.command.op = op
    BY <1>1 DEF PlansInv
  <2>2. \A q, r \in plans' : q.interview.version = r.interview.version <=> q.command.op = r.command.op
    BY <1>1 DEF PlansInv
  <2>3. \A q \in plans' : PlanMade(q)' /\ PlanKept(q)'
    BY <1>1, <1>4
  <2>4. interview'.pending.op \notin failed'
    BY <1>2, <1>3
  <2>5. QED
    BY <2>1, <2>2, <2>3, <2>4 DEF PlansInv
<1>6. Accepted
  BY <1>1, <1>3, CancelSaved DEF Accepted
<1>7. QED
  BY <1>1, <1>2, <1>5, <1>6, StillStays, MaterialKept DEF Step

-------------------------------------------------------------------------------
(* Every step.  *)
LEMMA NextStep ==
  ASSUME Inv, [Next]_vars
  PROVE  Inv' /\ Step
<1>1. CASE UNCHANGED vars
  <2>1. interview' = interview /\ plans' = plans /\ failed' = failed
    BY <1>1 DEF vars
  <2>2. Accepted /\ SettledStay /\ MaterialStays
    BY <2>1, StillStays DEF Accepted, Inv
  <2>3. Inv'
    BY <2>1 DEF Inv, TypeOK, PlansInv, PlanMade, PlanKept, Waiting
  <2>4. QED
    BY <2>1, <2>2, <2>3, MaterialKept DEF Step, Inv
<1>2. ASSUME NEW at \in Times, ClientStep(at) \/ ServerStep(at)
      PROVE  Inv' /\ Step
  <2>1. TypeOK' /\ Sound(interview)'
    BY <1>2, ClientType, ServerType, ClientSound, ServerSound DEF Inv
  <2>2. Step
    <3>1. CASE ClientStep(at)
      BY <3>1, SubmitStep, RecordOutcomeStep, ContinueStep, EndStep, RetryStep, TakeOverStep,
         RetryReportStep DEF ClientStep
    <3>2. CASE ServerStep(at)
      BY <3>2, ClarifiedStep, FollowedUpStep, EvaluatedStep, TooLateStep, CancelledStep, EndStep
         DEF ServerStep
    <3>3. QED
      BY <1>2, <3>1, <3>2
  <2>3. QED
    BY <2>1, <2>2 DEF Inv, Step, Accepted
<1>3. QED
  BY <1>1, <1>2 DEF Next

LEMMA FirstStep == Init => Inv
  BY InitType, FreshSound, FreshTallied, NoPlans DEF Init, Inv

(* Types, sound aggregate, counted material and standing plans together.    *)
THEOREM SessionInvariant == Spec => []Inv
<1>1. Inv /\ [Next]_vars => Inv'
  BY NextStep
<1>2. QED
  BY FirstStep, <1>1, PTL DEF Spec

(* Whoever is processing an operation, after any retries and takeovers, sees *)
(* the questions its first acceptance saw.                                  *)
THEOREM RetriesSeeTheSame == Spec => []RetrySeesWhatWasSubmitted
<1>1. Inv => RetrySeesWhatWasSubmitted
  BY DEF Inv, PlansInv, PlanKept, Waiting, RetrySeesWhatWasSubmitted
<1>2. QED
  BY <1>1, SessionInvariant, PTL

(* No completion, however late, adds an answer to another question than the *)
(* one it was accepted for, nor under another kind.                         *)
THEOREM MaterialStaysInPlace == Spec => []MaterialOnPlannedQuestion
<1>1. Init => MaterialOnPlannedQuestion
  BY DEF Init, MaterialOnPlannedQuestion, FreshInterview, FreshQuestion
<1>2. Inv /\ MaterialOnPlannedQuestion /\ [Next]_vars => MaterialOnPlannedQuestion'
  BY NextStep DEF Step
<1>3. QED
  BY <1>1, <1>2, SessionInvariant, PTL DEF Spec

(* A frozen question, and every question of an interview that is over, is    *)
(* never written again.                                                     *)
THEOREM SettledForGood == Spec => SettledQuestionsStay
<1>1. Inv /\ [Next]_vars => [SettledStay]_vars
  BY NextStep DEF Step
<1>2. Spec => [][SettledStay]_vars
  BY <1>1, SessionInvariant, PTL DEF Spec
<1>3. QED
  BY <1>2 DEF SettledQuestionsStay, SettledStay

(* Both copies of the rules are the same definitions. *)
LEMMA CanonicalStep ==
  SaveAccepts(interview, interview') => Canonical!SaveAccepts(interview, interview')
  BY DEF Canonical!SaveAccepts, SaveAccepts,
         Canonical!ReportRetryRefreshed, ReportRetryRefreshed,
         Canonical!OperationAccepted, OperationAccepted,
         Canonical!OperationRefreshed, OperationRefreshed,
         Canonical!OperationCancelled, OperationCancelled,
         Canonical!ClarificationCompleted, ClarificationCompleted,
         Canonical!FollowUpCompleted, FollowUpCompleted,
         Canonical!EvaluationCompleted, EvaluationCompleted,
         Canonical!UnevaluatedOutcomeRecorded, UnevaluatedOutcomeRecorded,
         Canonical!QuestionFrozen, QuestionFrozen, Canonical!EndedEarly, EndedEarly,
         Canonical!ReportStored, ReportStored, Canonical!Abandoned, Abandoned,
         Canonical!ExpiredOnAccess, ExpiredOnAccess, Canonical!Deleting, Deleting,
         Canonical!Pends, Pends, Canonical!ExpectedMaterialKind, ExpectedMaterialKind,
         Canonical!Answered, Answered, Canonical!Released, Released, Canonical!Frozen, Frozen,
         Canonical!ReportAwaited, ReportAwaited, Canonical!Closed, Closed,
         Canonical!CurrentQuestion, CurrentQuestion,
         Canonical!WithCurrentQuestion, WithCurrentQuestion, Canonical!NoPending, NoPending,
         Canonical!Pending, Pending, Canonical!OperationKinds, OperationKinds,
         Canonical!Positions, Positions, Canonical!WaitingPhases, WaitingPhases,
         Canonical!FollowUpKinds, FollowUpKinds,
         Canonical!EvaluatedOutcomes, EvaluatedOutcomes, Canonical!NoTime, NoTime

LEMMA CanonicalInit ==
  Init => Canonical!Init
  BY DEF Init, Canonical!Init, Canonical!FreshInterview, FreshInterview,
         Canonical!FreshQuestion, FreshQuestion, Canonical!NoPending, NoPending,
         Canonical!Positions, Positions, Canonical!NoTime, NoTime

(* Every aggregate the engine returns, to any command or completion in any  *)
(* order, is one whose difference from the one it was given the repository's *)
(* own rules accept.                                                         *)
THEOREM EngineIsCanonical == Spec => RepositoryAcceptsEveryStep
<1>1. Init => Canonical!Init
  BY CanonicalInit
<1>2. Inv /\ [Next]_vars => [Canonical!Next]_interview
  BY NextStep, CanonicalStep DEF Step, Accepted, Canonical!Next
<1>3. QED
  BY <1>1, <1>2, SessionInvariant, PTL DEF Spec, RepositoryAcceptsEveryStep, Canonical!Spec
-------------------------------------------------------------------------------
(* The rows of the interview.  A save writes its events one after another;   *)
(* no transition has more than three.                                        *)

LEMMA SavedNothing ==
  ASSUME NEW rows, NEW i
  PROVE  Saved(rows, i, <<>>) = Updated(rows, i, <<>>)
<1> DEFINE base == Updated(rows, i, <<>>)
           IsFold(f) == f = [n \in 0..Len(<<>>) |->
                              IF n = 0 THEN base ELSE PersistEvent(f[n - 1], <<>>[n], i)]
           f == CHOOSE f : IsFold(f)
           g == [n \in 0..0 |-> base]
<1>1. Saved(rows, i, <<>>) = f[0]
  BY DEF Saved, base
<1> HIDE DEF base
<1>2. IsFold(g)
  OBVIOUS
<1>3. IsFold(f)
  BY <1>2
<1>4. f[0] = base
  BY <1>3
<1>5. QED
  BY <1>1, <1>4 DEF base

LEMMA SavedOne ==
  ASSUME NEW rows, NEW i, NEW a
  PROVE  Saved(rows, i, <<a>>) = PersistEvent(Updated(rows, i, <<a>>), a, i)
<1> DEFINE base == Updated(rows, i, <<a>>)
           IsFold(f) == f = [n \in 0..Len(<<a>>) |->
                              IF n = 0 THEN base ELSE PersistEvent(f[n - 1], <<a>>[n], i)]
           f == CHOOSE f : IsFold(f)
           g == [n \in 0..1 |-> IF n = 0 THEN base ELSE PersistEvent(base, a, i)]
<1>1. Saved(rows, i, <<a>>) = f[1]
  BY DEF Saved, base
<1> HIDE DEF base
<1>2. IsFold(g)
  <2>1. g[0] = base /\ g[1] = PersistEvent(g[0], a, i)
    OBVIOUS
  <2>2. QED
    BY <2>1
<1>3. IsFold(f)
  BY <1>2
<1> HIDE DEF f
<1>4. f[0] = base /\ f[1] = PersistEvent(f[0], a, i)
  BY <1>3
<1>5. QED
  BY <1>1, <1>4 DEF base

LEMMA SavedTwo ==
  ASSUME NEW rows, NEW i, NEW a, NEW b
  PROVE  Saved(rows, i, <<a, b>>) = PersistEvent(PersistEvent(Updated(rows, i, <<a, b>>), a, i), b, i)
<1> DEFINE base == Updated(rows, i, <<a, b>>)
           IsFold(f) == f = [n \in 0..Len(<<a, b>>) |->
                              IF n = 0 THEN base ELSE PersistEvent(f[n - 1], <<a, b>>[n], i)]
           f == CHOOSE f : IsFold(f)
           one == PersistEvent(base, a, i)
           g == [n \in 0..2 |-> IF n = 0 THEN base ELSE IF n = 1 THEN one ELSE PersistEvent(one, b, i)]
<1>1. Saved(rows, i, <<a, b>>) = f[2]
  BY DEF Saved, base
<1> HIDE DEF base
<1>2. IsFold(g)
  <2>1. g[0] = base /\ g[1] = PersistEvent(g[0], a, i) /\ g[2] = PersistEvent(g[1], b, i)
    OBVIOUS
  <2>2. QED
    BY <2>1
<1>3. IsFold(f)
  BY <1>2
<1> HIDE DEF f
<1>4. f[0] = base /\ f[1] = PersistEvent(f[0], a, i) /\ f[2] = PersistEvent(f[1], b, i)
  BY <1>3
<1>5. QED
  BY <1>1, <1>4 DEF base

LEMMA SavedThree ==
  ASSUME NEW rows, NEW i, NEW a, NEW b, NEW c
  PROVE  Saved(rows, i, <<a, b, c>>)
           = PersistEvent(PersistEvent(PersistEvent(Updated(rows, i, <<a, b, c>>), a, i), b, i), c, i)
<1> DEFINE base == Updated(rows, i, <<a, b, c>>)
           IsFold(f) == f = [n \in 0..Len(<<a, b, c>>) |->
                              IF n = 0 THEN base ELSE PersistEvent(f[n - 1], <<a, b, c>>[n], i)]
           f == CHOOSE f : IsFold(f)
           one == PersistEvent(base, a, i)
           two == PersistEvent(one, b, i)
           g == [n \in 0..3 |-> IF n = 0 THEN base ELSE IF n = 1 THEN one
                                ELSE IF n = 2 THEN two ELSE PersistEvent(two, c, i)]
<1>1. Saved(rows, i, <<a, b, c>>) = f[3]
  BY DEF Saved, base
<1> HIDE DEF base
<1>2. IsFold(g)
  <2>1. /\ g[0] = base /\ g[1] = PersistEvent(g[0], a, i)
        /\ g[2] = PersistEvent(g[1], b, i) /\ g[3] = PersistEvent(g[2], c, i)
    OBVIOUS
  <2>2. QED
    BY <2>1
<1>3. IsFold(f)
  BY <1>2
<1> HIDE DEF f
<1>4. /\ f[0] = base /\ f[1] = PersistEvent(f[0], a, i)
      /\ f[2] = PersistEvent(f[1], b, i) /\ f[3] = PersistEvent(f[2], c, i)
  BY <1>3
<1>5. QED
  BY <1>1, <1>4 DEF base

-------------------------------------------------------------------------------
(* What each transition's events leave behind, column by column.           *)

AreRows(rows) ==
  rows \in [session : {rows.session}, ended : {rows.ended}, snapshots : {rows.snapshots},
            messages : {rows.messages}, evaluations : {rows.evaluations}, reports : {rows.reports}]

Hold(rows, i, ended, snapshots, messages, evaluations, reports) ==
  /\ AreRows(rows)
  /\ rows.session = SessionColumns(i)
  /\ rows.ended <=> ended
  /\ rows.snapshots = snapshots
  /\ rows.messages = messages
  /\ rows.evaluations = evaluations
  /\ rows.reports = reports

WithOutcome(k, outcome) == [store.snapshots EXCEPT ![k].outcome = outcome]
WithFreeze(k, at) == [store.snapshots EXCEPT ![k].frozen = TRUE, ![k].frozenAt = at]
WithoutJudgement(k) == {e \in store.evaluations : e.position # k}

LEMMA UpdatedRows ==
  ASSUME NEW rows, AreRows(rows), NEW i, NEW events
  PROVE  Hold(Updated(rows, i, events), i,
              rows.ended \/ \E n \in DOMAIN events : IsTerminalEvent(events[n]),
              rows.snapshots, rows.messages, rows.evaluations, rows.reports)
<1> DEFINE u == Updated(rows, i, events)
           v == rows.ended \/ \E n \in DOMAIN events : IsTerminalEvent(events[n])
<1>1. u = [rows EXCEPT !.session = SessionColumns(i), !.ended = v]
  BY DEF Updated
<1> HIDE DEF u, v
<1>2. Hold(u, i, v, rows.snapshots, rows.messages, rows.evaluations, rows.reports)
  BY <1>1 DEF AreRows, Hold
<1>3. QED
  BY <1>2 DEF u, v

LEMMA QuietRows ==
  ASSUME AreRows(store), Saves(<<>>)
  PROVE  Hold(store', interview', store.ended, store.snapshots, store.messages, store.evaluations,
              store.reports)
<1>1. store' = Updated(store, interview', <<>>)
  BY SavedNothing DEF Saves
<1>2. ~ \E n \in DOMAIN <<>> : IsTerminalEvent(<<>>[n])
  OBVIOUS
<1>3. QED
  BY <1>1, <1>2, UpdatedRows DEF Hold

LEMMA OutcomeRows ==
  ASSUME AreRows(store), NEW i, NEW outcome, Saves(OutcomeEvents(i, outcome))
  PROVE  Hold(store', interview', store.ended, WithOutcome(i.position, outcome), store.messages,
              WithoutJudgement(i.position), store.reports)
<1> DEFINE a == [type |-> "unevaluated_question_outcome_recorded", position |-> i.position,
                 outcome |-> outcome]
           u == Updated(store, interview', <<a>>)
           v == WithoutEvaluation(u, i.position)
<1>1. store' = PersistEvent(u, a, interview')
  BY SavedOne DEF Saves, OutcomeEvents
<1>2. ~ \E n \in DOMAIN <<a>> : IsTerminalEvent(<<a>>[n])
  BY DEF IsTerminalEvent
<1>3. Hold(u, interview', store.ended, store.snapshots, store.messages, store.evaluations, store.reports)
  BY <1>2, UpdatedRows DEF Hold
<1>4. PersistEvent(u, a, interview') = SetOutcome(v, i.position, outcome)
  BY DEF PersistEvent, PersistOutcome
<1> HIDE DEF a, u
<1>5. Hold(v, interview', store.ended, store.snapshots, store.messages, WithoutJudgement(i.position),
           store.reports)
  BY <1>3 DEF Hold, AreRows, WithoutEvaluation, WithoutJudgement
<1> HIDE DEF v
<1>6. QED
  BY <1>1, <1>4, <1>5 DEF Hold, AreRows, SetOutcome, WithOutcome

LEMMA FrozenRows ==
  ASSUME AreRows(store), NEW i, NEW at, Saves(FrozenEvents(i, at))
  PROVE  Hold(store', interview', store.ended, WithFreeze(i.position, at), store.messages,
              store.evaluations, store.reports)
<1> DEFINE a == [type |-> "question_frozen", position |-> i.position, at |-> at]
           u == Updated(store, interview', <<a>>)
<1>1. store' = PersistEvent(u, a, interview')
  BY SavedOne DEF Saves, FrozenEvents
<1>2. ~ \E n \in DOMAIN <<a>> : IsTerminalEvent(<<a>>[n])
  BY DEF IsTerminalEvent
<1>3. Hold(u, interview', store.ended, store.snapshots, store.messages, store.evaluations, store.reports)
  BY <1>2, UpdatedRows DEF Hold
<1>4. PersistEvent(u, a, interview') =
        [u EXCEPT !.snapshots[i.position].frozen = TRUE, !.snapshots[i.position].frozenAt = at]
  BY DEF PersistEvent, PersistFreeze
<1> HIDE DEF a, u
<1>5. QED
  BY <1>1, <1>3, <1>4 DEF Hold, AreRows, WithFreeze

LEMMA AbandonedRows ==
  ASSUME AreRows(store), Saves(AbandonedEvents)
  PROVE  Hold(store', interview', TRUE, store.snapshots, store.messages, store.evaluations,
              store.reports)
<1> DEFINE a == [type |-> "interview_abandoned"]
           u == Updated(store, interview', <<a>>)
<1>1. store' = PersistEvent(u, a, interview')
  BY SavedOne DEF Saves, AbandonedEvents
<1>2. 1 \in DOMAIN <<a>> /\ <<a>>[1] = a /\ IsTerminalEvent(a)
  BY DEF IsTerminalEvent
<1>3. PersistEvent(u, a, interview') = u
  BY DEF PersistEvent
<1>4. QED
  BY <1>1, <1>2, <1>3, UpdatedRows DEF Hold

LEMMA ReportRows ==
  ASSUME AreRows(store), NEW i, Saves(ReportEvents(i))
  PROVE  Hold(store', interview', TRUE, store.snapshots, store.messages, store.evaluations,
              store.reports \cup {ReportOf(interview', i.reportKind)})
<1> DEFINE a == [type |-> "report_stored", kind |-> i.reportKind]
           u == Updated(store, interview', <<a>>)
<1>1. store' = PersistEvent(u, a, interview')
  BY SavedOne DEF Saves, ReportEvents
<1>2. 1 \in DOMAIN <<a>> /\ <<a>>[1] = a /\ IsTerminalEvent(a)
  BY DEF IsTerminalEvent
<1>3. Hold(u, interview', TRUE, store.snapshots, store.messages, store.evaluations, store.reports)
  BY <1>2, UpdatedRows DEF Hold
<1>4. PersistEvent(u, a, interview') =
        [u EXCEPT !.reports = @ \cup {ReportOf(interview', i.reportKind)}]
  BY DEF PersistEvent
<1> HIDE DEF a, u
<1>5. QED
  BY <1>1, <1>3, <1>4 DEF Hold, AreRows
NewMessage(op, kind, k, requestedAt, at) ==
  [id |-> op, kind |-> kind, position |-> k, requestedAt |-> requestedAt, createdAt |-> at]

Answer(p) == NewMessage(p.command.op, p.materialKind, p.position, NoTime, p.command.occurredAt)

LEMMA HoldsMessage ==
  ASSUME NEW rows, NEW i, NEW ended, NEW snapshots, NEW messages, NEW evaluations, NEW reports,
         Hold(rows, i, ended, snapshots, messages, evaluations, reports),
         NEW e, NEW requestedAt, NEW kind
  PROVE  Hold(WithMessage(rows, e, requestedAt, kind), i, ended, snapshots,
              Append(messages, NewMessage(e.op, kind, e.position, requestedAt, e.at)),
              evaluations, reports)
  BY DEF Hold, AreRows, WithMessage, NewMessage

LEMMA ClarificationRows ==
  ASSUME AreRows(store), NEW p, NEW at, Saves(ClarificationEvents(p, at))
  PROVE  Hold(store', interview', store.ended, store.snapshots,
              Append(store.messages, NewMessage(p.command.op, "question_clarification", p.position,
                                                p.command.occurredAt, at)),
              store.evaluations, store.reports)
<1> DEFINE a == [type |-> "question_clarification_recorded", op |-> p.command.op,
                 position |-> p.position, requestedAt |-> p.command.occurredAt, at |-> at]
           u == Updated(store, interview', <<a>>)
<1>1. store' = PersistEvent(u, a, interview')
  BY SavedOne DEF Saves, ClarificationEvents
<1>2. ~ \E n \in DOMAIN <<a>> : IsTerminalEvent(<<a>>[n])
  BY DEF IsTerminalEvent
<1>3. Hold(u, interview', store.ended, store.snapshots, store.messages, store.evaluations, store.reports)
  BY <1>2, UpdatedRows DEF Hold
<1>4. PersistEvent(u, a, interview') = WithMessage(u, a, a.requestedAt, "question_clarification")
  BY DEF PersistEvent
<1> HIDE DEF u
<1>5. QED
  BY <1>1, <1>3, <1>4, HoldsMessage

(* The answer comes first in every event list that has one.                *)
LEMMA AnswerPersisted ==
  ASSUME NEW rows, NEW i, NEW ended, NEW snapshots, NEW messages, NEW evaluations, NEW reports,
         Hold(rows, i, ended, snapshots, messages, evaluations, reports), NEW p
  PROVE  Hold(PersistEvent(rows, AnswerEvent(p), i), i, ended, snapshots,
              Append(messages, Answer(p)), evaluations, reports)
<1>1. PersistEvent(rows, AnswerEvent(p), i) = WithMessage(rows, AnswerEvent(p), NoTime, p.materialKind)
  BY DEF PersistEvent, AnswerEvent
<1>2. /\ AnswerEvent(p).op = p.command.op /\ AnswerEvent(p).position = p.position
      /\ AnswerEvent(p).at = p.command.occurredAt
  BY DEF AnswerEvent
<1>3. QED
  BY <1>1, <1>2, HoldsMessage DEF Answer

LEMMA FollowUpPersisted ==
  ASSUME NEW rows, NEW i, NEW ended, NEW snapshots, NEW messages, NEW evaluations, NEW reports,
         Hold(rows, i, ended, snapshots, messages, evaluations, reports), NEW p, NEW kind, NEW at,
         NEW e, e = [type |-> "system_follow_up_recorded", op |-> p.command.op, position |-> p.position,
                     kind |-> kind, at |-> at]
  PROVE  Hold(PersistEvent(rows, e, i), i, ended, snapshots,
              Append(messages, NewMessage(p.command.op, kind, p.position, NoTime, at)),
              evaluations, reports)
<1>1. PersistEvent(rows, e, i) = WithMessage(rows, e, NoTime, kind)
  BY DEF PersistEvent
<1>2. e.op = p.command.op /\ e.position = p.position /\ e.at = at
  OBVIOUS
<1>3. QED
  BY <1>1, <1>2, HoldsMessage

LEMMA Concatenated ==
  ASSUME NEW a, NEW b, NEW c
  PROVE  /\ <<a>> \o <<b>> \o <<c>> = <<a, b, c>>
         /\ <<a>> \o <<>> \o <<c>> = <<a, c>>
<1>1. ASSUME NEW S, NEW s \in Seq(S), Len(s) = 2
      PROVE  s = <<s[1], s[2]>>
  BY <1>1
<1>2. ASSUME NEW S, NEW s \in Seq(S), Len(s) = 3
      PROVE  s = <<s[1], s[2], s[3]>>
  BY <1>2
<1>3. ASSUME NEW x, NEW y
      PROVE  <<x>> \o <<y>> = <<x, y>>
  <2> DEFINE s == <<x>> \o <<y>>
  <2>1. s \in Seq({x, y}) /\ Len(s) = 2 /\ s[1] = x /\ s[2] = y
    OBVIOUS
  <2> HIDE DEF s
  <2>2. s = <<x, y>>
    BY <2>1, <1>1
  <2>3. QED
    BY <2>2 DEF s
<1>4. <<a>> \o <<>> = <<a>>
  <2>1. <<a>> \in Seq({a})
    OBVIOUS
  <2>2. QED
    BY <2>1, ConcatEmptySeq
<1>5. <<a, b>> \o <<c>> = <<a, b, c>>
  <2> DEFINE s == <<a, b>> \o <<c>>
  <2>1. s \in Seq({a, b, c}) /\ Len(s) = 3 /\ s[1] = a /\ s[2] = b /\ s[3] = c
    OBVIOUS
  <2> HIDE DEF s
  <2>2. s = <<a, b, c>>
    BY <2>1, <1>2
  <2>3. QED
    BY <2>2 DEF s
<1>6. QED
  BY <1>3, <1>4, <1>5

LEMMA FollowUpRows ==
  ASSUME AreRows(store), NEW i, NEW p, NEW kind, NEW at, Saves(FollowUpEvents(i, p, kind, at))
  PROVE  LET messages == Append(Append(store.messages, Answer(p)),
                                NewMessage(p.command.op, kind, p.position, NoTime, at))
             had == CurrentQuestion(i).evaluation # {} \/ CurrentQuestion(i).outcome # "none"
         IN  /\ had => Hold(store', interview', store.ended, WithOutcome(p.position, "none"), messages,
                            WithoutJudgement(p.position), store.reports)
             /\ ~ had => Hold(store', interview', store.ended, store.snapshots, messages,
                              store.evaluations, store.reports)
<1> DEFINE a == AnswerEvent(p)
           b == [type |-> "question_outcome_cleared", position |-> p.position]
           c == [type |-> "system_follow_up_recorded", op |-> p.command.op, position |-> p.position,
                 kind |-> kind, at |-> at]
           had == CurrentQuestion(i).evaluation # {} \/ CurrentQuestion(i).outcome # "none"
           messages == Append(store.messages, Answer(p))
<1>1. ~ IsTerminalEvent(a) /\ ~ IsTerminalEvent(b) /\ ~ IsTerminalEvent(c)
  BY DEF IsTerminalEvent, AnswerEvent
<1> DEFINE middle == IF had THEN <<b>> ELSE <<>>
<1>9. FollowUpEvents(i, p, kind, at) = <<a>> \o middle \o <<c>>
  BY DEF FollowUpEvents
<1>2. CASE had
  <2> DEFINE u == Updated(store, interview', <<a, b, c>>)
             v == PersistEvent(u, a, interview')
             w == PersistEvent(v, b, interview')
  <2>1. FollowUpEvents(i, p, kind, at) = <<a>> \o <<b>> \o <<c>>
    <3> HIDE DEF a, b, c, had
    <3>1. middle = <<b>>
      BY <1>2
    <3>2. QED
      BY <1>9, <3>1
  <2>2. store' = PersistEvent(w, c, interview')
    <3> HIDE DEF a, b, c
    <3>1. FollowUpEvents(i, p, kind, at) = <<a, b, c>>
      BY <2>1, Concatenated
    <3>2. QED
      BY <3>1, SavedThree DEF Saves
  <2>3. ~ \E n \in DOMAIN <<a, b, c>> : IsTerminalEvent(<<a, b, c>>[n])
    <3> HIDE DEF a, b, c
    <3>1. QED
      BY <1>1
  <2>4. Hold(u, interview', store.ended, store.snapshots, store.messages, store.evaluations,
             store.reports)
    BY <2>3, UpdatedRows DEF Hold
  <2> HIDE DEF u
  <2>5. Hold(v, interview', store.ended, store.snapshots, messages, store.evaluations, store.reports)
    BY <2>4, AnswerPersisted
  <2>6. w = SetOutcome(WithoutEvaluation(v, p.position), p.position, "none")
    BY DEF PersistEvent
  <2> HIDE DEF v, w, messages
  <2>7. Hold(WithoutEvaluation(v, p.position), interview', store.ended, store.snapshots, messages,
             WithoutJudgement(p.position), store.reports)
    BY <2>5 DEF Hold, AreRows, WithoutEvaluation, WithoutJudgement
  <2>8. Hold(w, interview', store.ended, WithOutcome(p.position, "none"), messages,
             WithoutJudgement(p.position), store.reports)
    BY <2>6, <2>7 DEF Hold, AreRows, SetOutcome, WithOutcome
  <2>9. QED
    BY <1>2, <2>2, <2>8, FollowUpPersisted DEF messages
<1>3. CASE ~ had
  <2> DEFINE u == Updated(store, interview', <<a, c>>)
             v == PersistEvent(u, a, interview')
  <2>1. FollowUpEvents(i, p, kind, at) = <<a>> \o <<>> \o <<c>>
    <3> HIDE DEF a, b, c, had
    <3>1. middle = <<>>
      BY <1>3
    <3>2. QED
      BY <1>9, <3>1
  <2>2. store' = PersistEvent(v, c, interview')
    <3> HIDE DEF a, c
    <3>1. FollowUpEvents(i, p, kind, at) = <<a, c>>
      BY <2>1, Concatenated
    <3>2. QED
      BY <3>1, SavedTwo DEF Saves
  <2>3. ~ \E n \in DOMAIN <<a, c>> : IsTerminalEvent(<<a, c>>[n])
    <3> HIDE DEF a, c
    <3>1. QED
      BY <1>1
  <2>4. Hold(u, interview', store.ended, store.snapshots, store.messages, store.evaluations,
             store.reports)
    BY <2>3, UpdatedRows DEF Hold
  <2> HIDE DEF u
  <2>5. Hold(v, interview', store.ended, store.snapshots, messages, store.evaluations, store.reports)
    BY <2>4, AnswerPersisted
  <2> HIDE DEF v, messages
  <2>6. QED
    BY <1>3, <2>2, <2>5, FollowUpPersisted DEF messages
<1>4. QED
  BY <1>2, <1>3

LEMMA EvaluationRows ==
  ASSUME AreRows(store), NEW i, NEW p, NEW outcome, Saves(EvaluationEvents(i, p, outcome))
  PROVE  Hold(store', interview', store.ended, WithOutcome(p.position, outcome),
              Append(store.messages, Answer(p)),
              WithoutJudgement(p.position) \cup
                {[position |-> p.position, judged |-> MaterialIds(WithMaterial(CurrentQuestion(i), p)),
                  outcome |-> outcome]},
              store.reports)
<1> DEFINE a == AnswerEvent(p)
           judged == MaterialIds(WithMaterial(CurrentQuestion(i), p))
           b == [type |-> "question_evaluation_recorded", position |-> p.position, outcome |-> outcome,
                 judged |-> judged]
           row == [position |-> p.position, judged |-> judged, outcome |-> outcome]
           messages == Append(store.messages, Answer(p))
           u == Updated(store, interview', <<a, b>>)
           v == PersistEvent(u, a, interview')
           w == SetOutcome(WithoutEvaluation(v, p.position), p.position, outcome)
<1>1. ~ IsTerminalEvent(a) /\ ~ IsTerminalEvent(b)
  BY DEF IsTerminalEvent, AnswerEvent
<1>2. store' = PersistEvent(v, b, interview')
  BY SavedTwo DEF Saves, EvaluationEvents
<1>3. ~ \E n \in DOMAIN <<a, b>> : IsTerminalEvent(<<a, b>>[n])
  <2> HIDE DEF a, b
  <2>1. QED
    BY <1>1
<1>4. Hold(u, interview', store.ended, store.snapshots, store.messages, store.evaluations,
           store.reports)
  BY <1>3, UpdatedRows DEF Hold
<1> HIDE DEF u
<1>5. Hold(v, interview', store.ended, store.snapshots, messages, store.evaluations, store.reports)
  BY <1>4, AnswerPersisted
<1>6. PersistEvent(v, b, interview') = [w EXCEPT !.evaluations = @ \cup {row}]
  BY DEF PersistEvent, PersistEvaluation
<1> HIDE DEF v, b, row, judged, messages
<1>7. Hold(WithoutEvaluation(v, p.position), interview', store.ended, store.snapshots, messages,
           WithoutJudgement(p.position), store.reports)
  BY <1>5 DEF Hold, AreRows, WithoutEvaluation, WithoutJudgement
<1>8. Hold(w, interview', store.ended, WithOutcome(p.position, outcome), messages,
           WithoutJudgement(p.position), store.reports)
  BY <1>7 DEF Hold, AreRows, SetOutcome, WithOutcome
<1> HIDE DEF w
<1>9. Hold(store', interview', store.ended, WithOutcome(p.position, outcome), messages,
           WithoutJudgement(p.position) \cup {row}, store.reports)
  BY <1>2, <1>6, <1>8 DEF Hold, AreRows
<1>10. QED
  BY <1>9 DEF row, judged, messages

-------------------------------------------------------------------------------
(* The invariant of the rows.  That they load again is not inductive: a      *)
(* message may be added only because its operation has none yet, a freeze    *)
(* dated only because nothing before it is later, and a pending operation     *)
(* matched to its row only because its latest plan was accepted last.        *)

Snapshot == [outcome : Outcomes, frozen : BOOLEAN, frozenAt : Times \cup {NoTime}]

Message ==
  [id : Ops, kind : MaterialKinds \cup FollowUpKinds \cup {"question_clarification"},
   position : Positions, requestedAt : Times \cup {NoTime}, createdAt : Times]

MessagesAt(messages, k) == {messages[n] : n \in {d \in DOMAIN messages : messages[d].position = k}}

Materials(M) == {[id |-> m.id, kind |-> m.kind] : m \in {n \in M : n.kind \in MaterialKinds}}
FollowUpsIn(M) == {m.kind : m \in {n \in M : n.kind \in FollowUpKinds}}
ClarificationsIn(M) == {m.id : m \in {n \in M : n.kind = "question_clarification"}}

Judgement(q, k) ==
  IF q.evaluation = {} THEN {}
  ELSE {[position |-> k, judged |-> q.evaluation, outcome |-> q.outcome]}

(* The rows of position `k` are those of the question `q`.                   *)
KeptAt(rows, q, k) ==
  /\ q.material = Materials(MessagesAt(rows.messages, k))
  /\ q.followUps = FollowUpsIn(MessagesAt(rows.messages, k))
  /\ q.clarifications = ClarificationsIn(MessagesAt(rows.messages, k))
  /\ EvaluationsOf(rows, k) = Judgement(q, k)
  /\ rows.snapshots[k].outcome = q.outcome
  /\ rows.snapshots[k].frozen = q.frozen
  /\ q.frozen <=> rows.snapshots[k].frozenAt # NoTime

QuestionsKept == \A k \in Positions : KeptAt(store, interview.questions[k], k)

Apart(messages) ==
  \A a, b \in DOMAIN messages :
    LET m == messages[a]
        n == messages[b]
    IN  a # b => /\ ~ SameMessage(m, n)
                 /\ m.position = n.position /\ m.kind \in FollowUpKinds => m.kind # n.kind

(* No operation that may still complete has a message.                       *)
SettledMessage(m) ==
  /\ m.kind = "question_clarification" => m.requestedAt <= m.createdAt
  /\ m.id \notin failed /\ m.id # interview.pending.op
  /\ \E p \in plans : p.command.op = m.id

MessagesKept ==
  Apart(store.messages) /\ \A n \in DOMAIN store.messages : SettledMessage(store.messages[n])

ReportKept ==
  store.reports =
    IF interview.hasReport
    THEN {ReportOf(interview, IF interview.status = "completed" THEN "complete" ELSE "incomplete")}
    ELSE {}

FreezesTimed ==
  /\ \A k \in Positions : store.snapshots[k].frozenAt <= interview.lastActivity
  /\ \A k \in Positions \ {1} :
       store.snapshots[k].frozen => store.snapshots[k - 1].frozenAt <= store.snapshots[k].frozenAt

PlansTimed ==
  /\ \A p \in plans : /\ p.command.occurredAt <= p.acceptedAt
                      /\ p.acceptedAt <= interview.lastActivity
  /\ \A p, q \in plans : p.command.op = q.command.op => p.command = q.command
  /\ IsPending(interview) =>
       \E p \in plans :
         /\ p.command.op = interview.pending.op
         /\ p.position = interview.pending.position
         /\ p.acceptedAt = interview.pending.acceptedAt
         /\ interview.pending.kind = OperationKind(p.command)
         /\ interview.pending.previous = RequiredPhase(p.command)

(* How an interview that is no longer active was left.                       *)
LeftWell(i) ==
  /\ i.hasReport <=> i.status \in {"completed", "early_ended"}
  /\ i.reportKind = "incomplete" \/ i.status \in {"early_ended", "abandoned"} =>
       ~ CurrentQuestion(i).frozen
  /\ i.status = "report_pending" => i.reportRequestedAt # NoTime
  /\ i.status # "deleting"

Over(i) == i.status \in {"completed", "early_ended", "abandoned"}

ColumnsKept == store.session = SessionColumns(interview) /\ (store.ended <=> Over(interview))

RowsTyped ==
  AreRows(store) /\ store.snapshots \in [Positions -> Snapshot] /\ store.messages \in Seq(Message)

RowsInv ==
  /\ RowsTyped /\ ColumnsKept /\ QuestionsKept /\ MessagesKept /\ ReportKept
  /\ FreezesTimed /\ PlansTimed /\ LeftWell(interview)

StoreInv == Inv /\ RowsInv

-------------------------------------------------------------------------------
(* Rows that satisfy it load, and give the interview back.                  *)

LEMMA QuestionRead ==
  ASSUME NEW rows, NEW k, NEW q \in Question, KeptAt(rows, q, k)
  PROVE  QuestionOf(rows, k) = q
<1> DEFINE r == QuestionOf(rows, k)
           M == MessagesAt(rows.messages, k)
<1>1. r = [material |-> Materials(M), followUps |-> FollowUpsIn(M),
           clarifications |-> ClarificationsIn(M),
           evaluation |-> UNION {e.judged : e \in EvaluationsOf(rows, k)},
           outcome |-> rows.snapshots[k].outcome, frozen |-> rows.snapshots[k].frozen]
  BY DEF QuestionOf, MessagesOf, MessagesAt, Materials, FollowUpsIn, ClarificationsIn
<1>2. UNION {e.judged : e \in EvaluationsOf(rows, k)} = q.evaluation
  <2>1. CASE q.evaluation = {}
    BY <2>1 DEF KeptAt, Judgement
  <2>2. CASE q.evaluation # {}
    <3> DEFINE e == [position |-> k, judged |-> q.evaluation, outcome |-> q.outcome]
    <3>1. EvaluationsOf(rows, k) = {e} /\ e.judged = q.evaluation
      BY <2>2 DEF KeptAt, Judgement
    <3> HIDE DEF e
    <3>2. {x.judged : x \in EvaluationsOf(rows, k)} = {q.evaluation}
      BY <3>1
    <3>3. QED
      BY <3>2
  <2>3. QED
    BY <2>1, <2>2
<1> HIDE DEF M
<1>3. q = [material |-> q.material, followUps |-> q.followUps, clarifications |-> q.clarifications,
           evaluation |-> q.evaluation, outcome |-> q.outcome, frozen |-> q.frozen]
  BY DEF Question
<1>4. QED
  BY <1>1, <1>2, <1>3 DEF KeptAt, M

LEMMA LoadedBack ==
  ASSUME StoreInv
  PROVE  Loaded(store) = interview
<1>1. interview \in Interview
  BY DEF StoreInv, Inv, TypeOK
<1>2. \A k \in Positions : interview.questions[k] \in Question
  BY <1>1 DEF Interview
<1>3. [k \in Positions |-> QuestionOf(store, k)] = interview.questions
  <2>1. \A k \in Positions : QuestionOf(store, k) = interview.questions[k]
    BY <1>2, QuestionRead DEF StoreInv, RowsInv, QuestionsKept
  <2>2. interview.questions \in [Positions -> Question]
    BY <1>1 DEF Interview
  <2>3. QED
    BY <2>1, <2>2
<1>4. (store.reports # {}) = interview.hasReport
  BY <1>1 DEF StoreInv, RowsInv, ReportKept, Interview
<1>5. store.session = SessionColumns(interview)
  BY DEF StoreInv, RowsInv, ColumnsKept
<1>6. Loaded(store) =
        [version |-> interview.version, status |-> interview.status, phase |-> interview.phase,
         position |-> interview.position, questions |-> interview.questions,
         pending |-> interview.pending, reportKind |-> interview.reportKind,
         reportRequestedAt |-> interview.reportRequestedAt, hasReport |-> interview.hasReport,
         lastActivity |-> interview.lastActivity]
  BY <1>3, <1>4, <1>5 DEF Loaded, SessionColumns
<1>7. interview =
        [version |-> interview.version, status |-> interview.status, phase |-> interview.phase,
         position |-> interview.position, questions |-> interview.questions,
         pending |-> interview.pending, reportKind |-> interview.reportKind,
         reportRequestedAt |-> interview.reportRequestedAt, hasReport |-> interview.hasReport,
         lastActivity |-> interview.lastActivity]
  BY <1>1 DEF Interview
<1>8. QED
  BY <1>6, <1>7
LEMMA QuestionsFit ==
  ASSUME StoreInv, NEW k \in Positions
  PROVE  QuestionFits(store, k)
<1> DEFINE q == interview.questions[k]
<1>1. /\ q \in Question /\ KeptAt(store, q, k)
      /\ q.outcome \in EvaluatedOutcomes <=> q.evaluation # {}
      /\ q.evaluation # {} => q.evaluation = MaterialIds(q)
      /\ q.outcome \in Outcomes
  BY DEF StoreInv, Inv, TypeOK, Interview, Sound, Judged, RowsInv, QuestionsKept, Question
<1>2. QuestionOf(store, k) = q
  BY <1>1, QuestionRead
<1> HIDE DEF q
<1>3. /\ \A a, b \in MessagesOf(store, k) : a # b =>
           /\ ~ SameMessage(store.messages[a], store.messages[b])
           /\ store.messages[a].kind \in FollowUpKinds => store.messages[a].kind # store.messages[b].kind
      /\ \A a \in MessagesOf(store, k) :
           store.messages[a].kind = "question_clarification" =>
             store.messages[a].requestedAt <= store.messages[a].createdAt
  BY DEF StoreInv, RowsInv, MessagesKept, Apart, SettledMessage, MessagesOf
<1>4. Cardinality(EvaluationsOf(store, k)) <= 1
  <2>1. CASE q.evaluation = {}
    BY <1>1, <2>1, FS_EmptySet DEF KeptAt, Judgement
  <2>2. CASE q.evaluation # {}
    <3>1. Cardinality({[position |-> k, judged |-> q.evaluation, outcome |-> q.outcome]}) = 1
      BY FS_Singleton
    <3>2. QED
      BY <1>1, <2>2, <3>1 DEF KeptAt, Judgement
  <2>3. QED
    BY <2>1, <2>2
<1>5. \A e \in EvaluationsOf(store, k) :
        e.judged \subseteq MaterialIds(q) /\ e.outcome = store.snapshots[k].outcome
  BY <1>1 DEF KeptAt, Judgement
<1>6. EvaluationsOf(store, k) = {} => store.snapshots[k].outcome \in {"unknown", "skipped", "none"}
  BY <1>1 DEF KeptAt, Judgement, Outcomes, EvaluatedOutcomes
<1>7. store.snapshots[k].frozen <=> store.snapshots[k].frozenAt # NoTime
  BY <1>1 DEF KeptAt
<1>8. QED
  BY <1>2, <1>3, <1>4, <1>5, <1>6, <1>7 DEF QuestionFits

(* The latest plan of the pending operation is the one it waits for.        *)
LEMMA PendingFit ==
  ASSUME StoreInv
  PROVE  PendingFits(store.session)
<1>1. SUFFICES ASSUME IsPending(interview)
               PROVE  PendingFits(SessionColumns(interview))
  BY DEF StoreInv, RowsInv, ColumnsKept, PendingFits, SessionColumns, IsPending
<1>2. interview \in Interview /\ interview.pending.acceptedAt \in Times /\ Times \subseteq Nat
  BY InterviewAssumption DEF StoreInv, Inv, TypeOK, Interview, Pending
<1>3. PICK p \in plans :
        /\ p.command.op = interview.pending.op
        /\ p.position = interview.pending.position
        /\ p.acceptedAt = interview.pending.acceptedAt
        /\ interview.pending.kind = OperationKind(p.command)
        /\ interview.pending.previous = RequiredPhase(p.command)
  BY <1>1 DEF StoreInv, RowsInv, PlansTimed
<1>4. /\ interview.pending.position = interview.position
      /\ interview.pending.acceptedAt = interview.lastActivity
      /\ interview.phase = "processing"
      /\ interview.pending.op \notin failed
  BY <1>1 DEF StoreInv, Inv, Tallied, Pointed, Sound, Phased, PlansInv
<1>5. p.command.expectedVersion = interview.version - 1
  <2>1. /\ p.interview.version = interview.version
        /\ p.interview.version = p.command.expectedVersion + 1
    BY <1>3 DEF StoreInv, Inv, PlansInv, PlanMade, PlanKept, Waiting
  <2>2. p.command.expectedVersion \in Nat /\ interview.version \in Nat
    BY <1>2 DEF StoreInv, Inv, TypeOK, Plan, PlannedCommand, Interview
  <2>3. QED
    BY <2>1, <2>2
<1>6. LastAttemptAt(p.command.op) = interview.pending.acceptedAt
  <2> DEFINE S == {r.acceptedAt : r \in PlansOf(p.command.op)}
             m == interview.pending.acceptedAt
  <2>1. m \in S
    BY <1>3 DEF PlansOf
  <2>2. \A x \in S : x \in Nat /\ x <= m
    BY <1>2, <1>4, InterviewAssumption
       DEF PlansOf, StoreInv, RowsInv, PlansTimed, Inv, TypeOK, Plan
  <2> HIDE DEF S
  <2>3. Max(S) \in S /\ \A y \in S : Max(S) >= y
    <3>1. \A y \in S : m >= y
      BY <1>2, <2>1, <2>2
    <3>2. QED
      BY <2>1, <3>1 DEF Max
  <2>4. Max(S) = m
    BY <1>2, <2>1, <2>2, <2>3
  <2>5. QED
    BY <2>4 DEF LastAttemptAt, S
<1>7. MatchesRow(SessionColumns(interview), p)
  BY <1>3, <1>4, <1>5, <1>6 DEF MatchesRow, SessionColumns
<1>8. \E r \in PlansOf(interview.pending.op) : MatchesRow(SessionColumns(interview), r)
  <2>1. p \in PlansOf(interview.pending.op)
    BY <1>3 DEF PlansOf
  <2>2. QED
    BY <1>7, <2>1
<1>9. /\ SessionColumns(interview).pending = interview.pending
      /\ SessionColumns(interview).phase = interview.phase
      /\ SessionColumns(interview).position = interview.position
  BY DEF SessionColumns
<1>10. QED
  BY <1>4, <1>8, <1>9 DEF PendingFits, PlansOf

LEMMA ReportsFit ==
  ASSUME StoreInv
  PROVE  ReportFits(store, interview)
<1> DEFINE kind == IF interview.status = "completed" THEN "complete" ELSE "incomplete"
           report == ReportOf(interview, kind)
<1>1. /\ interview.hasReport <=> interview.status \in {"completed", "early_ended"}
      /\ interview.status = "completed" =>
           \A k \in Positions : interview.questions[k].frozen
      /\ \A k \in Positions : interview.questions[k].frozen => interview.questions[k].outcome # "none"
  BY DEF StoreInv, RowsInv, LeftWell, Inv, Sound, Requested, Ordered
<1>2. CASE ~ interview.hasReport
  <2>1. store.reports = {} /\ interview.status \notin {"completed", "early_ended"}
    BY <1>1, <1>2 DEF StoreInv, RowsInv, ReportKept
  <2>2. QED
    BY <2>1, FS_EmptySet DEF ReportFits
<1>3. CASE interview.hasReport
  <2>1. store.reports = {report}
    BY <1>3 DEF StoreInv, RowsInv, ReportKept
  <2>2. /\ report.kind = kind /\ report.covered = Covered(interview, kind)
        /\ \A k \in Positions : report.outcomes[k] = interview.questions[k].outcome
    BY DEF ReportOf
  <2>3. \A k \in Covered(interview, kind) : k \in Positions /\ interview.questions[k].outcome # "none"
    BY <1>1 DEF Covered
  <2> HIDE DEF report
  <2>4. ReportMatchesInterview(report, interview)
    BY <2>2, <2>3 DEF ReportMatchesInterview
  <2>5. interview.status = IF kind = "complete" THEN "completed" ELSE "early_ended"
    BY <1>1, <1>3
  <2>6. Cardinality(store.reports) <= 1
    BY <2>1, FS_Singleton
  <2>7. QED
    BY <2>1, <2>2, <2>4, <2>5, <2>6 DEF ReportFits
<1>4. QED
  BY <1>2, <1>3

LEMMA StateFit ==
  ASSUME StoreInv
  PROVE  StateFits(interview, store.ended)
<1>1. interview \in Interview
  BY DEF StoreInv, Inv, TypeOK
<1>2. /\ Phased(interview) /\ Ordered(interview) /\ Requested(interview) /\ Pointed(interview)
      /\ LeftWell(interview) /\ (store.ended <=> Over(interview))
  BY DEF StoreInv, Inv, Sound, Tallied, RowsInv, ColumnsKept
<1>3. /\ CurrentQuestion(interview) \in Question
      /\ interview.status = "active" => ~ CurrentQuestion(interview).frozen
  BY <1>1, <1>2, CurrentQuestionType DEF Requested
<1>4. /\ interview.status = "active" <=> interview.phase # "none"
      /\ interview.phase = "processing" <=> IsPending(interview)
      /\ interview.status = "active" =>
           (UserPhase(interview) = "awaiting_response" <=> CurrentQuestion(interview).outcome = "none")
  BY <1>2 DEF Phased
<1>5. interview.status = "active" =>
        LET waits == IF interview.phase = "processing" THEN interview.pending.previous
                     ELSE interview.phase
        IN  IF waits = "awaiting_response" THEN ResponseState(CurrentQuestion(interview))
            ELSE ContinueState(CurrentQuestion(interview))
  BY <1>3, <1>4 DEF ResponseState, ContinueState, UserPhase
<1>6. /\ IsPending(interview) => /\ interview.pending.position = interview.position
                                 /\ interview.pending.acceptedAt = interview.lastActivity
      /\ interview.status = "report_pending" <=> interview.reportKind # "none"
      /\ interview.status = "report_pending" => interview.reportRequestedAt # NoTime
      /\ interview.status \in {"completed", "early_ended", "abandoned"} <=> store.ended
  BY <1>2 DEF Pointed, Requested, LeftWell, Over
<1>7. \A k \in Positions :
        LET q == interview.questions[k]
        IN  /\ q.frozen => q.outcome # "none"
            /\ k < interview.position => q.frozen
            /\ k > interview.position => q = FreshQuestion
  BY <1>2 DEF Ordered
<1>8. /\ CompleteLifecycle(interview) => \A k \in Positions : interview.questions[k].frozen
      /\ IncompleteLifecycle(interview) =>
           (\E k \in Positions : interview.questions[k].outcome # "none")
           /\ ~ CurrentQuestion(interview).frozen
      /\ interview.status = "abandoned" => ~ CurrentQuestion(interview).frozen
  BY <1>2 DEF Requested, LeftWell, CompleteLifecycle, IncompleteLifecycle
<1>9. QED
  BY <1>4, <1>5, <1>6, <1>7, <1>8 DEF StateFits

LEMMA RowsLoad ==
  ASSUME StoreInv
  PROVE  LoadsWhatWasSaved
  BY LoadedBack, QuestionsFit, PendingFit, ReportsFit, StateFit DEF LoadsWhatWasSaved, Loads
LEMMA LeastNatural ==
  ASSUME NEW T \in SUBSET Nat, T # {}
  PROVE  \E x \in T : \A y \in T : x <= y
<1> DEFINE R == {ss \in Nat \X Nat : ss[1] < ss[2]}
<1>1. IsWellFoundedOn(R, Nat)
  BY NatLessThanWellFounded DEF OpToRel
<1>2. ASSUME NEW x \in Nat, NEW y \in Nat, ~ (<<y, x>> \in R)
      PROVE  x <= y
  <2>1. <<y, x>> \in Nat \X Nat /\ <<y, x>>[1] = y /\ <<y, x>>[2] = x
    OBVIOUS
  <2>2. ~ (y < x)
    BY <1>2, <2>1
  <2>3. QED
    BY <2>2
<1> HIDE DEF R
<1>3. \E x \in T : \A y \in T : ~ (<<y, x>> \in R)
  BY <1>1, WFMin
<1>4. QED
  BY <1>2, <1>3

(* A bounded set of naturals has a greatest element.                       *)
LEMMA GreatestNatural ==
  ASSUME NEW T \in SUBSET Nat, T # {}, NEW n \in Nat, \A y \in T : y <= n
  PROVE  Max(T) \in T /\ \A y \in T : y <= Max(T)
<1> DEFINE U == {u \in Nat : \A y \in T : y <= u}
<1>1. PICK m \in U : \A u \in U : m <= u
  <2>1. n \in U
    OBVIOUS
  <2>2. QED
    BY <2>1, LeastNatural
<1>2. m \in T
  <2>1. SUFFICES ASSUME m \notin T
                 PROVE  FALSE
    OBVIOUS
  <2>2. ASSUME NEW y \in T
        PROVE  y \in Nat /\ y < m /\ y <= m - 1
    <3>1. y \in Nat /\ m \in Nat /\ y <= m /\ y # m
      BY <1>1, <2>1
    <3>2. QED
      BY <3>1
  <2>3. m - 1 \in Nat
    <3>1. PICK y \in T : TRUE
      OBVIOUS
    <3>2. m \in Nat /\ y \in Nat /\ y < m
      BY <1>1, <2>2
    <3>3. QED
      BY <3>2
  <2>4. m - 1 \in U
    BY <2>2, <2>3
  <2>5. QED
    BY <1>1, <2>4
<1>3. \E x \in T : \A y \in T : x >= y
  BY <1>1, <1>2
<1>4. Max(T) \in T /\ \A y \in T : Max(T) >= y
  BY <1>3 DEF Max
<1>5. QED
  BY <1>4
LEMMA CountReached ==
  ASSUME StoreInv
  PROVE  TranscriptQuestionCount(store) = interview.position
<1> DEFINE P == interview.position
           S == {0} \cup {m.position : m \in {n \in Range(store.messages) : n.position <= P}}
<1>1. /\ interview \in Interview /\ P \in Positions /\ P \in Nat /\ P >= 1 /\ P <= QuestionCount
      /\ QuestionCount \in Nat
  BY InterviewAssumption DEF StoreInv, Inv, TypeOK, Interview, Positions
<1>2. Loaded(store) = interview /\ store.session.position = P
  BY LoadedBack DEF StoreInv, RowsInv, ColumnsKept, SessionColumns
<1>3. \A k \in Positions : /\ k < P => interview.questions[k].frozen
                           /\ k > P => ~ interview.questions[k].frozen
  BY DEF StoreInv, Inv, Sound, Ordered, FreshQuestion
<1>4. CurrentIsVisible(interview)
  <2>1. CASE P = 1
    BY <2>1 DEF CurrentIsVisible
  <2>2. CASE P # 1
    <3>1. P - 1 \in Positions /\ P - 1 < P
      BY <1>1, <2>2 DEF Positions
    <3>2. QED
      BY <1>3, <3>1 DEF CurrentIsVisible
  <2>3. QED
    BY <2>1, <2>2
<1>5. (\A k \in Positions : interview.questions[k].frozen) => P = QuestionCount
  <2>1. ASSUME P # QuestionCount
        PROVE  P + 1 \in Positions /\ P + 1 > P
    BY <1>1, <2>1 DEF Positions
  <2>2. QED
    BY <1>3, <2>1
<1>6. HighestMessagePosition(store) \in Nat /\ HighestMessagePosition(store) <= P
  <2>1. \A m \in Range(store.messages) : m.position \in Nat
    <3>1. store.messages \in Seq(Message)
      BY DEF StoreInv, RowsInv, RowsTyped
    <3>2. \A n \in DOMAIN store.messages : store.messages[n] \in Message
      BY <3>1
    <3>3. Positions \subseteq Nat
      BY DEF Positions
    <3>4. QED
      BY <3>2, <3>3 DEF Range, Message
  <2>2. S \in SUBSET Nat /\ S # {} /\ \A y \in S : y <= P
    BY <1>1, <2>1
  <2>3. HighestMessagePosition(store) = Max(S)
    BY <1>2 DEF HighestMessagePosition
  <2> HIDE DEF S
  <2>4. Max(S) \in S
    BY <1>1, <2>2, GreatestNatural
  <2>5. QED
    BY <2>2, <2>3, <2>4
<1>7. Max({HighestMessagePosition(store), P}) = P
  <2> DEFINE h == HighestMessagePosition(store)
  <2> HIDE DEF h
  <2>1. Max({h, P}) \in {h, P} /\ \A y \in {h, P} : y <= Max({h, P})
    <3>1. {h, P} \in SUBSET Nat /\ \A y \in {h, P} : y <= P
      BY <1>1, <1>6 DEF h
    <3>2. QED
      BY <1>1, <3>1, GreatestNatural
  <2>2. h \in Nat /\ h <= P
    BY <1>6 DEF h
  <2>3. QED
    BY <1>1, <2>1, <2>2 DEF h
<1>8. Min({P, P}) = P
  <2>1. Min({P}) \in {P}
    BY <1>1 DEF Min
  <2>2. {P, P} = {P}
    OBVIOUS
  <2>3. QED
    BY <2>1, <2>2
<1>9. interview.status = "completed" \/ interview.reportKind = "complete" =>
        \A k \in Positions : interview.questions[k].frozen
  BY DEF StoreInv, Inv, Sound, Requested
<1> HIDE DEF S
<1>10. TranscriptQuestionCount(store) =
         LET allFrozen == \A k \in Positions :
               interview.questions[k].frozen /\ interview.questions[k].outcome # "none"
         IN  IF interview.status = "completed" \/ (interview.reportKind = "complete" /\ allFrozen)
             THEN QuestionCount ELSE Min({P, Max({HighestMessagePosition(store), P})})
  BY <1>2, <1>4 DEF TranscriptQuestionCount
<1>11. QED
  BY <1>5, <1>7, <1>8, <1>9, <1>10

LEMMA RowsReveal ==
  ASSUME StoreInv
  PROVE  RevealsUpToCurrent
<1>1. /\ interview.position \in Positions /\ QuestionCount \in Nat /\ Times \subseteq Nat
      /\ TranscriptQuestionCount(store) = interview.position
  BY CountReached, InterviewAssumption DEF StoreInv, Inv, TypeOK, Interview
<1>2. \A k \in Positions :
        /\ store.snapshots[k].frozenAt \in Times \cup {NoTime}
        /\ k < interview.position =>
             store.snapshots[k].frozen /\ store.snapshots[k].frozenAt # NoTime
  <2>1. \A k \in Positions : KeptAt(store, interview.questions[k], k)
    BY DEF StoreInv, RowsInv, QuestionsKept
  <2>2. \A k \in Positions : k < interview.position => interview.questions[k].frozen
    BY DEF StoreInv, Inv, Sound, Ordered
  <2>3. QED
    BY <2>1, <2>2 DEF StoreInv, RowsInv, RowsTyped, Snapshot, KeptAt
<1>3. ASSUME NEW k \in Revealed(store), k > 1
      PROVE  /\ k - 1 \in Positions /\ store.snapshots[k - 1].frozen
             /\ store.snapshots[k - 1].frozenAt \in Nat
             /\ QuestionRevealedAt(store, k) = store.snapshots[k - 1].frozenAt
  <2>1. k - 1 \in Positions /\ k - 1 < interview.position /\ k # 1
    BY <1>1, <1>3 DEF Revealed, Positions
  <2>2. store.snapshots[k - 1].frozenAt \in Nat /\ store.snapshots[k - 1].frozen
    BY <1>1, <1>2, <2>1
  <2>3. QED
    BY <2>1, <2>2 DEF QuestionRevealedAt
<1>4. QuestionRevealedAt(store, 1) = 0
  BY DEF QuestionRevealedAt
<1>5. ASSUME NEW k \in Revealed(store)
      PROVE  /\ QuestionRevealedAt(store, k) # NoTime
             /\ k > 1 => QuestionRevealedAt(store, k - 1) <= QuestionRevealedAt(store, k)
  <2>1. k \in Nat /\ k >= 1
    BY <1>1 DEF Revealed, Positions
  <2>2. CASE k = 1
    BY <1>4, <2>2 DEF NoTime
  <2>3. CASE k = 2
    BY <1>3, <1>4, <2>3 DEF NoTime
  <2>4. CASE k > 2
    <3>1. k - 1 \in Revealed(store) /\ k - 1 > 1 /\ (k - 1) - 1 = k - 2
      BY <1>1, <2>4 DEF Revealed, Positions
    <3>2. /\ QuestionRevealedAt(store, k - 1) = store.snapshots[k - 2].frozenAt
          /\ QuestionRevealedAt(store, k) = store.snapshots[k - 1].frozenAt
          /\ k - 1 \in Positions \ {1} /\ store.snapshots[k - 1].frozen
          /\ store.snapshots[k - 1].frozenAt \in Nat
      <4>1. /\ k - 1 \in Positions /\ store.snapshots[k - 1].frozen
            /\ store.snapshots[k - 1].frozenAt \in Nat
            /\ QuestionRevealedAt(store, k) = store.snapshots[k - 1].frozenAt
        BY <1>3, <2>4, <2>1
      <4>2. QuestionRevealedAt(store, k - 1) = store.snapshots[(k - 1) - 1].frozenAt
        BY <1>3, <3>1
      <4>3. QED
        BY <3>1, <4>1, <4>2
    <3>3. store.snapshots[k - 2].frozenAt <= store.snapshots[k - 1].frozenAt
      BY <3>1, <3>2 DEF StoreInv, RowsInv, FreezesTimed
    <3>4. QED
      BY <3>2, <3>3 DEF NoTime
  <2>5. QED
    BY <2>1, <2>2, <2>3, <2>4
<1>6. QED
  BY <1>1, <1>5 DEF RevealsUpToCurrent

-------------------------------------------------------------------------------
(* What every step keeps of the plans and of the interview's own record.    *)

(* Times go on, plans stay, and only an operation that waited or that no     *)
(* plan knew may be waiting after.                                           *)
GoesOn ==
  /\ plans \subseteq plans'
  /\ interview.lastActivity <= interview'.lastActivity
  /\ \A op \in Ops : op \in failed' \/ op = interview'.pending.op =>
       \/ op \in failed \/ op = interview.pending.op
       \/ \A p \in plans : p.command.op # op

Kept == PlansTimed' /\ LeftWell(interview)' /\ GoesOn

LEMMA TimesType ==
  ASSUME TypeOK
  PROVE  /\ interview \in Interview /\ interview.lastActivity \in Nat /\ Times \subseteq Nat
         /\ \A p \in plans : /\ p.acceptedAt \in Nat /\ p.command.occurredAt \in Nat
                             /\ p.command \in PlannedCommand /\ p.command.op \in Ops
  BY InterviewAssumption DEF TypeOK, Interview, Plan, PlannedCommand

LEMMA IdleKept ==
  ASSUME Inv, Inv', PlansTimed, plans' = plans, failed' \subseteq failed \cup {interview.pending.op},
         ~ IsPending(interview'), interview.lastActivity <= interview'.lastActivity
  PROVE  PlansTimed' /\ GoesOn
<1>1. /\ interview.lastActivity \in Nat /\ interview'.lastActivity \in Nat
      /\ \A p \in plans : p.acceptedAt \in Nat
  BY TimesType, InterviewAssumption DEF Inv, TypeOK, Interview
<1>2. PlansTimed'
  BY <1>1 DEF PlansTimed
<1>3. interview'.pending.op = NoOp /\ NoOp \notin Ops
  BY InterviewAssumption DEF IsPending
<1>4. GoesOn
  BY <1>3 DEF GoesOn
<1>5. QED
  BY <1>2, <1>4

LEMMA AcceptedKept ==
  ASSUME Inv, Inv', PlansTimed, NEW c \in PlannedCommand, NEW at \in Times,
         plans' = plans \cup {PlanOf(interview, c, interview', at)}, failed' \subseteq failed,
         interview'.pending = [op |-> c.op, kind |-> OperationKind(c), position |-> interview.position,
                               acceptedAt |-> at, previous |-> RequiredPhase(c)],
         interview'.lastActivity = at, interview.lastActivity <= at, c.occurredAt <= at,
         \/ (c.op \in failed \/ c.op = interview.pending.op) /\ \E p \in plans : p.command = c
         \/ \A p \in plans : p.command.op # c.op
  PROVE  PlansTimed' /\ GoesOn
<1> DEFINE new == PlanOf(interview, c, interview', at)
<1>1. /\ interview.lastActivity \in Nat /\ at \in Nat
      /\ \A p \in plans : p.acceptedAt \in Nat /\ p.command.occurredAt \in Nat
  BY TimesType DEF Inv
<1>2. /\ new.command = c /\ new.acceptedAt = at /\ new.position = interview.position
  BY DEF PlanOf
<1> HIDE DEF new
<1>3. \A p \in plans : /\ p.command.occurredAt <= p.acceptedAt
                       /\ p.acceptedAt <= at
  BY <1>1 DEF PlansTimed
<1>4. \A p, q \in plans' : p.command.op = q.command.op => p.command = q.command
  BY <1>2 DEF PlansTimed, new
<1>5. PlansTimed'
  BY <1>1, <1>2, <1>3, <1>4 DEF PlansTimed, new
<1>6. GoesOn
  BY <1>1 DEF GoesOn
<1>7. QED
  BY <1>5, <1>6

(* An interview that goes on was not left yet.                              *)
LEMMA ActiveLeft ==
  ASSUME Inv', interview.status = "active", interview'.status = "active",
         interview'.hasReport = interview.hasReport, LeftWell(interview)
  PROVE  LeftWell(interview)'
<1>1. interview'.reportKind = "none"
  <2>1. interview'.reportKind # "none" => interview'.status = "report_pending"
    BY DEF Inv, Sound, Requested
  <2>2. QED
    BY <2>1
<1>2. QED
  BY <1>1 DEF LeftWell

LEMMA SubmitKept ==
  ASSUME StoreInv, Inv', NEW op \in Ops, NEW type \in PlannedTypes, NEW at \in Times,
         SubmitPlanned(op, type, at)
  PROVE  Kept
<1> DEFINE c == [type |-> type, op |-> op, expectedVersion |-> interview.version, occurredAt |-> at]
<1>1. /\ CanPlan(interview, c) /\ interview' = AcceptOperation(interview, c, at)
      /\ plans' = plans \cup {PlanOf(interview, c, interview', at)} /\ failed' = failed
      /\ \A p \in plans : p.command.op # c.op
      /\ c \in PlannedCommand /\ c.occurredAt = at /\ at \in Nat
      /\ interview \in Interview
  BY TimesType DEF SubmitPlanned, AcceptPlan, StoreInv, Inv, TypeOK, PlannedCommand, Interview
<1> HIDE DEF c
<1>2. /\ interview'.pending = [op |-> c.op, kind |-> OperationKind(c), position |-> interview.position,
                               acceptedAt |-> at, previous |-> RequiredPhase(c)]
      /\ interview'.lastActivity = at /\ interview'.status = interview.status
      /\ interview'.hasReport = interview.hasReport
  BY <1>1 DEF AcceptOperation, AcceptRetriedOperation, Interview
<1>3. interview.lastActivity <= at /\ interview.status = "active"
  BY <1>1, TimesType DEF CanPlan, Admits, FitsPhase, StoreInv, Inv
<1>4. c.occurredAt <= at
  BY <1>1
<1>5. QED
  BY <1>1, <1>2, <1>3, <1>4, AcceptedKept, ActiveLeft DEF Kept, StoreInv, RowsInv

LEMMA RetryKept ==
  ASSUME StoreInv, Inv', NEW p \in plans, NEW at \in Times, RetryFailed(p, at) \/ TakeOver(p, at)
  PROVE  Kept
<1> DEFINE c == p.command
<1>1. /\ c \in PlannedCommand /\ interview \in Interview /\ at \in Nat
      /\ c.occurredAt \in Nat /\ p.acceptedAt \in Nat /\ interview.lastActivity \in Nat
      /\ c.occurredAt <= p.acceptedAt /\ p.acceptedAt <= interview.lastActivity
      /\ PlansTimed
  BY TimesType DEF StoreInv, Inv, RowsInv, PlansTimed
<1>2. CASE RetryFailed(p, at)
  <2>1. /\ CanRetry(interview, c, at) /\ interview' = AcceptRetriedOperation(interview, c, at)
        /\ plans' = plans \cup {PlanOf(interview, c, interview', at)}
        /\ failed' = failed \ {c.op} /\ c.op \in failed
    BY <1>2 DEF RetryFailed, AcceptPlan
  <2> HIDE DEF c
  <2>2. /\ interview'.pending = [op |-> c.op, kind |-> OperationKind(c), position |-> interview.position,
                                 acceptedAt |-> at, previous |-> RequiredPhase(c)]
        /\ interview'.lastActivity = at /\ interview'.status = interview.status
        /\ interview'.hasReport = interview.hasReport
    BY <1>1, <2>1 DEF AcceptRetriedOperation, Interview
  <2>3. interview.lastActivity <= at /\ interview.status = "active" /\ c.occurredAt <= at
    BY <1>1, <2>1 DEF CanRetry, FitsPhase
  <2>4. PlansTimed' /\ GoesOn
    BY <1>1, <2>1, <2>2, <2>3, AcceptedKept DEF StoreInv, c
  <2>5. QED
    BY <2>2, <2>3, <2>4, ActiveLeft DEF Kept, StoreInv, RowsInv
<1>3. CASE TakeOver(p, at)
  <2>1. /\ CanRefresh(interview, c.op, at) /\ interview' = Refresh(interview, at)
        /\ plans' = plans \cup {PlanOf(interview, c, interview', at)} /\ failed' = failed
    BY <1>3 DEF TakeOver, AcceptPlan
  <2>2. /\ interview.lastActivity <= at /\ interview.status = "active" /\ c.op = interview.pending.op
        /\ c.occurredAt <= at
    BY <1>1, <2>1 DEF CanRefresh
  <2>3. c.op # NoOp
    BY <1>1, InterviewAssumption DEF PlannedCommand
  <2>4. /\ interview.pending.kind = OperationKind(c) /\ interview.pending.previous = RequiredPhase(c)
        /\ interview.pending.position = interview.position
    BY <1>1, <2>2, <2>3 DEF PlansTimed, IsPending, StoreInv, Inv, Tallied, Pointed
  <2> HIDE DEF c
  <2>5. interview'.pending = [op |-> c.op, kind |-> OperationKind(c), position |-> interview.position,
                              acceptedAt |-> at, previous |-> RequiredPhase(c)]
    <3>1. interview.pending \in Pending
      BY <1>1 DEF Interview
    <3>2. interview'.pending = [interview.pending EXCEPT !.acceptedAt = at]
      BY <1>1, <2>1 DEF Refresh, Interview
    <3>3. QED
      BY <2>2, <2>4, <3>1, <3>2 DEF Pending
  <2>6. /\ interview'.lastActivity = at /\ interview'.status = interview.status
        /\ interview'.hasReport = interview.hasReport
    BY <1>1, <2>1 DEF Refresh, Interview
  <2>7. PlansTimed' /\ GoesOn
    BY <1>1, <2>1, <2>2, <2>5, <2>6, AcceptedKept DEF StoreInv, c
  <2>8. QED
    BY <2>2, <2>6, <2>7, ActiveLeft DEF Kept, StoreInv, RowsInv
<1>4. QED
  BY <1>2, <1>3
LEMMA OutcomeKept ==
  ASSUME StoreInv, Inv', NEW outcome, NEW at \in Times, RecordOutcome(outcome, at)
  PROVE  Kept
<1>1. /\ interview' = RecordUnevaluated(interview, outcome, at) /\ plans' = plans /\ failed' = failed
      /\ Admits(interview, interview.version, at) /\ CanRecordUnevaluated(interview)
      /\ interview \in Interview
  BY DEF RecordOutcome, Immediately, StoreInv, Inv, TypeOK
<1>2. /\ interview'.pending = interview.pending /\ interview'.lastActivity = at
      /\ interview'.status = interview.status /\ interview'.hasReport = interview.hasReport
  BY <1>1 DEF RecordUnevaluated, WithCurrentQuestion, Interview
<1>3. interview.lastActivity <= at /\ ~ IsPending(interview') /\ interview.status = "active"
  BY <1>1, <1>2 DEF Admits, IsPending, CanRecordUnevaluated
<1>4. QED
  BY <1>1, <1>2, <1>3, IdleKept, ActiveLeft DEF Kept, StoreInv, RowsInv

LEMMA ContinueKept ==
  ASSUME StoreInv, Inv', NEW at \in Times, ContinueInterview(at)
  PROVE  Kept
<1> DEFINE f == WithCurrentQuestion(interview, [CurrentQuestion(interview) EXCEPT !.frozen = TRUE])
<1>1. /\ interview' = Continue(interview, at) /\ plans' = plans /\ failed' = failed
      /\ Admits(interview, interview.version, at) /\ CanContinue(interview)
      /\ interview \in Interview
  BY DEF ContinueInterview, Immediately, StoreInv, Inv, TypeOK
<1>2. /\ f \in Interview /\ f.pending = interview.pending /\ f.status = interview.status
      /\ f.hasReport = interview.hasReport
  <2>1. [CurrentQuestion(interview) EXCEPT !.frozen = TRUE] \in Question
    BY <1>1, CurrentQuestionType DEF Question
  <2>2. QED
    BY <1>1, <2>1, WithCurrentQuestionType DEF WithCurrentQuestion, Interview
<1>3. interview' = IF interview.position = QuestionCount THEN RequestReport(f, "complete", at)
                   ELSE [f EXCEPT !.position = interview.position + 1, !.phase = "awaiting_response",
                                  !.version = interview.version + 1, !.lastActivity = at]
  BY <1>1 DEF Continue
<1> HIDE DEF f
<1>4. /\ interview.lastActivity <= at /\ ~ IsPending(interview) /\ interview.status = "active"
      /\ ~ interview.hasReport
  BY <1>1 DEF Admits, CanContinue, StoreInv, RowsInv, LeftWell
<1>5. CASE interview.position = QuestionCount
  <2>1. /\ interview'.pending = NoPending /\ interview'.lastActivity = at
        /\ interview'.status = "report_pending" /\ interview'.hasReport = interview.hasReport
        /\ interview'.reportKind = "complete" /\ interview'.reportRequestedAt = at
    BY <1>2, <1>3, <1>5 DEF RequestReport, Interview
  <2>2. ~ IsPending(interview') /\ at # NoTime
    BY <2>1, InterviewAssumption DEF IsPending, NoPending, NoTime
  <2>3. LeftWell(interview')
    BY <1>4, <2>1, <2>2 DEF LeftWell
  <2>4. QED
    BY <1>1, <1>4, <2>1, <2>2, <2>3, IdleKept DEF Kept, StoreInv, RowsInv
<1>6. CASE interview.position # QuestionCount
  <2>1. /\ interview'.pending = interview.pending /\ interview'.lastActivity = at
        /\ interview'.status = "active" /\ interview'.hasReport = interview.hasReport
    BY <1>2, <1>3, <1>4, <1>6 DEF Interview
  <2>2. ~ IsPending(interview')
    BY <1>4, <2>1 DEF IsPending
  <2>3. QED
    BY <1>1, <1>4, <2>1, <2>2, IdleKept, ActiveLeft DEF Kept, StoreInv, RowsInv
<1>7. QED
  BY <1>5, <1>6

LEMMA EndKept ==
  ASSUME StoreInv, Inv', NEW at \in Times, EndInterviewEarly(at)
  PROVE  Kept
<1>1. /\ interview' = RequestReport(interview, "incomplete", at) /\ plans' = plans /\ failed' = failed
      /\ Admits(interview, interview.version, at) /\ interview.status = "active"
      /\ interview \in Interview
  BY DEF EndInterviewEarly, EndEarly, CanEndEarly, Immediately, StoreInv, Inv, TypeOK
<1>2. /\ interview'.pending = NoPending /\ interview'.lastActivity = at
      /\ interview'.status = "report_pending" /\ interview'.hasReport = interview.hasReport
      /\ interview'.reportRequestedAt = at /\ CurrentQuestion(interview') = CurrentQuestion(interview)
  BY <1>1 DEF RequestReport, CurrentQuestion, Interview
<1>3. /\ ~ CurrentQuestion(interview).frozen /\ ~ interview.hasReport
      /\ interview.lastActivity <= at
  BY <1>1 DEF StoreInv, Inv, Sound, Requested, RowsInv, LeftWell, Admits
<1>4. ~ IsPending(interview') /\ at # NoTime
  BY <1>2, InterviewAssumption DEF IsPending, NoPending, NoTime
<1>5. LeftWell(interview')
  BY <1>2, <1>3, <1>4 DEF LeftWell
<1>6. QED
  BY <1>1, <1>2, <1>3, <1>4, <1>5, IdleKept DEF Kept, StoreInv, RowsInv

LEMMA AbandonKept ==
  ASSUME StoreInv, Inv', interview.status = "active", interview' = Abandon(interview),
         plans' = plans, failed' = failed
  PROVE  Kept
<1>1. interview \in Interview
  BY DEF StoreInv, Inv, TypeOK
<1>2. /\ interview'.pending = NoPending /\ interview'.lastActivity = interview.lastActivity
      /\ interview'.status = "abandoned" /\ interview'.hasReport = interview.hasReport
      /\ CurrentQuestion(interview') = CurrentQuestion(interview)
  BY <1>1 DEF Abandon, CloseAbandoned, CurrentQuestion, Interview
<1>3. /\ ~ CurrentQuestion(interview).frozen /\ ~ interview.hasReport
      /\ interview.lastActivity \in Nat
  BY TimesType DEF StoreInv, Inv, Sound, Requested, RowsInv, LeftWell
<1>4. ~ IsPending(interview') /\ interview.lastActivity <= interview'.lastActivity
  BY <1>2, <1>3 DEF IsPending, NoPending
<1>5. LeftWell(interview')
  BY <1>2, <1>3 DEF LeftWell
<1>6. QED
  BY <1>4, <1>5, IdleKept DEF Kept, StoreInv, RowsInv

LEMMA RetryReportKept ==
  ASSUME StoreInv, Inv', NEW at \in Times, RetryReport(at)
  PROVE  Kept
<1>1. /\ interview' = RefreshReportRetry(interview, at) /\ plans' = plans /\ failed' = failed
      /\ CanRefreshReportRetry(interview, at) /\ interview \in Interview
      /\ interview.lastActivity \in Nat /\ at \in Nat
  BY TimesType DEF RetryReport, Immediately, StoreInv, Inv, TypeOK
<1>2. /\ interview' = [interview EXCEPT !.lastActivity = at]
      /\ ~ IsPending(interview) /\ interview.lastActivity <= at
  BY <1>1 DEF RefreshReportRetry, CanRefreshReportRetry
<1>3. /\ interview'.pending = interview.pending /\ interview'.lastActivity = at
      /\ interview'.status = interview.status /\ interview'.hasReport = interview.hasReport
      /\ interview'.reportKind = interview.reportKind
      /\ interview'.reportRequestedAt = interview.reportRequestedAt
      /\ CurrentQuestion(interview') = CurrentQuestion(interview)
  BY <1>1, <1>2 DEF Interview, CurrentQuestion
<1>4. ~ IsPending(interview') /\ LeftWell(interview')
  BY <1>2, <1>3 DEF IsPending, StoreInv, RowsInv, LeftWell
<1>5. QED
  BY <1>1, <1>2, <1>3, <1>4, IdleKept DEF Kept, StoreInv, RowsInv

LEMMA ReportKeptWell ==
  ASSUME StoreInv, Inv', NEW at \in Times, StoreReport(at)
  PROVE  Kept
<1>1. /\ interview' = RecordReport(interview) /\ plans' = plans /\ failed' = failed
      /\ CanRecordReport(interview, interview.reportKind, at) /\ interview \in Interview
      /\ interview.lastActivity \in Nat
  BY TimesType DEF StoreReport, Immediately, StoreInv, Inv, TypeOK
<1>2. /\ interview'.pending = NoPending /\ interview'.lastActivity = interview.lastActivity
      /\ interview'.status = IF interview.reportKind = "complete" THEN "completed" ELSE "early_ended"
      /\ interview'.hasReport = TRUE /\ interview'.reportKind = "none"
      /\ CurrentQuestion(interview') = CurrentQuestion(interview)
  BY <1>1 DEF RecordReport, CurrentQuestion, Interview
<1>3. interview.reportKind \in {"complete", "incomplete"}
  BY <1>1 DEF CanRecordReport, StoreInv, Inv, Sound, Requested, Interview, ReportKinds
<1>4. LeftWell(interview')
  BY <1>2, <1>3 DEF LeftWell, StoreInv, RowsInv
<1>5. ~ IsPending(interview') /\ interview.lastActivity <= interview'.lastActivity
  BY <1>1, <1>2 DEF IsPending, NoPending
<1>6. QED
  BY <1>1, <1>4, <1>5, IdleKept DEF Kept, StoreInv, RowsInv

(* A completion, or the end of an attempt, releases the interview.          *)
LEMMA ReleaseKept ==
  ASSUME StoreInv, Inv', interview.status = "active", interview'.status = "active",
         interview'.pending = NoPending, interview'.lastActivity = interview.lastActivity,
         interview'.hasReport = interview.hasReport, plans' = plans,
         failed' \subseteq failed \cup {interview.pending.op}
  PROVE  Kept
<1>1. interview.lastActivity \in Nat
  BY TimesType DEF StoreInv, Inv
<1>2. ~ IsPending(interview') /\ interview.lastActivity <= interview'.lastActivity
  BY <1>1 DEF IsPending, NoPending
<1>3. QED
  BY <1>2, IdleKept, ActiveLeft DEF Kept, StoreInv, RowsInv

-------------------------------------------------------------------------------
(* What a step leaves in the rows is again what the invariant asks for.      *)

LEMMA StoreTypes ==
  ASSUME StoreInv
  PROVE  /\ AreRows(store) /\ store.snapshots \in [Positions -> Snapshot]
         /\ store.messages \in Seq(Message)
         /\ interview \in Interview /\ interview.position \in Positions
         /\ CurrentQuestion(interview) \in Question
         /\ interview.lastActivity \in Nat
         /\ interview.pending.op \notin failed
         /\ \A k \in Positions : interview.questions[k] \in Question
         /\ \A k \in Positions : KeptAt(store, interview.questions[k], k)
<1>1. interview \in Interview
  BY DEF StoreInv, Inv, TypeOK
<1>2. QED
  BY <1>1, TimesType, CurrentQuestionType DEF StoreInv, Inv, RowsInv, RowsTyped, PlansInv, QuestionsKept,
     Interview

LEMMA RowsStep ==
  ASSUME Inv', Kept, NEW e, NEW snapshots \in [Positions -> Snapshot], NEW messages \in Seq(Message),
         NEW evaluations, NEW reports,
         Hold(store', interview', e, snapshots, messages, evaluations, reports),
         e <=> Over(interview'), QuestionsKept', MessagesKept', ReportKept', FreezesTimed'
  PROVE  StoreInv'
<1>1. RowsTyped'
  BY DEF Hold, RowsTyped
<1>2. ColumnsKept'
  BY DEF Hold, ColumnsKept
<1>3. QED
  BY <1>1, <1>2 DEF StoreInv, RowsInv, Kept

LEMMA SettledStays ==
  ASSUME GoesOn, NEW m \in Message, SettledMessage(m)
  PROVE  SettledMessage(m)'
<1>1. PICK p \in plans : p.command.op = m.id
  BY DEF SettledMessage
<1>2. m.id \in Ops /\ p \in plans'
  BY DEF Message, GoesOn
<1>3. m.id \notin failed' /\ m.id # interview'.pending.op
  BY <1>1, <1>2 DEF GoesOn, SettledMessage
<1>4. QED
  BY <1>1, <1>2, <1>3 DEF SettledMessage

LEMMA MessagesStay ==
  ASSUME StoreInv, GoesOn, store'.messages = store.messages
  PROVE  MessagesKept'
<1>1. Apart(store.messages)'
  BY DEF StoreInv, RowsInv, MessagesKept, Apart
<1>2. ASSUME NEW n \in DOMAIN store'.messages
      PROVE  SettledMessage(store.messages[n])'
  <2>1. PICK m \in Message : m = store.messages[n]
    BY StoreTypes
  <2>2. SettledMessage(m)
    BY <2>1 DEF StoreInv, RowsInv, MessagesKept
  <2>3. SettledMessage(m)'
    BY <2>2, SettledStays
  <2>4. QED
    BY <2>1, <2>3 DEF SettledMessage
<1>3. QED
  BY <1>1, <1>2 DEF MessagesKept

LEMMA FreezesStay ==
  ASSUME StoreInv, GoesOn, interview'.lastActivity \in Nat,
         \A k \in Positions : /\ store'.snapshots[k].frozen = store.snapshots[k].frozen
                              /\ store'.snapshots[k].frozenAt = store.snapshots[k].frozenAt
  PROVE  FreezesTimed'
<1>1. \A k \in Positions : store.snapshots[k].frozenAt \in Int
  <2>1. Times \cup {NoTime} \subseteq Int
    BY InterviewAssumption DEF NoTime
  <2>2. \A k \in Positions : store.snapshots[k] \in Snapshot
    BY StoreTypes
  <2>3. QED
    BY <2>1, <2>2 DEF Snapshot
<1>2. \A k \in Positions \ {1} : k - 1 \in Positions
  BY InterviewAssumption DEF Positions
<1>3. interview.lastActivity <= interview'.lastActivity /\ interview.lastActivity \in Nat
  BY StoreTypes DEF GoesOn
<1>4. \A k \in Positions : store'.snapshots[k].frozenAt <= interview'.lastActivity
  BY <1>1, <1>3 DEF StoreInv, RowsInv, FreezesTimed
<1>5. QED
  BY <1>2, <1>4 DEF StoreInv, RowsInv, FreezesTimed

(* The questions and the report stay as they are.                           *)
LEMMA QuietStep ==
  ASSUME StoreInv, Inv', Kept, interview'.questions = interview.questions, NEW e,
         Hold(store', interview', e, store.snapshots, store.messages, store.evaluations,
              store.reports),
         e <=> Over(interview'), ~ interview.hasReport, ~ interview'.hasReport
  PROVE  StoreInv'
<1>1. QuestionsKept'
  <2>1. ASSUME NEW k \in Positions
        PROVE  KeptAt(store', interview'.questions[k], k)
    <3>1. KeptAt(store, interview.questions[k], k)
      BY StoreTypes
    <3>2. EvaluationsOf(store', k) = EvaluationsOf(store, k)
      BY DEF Hold, EvaluationsOf
    <3>3. QED
      BY <3>1, <3>2 DEF Hold, KeptAt
  <2>2. QED
    BY <2>1 DEF QuestionsKept
<1>2. MessagesKept'
  BY MessagesStay DEF Hold, Kept
<1>3. ReportKept'
  BY DEF Hold, StoreInv, RowsInv, ReportKept
<1>4. FreezesTimed'
  <2>1. interview'.lastActivity \in Nat
    BY TimesType, InterviewAssumption DEF Inv, TypeOK, Interview
  <2>2. QED
    BY <2>1, FreezesStay DEF Hold, Kept
<1>5. QED
  BY <1>1, <1>2, <1>3, <1>4, StoreTypes, RowsStep
(* One row more.                                                            *)
LEMMA AppendedAt ==
  ASSUME NEW messages \in Seq(Message), NEW m \in Message, NEW k
  PROVE  MessagesAt(Append(messages, m), k) =
           IF m.position = k THEN MessagesAt(messages, k) \cup {m} ELSE MessagesAt(messages, k)
<1> DEFINE longer == Append(messages, m)
<1>1. /\ DOMAIN longer = DOMAIN messages \cup {Len(messages) + 1}
      /\ longer[Len(messages) + 1] = m
      /\ \A n \in DOMAIN messages : longer[n] = messages[n]
  OBVIOUS
<1> HIDE DEF longer
<1>2. ASSUME NEW x
      PROVE  x \in MessagesAt(longer, k) <=> x \in MessagesAt(messages, k) \/ (m.position = k /\ x = m)
  BY <1>1 DEF MessagesAt
<1>3. QED
  BY <1>2 DEF longer

LEMMA AppendedApart ==
  ASSUME NEW messages \in Seq(Message), NEW m \in Message, Apart(messages),
         \A n \in DOMAIN messages :
           /\ ~ SameMessage(messages[n], m)
           /\ messages[n].position = m.position /\ m.kind \in FollowUpKinds => messages[n].kind # m.kind
  PROVE  Apart(Append(messages, m))
<1> DEFINE longer == Append(messages, m)
<1>1. /\ DOMAIN longer = DOMAIN messages \cup {Len(messages) + 1}
      /\ longer[Len(messages) + 1] = m
      /\ \A n \in DOMAIN messages : longer[n] = messages[n]
  OBVIOUS
<1> HIDE DEF longer
<1>2. \A n \in DOMAIN messages :
        /\ ~ SameMessage(m, messages[n])
        /\ messages[n].position = m.position /\ messages[n].kind \in FollowUpKinds =>
             messages[n].kind # m.kind
  BY DEF SameMessage
<1>3. Apart(longer)
  BY <1>1, <1>2 DEF Apart
<1>4. QED
  BY <1>3 DEF longer

SettledAll(messages) == \A n \in DOMAIN messages : SettledMessage(messages[n])

LEMMA AppendedSettled ==
  ASSUME NEW messages \in Seq(Message), NEW m \in Message, SettledAll(messages)', SettledMessage(m)'
  PROVE  SettledAll(Append(messages, m))'
<1> DEFINE longer == Append(messages, m)
<1>1. /\ DOMAIN longer = DOMAIN messages \cup {Len(messages) + 1}
      /\ longer[Len(messages) + 1] = m
      /\ \A n \in DOMAIN messages : longer[n] = messages[n]
  OBVIOUS
<1> HIDE DEF longer
<1>2. SettledAll(longer)'
  BY <1>1 DEF SettledAll, SettledMessage
<1>3. QED
  BY <1>2 DEF longer

LEMMA NewMessageType ==
  ASSUME NEW op \in Ops, NEW kind \in MaterialKinds \cup FollowUpKinds \cup {"question_clarification"},
         NEW k \in Positions, NEW requestedAt \in Times \cup {NoTime}, NEW at \in Times,
         NEW m, m = NewMessage(op, kind, k, requestedAt, at)
  PROVE  /\ m \in Message /\ m.id = op /\ m.kind = kind /\ m.position = k
         /\ m.requestedAt = requestedAt /\ m.createdAt = at
  BY DEF NewMessage, Message

LEMMA WithOutcomeRead ==
  ASSUME StoreInv, NEW k \in Positions, NEW outcome \in Outcomes
  PROVE  /\ WithOutcome(k, outcome) \in [Positions -> Snapshot]
         /\ WithOutcome(k, outcome)[k].outcome = outcome
         /\ \A n \in Positions :
              /\ WithOutcome(k, outcome)[n].frozen = store.snapshots[n].frozen
              /\ WithOutcome(k, outcome)[n].frozenAt = store.snapshots[n].frozenAt
              /\ n # k => WithOutcome(k, outcome)[n] = store.snapshots[n]
<1>1. store.snapshots \in [Positions -> Snapshot]
  BY StoreTypes
<1>2. QED
  BY <1>1 DEF WithOutcome, Snapshot

LEMMA WithFreezeRead ==
  ASSUME StoreInv, NEW k \in Positions, NEW at \in Times
  PROVE  /\ WithFreeze(k, at) \in [Positions -> Snapshot]
         /\ WithFreeze(k, at)[k].frozen = TRUE
         /\ WithFreeze(k, at)[k].frozenAt = at
         /\ WithFreeze(k, at)[k].outcome = store.snapshots[k].outcome
         /\ \A n \in Positions : n # k => WithFreeze(k, at)[n] = store.snapshots[n]
<1>1. store.snapshots \in [Positions -> Snapshot]
  BY StoreTypes
<1>2. QED
  BY <1>1 DEF WithFreeze, Snapshot

(* Only the rows of the current question change.                            *)
LEMMA RewriteStep ==
  ASSUME StoreInv, Inv', Kept, interview.status = "active",
         interview'.status \in {"active", "report_pending"},
         NEW q, interview'.questions = [interview.questions EXCEPT ![interview.position] = q],
         interview'.hasReport = interview.hasReport,
         NEW snapshots \in [Positions -> Snapshot], NEW messages \in Seq(Message), NEW evaluations,
         Hold(store', interview', store.ended, snapshots, messages, evaluations, store.reports),
         \A k \in Positions \ {interview.position} :
           /\ snapshots[k] = store.snapshots[k]
           /\ MessagesAt(messages, k) = MessagesAt(store.messages, k)
           /\ {e \in evaluations : e.position = k} = EvaluationsOf(store, k),
         KeptAt(store', q, interview.position), MessagesKept', FreezesTimed'
  PROVE  StoreInv'
<1>1. QuestionsKept'
  <2>1. ASSUME NEW k \in Positions
        PROVE  KeptAt(store', interview'.questions[k], k)
    <3>1. CASE k = interview.position
      <4>1. interview'.questions[k] = q
        BY <3>1, StoreTypes DEF Interview
      <4>2. QED
        BY <3>1, <4>1
    <3>2. CASE k # interview.position
      <4>1. interview'.questions[k] = interview.questions[k]
        BY <3>2, StoreTypes DEF Interview
      <4>2. KeptAt(store, interview.questions[k], k)
        BY StoreTypes
      <4>3. EvaluationsOf(store', k) = EvaluationsOf(store, k)
        BY <3>2 DEF Hold, EvaluationsOf
      <4>4. QED
        BY <3>2, <4>1, <4>2, <4>3 DEF Hold, KeptAt
    <3>3. QED
      BY <3>1, <3>2
  <2>2. QED
    BY <2>1 DEF QuestionsKept
<1>2. ReportKept'
  <2>1. ~ interview.hasReport
    BY DEF StoreInv, RowsInv, LeftWell
  <2>2. QED
    BY <2>1 DEF Hold, StoreInv, RowsInv, ReportKept
<1>3. store.ended <=> Over(interview')
  BY DEF StoreInv, RowsInv, ColumnsKept, Over
<1>4. QED
  BY <1>1, <1>2, <1>3, RowsStep

-------------------------------------------------------------------------------
(* Steps that store columns alone. *)

LEMMA ActiveRows ==
  ASSUME StoreInv, interview.status = "active"
  PROVE  ~ interview.hasReport /\ ~ store.ended
  BY DEF StoreInv, RowsInv, LeftWell, ColumnsKept, Over

LEMMA SubmitRows ==
  ASSUME StoreInv, Inv', NEW op \in Ops, NEW type \in PlannedTypes, NEW at \in Times,
         SubmitPlanned(op, type, at), Saves(<<>>)
  PROVE  StoreInv'
<1> DEFINE c == [type |-> type, op |-> op, expectedVersion |-> interview.version, occurredAt |-> at]
<1>1. CanPlan(interview, c) /\ interview' = AcceptOperation(interview, c, at)
  BY DEF SubmitPlanned, AcceptPlan
<1> HIDE DEF c
<1>2. /\ interview'.status = interview.status /\ interview'.questions = interview.questions
      /\ interview'.hasReport = interview.hasReport /\ interview.status = "active"
  BY <1>1, StoreTypes DEF AcceptOperation, AcceptRetriedOperation, CanPlan, FitsPhase, Interview
<1>3. QED
  BY <1>2, SubmitKept, ActiveRows, QuietRows, QuietStep, StoreTypes DEF Over

LEMMA RetryRows ==
  ASSUME StoreInv, Inv', NEW p \in plans, NEW at \in Times, RetryFailed(p, at) \/ TakeOver(p, at),
         Saves(<<>>)
  PROVE  StoreInv'
<1>1. /\ interview'.status = interview.status /\ interview'.questions = interview.questions
      /\ interview'.hasReport = interview.hasReport /\ interview.status = "active"
  BY StoreTypes DEF RetryFailed, TakeOver, AcceptPlan, AcceptRetriedOperation, Refresh, CanRetry,
     CanRefresh, FitsPhase, Interview
<1>2. QED
  BY <1>1, RetryKept, ActiveRows, QuietRows, QuietStep, StoreTypes DEF Over

LEMMA EndRows ==
  ASSUME StoreInv, Inv', NEW at \in Times, EndInterviewEarly(at), Saves(<<>>)
  PROVE  StoreInv'
<1>1. /\ interview'.status = "report_pending" /\ interview'.questions = interview.questions
      /\ interview'.hasReport = interview.hasReport /\ interview.status = "active"
  BY StoreTypes DEF EndInterviewEarly, EndEarly, CanEndEarly, RequestReport, Immediately, Interview
<1>2. QED
  BY <1>1, EndKept, ActiveRows, QuietRows, QuietStep, StoreTypes DEF Over

LEMMA RetryReportRows ==
  ASSUME StoreInv, Inv', NEW at \in Times, RetryReport(at), Saves(<<>>)
  PROVE  StoreInv'
<1>1. /\ interview'.status = interview.status /\ interview'.questions = interview.questions
      /\ interview'.hasReport = interview.hasReport /\ interview.status = "report_pending"
      /\ ~ interview.hasReport
  BY StoreTypes DEF RetryReport, RefreshReportRetry, CanRefreshReportRetry, Immediately, Interview
<1>2. ~ store.ended
  BY <1>1 DEF StoreInv, RowsInv, ColumnsKept, Over
<1>3. QED
  BY <1>1, <1>2, RetryReportKept, QuietRows, QuietStep, StoreTypes DEF Over

LEMMA CancelledRows ==
  ASSUME StoreInv, Inv', NEW p \in plans, Cancelled(p), Saves(<<>>)
  PROVE  StoreInv'
<1>1. /\ interview' = CancelOperation(interview) /\ plans' = plans
      /\ failed' = failed \cup {interview.pending.op} /\ interview.status = "active"
  BY AcceptedStands DEF Cancelled, StoreInv
<1>2. /\ interview'.status = "active" /\ interview'.questions = interview.questions
      /\ interview'.hasReport = interview.hasReport /\ interview'.pending = NoPending
      /\ interview'.lastActivity = interview.lastActivity
  BY <1>1, StoreTypes DEF CancelOperation, Interview
<1>3. Kept
  BY <1>1, <1>2, ReleaseKept
<1>4. QED
  BY <1>1, <1>2, <1>3, ActiveRows, QuietRows, QuietStep, StoreTypes DEF Over

(* However an interview is abandoned, what ends it is stored.               *)
LEMMA AbandonRows ==
  ASSUME StoreInv, Inv', interview.status = "active", interview' = Abandon(interview),
         plans' = plans, failed' = failed,
         Hold(store', interview', TRUE, store.snapshots, store.messages, store.evaluations,
              store.reports)
  PROVE  StoreInv'
<1>1. /\ interview'.status = "abandoned" /\ interview'.questions = interview.questions
      /\ interview'.hasReport = interview.hasReport
  BY StoreTypes DEF Abandon, CloseAbandoned, Interview
<1>2. QED
  BY <1>1, AbandonKept, ActiveRows, QuietStep DEF Over

LEMMA AbandonedSaved ==
  ASSUME StoreInv, Inv', NEW at \in Times, AbandonInterview(at) \/ ExpireOnCommand(at),
         Saves(AbandonedEvents)
  PROVE  StoreInv'
<1>1. /\ interview' = Abandon(interview) /\ plans' = plans /\ failed' = failed
      /\ interview.status = "active"
  BY DEF AbandonInterview, ExpireOnCommand, IsExpired, Immediately
<1>2. QED
  BY <1>1, AbandonedRows, AbandonRows, StoreTypes

LEMMA ExpiryRows ==
  ASSUME StoreInv, Inv', NEW at \in Times, StoredExpiry(at)
  PROVE  StoreInv'
<1>1. /\ interview' = Abandon(interview) /\ plans' = plans /\ failed' = failed
      /\ interview.status = "active"
      /\ store' = [store EXCEPT !.session = SessionColumns(interview'), !.ended = TRUE]
  BY DEF StoredExpiry, ExpireStored, IsExpired, Immediately
<1> PICK columns : columns = SessionColumns(interview')
  OBVIOUS
<1>2. Hold(store', interview', TRUE, store.snapshots, store.messages, store.evaluations,
           store.reports)
  <2>1. AreRows(store) /\ store' = [store EXCEPT !.session = columns, !.ended = TRUE]
    BY <1>1, StoreTypes
  <2>2. QED
    BY <2>1 DEF AreRows, Hold
<1>3. QED
  BY <1>1, <1>2, AbandonRows

(* A report is stored once, over the outcomes the interview has then.       *)
LEMMA ReportStoredRows ==
  ASSUME StoreInv, Inv', NEW at \in Times, StoreReport(at), Saves(ReportEvents(interview))
  PROVE  StoreInv'
<1> DEFINE rows == store.reports \cup {ReportOf(interview', interview.reportKind)}
<1>1. /\ interview' = RecordReport(interview) /\ plans' = plans /\ failed' = failed
      /\ interview.status = "report_pending" /\ interview \in Interview
  BY StoreTypes DEF StoreReport, CanRecordReport, Immediately
<1>2. /\ interview'.status = IF interview.reportKind = "complete" THEN "completed" ELSE "early_ended"
      /\ interview'.hasReport = TRUE /\ interview'.questions = interview.questions
      /\ interview.reportKind \in {"complete", "incomplete"}
      /\ interview'.lastActivity = interview.lastActivity
  BY <1>1 DEF RecordReport, StoreInv, Inv, Sound, Requested, Interview, ReportKinds
<1>3. store.reports = {}
  BY <1>1 DEF StoreInv, RowsInv, LeftWell, ReportKept
<1>4. Hold(store', interview', TRUE, store.snapshots, store.messages, store.evaluations, rows)
  BY ReportRows, StoreTypes
<1>5. rows = {ReportOf(interview', IF interview'.status = "completed" THEN "complete" ELSE "incomplete")}
  BY <1>2, <1>3
<1> HIDE DEF rows
<1>6. ReportKept'
  BY <1>2, <1>4, <1>5 DEF Hold, ReportKept
<1>7. Kept
  BY ReportKeptWell
<1>8. QuestionsKept'
  <2>1. ASSUME NEW k \in Positions
        PROVE  KeptAt(store', interview'.questions[k], k)
    <3>1. KeptAt(store, interview.questions[k], k)
      BY StoreTypes
    <3>2. EvaluationsOf(store', k) = EvaluationsOf(store, k)
      BY <1>4 DEF Hold, EvaluationsOf
    <3>3. QED
      BY <1>2, <1>4, <3>1, <3>2 DEF Hold, KeptAt
  <2>2. QED
    BY <2>1 DEF QuestionsKept
<1>9. MessagesKept'
  BY <1>4, <1>7, MessagesStay DEF Hold, Kept
<1>10. FreezesTimed'
  BY <1>2, <1>4, <1>7, FreezesStay, StoreTypes DEF Hold, Kept
<1>11. Over(interview')
  BY <1>2 DEF Over
<1>12. QED
  BY <1>4, <1>6, <1>7, <1>8, <1>9, <1>10, <1>11, RowsStep, StoreTypes

-------------------------------------------------------------------------------
(* Steps that store rows of the current question. *)

LEMMA OutcomeStored ==
  ASSUME StoreInv, Inv', NEW outcome \in {"unknown", "skipped"}, NEW at \in Times,
         RecordOutcome(outcome, at), Saves(OutcomeEvents(interview, outcome))
  PROVE  StoreInv'
<1> PICK q : q = [CurrentQuestion(interview) EXCEPT !.evaluation = {}, !.outcome = outcome]
  OBVIOUS
<1> PICK k \in Positions : k = interview.position
  BY StoreTypes
<1>1. /\ interview' = RecordUnevaluated(interview, outcome, at) /\ interview.status = "active"
      /\ interview \in Interview
  BY StoreTypes DEF RecordOutcome, CanRecordUnevaluated, Immediately
<1>2. /\ interview'.status = "active" /\ interview'.hasReport = interview.hasReport
      /\ interview'.questions = [interview.questions EXCEPT ![k] = q]
      /\ interview'.lastActivity = at
  BY <1>1 DEF RecordUnevaluated, WithCurrentQuestion, Interview
<1>3. Kept
  BY OutcomeKept
<1>4. Hold(store', interview', store.ended, WithOutcome(k, outcome), store.messages,
           WithoutJudgement(k), store.reports)
  BY OutcomeRows, StoreTypes
<1>5. outcome \in Outcomes
  BY DEF Outcomes
<1> PICK snapshots : snapshots = WithOutcome(k, outcome)
  OBVIOUS
<1>6. /\ snapshots \in [Positions -> Snapshot] /\ snapshots[k].outcome = outcome
      /\ \A n \in Positions : /\ snapshots[n].frozen = store.snapshots[n].frozen
                              /\ snapshots[n].frozenAt = store.snapshots[n].frozenAt
                              /\ n # k => snapshots[n] = store.snapshots[n]
  BY <1>5, WithOutcomeRead
<1>7. KeptAt(store', q, k)
  <2>1. KeptAt(store, CurrentQuestion(interview), k) /\ CurrentQuestion(interview) \in Question
    BY StoreTypes DEF CurrentQuestion
  <2>2. EvaluationsOf(store', k) = {}
    BY <1>4 DEF Hold, EvaluationsOf, WithoutJudgement
  <2>3. /\ q.material = CurrentQuestion(interview).material
        /\ q.followUps = CurrentQuestion(interview).followUps
        /\ q.clarifications = CurrentQuestion(interview).clarifications
        /\ q.evaluation = {} /\ q.outcome = outcome
        /\ q.frozen = CurrentQuestion(interview).frozen
    BY <2>1 DEF Question
  <2>4. QED
    BY <1>4, <1>6, <2>1, <2>2, <2>3 DEF Hold, KeptAt, Judgement
<1>8. MessagesKept'
  BY <1>3, <1>4, MessagesStay DEF Hold, Kept
<1>9. FreezesTimed'
  <2>1. interview'.lastActivity \in Nat
    BY <1>2, InterviewAssumption
  <2>2. QED
    BY <1>3, <1>4, <1>6, <2>1, FreezesStay DEF Hold, Kept
<1>10. \A n \in Positions \ {k} : {e \in WithoutJudgement(k) : e.position = n} = EvaluationsOf(store, n)
  BY DEF WithoutJudgement, EvaluationsOf
<1>11. QED
  BY <1>1, <1>2, <1>3, <1>4, <1>6, <1>7, <1>8, <1>9, <1>10, RewriteStep, StoreTypes

LEMMA FreezeStored ==
  ASSUME StoreInv, Inv', NEW at \in Times, ContinueInterview(at), Saves(FrozenEvents(interview, at))
  PROVE  StoreInv'
<1> PICK q : q = [CurrentQuestion(interview) EXCEPT !.frozen = TRUE]
  OBVIOUS
<1> PICK k \in Positions : k = interview.position
  BY StoreTypes
<1>1. /\ interview' = Continue(interview, at) /\ interview.status = "active"
      /\ interview \in Interview /\ interview.lastActivity <= at
  BY StoreTypes DEF ContinueInterview, Admits, CanContinue, Immediately
<1>2. /\ interview'.status \in {"active", "report_pending"}
      /\ interview'.hasReport = interview.hasReport
      /\ interview'.questions = [interview.questions EXCEPT ![k] = q]
      /\ interview'.lastActivity = at
  BY <1>1 DEF Continue, RequestReport, WithCurrentQuestion, Interview
<1>3. Kept
  BY ContinueKept
<1>4. Hold(store', interview', store.ended, WithFreeze(k, at), store.messages, store.evaluations,
           store.reports)
  BY FrozenRows, StoreTypes
<1> PICK snapshots : snapshots = WithFreeze(k, at)
  OBVIOUS
<1>5. /\ snapshots \in [Positions -> Snapshot]
      /\ snapshots[k].frozen = TRUE /\ snapshots[k].frozenAt = at
      /\ snapshots[k].outcome = store.snapshots[k].outcome
      /\ \A n \in Positions : n # k => snapshots[n] = store.snapshots[n]
  <2>1. /\ WithFreeze(k, at) \in [Positions -> Snapshot]
        /\ WithFreeze(k, at)[k].frozen = TRUE
        /\ WithFreeze(k, at)[k].frozenAt = at
        /\ WithFreeze(k, at)[k].outcome = store.snapshots[k].outcome
        /\ \A n \in Positions : n # k => WithFreeze(k, at)[n] = store.snapshots[n]
    BY WithFreezeRead, Zenon
  <2>2. QED
    BY <2>1, Zenon
<1>6. at # NoTime
  BY InterviewAssumption DEF NoTime
<1>7. KeptAt(store', q, k)
  <2>1. KeptAt(store, CurrentQuestion(interview), k) /\ CurrentQuestion(interview) \in Question
    BY StoreTypes DEF CurrentQuestion
  <2>2. EvaluationsOf(store', k) = EvaluationsOf(store, k)
    BY <1>4 DEF Hold, EvaluationsOf
  <2>3. /\ q.material = CurrentQuestion(interview).material
        /\ q.followUps = CurrentQuestion(interview).followUps
        /\ q.clarifications = CurrentQuestion(interview).clarifications
        /\ q.evaluation = CurrentQuestion(interview).evaluation
        /\ q.outcome = CurrentQuestion(interview).outcome /\ q.frozen = TRUE
    BY <2>1 DEF Question
  <2>4. store'.snapshots[k].frozen = q.frozen
    <3>1. store'.snapshots = snapshots
      BY <1>4 DEF Hold
    <3>2. QED
      BY <1>5, <2>3, <3>1, Zenon
  <2>5. q.frozen <=> store'.snapshots[k].frozenAt # NoTime
    BY <1>4, <1>5, <1>6, <2>3 DEF Hold
  <2>6. QED
    BY <1>4, <1>5, <2>1, <2>2, <2>3, <2>4, <2>5 DEF Hold, KeptAt, Judgement
<1>8. MessagesKept'
  BY <1>3, <1>4, MessagesStay DEF Hold, Kept
<1>9. FreezesTimed'
  <2>1. at \in Nat /\ interview.lastActivity \in Nat
    BY InterviewAssumption, StoreTypes
  <2>2. \A n \in Positions : store.snapshots[n].frozenAt \in Int
    <3>1. Times \cup {NoTime} \subseteq Int
      BY InterviewAssumption DEF NoTime
    <3>2. \A n \in Positions : store.snapshots[n] \in Snapshot
      BY StoreTypes
    <3>3. QED
      BY <3>1, <3>2 DEF Snapshot
  <2>3. \A n \in Positions : store.snapshots[n].frozenAt <= interview.lastActivity
    BY DEF StoreInv, RowsInv, FreezesTimed
  <2>4. \A n \in Positions : snapshots[n].frozenAt <= at
    BY <1>1, <1>5, <2>1, <2>2, <2>3
  <2>5. ASSUME NEW n \in Positions \ {1}, snapshots[n].frozen
        PROVE  snapshots[n - 1].frozenAt <= snapshots[n].frozenAt
    <3>1. n - 1 \in Positions /\ n \in Positions /\ n \in Int
      BY InterviewAssumption DEF Positions
    <3>2. CASE n = k
      BY <1>5, <2>4, <3>1, <3>2
    <3>3. CASE n # k
      <4>1. store.snapshots[n].frozen
        BY <1>5, <2>5, <3>1, <3>3
      <4>2. interview.questions[n].frozen /\ interview.questions[n] \in Question
        BY <3>1, <4>1, StoreTypes DEF KeptAt
      <4>3. ~ n > interview.position
        BY <3>1, <4>2 DEF StoreInv, Inv, Sound, Ordered, FreshQuestion
      <4>4. n - 1 # k
        BY <3>1, <3>3, <4>3, InterviewAssumption DEF Positions
      <4>5. QED
        BY <1>5, <3>1, <3>3, <4>1, <4>4 DEF StoreInv, RowsInv, FreezesTimed
    <3>4. QED
      BY <3>2, <3>3
  <2>6. QED
    BY <1>2, <1>4, <2>4, <2>5 DEF Hold, FreezesTimed
<1>10. \A n \in Positions \ {k} : {e \in store.evaluations : e.position = n} = EvaluationsOf(store, n)
  BY DEF EvaluationsOf
<1>11. QED
  BY <1>1, <1>2, <1>3, <1>4, <1>5, <1>7, <1>8, <1>9, <1>10, RewriteStep, StoreTypes
(* Messages.  A completion's messages are the first of its operation.       *)

LEMMA AnswerAdded ==
  ASSUME NEW old \in Seq(Message), NEW m \in Message, NEW k, m.position = k, m.kind \in MaterialKinds
  PROVE  LET M == MessagesAt(old, k)
             N == MessagesAt(Append(old, m), k)
         IN  /\ Materials(N) = Materials(M) \cup {[id |-> m.id, kind |-> m.kind]}
             /\ FollowUpsIn(N) = FollowUpsIn(M)
             /\ ClarificationsIn(N) = ClarificationsIn(M)
<1>1. MessagesAt(Append(old, m), k) = MessagesAt(old, k) \cup {m}
  BY AppendedAt
<1>2. m.kind \notin FollowUpKinds /\ m.kind # "question_clarification"
  BY DEF MaterialKinds, FollowUpKinds
<1>3. QED
  BY <1>1, <1>2 DEF Materials, FollowUpsIn, ClarificationsIn

LEMMA FollowUpAdded ==
  ASSUME NEW old \in Seq(Message), NEW m \in Message, NEW k, m.position = k, m.kind \in FollowUpKinds
  PROVE  LET M == MessagesAt(old, k)
             N == MessagesAt(Append(old, m), k)
         IN  /\ Materials(N) = Materials(M)
             /\ FollowUpsIn(N) = FollowUpsIn(M) \cup {m.kind}
             /\ ClarificationsIn(N) = ClarificationsIn(M)
<1>1. MessagesAt(Append(old, m), k) = MessagesAt(old, k) \cup {m}
  BY AppendedAt
<1>2. m.kind \notin MaterialKinds /\ m.kind # "question_clarification"
  BY DEF MaterialKinds, FollowUpKinds
<1>3. QED
  BY <1>1, <1>2 DEF Materials, FollowUpsIn, ClarificationsIn

LEMMA ClarificationAdded ==
  ASSUME NEW old \in Seq(Message), NEW m \in Message, NEW k, m.position = k,
         m.kind = "question_clarification"
  PROVE  LET M == MessagesAt(old, k)
             N == MessagesAt(Append(old, m), k)
         IN  /\ Materials(N) = Materials(M)
             /\ FollowUpsIn(N) = FollowUpsIn(M)
             /\ ClarificationsIn(N) = ClarificationsIn(M) \cup {m.id}
<1>1. MessagesAt(Append(old, m), k) = MessagesAt(old, k) \cup {m}
  BY AppendedAt
<1>2. m.kind \notin MaterialKinds \cup FollowUpKinds
  BY DEF MaterialKinds, FollowUpKinds
<1>3. QED
  BY <1>1, <1>2 DEF Materials, FollowUpsIn, ClarificationsIn

(* A message of the operation, asked for before it was made, would be settled. *)
MaySettle(op) ==
  \A m \in Message :
    /\ m.id = op
    /\ m.kind = "question_clarification" => m.requestedAt <= m.createdAt
    => SettledMessage(m)

(* A completion releases the interview, and no message has its operation.   *)
LEMMA CompletionGoesOn ==
  ASSUME StoreInv, Inv', NEW p \in plans, IsAccepted(interview, p), plans' = plans, failed' = failed,
         interview'.pending = NoPending, interview'.status = "active",
         interview'.lastActivity = interview.lastActivity, interview'.hasReport = interview.hasReport,
         NEW messages, messages = store.messages
  PROVE  /\ Kept
         /\ p.command.op \in Ops /\ p.position = interview.position
         /\ p.materialKind \in MaterialKinds
         /\ p.command.occurredAt \in Times /\ p.command.occurredAt <= interview.lastActivity
         /\ \A n \in DOMAIN messages : messages[n].id # p.command.op
         /\ SettledAll(messages)'
         /\ MaySettle(p.command.op)'
<1>1. /\ p \in Plan /\ p.command.op \in Ops /\ interview.pending.op = p.command.op
      /\ p.position = interview.position /\ interview.status = "active"
  BY AcceptedStands DEF StoreInv
<1>2. Kept
  BY <1>1, ReleaseKept
<1>3. /\ p.materialKind \in MaterialKinds /\ p.command.occurredAt \in Times
      /\ p.acceptedAt \in Nat /\ p.command.occurredAt \in Nat
  BY <1>1, InterviewAssumption DEF Plan, PlannedCommand
<1>4. p.command.occurredAt <= interview.lastActivity
  BY <1>3, StoreTypes DEF StoreInv, RowsInv, PlansTimed
<1>5. \A n \in DOMAIN messages : SettledMessage(messages[n]) /\ messages[n] \in Message
  BY StoreTypes DEF StoreInv, RowsInv, MessagesKept
<1>6. \A n \in DOMAIN messages : messages[n].id # p.command.op
  BY <1>1, <1>5 DEF SettledMessage
<1>7. SettledAll(messages)'
  <2>1. \A n \in DOMAIN messages : SettledMessage(messages[n])'
    BY <1>2, <1>5, SettledStays DEF Kept
  <2>2. QED
    BY <2>1 DEF SettledAll
<1>8. ASSUME NEW m \in Message, m.id = p.command.op,
             m.kind = "question_clarification" => m.requestedAt <= m.createdAt
      PROVE  SettledMessage(m)'
  <2>1. m.id \notin failed' /\ m.id # interview'.pending.op
    BY <1>1, <1>8, StoreTypes, InterviewAssumption DEF NoPending
  <2>2. QED
    BY <1>8, <2>1 DEF SettledMessage
<1>9. MaySettle(p.command.op)'
  BY <1>8 DEF MaySettle, SettledMessage
<1>10. QED
  BY <1>1, <1>2, <1>3, <1>4, <1>6, <1>7, <1>9

LEMMA ClarificationStored ==
  ASSUME StoreInv, Inv', NEW p \in plans, NEW at \in Times, Clarified(p, at),
         Saves(ClarificationEvents(p, at))
  PROVE  StoreInv'
<1>1. PICK k \in Positions : k = interview.position
  BY StoreTypes
<1>2. PICK q : q = [CurrentQuestion(interview) EXCEPT !.clarifications = @ \cup {p.command.op}]
  OBVIOUS
<1>3. PICK old \in Seq(Message) : old = store.messages
  BY StoreTypes
<1>4. PICK m : m = NewMessage(p.command.op, "question_clarification", p.position,
                              p.command.occurredAt, at)
  OBVIOUS
<1>5. PICK messages : messages = Append(old, m)
  OBVIOUS
<1>6. /\ interview' = CompleteClarification(interview, p) /\ IsAccepted(interview, p)
      /\ plans' = plans /\ failed' = failed /\ interview.status = "active"
      /\ interview.lastActivity <= at /\ interview \in Interview
  BY StoreTypes DEF Clarified, CanComplete, IsAccepted, Immediately
<1>7. /\ interview'.status = "active" /\ interview'.hasReport = interview.hasReport
      /\ interview'.pending = NoPending
      /\ interview'.questions = [interview.questions EXCEPT ![k] = q]
      /\ interview'.lastActivity = interview.lastActivity
  BY <1>1, <1>2, <1>6 DEF CompleteClarification, WithCurrentQuestion, Interview
<1>8. /\ Kept /\ p.command.op \in Ops /\ p.position = k
      /\ p.command.occurredAt \in Times /\ p.command.occurredAt <= interview.lastActivity
      /\ \A n \in DOMAIN old : old[n].id # p.command.op
      /\ SettledAll(old)'
      /\ MaySettle(p.command.op)'
  BY <1>1, <1>3, <1>6, <1>7, CompletionGoesOn
<1>9. /\ m \in Message /\ m.id = p.command.op /\ m.kind = "question_clarification"
      /\ m.position = k /\ m.requestedAt = p.command.occurredAt /\ m.createdAt = at
  BY <1>4, <1>8 DEF NewMessage, Message
<1>10. Hold(store', interview', store.ended, store.snapshots, messages, store.evaluations,
            store.reports)
  BY <1>3, <1>4, <1>5, ClarificationRows, StoreTypes
<1>11. messages \in Seq(Message)
  BY <1>5, <1>9
<1>12. MessagesKept'
  <2>1. Apart(messages)
    <3>1. Apart(old)
      BY <1>3 DEF StoreInv, RowsInv, MessagesKept
    <3>2. m.kind \notin FollowUpKinds /\ \A n \in DOMAIN old : ~ SameMessage(old[n], m)
      BY <1>8, <1>9 DEF FollowUpKinds, SameMessage
    <3>3. QED
      BY <1>5, <1>9, <3>1, <3>2, AppendedApart
  <2>2. p.command.occurredAt <= at
    <3>1. /\ p.command.occurredAt \in Nat /\ interview.lastActivity \in Nat /\ at \in Nat
          /\ p.command.occurredAt <= interview.lastActivity /\ interview.lastActivity <= at
      BY <1>6, <1>8, StoreTypes, InterviewAssumption
    <3>2. QED
      BY <3>1
  <2>3. SettledMessage(m)'
    <3>1. m.requestedAt <= m.createdAt
      BY <1>9, <2>2
    <3>2. QED
      BY <1>8, <1>9, <3>1, Zenon DEF MaySettle
  <2>4. SettledAll(messages)'
    BY <1>5, <1>8, <1>9, <2>3, AppendedSettled
  <2>5. store'.messages = messages
    BY <1>10 DEF Hold
  <2>6. QED
    BY <2>1, <2>4, <2>5 DEF MessagesKept, SettledAll, SettledMessage
<1>13. KeptAt(store', q, k)
  <2>1. KeptAt(store, CurrentQuestion(interview), k) /\ CurrentQuestion(interview) \in Question
    BY <1>1, StoreTypes DEF CurrentQuestion
  <2>2. EvaluationsOf(store', k) = EvaluationsOf(store, k)
    BY <1>10 DEF Hold, EvaluationsOf
  <2>3. /\ q.material = CurrentQuestion(interview).material
        /\ q.followUps = CurrentQuestion(interview).followUps
        /\ q.clarifications = CurrentQuestion(interview).clarifications \cup {p.command.op}
        /\ q.evaluation = CurrentQuestion(interview).evaluation
        /\ q.outcome = CurrentQuestion(interview).outcome
        /\ q.frozen = CurrentQuestion(interview).frozen
    BY <1>2, <2>1 DEF Question
  <2>4. /\ Materials(MessagesAt(messages, k)) = Materials(MessagesAt(old, k))
        /\ FollowUpsIn(MessagesAt(messages, k)) = FollowUpsIn(MessagesAt(old, k))
        /\ ClarificationsIn(MessagesAt(messages, k)) =
             ClarificationsIn(MessagesAt(old, k)) \cup {p.command.op}
    BY <1>5, <1>9, ClarificationAdded
  <2>5. Judgement(q, k) = Judgement(CurrentQuestion(interview), k)
    BY <2>3 DEF Judgement
  <2>6. store'.snapshots = store.snapshots /\ store'.messages = messages
    BY <1>10 DEF Hold
  <2>7. QED
    BY <1>3, <2>1, <2>2, <2>3, <2>4, <2>5, <2>6, Zenon DEF KeptAt
<1>14. FreezesTimed'
  BY <1>7, <1>8, <1>10, FreezesStay, StoreTypes DEF Hold, Kept
<1>15. \A n \in Positions \ {interview.position} :
         /\ MessagesAt(messages, n) = MessagesAt(store.messages, n)
         /\ {e \in store.evaluations : e.position = n} = EvaluationsOf(store, n)
  BY <1>1, <1>3, <1>5, <1>9, AppendedAt DEF EvaluationsOf
<1>16. QED
  <2>1. KeptAt(store', q, interview.position) /\ store.snapshots \in [Positions -> Snapshot]
    BY <1>1, <1>13, StoreTypes
  <2>2. interview'.questions = [interview.questions EXCEPT ![interview.position] = q]
    BY <1>1, <1>7
  <2>3. /\ Kept /\ interview.status = "active" /\ interview'.status \in {"active", "report_pending"}
        /\ interview'.hasReport = interview.hasReport
    BY <1>6, <1>7, <1>8
  <2>4. QED
    BY <1>10, <1>11, <1>12, <1>14, <1>15, <2>1, <2>2, <2>3, RewriteStep
LEMMA WithoutJudgementRead ==
  ASSUME NEW k
  PROVE  /\ {e \in WithoutJudgement(k) : e.position = k} = {}
         /\ \A n : n # k => {e \in WithoutJudgement(k) : e.position = n} = EvaluationsOf(store, n)
  BY DEF WithoutJudgement, EvaluationsOf

(* The answer of a completed operation is a message of its own.             *)
AnswerAt(k, p, old, answered) ==
  /\ answered \in Seq(Message) /\ Apart(answered)
  /\ Materials(MessagesAt(answered, k)) =
       Materials(MessagesAt(old, k)) \cup {[id |-> p.command.op, kind |-> p.materialKind]}
  /\ FollowUpsIn(MessagesAt(answered, k)) = FollowUpsIn(MessagesAt(old, k))
  /\ ClarificationsIn(MessagesAt(answered, k)) = ClarificationsIn(MessagesAt(old, k))
  /\ \A n : n # k => MessagesAt(answered, n) = MessagesAt(old, n)
  /\ \A n \in DOMAIN answered :
       answered[n].id = p.command.op => answered[n].kind \in MaterialKinds

LEMMA AnswerStored ==
  ASSUME StoreInv, NEW p \in plans, NEW k \in Positions, p.position = k,
         p.command.op \in Ops, p.materialKind \in MaterialKinds, p.command.occurredAt \in Times,
         NEW old \in Seq(Message), old = store.messages,
         \A n \in DOMAIN old : old[n].id # p.command.op, SettledAll(old)', MaySettle(p.command.op)',
         NEW answered, answered = Append(old, Answer(p))
  PROVE  AnswerAt(k, p, old, answered) /\ SettledAll(answered)'
<1>1. PICK m : m = Answer(p)
  OBVIOUS
<1>2. /\ m \in Message /\ m.id = p.command.op /\ m.kind = p.materialKind /\ m.position = k
  BY <1>1 DEF Answer, NewMessage, Message
<1>3. answered = Append(old, m)
  BY <1>1
<1>4. m.kind # "question_clarification" /\ m.kind \notin FollowUpKinds
  BY <1>2 DEF MaterialKinds, FollowUpKinds
<1>5. Apart(answered)
  <2>1. Apart(old)
    BY DEF StoreInv, RowsInv, MessagesKept
  <2>2. \A n \in DOMAIN old : ~ SameMessage(old[n], m)
    BY <1>2 DEF SameMessage
  <2>3. QED
    BY <1>2, <1>3, <1>4, <2>1, <2>2, AppendedApart
<1>6. SettledAll(answered)'
  <2>1. SettledMessage(m)'
    BY <1>2, <1>4 DEF MaySettle
  <2>2. QED
    BY <1>2, <1>3, <2>1, AppendedSettled
<1>7. answered \in Seq(Message)
  BY <1>2, <1>3
<1>8. /\ Materials(MessagesAt(answered, k)) =
           Materials(MessagesAt(old, k)) \cup {[id |-> m.id, kind |-> m.kind]}
      /\ FollowUpsIn(MessagesAt(answered, k)) = FollowUpsIn(MessagesAt(old, k))
      /\ ClarificationsIn(MessagesAt(answered, k)) = ClarificationsIn(MessagesAt(old, k))
  BY <1>2, <1>3, AnswerAdded
<1>9. \A n : n # k => MessagesAt(answered, n) = MessagesAt(old, n)
  BY <1>2, <1>3, AppendedAt
<1>10. \A n \in DOMAIN answered :
         answered[n].id = p.command.op => answered[n].kind \in MaterialKinds
  <2>1. /\ DOMAIN answered = DOMAIN old \cup {Len(old) + 1}
        /\ answered[Len(old) + 1] = m
        /\ \A n \in DOMAIN old : answered[n] = old[n]
    BY <1>3
  <2>2. QED
    BY <1>2, <2>1
<1>11. QED
  BY <1>2, <1>5, <1>6, <1>7, <1>8, <1>9, <1>10 DEF AnswerAt

LEMMA EvaluationStored ==
  ASSUME StoreInv, Inv', NEW p \in plans, NEW outcome \in EvaluatedOutcomes, NEW at \in Times,
         Evaluated(p, outcome, at), Saves(EvaluationEvents(interview, p, outcome))
  PROVE  StoreInv'
<1>1. PICK k \in Positions : k = interview.position
  BY StoreTypes
<1>2. PICK q : q = [WithMaterial(CurrentQuestion(interview), p)
                      EXCEPT !.evaluation = MaterialIds(WithMaterial(CurrentQuestion(interview), p)),
                             !.outcome = outcome]
  OBVIOUS
<1>3. PICK old \in Seq(Message) : old = store.messages
  BY StoreTypes
<1>4. PICK messages : messages = Append(old, Answer(p))
  OBVIOUS
<1>5. PICK snapshots : snapshots = WithOutcome(k, outcome)
  OBVIOUS
<1>6. /\ interview' = CompleteWithEvaluation(interview, p, outcome) /\ IsAccepted(interview, p)
      /\ plans' = plans /\ failed' = failed /\ interview.status = "active" /\ interview \in Interview
  BY StoreTypes DEF Evaluated, CanComplete, IsAccepted, Immediately
<1>7. /\ interview'.status = "active" /\ interview'.hasReport = interview.hasReport
      /\ interview'.pending = NoPending
      /\ interview'.questions = [interview.questions EXCEPT ![k] = q]
      /\ interview'.lastActivity = interview.lastActivity
  BY <1>1, <1>2, <1>6 DEF CompleteWithEvaluation, WithCurrentQuestion, Interview
<1>8. /\ Kept /\ p.command.op \in Ops /\ p.position = k
      /\ p.command.occurredAt \in Times /\ p.materialKind \in MaterialKinds
      /\ \A n \in DOMAIN old : old[n].id # p.command.op
      /\ SettledAll(old)'
      /\ MaySettle(p.command.op)'
  BY <1>1, <1>3, <1>6, <1>7, CompletionGoesOn
<1>9. /\ messages \in Seq(Message) /\ Apart(messages) /\ SettledAll(messages)'
      /\ Materials(MessagesAt(messages, k)) =
           Materials(MessagesAt(old, k)) \cup {[id |-> p.command.op, kind |-> p.materialKind]}
      /\ FollowUpsIn(MessagesAt(messages, k)) = FollowUpsIn(MessagesAt(old, k))
      /\ ClarificationsIn(MessagesAt(messages, k)) = ClarificationsIn(MessagesAt(old, k))
      /\ \A n : n # k => MessagesAt(messages, n) = MessagesAt(old, n)
  <2>1. AnswerAt(k, p, old, messages) /\ SettledAll(messages)'
    BY <1>3, <1>4, <1>8, AnswerStored
  <2>2. QED
    BY <2>1 DEF AnswerAt
<1>10. PICK row : row = [position |-> k, outcome |-> outcome,
                         judged |-> MaterialIds(WithMaterial(CurrentQuestion(interview), p))]
  OBVIOUS
<1>11. PICK evaluations : evaluations = WithoutJudgement(k) \cup {row}
  OBVIOUS
<1>12. Hold(store', interview', store.ended, snapshots, messages, evaluations, store.reports)
  <2>1. Hold(store', interview', store.ended, WithOutcome(k, outcome), Append(old, Answer(p)),
             WithoutJudgement(k) \cup
               {[position |-> k, judged |-> MaterialIds(WithMaterial(CurrentQuestion(interview), p)),
                 outcome |-> outcome]}, store.reports)
    BY <1>3, <1>8, EvaluationRows, StoreTypes
  <2>2. QED
    BY <1>4, <1>5, <1>10, <1>11, <2>1
<1>13. /\ snapshots \in [Positions -> Snapshot] /\ snapshots[k].outcome = outcome
       /\ \A n \in Positions : /\ snapshots[n].frozen = store.snapshots[n].frozen
                               /\ snapshots[n].frozenAt = store.snapshots[n].frozenAt
                               /\ n # k => snapshots[n] = store.snapshots[n]
  <2>1. outcome \in Outcomes
    BY DEF Outcomes
  <2>2. QED
    BY <1>5, <2>1, WithOutcomeRead
<1>14. /\ {e \in evaluations : e.position = k} = {row}
       /\ \A n : n # k => {e \in evaluations : e.position = n} = EvaluationsOf(store, n)
  BY <1>10, <1>11, WithoutJudgementRead
<1>15. MessagesKept'
  <2>1. store'.messages = messages
    BY <1>12 DEF Hold
  <2>2. QED
    BY <1>9, <2>1 DEF MessagesKept, SettledAll, SettledMessage
<1>16. KeptAt(store', q, k)
  <2>1. KeptAt(store, CurrentQuestion(interview), k) /\ CurrentQuestion(interview) \in Question
    BY <1>1, StoreTypes DEF CurrentQuestion
  <2>2. /\ q.material = CurrentQuestion(interview).material
                          \cup {[id |-> p.command.op, kind |-> p.materialKind]}
        /\ q.followUps = CurrentQuestion(interview).followUps
        /\ q.clarifications = CurrentQuestion(interview).clarifications
        /\ q.evaluation = row.judged
        /\ q.outcome = outcome
        /\ q.frozen = CurrentQuestion(interview).frozen
    BY <1>2, <1>10, <2>1 DEF Question, WithMaterial
  <2>3. row.judged # {}
    <3>1. [id |-> p.command.op, kind |-> p.materialKind] \in
            WithMaterial(CurrentQuestion(interview), p).material
      BY <2>1 DEF WithMaterial, Question
    <3>2. p.command.op \in MaterialIds(WithMaterial(CurrentQuestion(interview), p))
      BY <3>1 DEF MaterialIds
    <3>3. QED
      BY <1>10, <3>2
  <2>4. Judgement(q, k) = {row}
    BY <1>10, <2>2, <2>3 DEF Judgement
  <2>5. EvaluationsOf(store', k) = {row}
    BY <1>12, <1>14 DEF Hold, EvaluationsOf
  <2>6. store'.snapshots = snapshots /\ store'.messages = messages
    BY <1>12 DEF Hold
  <2>7. /\ snapshots[k].frozen = CurrentQuestion(interview).frozen
        /\ CurrentQuestion(interview).frozen <=> snapshots[k].frozenAt # NoTime
    BY <1>13, <2>1 DEF KeptAt
  <2>8. QED
    BY <1>3, <1>9, <1>13, <2>1, <2>2, <2>4, <2>5, <2>6, <2>7, Zenon DEF KeptAt
<1>17. FreezesTimed'
  BY <1>7, <1>8, <1>12, <1>13, FreezesStay, StoreTypes DEF Hold, Kept
<1>18. \A n \in Positions \ {interview.position} :
         /\ snapshots[n] = store.snapshots[n]
         /\ MessagesAt(messages, n) = MessagesAt(store.messages, n)
         /\ {e \in evaluations : e.position = n} = EvaluationsOf(store, n)
  BY <1>1, <1>3, <1>9, <1>13, <1>14
<1>19. QED
  <2>1. KeptAt(store', q, interview.position) /\ messages \in Seq(Message)
    BY <1>1, <1>9, <1>16
  <2>2. interview'.questions = [interview.questions EXCEPT ![interview.position] = q]
    BY <1>1, <1>7
  <2>3. /\ Kept /\ interview.status = "active" /\ interview'.status \in {"active", "report_pending"}
        /\ interview'.hasReport = interview.hasReport /\ snapshots \in [Positions -> Snapshot]
    BY <1>6, <1>7, <1>8, <1>13
  <2>4. QED
    BY <1>12, <1>15, <1>17, <1>18, <2>1, <2>2, <2>3, RewriteStep

LEMMA FollowUpStored ==
  ASSUME StoreInv, Inv', NEW p \in plans, NEW kind \in FollowUpKinds, NEW at \in Times,
         FollowedUp(p, kind, at), Saves(FollowUpEvents(interview, p, kind, at))
  PROVE  StoreInv'
<1>1. PICK k \in Positions : k = interview.position
  BY StoreTypes
<1>2. PICK q : q = [WithMaterial(CurrentQuestion(interview), p)
                      EXCEPT !.followUps = @ \cup {kind}, !.evaluation = {}, !.outcome = "none"]
  OBVIOUS
<1>3. PICK old \in Seq(Message) : old = store.messages
  BY StoreTypes
<1>4. PICK answered : answered = Append(old, Answer(p))
  OBVIOUS
<1>5. PICK m : m = NewMessage(p.command.op, kind, p.position, NoTime, at)
  OBVIOUS
<1>6. PICK messages : messages = Append(answered, m)
  OBVIOUS
<1>7. /\ interview' = CompleteWithFollowUp(interview, p, kind) /\ IsAccepted(interview, p)
      /\ kind \notin CurrentQuestion(interview).followUps
      /\ plans' = plans /\ failed' = failed /\ interview.status = "active" /\ interview \in Interview
  BY StoreTypes DEF FollowedUp, CanFollowUp, CanComplete, IsAccepted, Immediately
<1>8. /\ interview'.status = "active" /\ interview'.hasReport = interview.hasReport
      /\ interview'.pending = NoPending
      /\ interview'.questions = [interview.questions EXCEPT ![k] = q]
      /\ interview'.lastActivity = interview.lastActivity
  BY <1>1, <1>2, <1>7 DEF CompleteWithFollowUp, WithCurrentQuestion, Interview
<1>9. /\ Kept /\ p.command.op \in Ops /\ p.position = k
      /\ p.command.occurredAt \in Times /\ p.materialKind \in MaterialKinds
      /\ \A n \in DOMAIN old : old[n].id # p.command.op
      /\ SettledAll(old)'
      /\ MaySettle(p.command.op)'
  BY <1>1, <1>3, <1>7, <1>8, CompletionGoesOn
<1>10. /\ answered \in Seq(Message) /\ Apart(answered) /\ SettledAll(answered)'
       /\ Materials(MessagesAt(answered, k)) =
            Materials(MessagesAt(old, k)) \cup {[id |-> p.command.op, kind |-> p.materialKind]}
       /\ FollowUpsIn(MessagesAt(answered, k)) = FollowUpsIn(MessagesAt(old, k))
       /\ ClarificationsIn(MessagesAt(answered, k)) = ClarificationsIn(MessagesAt(old, k))
       /\ \A n : n # k => MessagesAt(answered, n) = MessagesAt(old, n)
       /\ \A n \in DOMAIN answered :
            answered[n].id = p.command.op => answered[n].kind \in MaterialKinds
  <2>1. AnswerAt(k, p, old, answered) /\ SettledAll(answered)'
    BY <1>3, <1>4, <1>9, AnswerStored
  <2>2. QED
    BY <2>1 DEF AnswerAt
<1>11. /\ m \in Message /\ m.id = p.command.op /\ m.kind = kind /\ m.position = k
       /\ m.kind # "question_clarification" /\ m.kind \notin MaterialKinds
  BY <1>5, <1>9 DEF NewMessage, Message, FollowUpKinds, MaterialKinds
<1>12. KeptAt(store, CurrentQuestion(interview), k) /\ CurrentQuestion(interview) \in Question
  BY <1>1, StoreTypes DEF CurrentQuestion
<1>13. /\ messages \in Seq(Message) /\ Apart(messages) /\ SettledAll(messages)'
  <2>1. kind \notin FollowUpsIn(MessagesAt(answered, k))
    BY <1>3, <1>7, <1>10, <1>12 DEF KeptAt
  <2>2. \A n \in DOMAIN answered : answered[n].position = k => answered[n].kind # kind
    BY <2>1 DEF FollowUpsIn, MessagesAt
  <2>3. \A n \in DOMAIN answered : ~ SameMessage(answered[n], m)
    BY <1>10, <1>11 DEF SameMessage
  <2>4. Apart(messages)
    BY <1>6, <1>10, <1>11, <2>2, <2>3, AppendedApart
  <2>5. SettledMessage(m)'
    BY <1>9, <1>11 DEF MaySettle
  <2>6. SettledAll(messages)'
    BY <1>6, <1>10, <1>11, <2>5, AppendedSettled
  <2>7. QED
    BY <1>6, <1>10, <1>11, <2>4, <2>6
<1>14. /\ Materials(MessagesAt(messages, k)) =
            Materials(MessagesAt(old, k)) \cup {[id |-> p.command.op, kind |-> p.materialKind]}
       /\ FollowUpsIn(MessagesAt(messages, k)) = FollowUpsIn(MessagesAt(old, k)) \cup {kind}
       /\ ClarificationsIn(MessagesAt(messages, k)) = ClarificationsIn(MessagesAt(old, k))
       /\ \A n : n # k => MessagesAt(messages, n) = MessagesAt(old, n)
  <2>1. /\ Materials(MessagesAt(messages, k)) = Materials(MessagesAt(answered, k))
        /\ FollowUpsIn(MessagesAt(messages, k)) = FollowUpsIn(MessagesAt(answered, k)) \cup {m.kind}
        /\ ClarificationsIn(MessagesAt(messages, k)) = ClarificationsIn(MessagesAt(answered, k))
    BY <1>6, <1>10, <1>11, FollowUpAdded
  <2>2. \A n : n # k => MessagesAt(messages, n) = MessagesAt(answered, n)
    BY <1>6, <1>10, <1>11, AppendedAt
  <2>3. QED
    BY <1>10, <1>11, <2>1, <2>2
<1>15. PICK snapshots, evaluations :
         /\ Hold(store', interview', store.ended, snapshots, messages, evaluations, store.reports)
         /\ snapshots \in [Positions -> Snapshot] /\ snapshots[k].outcome = "none"
         /\ \A n \in Positions : /\ snapshots[n].frozen = store.snapshots[n].frozen
                                 /\ snapshots[n].frozenAt = store.snapshots[n].frozenAt
                                 /\ n # k => snapshots[n] = store.snapshots[n]
         /\ {e \in evaluations : e.position = k} = {}
         /\ \A n : n # k => {e \in evaluations : e.position = n} = EvaluationsOf(store, n)
  <2> DEFINE had == CurrentQuestion(interview).evaluation # {}
                    \/ CurrentQuestion(interview).outcome # "none"
  <2>1. messages = Append(Append(store.messages, Answer(p)),
                          NewMessage(p.command.op, kind, p.position, NoTime, at))
    BY <1>3, <1>4, <1>5, <1>6
  <2>2. /\ had => Hold(store', interview', store.ended, WithOutcome(k, "none"), messages,
                       WithoutJudgement(k), store.reports)
        /\ ~ had => Hold(store', interview', store.ended, store.snapshots, messages,
                         store.evaluations, store.reports)
    BY <1>9, <2>1, FollowUpRows, StoreTypes
  <2>3. CASE had
    <3>1. /\ WithOutcome(k, "none") \in [Positions -> Snapshot]
          /\ WithOutcome(k, "none")[k].outcome = "none"
          /\ \A n \in Positions :
               /\ WithOutcome(k, "none")[n].frozen = store.snapshots[n].frozen
               /\ WithOutcome(k, "none")[n].frozenAt = store.snapshots[n].frozenAt
               /\ n # k => WithOutcome(k, "none")[n] = store.snapshots[n]
      <4>1. "none" \in Outcomes
        BY DEF Outcomes
      <4>2. QED
        BY <4>1, WithOutcomeRead
    <3>2. Hold(store', interview', store.ended, WithOutcome(k, "none"), messages,
               WithoutJudgement(k), store.reports)
      BY <2>2, <2>3
    <3>3. QED
      BY <3>1, <3>2, WithoutJudgementRead
  <2>4. CASE ~ had
    <3>1. Hold(store', interview', store.ended, store.snapshots, messages, store.evaluations,
               store.reports)
      BY <2>2, <2>4
    <3>2. store.snapshots[k].outcome = "none" /\ EvaluationsOf(store, k) = {}
      BY <1>12, <2>4 DEF KeptAt, Judgement
    <3>3. QED
      BY <3>1, <3>2, StoreTypes DEF EvaluationsOf
  <2>5. QED
    BY <2>3, <2>4
<1>16. MessagesKept'
  <2>1. store'.messages = messages
    BY <1>15 DEF Hold
  <2>2. QED
    BY <1>13, <2>1 DEF MessagesKept, SettledAll, SettledMessage
<1>17. KeptAt(store', q, k)
  <2>1. /\ q.material = CurrentQuestion(interview).material
                          \cup {[id |-> p.command.op, kind |-> p.materialKind]}
        /\ q.followUps = CurrentQuestion(interview).followUps \cup {kind}
        /\ q.clarifications = CurrentQuestion(interview).clarifications
        /\ q.evaluation = {} /\ q.outcome = "none"
        /\ q.frozen = CurrentQuestion(interview).frozen
    BY <1>2, <1>12 DEF Question, WithMaterial
  <2>2. Judgement(q, k) = {}
    BY <2>1 DEF Judgement
  <2>3. EvaluationsOf(store', k) = {}
    BY <1>15 DEF Hold, EvaluationsOf
  <2>4. store'.snapshots = snapshots /\ store'.messages = messages
    BY <1>15 DEF Hold
  <2>5. /\ snapshots[k].frozen = CurrentQuestion(interview).frozen
        /\ CurrentQuestion(interview).frozen <=> snapshots[k].frozenAt # NoTime
    BY <1>12, <1>15 DEF KeptAt
  <2>6. QED
    BY <1>3, <1>12, <1>14, <1>15, <2>1, <2>2, <2>3, <2>4, <2>5, Zenon DEF KeptAt
<1>18. FreezesTimed'
  BY <1>8, <1>9, <1>15, FreezesStay, StoreTypes DEF Hold, Kept
<1>19. \A n \in Positions \ {interview.position} :
         /\ snapshots[n] = store.snapshots[n]
         /\ MessagesAt(messages, n) = MessagesAt(store.messages, n)
         /\ {e \in evaluations : e.position = n} = EvaluationsOf(store, n)
  BY <1>1, <1>3, <1>14, <1>15
<1>20. QED
  <2>1. /\ KeptAt(store', q, interview.position) /\ messages \in Seq(Message)
        /\ Hold(store', interview', store.ended, snapshots, messages, evaluations, store.reports)
    BY <1>1, <1>13, <1>15, <1>17
  <2>2. interview'.questions = [interview.questions EXCEPT ![interview.position] = q]
    BY <1>1, <1>8
  <2>3. /\ Kept /\ interview.status = "active" /\ interview'.status \in {"active", "report_pending"}
        /\ interview'.hasReport = interview.hasReport /\ snapshots \in [Positions -> Snapshot]
    BY <1>7, <1>8, <1>9, <1>15
  <2>4. QED
    BY <1>16, <1>18, <1>19, <2>1, <2>2, <2>3, RewriteStep

-------------------------------------------------------------------------------
(* Every step of the store is a step of the interview. *)

LEMMA StoredSteps ==
  ASSUME [StoredNext]_storeVars
  PROVE  [Next]_vars
<1>1. CASE UNCHANGED storeVars
  BY <1>1 DEF storeVars
<1>2. ASSUME NEW at \in Times, StoredClientStep(at)
      PROVE  ClientStep(at)
  BY <1>2 DEF StoredClientStep, ClientStep
<1>3. ASSUME NEW at \in Times, StoredServerStep(at)
      PROVE  ServerStep(at)
  BY <1>3 DEF StoredServerStep, ServerStep
<1>4. ASSUME NEW at \in Times, StoredExpiry(at)
      PROVE  ServerStep(at)
  BY <1>4 DEF StoredExpiry, ServerStep
<1>5. QED
  BY <1>1, <1>2, <1>3, <1>4 DEF StoredNext, Next

LEMMA StoredKeeps ==
  ASSUME StoreInv, [StoredNext]_storeVars
  PROVE  StoreInv'
<1>1. Inv'
  <2>1. CASE UNCHANGED vars
    BY <2>1 DEF StoreInv, Inv, TypeOK, PlansInv, PlanMade, PlanKept, Waiting, vars
  <2>2. CASE Next
    BY <2>2, NextStep DEF StoreInv
  <2>3. QED
    BY <2>1, <2>2, StoredSteps
<1>2. CASE UNCHANGED storeVars
  <2>1. /\ interview' = interview /\ plans' = plans /\ failed' = failed /\ store' = store
    BY <1>2 DEF storeVars, vars
  <2>2. RowsInv'
    BY <2>1 DEF StoreInv, RowsInv, RowsTyped, ColumnsKept, QuestionsKept, MessagesKept, ReportKept,
       FreezesTimed, PlansTimed, SettledMessage
  <2>3. QED
    BY <1>1, <2>2 DEF StoreInv
<1>3. ASSUME NEW at \in Times, StoredClientStep(at)
      PROVE  StoreInv'
  <2>1. ASSUME NEW op \in Ops, NEW type \in PlannedTypes, SubmitPlanned(op, type, at), Saves(<<>>)
        PROVE  StoreInv'
    BY <1>1, <2>1, SubmitRows
  <2>2. ASSUME NEW outcome \in {"unknown", "skipped"}, RecordOutcome(outcome, at),
               Saves(OutcomeEvents(interview, outcome))
        PROVE  StoreInv'
    BY <1>1, <2>2, OutcomeStored
  <2>3. CASE ContinueInterview(at) /\ Saves(FrozenEvents(interview, at))
    BY <1>1, <2>3, FreezeStored
  <2>4. CASE EndInterviewEarly(at) /\ Saves(<<>>)
    BY <1>1, <2>4, EndRows
  <2>5. CASE AbandonInterview(at) /\ Saves(AbandonedEvents)
    BY <1>1, <2>5, AbandonedSaved
  <2>6. ASSUME NEW p \in plans, RetryFailed(p, at) \/ TakeOver(p, at), Saves(<<>>)
        PROVE  StoreInv'
    BY <1>1, <2>6, RetryRows
  <2>7. CASE RetryReport(at) /\ Saves(<<>>)
    BY <1>1, <2>7, RetryReportRows
  <2>8. QED
    BY <1>3, <2>1, <2>2, <2>3, <2>4, <2>5, <2>6, <2>7 DEF StoredClientStep
<1>4. ASSUME NEW at \in Times, StoredServerStep(at)
      PROVE  StoreInv'
  <2>1. ASSUME NEW p \in plans, Clarified(p, at), Saves(ClarificationEvents(p, at))
        PROVE  StoreInv'
    BY <1>1, <2>1, ClarificationStored
  <2>2. ASSUME NEW p \in plans, NEW kind \in FollowUpKinds, FollowedUp(p, kind, at),
               Saves(FollowUpEvents(interview, p, kind, at))
        PROVE  StoreInv'
    BY <1>1, <2>2, FollowUpStored
  <2>3. ASSUME NEW p \in plans, NEW outcome \in EvaluatedOutcomes, Evaluated(p, outcome, at),
               Saves(EvaluationEvents(interview, p, outcome))
        PROVE  StoreInv'
    BY <1>1, <2>3, EvaluationStored
  <2>4. ASSUME NEW p \in plans, Cancelled(p), Saves(<<>>)
        PROVE  StoreInv'
    BY <1>1, <2>4, CancelledRows
  <2>5. CASE StoreReport(at) /\ Saves(ReportEvents(interview))
    BY <1>1, <2>5, ReportStoredRows
  <2>6. CASE ExpireOnCommand(at) /\ Saves(AbandonedEvents)
    BY <1>1, <2>6, AbandonedSaved
  <2>7. QED
    BY <1>4, <2>1, <2>2, <2>3, <2>4, <2>5, <2>6 DEF StoredServerStep
<1>5. ASSUME NEW at \in Times, StoredExpiry(at)
      PROVE  StoreInv'
  BY <1>1, <1>5, ExpiryRows
<1>6. QED
  BY <1>2, <1>3, <1>4, <1>5 DEF StoredNext

LEMMA FirstRows ==
  ASSUME StoredInit
  PROVE  StoreInv
<1>1. Inv /\ interview = FreshInterview /\ plans = {} /\ failed = {} /\ store = CreatedRows(interview)
  BY FirstStep DEF StoredInit, Init
<1>2. /\ store.session = SessionColumns(interview) /\ ~ store.ended /\ store.messages = <<>>
      /\ store.evaluations = {} /\ store.reports = {} /\ AreRows(store)
      /\ store.snapshots = [k \in Positions |-> [outcome |-> "none", frozen |-> FALSE, frozenAt |-> NoTime]]
  BY <1>1 DEF CreatedRows, AreRows
<1>3. /\ interview.status = "active" /\ interview.reportKind = "none" /\ ~ interview.hasReport
      /\ ~ IsPending(interview) /\ CurrentQuestion(interview) = FreshQuestion
      /\ interview.lastActivity = 0
      /\ \A k \in Positions : interview.questions[k] = FreshQuestion
  BY <1>1, InterviewAssumption
     DEF FreshInterview, CurrentQuestion, IsPending, NoPending, Positions
<1>4. RowsTyped
  <2>1. [outcome |-> "none", frozen |-> FALSE, frozenAt |-> NoTime] \in Snapshot
    BY DEF Snapshot, Outcomes
  <2>2. QED
    BY <1>2, <2>1 DEF RowsTyped
<1>5. ColumnsKept
  BY <1>2, <1>3 DEF ColumnsKept, Over
<1>6. QuestionsKept
  <2>1. ASSUME NEW k \in Positions
        PROVE  KeptAt(store, FreshQuestion, k)
    <3>1. MessagesAt(store.messages, k) = {}
      BY <1>2 DEF MessagesAt
    <3>2. /\ Materials({}) = {} /\ FollowUpsIn({}) = {} /\ ClarificationsIn({}) = {}
          /\ EvaluationsOf(store, k) = {}
      BY <1>2 DEF Materials, FollowUpsIn, ClarificationsIn, EvaluationsOf
    <3>3. /\ store.snapshots[k].outcome = "none" /\ store.snapshots[k].frozen = FALSE
          /\ store.snapshots[k].frozenAt = NoTime
      BY <1>2
    <3>4. /\ FreshQuestion.material = {} /\ FreshQuestion.followUps = {}
          /\ FreshQuestion.clarifications = {} /\ FreshQuestion.outcome = "none"
          /\ FreshQuestion.frozen = FALSE /\ Judgement(FreshQuestion, k) = {}
      BY DEF FreshQuestion, Judgement
    <3>5. QED
      BY <3>1, <3>2, <3>3, <3>4, Zenon DEF KeptAt
  <2>2. QED
    BY <1>3, <2>1 DEF QuestionsKept
<1>7. MessagesKept /\ ReportKept
  BY <1>2, <1>3 DEF MessagesKept, Apart, ReportKept
<1>8. FreezesTimed
  BY <1>2, <1>3 DEF FreezesTimed, NoTime
<1>9. PlansTimed /\ LeftWell(interview)
  BY <1>1, <1>3 DEF PlansTimed, LeftWell, FreshQuestion
<1>10. QED
  BY <1>1, <1>4, <1>5, <1>6, <1>7, <1>8, <1>9 DEF StoreInv, RowsInv

(* The store's own behaviours are behaviours of the interview, with the      *)
(* stored rows beside it.                                                    *)
THEOREM StoreIsTheSession == StoredSpec => Spec
<1>1. StoredInit => Init
  BY DEF StoredInit
<1>2. [StoredNext]_storeVars => [Next]_vars
  BY StoredSteps
<1>3. QED
  BY <1>1, <1>2, PTL DEF StoredSpec, Spec

(* The rows stay tied to the interview, message by message.                 *)
THEOREM StoreInvariant == StoredSpec => []StoreInv
<1>1. StoredInit => StoreInv
  BY FirstRows
<1>2. StoreInv /\ [StoredNext]_storeVars => StoreInv'
  BY StoredKeeps
<1>3. QED
  BY <1>1, <1>2, PTL DEF StoredSpec

(* Whatever was saved loads again, and as the very aggregate that was saved: *)
(* no sequence of saves, retries, takeovers, expiries and late completions   *)
(* makes an interview that the repository refuses to read.                   *)
THEOREM SavedLoads == StoredSpec => []LoadsWhatWasSaved
<1>1. StoreInv => LoadsWhatWasSaved
  BY RowsLoad
<1>2. QED
  BY <1>1, StoreInvariant, PTL

(* A client is shown the questions up to the current one and no further, in  *)
(* the order they were revealed.                                            *)
THEOREM NothingShownAhead == StoredSpec => []RevealsUpToCurrent
<1>1. StoreInv => RevealsUpToCurrent
  BY RowsReveal
<1>2. QED
  BY <1>1, StoreInvariant, PTL

-------------------------------------------------------------------------------
(* Nothing a client has seen is taken back. *)

Longer(old, new) == Len(old) <= Len(new) /\ \A n \in DOMAIN old : new[n] = old[n]

Extends ==
  /\ Longer(store.messages, store'.messages)
  /\ \A n \in Positions :
       n < interview.position => store'.snapshots[n].frozenAt = store.snapshots[n].frozenAt
  /\ store.reports \subseteq store'.reports
  /\ interview.position <= interview'.position

LEMMA LongerIsPrefix ==
  ASSUME NEW S, NEW old \in Seq(S), NEW new \in Seq(S), Longer(old, new)
  PROVE  IsPrefix(old, new)
<1>1. /\ Len(old) \in Nat /\ Len(new) \in Nat /\ Len(old) <= Len(new)
      /\ DOMAIN old = 1..Len(old) /\ DOMAIN new = 1..Len(new)
  BY DEF Longer
<1>2. \A n \in 1..Len(old) : old[n] \in S /\ new[n] \in S /\ new[n] = old[n]
  BY <1>1 DEF Longer
<1>3. SubSeq(old, 1, Len(old)) = [n \in 1..Len(old) |-> old[n]]
  BY <1>1
<1>4. SubSeq(new, 1, Len(old)) = [n \in 1..Len(old) |-> new[n]]
  BY <1>1
<1>5. [n \in 1..Len(old) |-> old[n]] = [n \in 1..Len(old) |-> new[n]]
  BY <1>2
<1>6. QED
  BY <1>1, <1>3, <1>4, <1>5 DEF IsPrefix

LEMMA AppendedLonger ==
  ASSUME NEW old \in Seq(Message), NEW m, NEW n
  PROVE  /\ Longer(old, old) /\ Longer(old, Append(old, m))
         /\ Longer(old, Append(Append(old, m), n))
<1>1. Longer(old, old) /\ Longer(old, Append(old, m))
  BY DEF Longer
<1>2. Longer(old, Append(Append(old, m), n))
  <2>1. PICK new : new = Append(old, m)
    OBVIOUS
  <2>2. /\ Len(new) = Len(old) + 1 /\ new \in Seq(Message \cup {m})
        /\ \A d \in DOMAIN old : new[d] = old[d] /\ d \in 1..Len(new)
    BY <2>1
  <2>3. /\ Len(Append(new, n)) = Len(old) + 2
        /\ \A d \in DOMAIN old : Append(new, n)[d] = old[d]
    BY <2>2
  <2>4. QED
    BY <2>1, <2>3 DEF Longer
<1>3. QED
  BY <1>1, <1>2

(* The position moves only when a question is frozen.                       *)
LEMMA StoredExtends ==
  ASSUME StoreInv, StoreInv', StoredNext
  PROVE  Extends
<1>1. PICK old \in Seq(Message) : old = store.messages
  BY StoreTypes
<1>2. /\ AreRows(store) /\ interview \in Interview /\ interview.position \in Positions
      /\ store.snapshots \in [Positions -> Snapshot]
  BY StoreTypes
<1>3. interview.position \in Int
  BY <1>2, InterviewAssumption DEF Positions
<1>4. ASSUME NEW e, NEW messages, NEW snapshots, NEW evaluations, NEW reports,
             Hold(store', interview', e, snapshots, messages, evaluations, reports),
             Longer(old, messages), store.reports \subseteq reports,
             interview.position <= interview'.position,
             \A n \in Positions :
               n < interview.position => snapshots[n].frozenAt = store.snapshots[n].frozenAt
      PROVE  Extends
  BY <1>1, <1>4 DEF Hold, Extends
<1>5. ASSUME NEW e, NEW reports, store.reports \subseteq reports,
             interview'.position = interview.position, NEW evaluations,
             Hold(store', interview', e, store.snapshots, store.messages, evaluations, reports)
      PROVE  Extends
  <2>1. Longer(old, old)
    BY AppendedLonger
  <2>2. interview.position <= interview'.position
    BY <1>3, <1>5
  <2>3. QED
    BY <1>1, <1>5, <2>1, <2>2 DEF Hold, Extends
<1>6. ASSUME NEW at \in Times, StoredClientStep(at)
      PROVE  Extends
  <2>1. ASSUME NEW op \in Ops, NEW type \in PlannedTypes, SubmitPlanned(op, type, at), Saves(<<>>)
        PROVE  Extends
    <3>1. interview'.position = interview.position
      BY <1>2, <2>1 DEF SubmitPlanned, AcceptPlan, AcceptOperation, AcceptRetriedOperation, Interview
    <3>2. QED
      BY <1>2, <1>5, <2>1, <3>1, QuietRows
  <2>2. ASSUME NEW outcome \in {"unknown", "skipped"}, RecordOutcome(outcome, at),
               Saves(OutcomeEvents(interview, outcome))
        PROVE  Extends
    <3>1. interview'.position = interview.position
      BY <1>2, <2>2 DEF RecordOutcome, Immediately, RecordUnevaluated, WithCurrentQuestion, Interview
    <3>2. outcome \in Outcomes
      BY DEF Outcomes
    <3>3. \A n \in Positions :
            WithOutcome(interview.position, outcome)[n].frozenAt = store.snapshots[n].frozenAt
      BY <1>2, <3>2, WithOutcomeRead
    <3>4. Hold(store', interview', store.ended, WithOutcome(interview.position, outcome), old,
               WithoutJudgement(interview.position), store.reports)
      BY <1>1, <1>2, <2>2, OutcomeRows
    <3>5. QED
      BY <1>3, <1>4, <3>1, <3>3, <3>4, AppendedLonger
  <2>3. CASE ContinueInterview(at) /\ Saves(FrozenEvents(interview, at))
    <3>1. interview.position <= interview'.position
      BY <1>2, <1>3, <2>3
         DEF ContinueInterview, Immediately, Continue, RequestReport, WithCurrentQuestion, Interview
    <3>2. \A n \in Positions :
            n < interview.position =>
              WithFreeze(interview.position, at)[n].frozenAt = store.snapshots[n].frozenAt
      <4>1. \A n \in Positions :
              n # interview.position =>
                WithFreeze(interview.position, at)[n] = store.snapshots[n]
        BY <1>2, WithFreezeRead, Zenon
      <4>2. QED
        BY <1>3, <4>1
    <3>3. Hold(store', interview', store.ended, WithFreeze(interview.position, at), old,
               store.evaluations, store.reports)
      BY <1>1, <1>2, <2>3, FrozenRows
    <3>4. QED
      BY <1>3, <1>4, <3>1, <3>2, <3>3, AppendedLonger
  <2>4. CASE EndInterviewEarly(at) /\ Saves(<<>>)
    <3>1. interview'.position = interview.position
      BY <1>2, <2>4 DEF EndInterviewEarly, EndEarly, RequestReport, Immediately, Interview
    <3>2. QED
      BY <1>2, <1>5, <2>4, <3>1, QuietRows
  <2>5. CASE AbandonInterview(at) /\ Saves(AbandonedEvents)
    <3>1. interview'.position = interview.position
      BY <1>2, <2>5 DEF AbandonInterview, Abandon, CloseAbandoned, Immediately, Interview
    <3>2. QED
      BY <1>2, <1>5, <2>5, <3>1, AbandonedRows
  <2>6. ASSUME NEW p \in plans, RetryFailed(p, at) \/ TakeOver(p, at), Saves(<<>>)
        PROVE  Extends
    <3>1. interview'.position = interview.position
      BY <1>2, <2>6 DEF RetryFailed, TakeOver, AcceptPlan, AcceptRetriedOperation, Refresh, Interview
    <3>2. QED
      BY <1>2, <1>5, <2>6, <3>1, QuietRows
  <2>7. CASE RetryReport(at) /\ Saves(<<>>)
    <3>1. interview'.position = interview.position
      BY <1>2, <2>7 DEF RetryReport, RefreshReportRetry, Immediately, Interview
    <3>2. QED
      BY <1>2, <1>5, <2>7, <3>1, QuietRows
  <2>8. QED
    BY <1>6, <2>1, <2>2, <2>3, <2>4, <2>5, <2>6, <2>7 DEF StoredClientStep
<1>7. ASSUME NEW at \in Times, StoredServerStep(at)
      PROVE  Extends
  <2>1. ASSUME NEW p \in plans, Clarified(p, at), Saves(ClarificationEvents(p, at))
        PROVE  Extends
    <3>1. interview'.position = interview.position
      BY <1>2, <2>1 DEF Clarified, CompleteClarification, WithCurrentQuestion, Immediately, Interview
    <3>2. Hold(store', interview', store.ended, store.snapshots,
               Append(old, NewMessage(p.command.op, "question_clarification", p.position,
                                      p.command.occurredAt, at)),
               store.evaluations, store.reports)
      BY <1>1, <1>2, <2>1, ClarificationRows
    <3>3. QED
      BY <1>3, <1>4, <3>1, <3>2, AppendedLonger
  <2>2. ASSUME NEW p \in plans, NEW kind \in FollowUpKinds, FollowedUp(p, kind, at),
               Saves(FollowUpEvents(interview, p, kind, at))
        PROVE  Extends
    <3>1. interview'.position = interview.position /\ p.position = interview.position
      BY <1>2, <2>2
         DEF FollowedUp, CanComplete, IsAccepted, CompleteWithFollowUp, WithCurrentQuestion,
             Immediately, Interview
    <3>2. PICK messages : messages = Append(Append(old, Answer(p)),
                                            NewMessage(p.command.op, kind, p.position, NoTime, at))
      OBVIOUS
    <3>3. PICK snapshots, evaluations :
            /\ Hold(store', interview', store.ended, snapshots, messages, evaluations, store.reports)
            /\ \A n \in Positions : snapshots[n].frozenAt = store.snapshots[n].frozenAt
      <4>1. "none" \in Outcomes
        BY DEF Outcomes
      <4>2. \A n \in Positions :
              WithOutcome(interview.position, "none")[n].frozenAt = store.snapshots[n].frozenAt
        BY <1>2, <4>1, WithOutcomeRead
      <4>3. \/ Hold(store', interview', store.ended, WithOutcome(interview.position, "none"), messages,
                    WithoutJudgement(interview.position), store.reports)
            \/ Hold(store', interview', store.ended, store.snapshots, messages, store.evaluations,
                    store.reports)
        BY <1>1, <1>2, <2>2, <3>1, <3>2, FollowUpRows
      <4>4. QED
        BY <4>2, <4>3
    <3>4. Longer(old, messages)
      BY <3>2, AppendedLonger
    <3>5. QED
      BY <1>3, <1>4, <3>1, <3>3, <3>4
  <2>3. ASSUME NEW p \in plans, NEW outcome \in EvaluatedOutcomes, Evaluated(p, outcome, at),
               Saves(EvaluationEvents(interview, p, outcome))
        PROVE  Extends
    <3>1. interview'.position = interview.position /\ p.position = interview.position
      BY <1>2, <2>3
         DEF Evaluated, CanComplete, IsAccepted, CompleteWithEvaluation, WithCurrentQuestion,
             Immediately, Interview
    <3>2. outcome \in Outcomes
      BY DEF Outcomes
    <3>3. \A n \in Positions :
            WithOutcome(interview.position, outcome)[n].frozenAt = store.snapshots[n].frozenAt
      BY <1>2, <3>2, WithOutcomeRead
    <3>4. PICK evaluations :
            Hold(store', interview', store.ended, WithOutcome(interview.position, outcome),
                 Append(old, Answer(p)), evaluations, store.reports)
      BY <1>1, <1>2, <2>3, <3>1, EvaluationRows
    <3>5. QED
      BY <1>3, <1>4, <3>1, <3>3, <3>4, AppendedLonger
  <2>4. ASSUME NEW p \in plans, Cancelled(p), Saves(<<>>)
        PROVE  Extends
    <3>1. interview'.position = interview.position
      BY <1>2, <2>4 DEF Cancelled, CancelOperation, Interview
    <3>2. QED
      BY <1>2, <1>5, <2>4, <3>1, QuietRows
  <2>5. CASE StoreReport(at) /\ Saves(ReportEvents(interview))
    <3>1. interview'.position = interview.position
      BY <1>2, <2>5 DEF StoreReport, RecordReport, Immediately, Interview
    <3>2. Hold(store', interview', TRUE, store.snapshots, store.messages, store.evaluations,
               store.reports \cup {ReportOf(interview', interview.reportKind)})
      BY <1>2, <2>5, ReportRows
    <3>3. QED
      BY <1>5, <3>1, <3>2
  <2>6. CASE ExpireOnCommand(at) /\ Saves(AbandonedEvents)
    <3>1. interview'.position = interview.position
      BY <1>2, <2>6 DEF ExpireOnCommand, Abandon, CloseAbandoned, Immediately, Interview
    <3>2. QED
      BY <1>2, <1>5, <2>6, <3>1, AbandonedRows
  <2>7. QED
    BY <1>7, <2>1, <2>2, <2>3, <2>4, <2>5, <2>6 DEF StoredServerStep
<1>8. ASSUME NEW at \in Times, StoredExpiry(at)
      PROVE  Extends
  <2>1. interview'.position = interview.position
    BY <1>2, <1>8 DEF StoredExpiry, ExpireStored, Abandon, CloseAbandoned, Immediately, Interview
  <2>2. PICK columns : columns = SessionColumns(interview')
    OBVIOUS
  <2>3. store' = [store EXCEPT !.session = columns, !.ended = TRUE]
    BY <1>8, <2>2 DEF StoredExpiry
  <2>4. Hold(store', interview', TRUE, store.snapshots, store.messages, store.evaluations,
             store.reports)
    BY <1>2, <2>2, <2>3 DEF AreRows, Hold
  <2>5. QED
    BY <1>5, <2>1, <2>4
<1>9. QED
  BY <1>6, <1>7, <1>8 DEF StoredNext

(* What the transcript may not do in a step.                                *)
TranscriptGrows ==
  /\ IsPrefix(store.messages, store'.messages)
  /\ \A k \in Revealed(store) :
       k \in Revealed(store)' /\ QuestionRevealedAt(store, k)' = QuestionRevealedAt(store, k)
  /\ store.reports \subseteq store'.reports

LEMMA GrowingTranscript ==
  ASSUME StoreInv, StoreInv', RevealsUpToCurrent, RevealsUpToCurrent', StoredNext
  PROVE  TranscriptGrows
<1>1. Extends
  BY StoredExtends
<1>2. /\ TranscriptQuestionCount(store) = interview.position
      /\ TranscriptQuestionCount(store') = interview'.position
  BY DEF RevealsUpToCurrent
<1>3. /\ interview.position \in Positions /\ interview'.position \in Positions
  BY DEF StoreInv, Inv, TypeOK, Interview
<1>4. IsPrefix(store.messages, store'.messages)
  <2>1. store.messages \in Seq(Message) /\ store'.messages \in Seq(Message)
    BY DEF StoreInv, RowsInv, RowsTyped
  <2>2. QED
    BY <1>1, <2>1, LongerIsPrefix DEF Extends
<1>5. ASSUME NEW k \in Revealed(store)
      PROVE  k \in Revealed(store') /\ QuestionRevealedAt(store', k) = QuestionRevealedAt(store, k)
  <2>1. /\ k \in Int /\ 1 <= k /\ k <= interview.position /\ k <= interview'.position
    BY <1>1, <1>2, <1>3, InterviewAssumption DEF Revealed, Extends, Positions
  <2>2. k \in Revealed(store')
    BY <1>2, <1>3, <2>1, InterviewAssumption DEF Revealed, Positions
  <2>3. k # 1 => k - 1 \in Positions /\ k - 1 < interview.position
    BY <1>3, <2>1, InterviewAssumption DEF Positions
  <2>4. QED
    BY <1>1, <2>2, <2>3 DEF QuestionRevealedAt, Extends
<1>6. QED
  BY <1>1, <1>4, <1>5 DEF TranscriptGrows, Extends

(* A message, a revealed question and a stored report stay what they were,  *)
(* whatever comes after.                                                    *)
THEOREM NothingTakenBack == StoredSpec => TranscriptOnlyGrows
<1>1. StoreInv /\ StoreInv' /\ RevealsUpToCurrent /\ RevealsUpToCurrent' /\ [StoredNext]_storeVars
        => [TranscriptGrows]_storeVars
  BY GrowingTranscript
<1>2. StoredSpec => [][TranscriptGrows]_storeVars
  BY <1>1, StoreInvariant, NothingShownAhead, PTL DEF StoredSpec
<1>3. QED
  BY <1>2 DEF TranscriptOnlyGrows, TranscriptGrows
===============================================================================
