-------------------------- MODULE InterviewEngineProofs --------------------------
(***************************************************************************)
(* What the operations of InterviewEngine keep of an aggregate, whoever     *)
(* calls them: its shape, the invariant `Sound`, and that each result is a  *)
(* transition the persistence layer accepts.                                *)
(***************************************************************************)
EXTENDS InterviewEngine, SaveTransitions, FiniteSetTheorems, TLAPS

-------------------------------------------------------------------------------
(* The engine's operators return aggregates of the declared shape.         *)

LEMMA FreshType == FreshInterview \in Interview
  BY InterviewAssumption
     DEF FreshInterview, Interview, FreshQuestion, Question, NoPending, Pending, Positions,
         Statuses, Phases, WaitingPhases, Outcomes, EvaluatedOutcomes, OperationKinds, ReportKinds, NoTime

LEMMA NextVersionType ==
  ASSUME NEW i \in Interview
  PROVE  i.version \in Nat /\ i.version + 1 \in Nat
  BY DEF Interview

LEMMA CurrentQuestionType ==
  ASSUME NEW i \in Interview
  PROVE  CurrentQuestion(i) \in Question
  BY DEF CurrentQuestion, Interview

LEMMA WithCurrentQuestionType ==
  ASSUME NEW i \in Interview, NEW q \in Question
  PROVE  WithCurrentQuestion(i, q) \in Interview
  BY DEF WithCurrentQuestion, Interview

LEMMA MaterialIdsType ==
  ASSUME NEW q \in Question
  PROVE  MaterialIds(q) \subseteq Ops
  BY DEF MaterialIds, Question, Material

LEMMA WithMaterialType ==
  ASSUME NEW q \in Question, NEW p \in Plan
  PROVE  WithMaterial(q, p) \in Question
  BY DEF WithMaterial, Question, Plan, PlannedCommand, Material

LEMMA AcceptRetriedType ==
  ASSUME NEW i \in Interview, NEW c \in PlannedCommand, NEW at \in Times
  PROVE  AcceptRetriedOperation(i, c, at) \in Interview
  BY DEF AcceptRetriedOperation, Interview, Pending, PlannedCommand, OperationKind, OperationKinds,
         RequiredPhase, WaitingPhases, Phases

LEMMA AcceptType ==
  ASSUME NEW i \in Interview, NEW c \in PlannedCommand, NEW at \in Times
  PROVE  AcceptOperation(i, c, at) \in Interview
  BY AcceptRetriedType, NextVersionType DEF AcceptOperation, Interview

LEMMA PlanOfType ==
  ASSUME NEW i \in Interview, NEW c \in PlannedCommand, NEW a \in Interview, NEW at \in Times
  PROVE  PlanOf(i, c, a, at) \in Plan
  BY DEF PlanOf, Plan, Interview, MaterialKind, MaterialKinds

LEMMA RefreshType ==
  ASSUME NEW i \in Interview, NEW at \in Times
  PROVE  /\ Refresh(i, at) \in Interview
         /\ RefreshReportRetry(i, at) \in Interview
  BY DEF Refresh, RefreshReportRetry, Interview, Pending

LEMMA RecordUnevaluatedType ==
  ASSUME NEW i \in Interview, NEW o \in {"unknown", "skipped"}, NEW at \in Times
  PROVE  RecordUnevaluated(i, o, at) \in Interview
<1> DEFINE q == [CurrentQuestion(i) EXCEPT !.evaluation = {}, !.outcome = o]
<1>1. q \in Question
  BY CurrentQuestionType DEF Question, Outcomes
<1>2. WithCurrentQuestion(i, q) \in Interview
  BY <1>1, WithCurrentQuestionType
<1> HIDE DEF q
<1>3. [WithCurrentQuestion(i, q) EXCEPT !.phase = "awaiting_continue", !.version = i.version + 1,
                                        !.lastActivity = at] \in Interview
  BY <1>2, NextVersionType DEF Interview, Phases, WaitingPhases
<1>4. QED
  BY <1>3 DEF RecordUnevaluated, q

LEMMA RequestReportType ==
  ASSUME NEW i \in Interview, NEW kind \in ReportKinds, NEW at \in Times
  PROVE  RequestReport(i, kind, at) \in Interview
  BY FreshType, NextVersionType DEF RequestReport, Interview, Statuses, Phases, FreshInterview

LEMMA ContinueType ==
  ASSUME NEW i \in Interview, NEW at \in Times
  PROVE  Continue(i, at) \in Interview
<1> DEFINE q == [CurrentQuestion(i) EXCEPT !.frozen = TRUE]
           f == WithCurrentQuestion(i, q)
<1>1. q \in Question
  BY CurrentQuestionType DEF Question
<1>2. f \in Interview
  BY <1>1, WithCurrentQuestionType
<1>3. Continue(i, at) =
        IF i.position = QuestionCount THEN RequestReport(f, "complete", at)
        ELSE [f EXCEPT !.position = i.position + 1, !.phase = "awaiting_response",
                       !.version = i.version + 1, !.lastActivity = at]
  BY DEF Continue
<1> HIDE DEF q, f
<1>4. RequestReport(f, "complete", at) \in Interview
  BY <1>2, RequestReportType DEF ReportKinds
<1>5. ASSUME i.position # QuestionCount
      PROVE  [f EXCEPT !.position = i.position + 1, !.phase = "awaiting_response",
                       !.version = i.version + 1, !.lastActivity = at] \in Interview
  <2>1. i.position + 1 \in Positions
    BY <1>5, InterviewAssumption DEF Interview, Positions
  <2>2. QED
    BY <1>2, <2>1, NextVersionType DEF Interview, Phases, WaitingPhases
<1>6. QED
  BY <1>3, <1>4, <1>5

LEMMA CloseType ==
  ASSUME NEW i \in Interview
  PROVE  /\ CloseAbandoned(i) \in Interview
         /\ Abandon(i) \in Interview
<1>1. CloseAbandoned(i) \in Interview
  BY FreshType DEF CloseAbandoned, Interview, Statuses, Phases, FreshInterview
<1>2. QED
  BY <1>1, NextVersionType DEF Abandon, Interview

LEMMA RecordReportType ==
  ASSUME NEW i \in Interview
  PROVE  RecordReport(i) \in Interview
  BY FreshType, NextVersionType DEF RecordReport, Interview, Statuses, FreshInterview

LEMMA CancelType ==
  ASSUME NEW i \in Interview
  PROVE  CancelOperation(i) \in Interview
  BY FreshType DEF CancelOperation, Interview, Pending, Phases, FreshInterview

LEMMA ClarificationType ==
  ASSUME NEW i \in Interview, NEW p \in Plan
  PROVE  CompleteClarification(i, p) \in Interview
<1> DEFINE q == [CurrentQuestion(i) EXCEPT !.clarifications = @ \cup {p.command.op}]
<1>1. q \in Question
  BY CurrentQuestionType DEF Question, Plan, PlannedCommand
<1>2. WithCurrentQuestion(i, q) \in Interview
  BY <1>1, WithCurrentQuestionType
<1> HIDE DEF q
<1>3. [WithCurrentQuestion(i, q) EXCEPT !.phase = "awaiting_response", !.pending = NoPending] \in Interview
  BY <1>2, FreshType DEF Interview, Phases, WaitingPhases, FreshInterview
<1>4. QED
  BY <1>3 DEF CompleteClarification, q

LEMMA FollowUpType ==
  ASSUME NEW i \in Interview, NEW p \in Plan, NEW kind \in FollowUpKinds
  PROVE  CompleteWithFollowUp(i, p, kind) \in Interview
<1> DEFINE m == WithMaterial(CurrentQuestion(i), p)
           q == [m EXCEPT !.followUps = @ \cup {kind}, !.evaluation = {}, !.outcome = "none"]
<1>1. m \in Question
  BY CurrentQuestionType, WithMaterialType
<1> HIDE DEF m
<1>2. q \in Question
  BY <1>1 DEF Question, Outcomes
<1>3. WithCurrentQuestion(i, q) \in Interview
  BY <1>2, WithCurrentQuestionType
<1> HIDE DEF q
<1>4. [WithCurrentQuestion(i, q) EXCEPT !.phase = "awaiting_response", !.pending = NoPending] \in Interview
  BY <1>3, FreshType DEF Interview, Phases, WaitingPhases, FreshInterview
<1>5. QED
  BY <1>4 DEF CompleteWithFollowUp, q, m

LEMMA EvaluationType ==
  ASSUME NEW i \in Interview, NEW p \in Plan, NEW o \in EvaluatedOutcomes
  PROVE  CompleteWithEvaluation(i, p, o) \in Interview
<1> DEFINE m == WithMaterial(CurrentQuestion(i), p)
           q == [m EXCEPT !.evaluation = MaterialIds(m), !.outcome = o]
<1>1. m \in Question
  BY CurrentQuestionType, WithMaterialType
<1> HIDE DEF m
<1>2. q \in Question
  BY <1>1, MaterialIdsType DEF Question, Outcomes
<1>3. WithCurrentQuestion(i, q) \in Interview
  BY <1>2, WithCurrentQuestionType
<1> HIDE DEF q
<1>4. [WithCurrentQuestion(i, q) EXCEPT !.phase = "awaiting_continue", !.pending = NoPending] \in Interview
  BY <1>3, FreshType DEF Interview, Phases, WaitingPhases, FreshInterview
<1>5. QED
  BY <1>4 DEF CompleteWithEvaluation, q, m

-------------------------------------------------------------------------------
(* The inductive invariant of one aggregate.  The properties of             *)
(* InterviewSession are not inductive alone: what a completion or a report   *)
(* may do depends on the current question not being frozen while the         *)
(* interview is active, and on a report being asked for exactly while it is  *)
(* pending.                                                                   *)

Phased(i) ==
  /\ i.status = "active" <=> i.phase # "none"
  /\ i.phase = "processing" <=> IsPending(i)
  /\ i.status = "active" =>
       (UserPhase(i) = "awaiting_response" <=> CurrentQuestion(i).outcome = "none")

Ordered(i) ==
  \A k \in Positions :
    /\ k < i.position => i.questions[k].frozen
    /\ k > i.position => i.questions[k] = FreshQuestion
    /\ i.questions[k].frozen => i.questions[k].outcome # "none"

Requested(i) ==
  /\ i.status = "report_pending" <=> i.reportKind # "none"
  /\ i.status = "active" => ~ CurrentQuestion(i).frozen
  /\ i.reportKind = "complete" \/ i.status = "completed" =>
       \A k \in Positions : i.questions[k].frozen
  /\ i.reportKind = "incomplete" \/ i.status = "early_ended" =>
       \E k \in Positions : i.questions[k].outcome # "none"

Judged(i) ==
  \A k \in Positions :
    LET q == i.questions[k]
    IN  /\ q.outcome \in EvaluatedOutcomes <=> q.evaluation # {}
        /\ q.evaluation # {} => q.evaluation = MaterialIds(q)

Sound(i) == Phased(i) /\ Ordered(i) /\ Requested(i) /\ Judged(i)

LEMMA FreshSound == Sound(FreshInterview)
  BY InterviewAssumption
     DEF Sound, Phased, Ordered, Requested, Judged, FreshInterview, FreshQuestion, NoPending,
         IsPending, UserPhase, CurrentQuestion, EvaluatedOutcomes, Positions

(* Steps that leave the questions alone. *)
LEMMA AcceptSound ==
  ASSUME NEW i \in Interview, Sound(i), NEW c \in PlannedCommand, NEW at \in Times,
         FitsPhase(i, c), ~ IsPending(i)
  PROVE  Sound(AcceptRetriedOperation(i, c, at)) /\ Sound(AcceptOperation(i, c, at))
  BY InterviewAssumption
     DEF Sound, Phased, Ordered, Requested, Judged, AcceptOperation, AcceptRetriedOperation,
         FitsPhase, IsPending, UserPhase, CurrentQuestion, RequiredPhase, PlannedCommand, Interview

LEMMA RefreshSound ==
  ASSUME NEW i \in Interview, Sound(i), NEW at \in Times
  PROVE  Sound(Refresh(i, at)) /\ Sound(RefreshReportRetry(i, at))
  BY DEF Sound, Phased, Ordered, Requested, Judged, Refresh, RefreshReportRetry,
         IsPending, UserPhase, CurrentQuestion, Interview, Pending

LEMMA CancelSound ==
  ASSUME NEW i \in Interview, Sound(i), IsPending(i)
  PROVE  Sound(CancelOperation(i))
  BY DEF Sound, Phased, Ordered, Requested, Judged, CancelOperation, NoPending,
         IsPending, UserPhase, CurrentQuestion, Interview, Pending, WaitingPhases

LEMMA CloseSound ==
  ASSUME NEW i \in Interview, Sound(i), i.status = "active"
  PROVE  Sound(CloseAbandoned(i)) /\ Sound(Abandon(i))
  BY DEF Sound, Phased, Ordered, Requested, Judged, CloseAbandoned, Abandon, NoPending,
         IsPending, UserPhase, CurrentQuestion, Interview

LEMMA EndEarlySound ==
  ASSUME NEW i \in Interview, Sound(i), NEW at \in Times, CanEndEarly(i)
  PROVE  Sound(EndEarly(i, at))
  BY DEF Sound, Phased, Ordered, Requested, Judged, EndEarly, RequestReport, CanEndEarly, NoPending,
         IsPending, UserPhase, CurrentQuestion, Interview

LEMMA RecordReportSound ==
  ASSUME NEW i \in Interview, Sound(i), i.status = "report_pending"
  PROVE  Sound(RecordReport(i))
  BY DEF Sound, Phased, Ordered, Requested, Judged, RecordReport, NoPending,
         IsPending, UserPhase, CurrentQuestion, Interview, ReportKinds

(* Steps that replace the current question and leave no operation pending.  *)
(* Only that question can break the invariant, so each such step is sound    *)
(* when its new value is: unfrozen, with an outcome exactly when the user    *)
(* may continue, and with an evaluation of all its material or none.         *)
FairlyJudged(q) ==
  /\ q.outcome \in EvaluatedOutcomes <=> q.evaluation # {}
  /\ q.evaluation # {} => q.evaluation = MaterialIds(q)

LEMMA QuestionStepSound ==
  ASSUME NEW i \in Interview, Sound(i), i.status = "active",
         NEW q \in Question, ~ q.frozen, FairlyJudged(q),
         NEW r \in Interview,
         r.questions = [i.questions EXCEPT ![i.position] = q],
         r.position = i.position, r.status = i.status, r.reportKind = i.reportKind,
         ~ IsPending(r), r.phase \in WaitingPhases,
         r.phase = "awaiting_response" <=> q.outcome = "none"
  PROVE  Sound(r)
<1>1. /\ i.position \in Positions
      /\ i.questions \in [Positions -> Question]
      /\ \A k \in Positions : r.questions[k] = IF k = i.position THEN q ELSE i.questions[k]
  BY DEF Interview
<1>2. Phased(r)
  BY <1>1 DEF Phased, UserPhase, CurrentQuestion, WaitingPhases
<1>3. Ordered(r)
  BY <1>1 DEF Sound, Ordered, Positions
<1>4. Requested(r)
  BY <1>1 DEF Sound, Requested, CurrentQuestion
<1>5. Judged(r)
  BY <1>1 DEF Sound, Judged, FairlyJudged
<1>6. QED
  BY <1>2, <1>3, <1>4, <1>5 DEF Sound

LEMMA CurrentIsSound ==
  ASSUME NEW i \in Interview, Sound(i)
  PROVE  /\ CurrentQuestion(i) \in Question
         /\ FairlyJudged(CurrentQuestion(i))
         /\ i.status = "active" => ~ CurrentQuestion(i).frozen
  BY DEF Sound, Judged, Requested, FairlyJudged, CurrentQuestion, Interview

LEMMA RecordUnevaluatedSound ==
  ASSUME NEW i \in Interview, Sound(i), NEW o \in {"unknown", "skipped"}, NEW at \in Times,
         CanRecordUnevaluated(i), ~ IsPending(i)
  PROVE  Sound(RecordUnevaluated(i, o, at))
<1> DEFINE q == [CurrentQuestion(i) EXCEPT !.evaluation = {}, !.outcome = o]
           r == RecordUnevaluated(i, o, at)
<1>1. q \in Question /\ ~ q.frozen /\ FairlyJudged(q) /\ q.outcome # "none"
  BY CurrentIsSound DEF CanRecordUnevaluated, Question, Outcomes, FairlyJudged, EvaluatedOutcomes
<1>2. r \in Interview
  BY RecordUnevaluatedType
<1>3. /\ r.questions = [i.questions EXCEPT ![i.position] = q]
      /\ r.position = i.position /\ r.status = i.status /\ r.reportKind = i.reportKind
      /\ r.pending = i.pending /\ r.phase = "awaiting_continue"
  BY DEF RecordUnevaluated, WithCurrentQuestion, Interview
<1> HIDE DEF q, r
<1>4. QED
  BY <1>1, <1>2, <1>3, QuestionStepSound DEF CanRecordUnevaluated, IsPending, WaitingPhases, r

LEMMA ContinueSound ==
  ASSUME NEW i \in Interview, Sound(i), NEW at \in Times, CanContinue(i), ~ IsPending(i)
  PROVE  Sound(Continue(i, at))
<1> DEFINE q == [CurrentQuestion(i) EXCEPT !.frozen = TRUE]
           r == Continue(i, at)
<1>1. q \in Question /\ q.frozen /\ FairlyJudged(q) /\ q.outcome # "none"
  BY CurrentIsSound DEF CanContinue, Question, FairlyJudged, MaterialIds
<1>2. /\ r.questions = [i.questions EXCEPT ![i.position] = q]
      /\ ~ IsPending(r)
      /\ IF i.position = QuestionCount
         THEN /\ r.position = i.position /\ r.status = "report_pending"
              /\ r.phase = "none" /\ r.reportKind = "complete"
         ELSE /\ r.position = i.position + 1 /\ r.status = "active"
              /\ r.phase = "awaiting_response" /\ r.reportKind = i.reportKind
  BY DEF Continue, RequestReport, WithCurrentQuestion, Interview, CanContinue, IsPending, NoPending
<1> HIDE DEF q, r
<1>3. /\ i.position \in Positions
      /\ i.questions \in [Positions -> Question]
      /\ \A k \in Positions : r.questions[k] = IF k = i.position THEN q ELSE i.questions[k]
  BY <1>2 DEF Interview
<1>4. Ordered(r)
  BY <1>1, <1>2, <1>3, InterviewAssumption DEF Sound, Ordered, Positions
<1>5. Judged(r)
  BY <1>1, <1>3 DEF Sound, Judged, FairlyJudged
<1>6. i.status = "active" /\ i.reportKind = "none"
  BY DEF CanContinue, Sound, Requested, Interview
<1>7. CASE i.position = QuestionCount
  <2>1. \A k \in Positions : r.questions[k].frozen
    BY <1>1, <1>3, <1>7, InterviewAssumption DEF Sound, Ordered, Positions
  <2>2. Phased(r)
    BY <1>2, <1>7 DEF Phased
  <2>3. Requested(r)
    BY <1>2, <1>7, <2>1 DEF Requested
  <2>4. QED
    BY <1>4, <1>5, <2>2, <2>3 DEF Sound, r
<1>8. CASE i.position # QuestionCount
  <2>1. i.position + 1 \in Positions /\ i.position + 1 > i.position /\ i.position + 1 # i.position
    BY <1>3, <1>8, InterviewAssumption DEF Positions
  <2>2. CurrentQuestion(r) = FreshQuestion
    <3>1. r.questions[i.position + 1] = i.questions[i.position + 1]
      BY <1>3, <2>1
    <3>2. i.questions[i.position + 1] = FreshQuestion
      BY <2>1 DEF Sound, Ordered
    <3>3. QED
      BY <1>2, <1>8, <3>1, <3>2 DEF CurrentQuestion
  <2>3. Phased(r)
    BY <1>2, <1>8, <2>2 DEF Phased, UserPhase, FreshQuestion
  <2>4. Requested(r)
    BY <1>2, <1>6, <1>8, <2>2 DEF Requested, FreshQuestion
  <2>5. QED
    BY <1>4, <1>5, <2>3, <2>4 DEF Sound, r
<1>9. QED
  BY <1>7, <1>8

LEMMA ClarificationSound ==
  ASSUME NEW i \in Interview, Sound(i), NEW p \in Plan, IsAccepted(i, p), ~ IsAnswer(p.command)
  PROVE  Sound(CompleteClarification(i, p))
<1> DEFINE q == [CurrentQuestion(i) EXCEPT !.clarifications = @ \cup {p.command.op}]
           r == CompleteClarification(i, p)
<1>1. CurrentQuestion(i).outcome = "none"
  BY DEF Sound, Phased, UserPhase, IsAccepted, IsAnswer, RequiredPhase
<1>2. q \in Question /\ ~ q.frozen /\ FairlyJudged(q) /\ q.outcome = "none"
  BY <1>1, CurrentIsSound DEF IsAccepted, Question, FairlyJudged, MaterialIds, Plan, PlannedCommand
<1>3. r \in Interview
  BY ClarificationType
<1>4. /\ r.questions = [i.questions EXCEPT ![i.position] = q]
      /\ r.position = i.position /\ r.status = i.status /\ r.reportKind = i.reportKind
      /\ ~ IsPending(r) /\ r.phase = "awaiting_response"
  BY DEF CompleteClarification, WithCurrentQuestion, Interview, IsPending, NoPending
<1> HIDE DEF q, r
<1>5. QED
  BY <1>2, <1>3, <1>4, QuestionStepSound DEF IsAccepted, WaitingPhases, r

LEMMA FollowUpSound ==
  ASSUME NEW i \in Interview, Sound(i), NEW p \in Plan, IsAccepted(i, p), NEW kind \in FollowUpKinds
  PROVE  Sound(CompleteWithFollowUp(i, p, kind))
<1> DEFINE m == WithMaterial(CurrentQuestion(i), p)
           q == [m EXCEPT !.followUps = @ \cup {kind}, !.evaluation = {}, !.outcome = "none"]
           r == CompleteWithFollowUp(i, p, kind)
<1>1. m \in Question /\ ~ m.frozen
  BY CurrentIsSound, WithMaterialType DEF IsAccepted, WithMaterial, Question
<1>2. r \in Interview
  BY FollowUpType
<1>3. /\ r.questions = [i.questions EXCEPT ![i.position] = q]
      /\ r.position = i.position /\ r.status = i.status /\ r.reportKind = i.reportKind
      /\ ~ IsPending(r) /\ r.phase = "awaiting_response"
  BY DEF CompleteWithFollowUp, WithCurrentQuestion, Interview, IsPending, NoPending
<1> HIDE DEF m
<1>4. q \in Question /\ ~ q.frozen /\ FairlyJudged(q) /\ q.outcome = "none"
  BY <1>1 DEF Question, Outcomes, FairlyJudged, EvaluatedOutcomes
<1> HIDE DEF q, r
<1>5. QED
  BY <1>2, <1>3, <1>4, QuestionStepSound DEF IsAccepted, WaitingPhases, r

LEMMA EvaluationSound ==
  ASSUME NEW i \in Interview, Sound(i), NEW p \in Plan, IsAccepted(i, p), NEW o \in EvaluatedOutcomes
  PROVE  Sound(CompleteWithEvaluation(i, p, o))
<1> DEFINE m == WithMaterial(CurrentQuestion(i), p)
           q == [m EXCEPT !.evaluation = MaterialIds(m), !.outcome = o]
           r == CompleteWithEvaluation(i, p, o)
<1>1. m \in Question /\ ~ m.frozen
  BY CurrentIsSound, WithMaterialType DEF IsAccepted, WithMaterial, Question
<1>2. p.command.op \in MaterialIds(m)
  <2>1. [id |-> p.command.op, kind |-> p.materialKind] \in m.material
    BY CurrentIsSound DEF WithMaterial, Question
  <2>2. QED
    BY <2>1 DEF MaterialIds
<1>3. r \in Interview
  BY EvaluationType
<1>4. /\ r.questions = [i.questions EXCEPT ![i.position] = q]
      /\ r.position = i.position /\ r.status = i.status /\ r.reportKind = i.reportKind
      /\ ~ IsPending(r) /\ r.phase = "awaiting_continue"
  BY DEF CompleteWithEvaluation, WithCurrentQuestion, Interview, IsPending, NoPending
<1> HIDE DEF m
<1>5. q \in Question /\ ~ q.frozen /\ q.outcome # "none"
  BY <1>1, MaterialIdsType DEF Question, Outcomes, EvaluatedOutcomes
<1>6. FairlyJudged(q)
  <2>1. MaterialIds(q) = MaterialIds(m) /\ q.evaluation = MaterialIds(m) /\ q.outcome = o
    BY <1>1 DEF MaterialIds, Question
  <2>2. QED
    BY <1>2, <2>1 DEF FairlyJudged
<1> HIDE DEF q, r
<1>7. QED
  BY <1>3, <1>4, <1>5, <1>6, QuestionStepSound DEF IsAccepted, WaitingPhases, r

LEMMA DeleteSound ==
  ASSUME NEW i \in Interview, Sound(i)
  PROVE  LET d == [Abandon(i) EXCEPT !.status = "deleting"] IN d \in Interview /\ Sound(d)
<1>1. [Abandon(i) EXCEPT !.status = "deleting"] \in Interview
  BY CloseType DEF Interview, Statuses
<1>2. Sound([Abandon(i) EXCEPT !.status = "deleting"])
  BY DEF Sound, Phased, Ordered, Requested, Judged, CloseAbandoned, Abandon, NoPending,
         IsPending, UserPhase, CurrentQuestion, Interview
<1>3. QED
  BY <1>1, <1>2

-------------------------------------------------------------------------------
(* The operations whose answer or clarification an interview holds: only    *)
(* the completion of an accepted operation adds to them, and nothing takes   *)
(* one away.                                                                 *)
Traces(q) == MaterialIds(q) \cup q.clarifications

Effects(i) == {op \in Ops : \E k \in Positions : op \in Traces(i.questions[k])}

LEMMA SameEffects ==
  ASSUME NEW i, NEW r, r.questions = i.questions
  PROVE  Effects(r) = Effects(i)
  BY DEF Effects

Adds(S, T, new) == T = S \cup new

Replaces(i, r, q) == r.questions = [i.questions EXCEPT ![i.position] = q]

LEMMA QuestionEffects ==
  ASSUME NEW i \in Interview, NEW q, NEW r, NEW S \in SUBSET Ops,
         Replaces(i, r, q), Adds(Traces(CurrentQuestion(i)), Traces(q), S)
  PROVE  Adds(Effects(i), Effects(r), S)
<1>1. \A k \in Positions : r.questions[k] = IF k = i.position THEN q ELSE i.questions[k]
  BY DEF Interview, Replaces
<1>2. i.position \in Positions
  BY DEF Interview
<1>3. QED
  BY <1>1, <1>2 DEF Effects, CurrentQuestion, Adds

LEMMA MaterialTraces ==
  ASSUME NEW q \in Question, NEW p \in Plan
  PROVE  Traces(WithMaterial(q, p)) = Traces(q) \cup {p.command.op}
<1>1. /\ WithMaterial(q, p).material = q.material \cup {[id |-> p.command.op, kind |-> p.materialKind]}
      /\ WithMaterial(q, p).clarifications = q.clarifications
  BY DEF WithMaterial, Question
<1> DEFINE new == [id |-> p.command.op, kind |-> p.materialKind]
<1>2. MaterialIds(WithMaterial(q, p)) = MaterialIds(q) \cup {new.id}
  <2> HIDE DEF new
  <2>1. WithMaterial(q, p).material = q.material \cup {new}
    BY <1>1 DEF new
  <2>2. QED
    BY <2>1 DEF MaterialIds
<1>3. QED
  BY <1>1, <1>2 DEF Traces

LEMMA StillEffects ==
  ASSUME NEW i \in Interview, NEW c, NEW at, NEW kind
  PROVE  /\ Effects(AcceptRetriedOperation(i, c, at)) = Effects(i)
         /\ Effects(AcceptOperation(i, c, at)) = Effects(i)
         /\ Effects(Refresh(i, at)) = Effects(i)
         /\ Effects(RefreshReportRetry(i, at)) = Effects(i)
         /\ Effects(CancelOperation(i)) = Effects(i)
         /\ Effects(Abandon(i)) = Effects(i)
         /\ Effects(EndEarly(i, at)) = Effects(i)
         /\ Effects(RecordReport(i)) = Effects(i)
<1>1. /\ AcceptRetriedOperation(i, c, at).questions = i.questions
      /\ AcceptOperation(i, c, at).questions = i.questions
  BY DEF AcceptOperation, AcceptRetriedOperation, Interview
<1>2. /\ Refresh(i, at).questions = i.questions
      /\ RefreshReportRetry(i, at).questions = i.questions
      /\ CancelOperation(i).questions = i.questions
  BY DEF Refresh, RefreshReportRetry, CancelOperation, Interview
<1>3. /\ Abandon(i).questions = i.questions
      /\ EndEarly(i, at).questions = i.questions
      /\ RecordReport(i).questions = i.questions
  BY DEF Abandon, CloseAbandoned, EndEarly, RequestReport, RecordReport, Interview
<1>4. QED
  BY <1>1, <1>2, <1>3, SameEffects

LEMMA RecordUnevaluatedEffects ==
  ASSUME NEW i \in Interview, NEW o, NEW at
  PROVE  Effects(RecordUnevaluated(i, o, at)) = Effects(i)
<1> DEFINE q == [CurrentQuestion(i) EXCEPT !.evaluation = {}, !.outcome = o]
           r == RecordUnevaluated(i, o, at)
<1>1. Replaces(i, r, q)
  BY DEF Replaces, RecordUnevaluated, WithCurrentQuestion, Interview
<1>2. Adds(Traces(CurrentQuestion(i)), Traces(q), {})
  BY CurrentQuestionType DEF Adds, Traces, MaterialIds, Question
<1>3. {} \in SUBSET Ops
  OBVIOUS
<1> HIDE DEF q, r
<1>4. Adds(Effects(i), Effects(r), {})
  BY <1>1, <1>2, <1>3, QuestionEffects
<1>5. QED
  BY <1>4 DEF r, Adds

LEMMA ContinueEffects ==
  ASSUME NEW i \in Interview, NEW at
  PROVE  Effects(Continue(i, at)) = Effects(i)
<1> DEFINE q == [CurrentQuestion(i) EXCEPT !.frozen = TRUE]
           r == Continue(i, at)
<1>1. Replaces(i, r, q)
  BY DEF Replaces, Continue, RequestReport, WithCurrentQuestion, Interview
<1>2. Adds(Traces(CurrentQuestion(i)), Traces(q), {})
  BY CurrentQuestionType DEF Adds, Traces, MaterialIds, Question
<1>3. {} \in SUBSET Ops
  OBVIOUS
<1> HIDE DEF q, r
<1>4. Adds(Effects(i), Effects(r), {})
  BY <1>1, <1>2, <1>3, QuestionEffects
<1>5. QED
  BY <1>4 DEF r, Adds

LEMMA ClarificationEffects ==
  ASSUME NEW i \in Interview, NEW p \in Plan
  PROVE  Effects(CompleteClarification(i, p)) = Effects(i) \cup {p.command.op}
<1> DEFINE q == [CurrentQuestion(i) EXCEPT !.clarifications = @ \cup {p.command.op}]
           r == CompleteClarification(i, p)
<1>1. Replaces(i, r, q)
  BY DEF Replaces, CompleteClarification, WithCurrentQuestion, Interview
<1>2. Adds(Traces(CurrentQuestion(i)), Traces(q), {p.command.op})
  BY CurrentQuestionType DEF Adds, Traces, MaterialIds, Question, Plan, PlannedCommand
<1>3. {p.command.op} \in SUBSET Ops
  BY DEF Plan, PlannedCommand
<1> HIDE DEF q, r
<1>4. Adds(Effects(i), Effects(r), {p.command.op})
  BY <1>1, <1>2, <1>3, QuestionEffects
<1>5. QED
  BY <1>4 DEF r, Adds

LEMMA FollowUpEffects ==
  ASSUME NEW i \in Interview, NEW p \in Plan, NEW kind
  PROVE  Effects(CompleteWithFollowUp(i, p, kind)) = Effects(i) \cup {p.command.op}
<1> DEFINE m == WithMaterial(CurrentQuestion(i), p)
           q == [m EXCEPT !.followUps = @ \cup {kind}, !.evaluation = {}, !.outcome = "none"]
           r == CompleteWithFollowUp(i, p, kind)
<1>1. Replaces(i, r, q)
  BY DEF Replaces, CompleteWithFollowUp, WithCurrentQuestion, Interview
<1>2. m \in Question /\ Traces(m) = Traces(CurrentQuestion(i)) \cup {p.command.op}
  BY CurrentQuestionType, WithMaterialType, MaterialTraces
<1>3. {p.command.op} \in SUBSET Ops
  BY DEF Plan, PlannedCommand
<1> HIDE DEF m, r
<1>4. Adds(Traces(CurrentQuestion(i)), Traces(q), {p.command.op})
  BY <1>2 DEF Adds, Traces, MaterialIds, Question
<1> HIDE DEF q
<1>5. Adds(Effects(i), Effects(r), {p.command.op})
  BY <1>1, <1>3, <1>4, QuestionEffects
<1>6. QED
  BY <1>5 DEF r, Adds

LEMMA EvaluationEffects ==
  ASSUME NEW i \in Interview, NEW p \in Plan, NEW o
  PROVE  Effects(CompleteWithEvaluation(i, p, o)) = Effects(i) \cup {p.command.op}
<1> DEFINE m == WithMaterial(CurrentQuestion(i), p)
           q == [m EXCEPT !.evaluation = MaterialIds(m), !.outcome = o]
           r == CompleteWithEvaluation(i, p, o)
<1>1. Replaces(i, r, q)
  BY DEF Replaces, CompleteWithEvaluation, WithCurrentQuestion, Interview
<1>2. m \in Question /\ Traces(m) = Traces(CurrentQuestion(i)) \cup {p.command.op}
  BY CurrentQuestionType, WithMaterialType, MaterialTraces
<1>3. {p.command.op} \in SUBSET Ops
  BY DEF Plan, PlannedCommand
<1> HIDE DEF m, r
<1>4. Adds(Traces(CurrentQuestion(i)), Traces(q), {p.command.op})
  BY <1>2 DEF Adds, Traces, MaterialIds, Question
<1> HIDE DEF q
<1>5. Adds(Effects(i), Effects(r), {p.command.op})
  BY <1>1, <1>3, <1>4, QuestionEffects
<1>6. QED
  BY <1>5 DEF r, Adds

-------------------------------------------------------------------------------
(***************************************************************************)
(* Every result of the engine is a transition the persistence layer         *)
(* accepts.  The two code the rules apart, and agree because of what holds   *)
(* of every stored aggregate: a pending operation was accepted at the last   *)
(* activity for the current question, and a question still being answered   *)
(* has a follow-up waiting as soon as it has one at all, so that the engine, *)
(* which counts the answers, and the save, which does not, name the same     *)
(* kind of material.                                                         *)
(***************************************************************************)
Pointed(i) ==
  IsPending(i) => /\ i.pending.position = i.position
                  /\ i.pending.acceptedAt = i.lastActivity

Counted(q) ==
  /\ IsFiniteSet(q.material)
  /\ Cardinality(FollowUpAnswers(q)) <= Cardinality(q.followUps)

Asked(i) ==
  i.status = "active" /\ UserPhase(i) = "awaiting_response" /\ CurrentQuestion(i).followUps # {} =>
    HasUnansweredFollowUp(CurrentQuestion(i))

Tallied(i) == Pointed(i) /\ Asked(i) /\ \A k \in Positions : Counted(i.questions[k])

-------------------------------------------------------------------------------
(* Counting follow-ups and their answers. *)

LEMMA NoneCounted == Counted(FreshQuestion)
<1>1. FollowUpAnswers(FreshQuestion) = {} /\ FreshQuestion.material = {} /\ FreshQuestion.followUps = {}
  BY DEF FollowUpAnswers, FreshQuestion
<1>2. IsFiniteSet({}) /\ Cardinality({}) = 0
  BY FS_EmptySet
<1>3. QED
  BY <1>1, <1>2 DEF Counted

LEMMA FreshTallied == Tallied(FreshInterview)
<1>1. /\ ~ IsPending(FreshInterview)
      /\ \A k \in Positions : FreshInterview.questions[k] = FreshQuestion
  BY DEF FreshInterview, IsPending, NoPending
<1>2. CurrentQuestion(FreshInterview).followUps = {}
  BY InterviewAssumption DEF FreshInterview, CurrentQuestion, FreshQuestion, Positions
<1>3. QED
  BY <1>1, <1>2, NoneCounted DEF Tallied, Pointed, Asked

LEMMA CountType ==
  ASSUME NEW q \in Question, Counted(q)
  PROVE  /\ IsFiniteSet(q.followUps) /\ Cardinality(q.followUps) \in Nat
         /\ IsFiniteSet(FollowUpAnswers(q)) /\ Cardinality(FollowUpAnswers(q)) \in Nat
<1>1. IsFiniteSet(FollowUpKinds)
  <2>1. IsFiniteSet({"clarification"}) /\ IsFiniteSet({"depth"})
    BY FS_Singleton
  <2>2. FollowUpKinds = {"clarification"} \cup {"depth"}
    BY DEF FollowUpKinds
  <2>3. QED
    BY <2>1, <2>2, FS_Union
<1>2. IsFiniteSet(q.followUps)
  BY <1>1, FS_Subset DEF Question
<1>3. FollowUpAnswers(q) \subseteq q.material /\ IsFiniteSet(q.material)
  BY DEF FollowUpAnswers, Counted
<1>4. IsFiniteSet(FollowUpAnswers(q))
  BY <1>3, FS_Subset
<1>5. QED
  BY <1>2, <1>4, FS_CardinalityType

(* A question that waits for the answer to a follow-up has one. *)
LEMMA UnansweredIsAsked ==
  ASSUME NEW q \in Question, Counted(q), HasUnansweredFollowUp(q)
  PROVE  q.followUps # {}
<1>1. Cardinality({}) = 0
  BY FS_EmptySet
<1>2. QED
  BY <1>1, CountType DEF HasUnansweredFollowUp

LEMMA MaterialCounted ==
  ASSUME NEW q \in Question, Counted(q), NEW p \in Plan,
         p.materialKind = "follow_up_answer" => HasUnansweredFollowUp(q)
  PROVE  Counted(WithMaterial(q, p)) /\ WithMaterial(q, p).followUps = q.followUps
<1> DEFINE x == [id |-> p.command.op, kind |-> p.materialKind]
           m == WithMaterial(q, p)
           A == FollowUpAnswers(q)
<1>1. m.material = q.material \cup {x} /\ m.followUps = q.followUps
  BY DEF WithMaterial, Question
<1>2. IsFiniteSet(m.material)
  BY <1>1, FS_AddElement DEF Counted
<1>3. /\ IsFiniteSet(A) /\ Cardinality(A) \in Nat /\ Cardinality(q.followUps) \in Nat
      /\ Cardinality(A) <= Cardinality(q.followUps)
  BY CountType DEF Counted
<1>4. Cardinality(FollowUpAnswers(m)) <= Cardinality(q.followUps)
  <2>1. CASE p.materialKind = "follow_up_answer"
    <3>1. FollowUpAnswers(m) = A \cup {x}
      BY <1>1, <2>1 DEF FollowUpAnswers
    <3>2. Cardinality(A \cup {x}) \in {Cardinality(A), Cardinality(A) + 1}
      BY <1>3, FS_AddElement
    <3>3. Cardinality(q.followUps) > Cardinality(A)
      BY <2>1 DEF HasUnansweredFollowUp
    <3> HIDE DEF A, x, m
    <3>4. QED
      BY <1>3, <3>1, <3>2, <3>3
  <2>2. CASE p.materialKind # "follow_up_answer"
    <3>1. FollowUpAnswers(m) = A
      BY <1>1, <2>2 DEF FollowUpAnswers
    <3>2. QED
      BY <1>3, <3>1
  <2>3. QED
    BY <2>1, <2>2
<1>5. QED
  BY <1>1, <1>2, <1>4 DEF Counted

(* One follow-up more than the answers given so far. *)
LEMMA FollowUpCounted ==
  ASSUME NEW m \in Question, Counted(m), NEW kind \in FollowUpKinds \ m.followUps,
         NEW q, q.followUps = m.followUps \cup {kind}, q.material = m.material
  PROVE  Counted(q) /\ HasUnansweredFollowUp(q)
<1>1. FollowUpAnswers(q) = FollowUpAnswers(m)
  BY DEF FollowUpAnswers
<1>2. /\ IsFiniteSet(m.followUps) /\ Cardinality(m.followUps) \in Nat
      /\ Cardinality(FollowUpAnswers(m)) \in Nat
      /\ Cardinality(FollowUpAnswers(m)) <= Cardinality(m.followUps)
  BY CountType DEF Counted
<1>3. Cardinality(q.followUps) = Cardinality(m.followUps) + 1
  BY <1>2, FS_AddElement
<1>4. QED
  BY <1>1, <1>2, <1>3 DEF Counted, HasUnansweredFollowUp

(* assertAnswerEvent names the kind of material the engine does.           *)
LEMMA SameMaterialKind ==
  ASSUME NEW i \in Interview, Tallied(i), NEW p \in Plan, IsAccepted(i, p), IsAnswer(p.command),
         p.materialKind = MaterialKind(CurrentQuestion(i), p.command)
  PROVE  p.materialKind = ExpectedMaterialKind(i)
<1> DEFINE q == CurrentQuestion(i)
<1>1. q \in Question /\ Counted(q)
  BY CurrentQuestionType DEF Tallied, CurrentQuestion, Interview
<1>2. /\ i.status = "active" /\ i.pending.previous = RequiredPhase(p.command)
      /\ UserPhase(i) = i.pending.previous
  BY DEF IsAccepted, UserPhase
<1>3. CASE p.command.type = "submit_supplement"
  BY <1>2, <1>3 DEF MaterialKind, ExpectedMaterialKind, RequiredPhase
<1>4. CASE p.command.type # "submit_supplement"
  <2>1. i.pending.previous = "awaiting_response"
    BY <1>2, <1>4 DEF RequiredPhase
  <2>2. HasUnansweredFollowUp(q) <=> q.followUps # {}
    BY <1>1, <1>2, <2>1, UnansweredIsAsked DEF Tallied, Asked
  <2>3. QED
    BY <1>4, <2>1, <2>2 DEF MaterialKind, ExpectedMaterialKind
<1>5. QED
  BY <1>3, <1>4

-------------------------------------------------------------------------------
(* Saves that carry no event.                                               *)

LEMMA AcceptSaved ==
  ASSUME NEW i \in Interview, Tallied(i), NEW c \in PlannedCommand, NEW at \in Times,
         FitsPhase(i, c), ~ IsPending(i), at >= i.lastActivity
  PROVE  LET a == AcceptRetriedOperation(i, c, at)
             b == AcceptOperation(i, c, at)
         IN  SaveAccepts(i, a) /\ Tallied(a) /\ SaveAccepts(i, b) /\ Tallied(b)
<1> DEFINE a == AcceptRetriedOperation(i, c, at)
           b == AcceptOperation(i, c, at)
           pending == [op |-> c.op, kind |-> OperationKind(c), position |-> i.position,
                       acceptedAt |-> at, previous |-> RequiredPhase(c)]
<1>1. /\ pending \in Pending /\ pending.op # NoOp /\ pending.previous = i.phase
      /\ pending.position = i.position /\ pending.acceptedAt = at
      /\ pending.kind = "question_clarification" => pending.previous = "awaiting_response"
  BY InterviewAssumption
     DEF Pending, PlannedCommand, Interview, OperationKind, OperationKinds, RequiredPhase,
         WaitingPhases, FitsPhase, IsAnswer, PlannedTypes
<1>2. a = [i EXCEPT !.version = @ + 0, !.phase = "processing", !.pending = pending, !.lastActivity = at]
  <2>1. a = [i EXCEPT !.phase = "processing", !.pending = pending, !.lastActivity = at]
    BY DEF AcceptRetriedOperation
  <2>2. i.version + 0 = i.version
    BY DEF Interview
  <2> HIDE DEF a, pending
  <2>3. QED
    BY <2>1, <2>2 DEF Interview
<1>3. b = [i EXCEPT !.version = @ + 1, !.phase = "processing", !.pending = pending, !.lastActivity = at]
  BY DEF AcceptOperation, AcceptRetriedOperation, Interview
<1>4. /\ a.questions = i.questions /\ a.position = i.position /\ a.status = i.status
      /\ a.phase = "processing" /\ a.pending = pending /\ a.lastActivity = at
      /\ b.questions = i.questions /\ b.position = i.position /\ b.status = i.status
      /\ b.phase = "processing" /\ b.pending = pending /\ b.lastActivity = at
  BY <1>2, <1>3 DEF Interview
<1> HIDE DEF a, b, pending
<1>5. UserPhase(i) = i.phase /\ i.status = "active"
  BY DEF FitsPhase, RequiredPhase, UserPhase
<1>6. OperationAccepted(i, a) /\ OperationAccepted(i, b)
  <2>1. i.status = "active" /\ i.pending.op = NoOp
    BY <1>5 DEF IsPending
  <2>2. QED
    BY <1>1, <1>2, <1>3, <2>1 DEF OperationAccepted
<1>7. Tallied(a) /\ Tallied(b)
  BY <1>1, <1>4, <1>5 DEF Tallied, Pointed, Asked, UserPhase, CurrentQuestion
<1>8. QED
  BY <1>6, <1>7 DEF SaveAccepts, a, b

LEMMA RefreshSaved ==
  ASSUME NEW i \in Interview, Tallied(i), NEW op \in Ops, NEW at \in Times, CanRefresh(i, op, at)
  PROVE  SaveAccepts(i, Refresh(i, at)) /\ Tallied(Refresh(i, at))
<1> DEFINE r == Refresh(i, at)
<1>1. i.pending.op # NoOp /\ i.status = "active" /\ i.phase = "processing" /\ IsPending(i)
  BY InterviewAssumption DEF CanRefresh, IsPending
<1>2. at >= i.pending.acceptedAt
  BY <1>1 DEF Tallied, Pointed, CanRefresh
<1>3. OperationRefreshed(i, r)
  BY <1>1, <1>2 DEF OperationRefreshed, Refresh
<1>4. /\ r.questions = i.questions /\ r.position = i.position /\ r.status = i.status
      /\ r.phase = i.phase /\ r.lastActivity = at
      /\ r.pending.acceptedAt = at /\ r.pending.position = i.pending.position
      /\ r.pending.previous = i.pending.previous
  BY DEF Refresh, Interview, Pending
<1> HIDE DEF r
<1>5. Tallied(r)
  BY <1>1, <1>4 DEF Tallied, Pointed, Asked, UserPhase, CurrentQuestion
<1>6. QED
  BY <1>3, <1>5 DEF SaveAccepts, r

LEMMA RefreshReportRetrySaved ==
  ASSUME NEW i \in Interview, Sound(i), Tallied(i), NEW at \in Times, CanRefreshReportRetry(i, at)
  PROVE  SaveAccepts(i, RefreshReportRetry(i, at)) /\ Tallied(RefreshReportRetry(i, at))
<1> DEFINE r == RefreshReportRetry(i, at)
<1>1. /\ i.status = "report_pending" /\ i.phase = "none" /\ ~ IsPending(i)
  BY DEF CanRefreshReportRetry, Sound, Phased
<1>2. ReportRetryRefreshed(i, r)
  BY <1>1 DEF ReportRetryRefreshed, RefreshReportRetry, CanRefreshReportRetry, IsPending
<1>3. r.questions = i.questions /\ r.status = i.status /\ r.pending = i.pending
  BY DEF RefreshReportRetry, Interview
<1> HIDE DEF r
<1>4. Tallied(r)
  BY <1>1, <1>3 DEF Tallied, Pointed, Asked, IsPending
<1>5. QED
  BY <1>2, <1>4 DEF SaveAccepts, r

LEMMA CancelSaved ==
  ASSUME NEW i \in Interview, Sound(i), Tallied(i), IsPending(i)
  PROVE  SaveAccepts(i, CancelOperation(i)) /\ Tallied(CancelOperation(i))
<1> DEFINE r == CancelOperation(i)
<1>1. OperationCancelled(i, r)
  BY DEF OperationCancelled, CancelOperation, IsPending
<1>2. /\ r.questions = i.questions /\ r.position = i.position /\ r.status = i.status
      /\ r.phase = i.pending.previous /\ ~ IsPending(r) /\ i.pending.previous \in WaitingPhases
      /\ i.phase = "processing"
  BY DEF CancelOperation, Interview, Pending, IsPending, NoPending, Sound, Phased
<1> HIDE DEF r
<1>3. UserPhase(r) = UserPhase(i)
  BY <1>2 DEF UserPhase, WaitingPhases
<1>4. Tallied(r)
  BY <1>2, <1>3 DEF Tallied, Pointed, Asked, CurrentQuestion
<1>5. QED
  BY <1>1, <1>4 DEF SaveAccepts, r

-------------------------------------------------------------------------------
(* Saves that replace the current question. *)

LEMMA QuestionTallied ==
  ASSUME NEW i \in Interview, Tallied(i), NEW q, Counted(q), NEW r,
         r.questions = [i.questions EXCEPT ![i.position] = q], ~ IsPending(r)
  PROVE  /\ Pointed(r) /\ \A k \in Positions : Counted(r.questions[k])
         /\ r.questions[i.position] = q
<1>1. \A k \in Positions : r.questions[k] = IF k = i.position THEN q ELSE i.questions[k]
  BY DEF Interview
<1>2. QED
  BY <1>1 DEF Tallied, Pointed, Interview

LEMMA ClarificationSaved ==
  ASSUME NEW i \in Interview, Tallied(i), NEW p \in Plan, IsAccepted(i, p), ~ IsAnswer(p.command)
  PROVE  SaveAccepts(i, CompleteClarification(i, p)) /\ Tallied(CompleteClarification(i, p))
<1> DEFINE q == [CurrentQuestion(i) EXCEPT !.clarifications = @ \cup {p.command.op}]
           r == CompleteClarification(i, p)
<1>1. /\ p.command.op \in Ops /\ i.pending.op = p.command.op /\ i.pending.position = i.position
      /\ i.pending.kind = "question_clarification" /\ i.pending.previous = "awaiting_response"
      /\ i.status = "active" /\ i.phase = "processing"
  BY DEF IsAccepted, OperationKind, RequiredPhase, IsAnswer, Plan, PlannedCommand
<1>2. ClarificationCompleted(i, r)
  BY <1>1, InterviewAssumption DEF ClarificationCompleted, Pends, Released, CompleteClarification
<1>3. CurrentQuestion(i) \in Question /\ CurrentQuestion(i) = i.questions[i.position]
  BY CurrentQuestionType DEF CurrentQuestion
<1>4. /\ q.material = CurrentQuestion(i).material /\ q.followUps = CurrentQuestion(i).followUps
  BY <1>3 DEF Question
<1>5. /\ r.questions = [i.questions EXCEPT ![i.position] = q] /\ r.position = i.position
      /\ ~ IsPending(r) /\ r.status = "active" /\ r.phase = "awaiting_response"
  BY <1>1 DEF CompleteClarification, WithCurrentQuestion, Interview, IsPending, NoPending
<1> HIDE DEF q, r
<1>6. Counted(q) /\ (CurrentQuestion(i).followUps # {} => HasUnansweredFollowUp(q))
  <2>1. FollowUpAnswers(q) = FollowUpAnswers(CurrentQuestion(i)) /\ i.position \in Positions
    BY <1>4 DEF FollowUpAnswers, Interview
  <2>2. QED
    BY <1>1, <1>3, <1>4, <2>1 DEF Counted, Tallied, Asked, UserPhase, HasUnansweredFollowUp
<1>7. /\ Pointed(r) /\ \A k \in Positions : Counted(r.questions[k])
      /\ r.questions[i.position] = q
  BY <1>5, <1>6, QuestionTallied
<1>8. Tallied(r)
  BY <1>4, <1>5, <1>6, <1>7 DEF Tallied, Asked, CurrentQuestion
<1>9. QED
  BY <1>2, <1>8 DEF SaveAccepts, r

(* What both ways of completing an answer share. *)
LEMMA AnswerSaved ==
  ASSUME NEW i \in Interview, Tallied(i), NEW p \in Plan, IsAccepted(i, p), IsAnswer(p.command),
         p.materialKind = MaterialKind(CurrentQuestion(i), p.command)
  PROVE  LET m == WithMaterial(CurrentQuestion(i), p)
         IN  /\ p.command.op \in Ops /\ Pends(i, "answer_analysis")
             /\ m \in Question /\ Counted(m) /\ m.followUps = CurrentQuestion(i).followUps
             /\ m = Answered(i, p.command.op)
<1>1. /\ p.command.op \in Ops /\ Pends(i, "answer_analysis")
  BY InterviewAssumption DEF IsAccepted, Pends, OperationKind, Plan, PlannedCommand
<1>2. CurrentQuestion(i) \in Question /\ Counted(CurrentQuestion(i))
  BY CurrentQuestionType DEF Tallied, CurrentQuestion, Interview
<1>3. p.materialKind = "follow_up_answer" => HasUnansweredFollowUp(CurrentQuestion(i))
  BY DEF MaterialKind
<1>4. /\ Counted(WithMaterial(CurrentQuestion(i), p))
      /\ WithMaterial(CurrentQuestion(i), p).followUps = CurrentQuestion(i).followUps
      /\ WithMaterial(CurrentQuestion(i), p) \in Question
  BY <1>2, <1>3, MaterialCounted, WithMaterialType
<1>5. p.materialKind = ExpectedMaterialKind(i)
  BY SameMaterialKind
<1>6. WithMaterial(CurrentQuestion(i), p) = Answered(i, p.command.op)
  BY <1>5 DEF WithMaterial, Answered
<1>7. QED
  BY <1>1, <1>4, <1>6

LEMMA FollowUpSaved ==
  ASSUME NEW i \in Interview, Tallied(i), NEW p \in Plan, IsAccepted(i, p), IsAnswer(p.command),
         p.materialKind = MaterialKind(CurrentQuestion(i), p.command),
         NEW kind \in FollowUpKinds, CanFollowUp(i, kind)
  PROVE  LET r == CompleteWithFollowUp(i, p, kind) IN SaveAccepts(i, r) /\ Tallied(r)
<1> DEFINE m == WithMaterial(CurrentQuestion(i), p)
           q == [m EXCEPT !.followUps = @ \cup {kind}, !.evaluation = {}, !.outcome = "none"]
           r == CompleteWithFollowUp(i, p, kind)
<1>1. /\ p.command.op \in Ops /\ Pends(i, "answer_analysis")
      /\ m \in Question /\ Counted(m) /\ m.followUps = CurrentQuestion(i).followUps
      /\ m = Answered(i, p.command.op)
  BY AnswerSaved
<1>2. r = Released(i, q, "awaiting_response")
  BY DEF CompleteWithFollowUp, Released
<1>3. /\ r.questions = [i.questions EXCEPT ![i.position] = q] /\ r.position = i.position
      /\ ~ IsPending(r)
  BY DEF CompleteWithFollowUp, WithCurrentQuestion, Interview, IsPending, NoPending
<1> HIDE DEF m, r
<1>4. FollowUpCompleted(i, r)
  BY <1>1, <1>2 DEF FollowUpCompleted
<1>5. q.material = m.material /\ q.followUps = m.followUps \cup {kind}
  BY <1>1 DEF Question
<1>6. Counted(q) /\ HasUnansweredFollowUp(q)
  BY <1>1, <1>5, FollowUpCounted DEF CanFollowUp
<1> HIDE DEF q
<1>7. /\ Pointed(r) /\ \A k \in Positions : Counted(r.questions[k])
      /\ r.questions[i.position] = q
  BY <1>3, <1>6, QuestionTallied
<1>8. Tallied(r)
  BY <1>3, <1>6, <1>7 DEF Tallied, Asked, CurrentQuestion
<1>9. QED
  BY <1>4, <1>8 DEF SaveAccepts, r

LEMMA EvaluationSaved ==
  ASSUME NEW i \in Interview, Tallied(i), NEW p \in Plan, IsAccepted(i, p), IsAnswer(p.command),
         p.materialKind = MaterialKind(CurrentQuestion(i), p.command),
         NEW outcome \in EvaluatedOutcomes
  PROVE  LET r == CompleteWithEvaluation(i, p, outcome) IN SaveAccepts(i, r) /\ Tallied(r)
<1> DEFINE m == WithMaterial(CurrentQuestion(i), p)
           q == [m EXCEPT !.evaluation = MaterialIds(m), !.outcome = outcome]
           r == CompleteWithEvaluation(i, p, outcome)
<1>1. /\ p.command.op \in Ops /\ Pends(i, "answer_analysis")
      /\ m \in Question /\ Counted(m) /\ m = Answered(i, p.command.op)
  BY AnswerSaved
<1>2. r = Released(i, q, "awaiting_continue")
  BY DEF CompleteWithEvaluation, Released
<1>3. /\ r.questions = [i.questions EXCEPT ![i.position] = q] /\ r.phase = "awaiting_continue"
      /\ ~ IsPending(r)
  BY DEF CompleteWithEvaluation, WithCurrentQuestion, Interview, IsPending, NoPending
<1> HIDE DEF m, r
<1>4. MaterialIds(m) \in SUBSET Ops
  BY <1>1, MaterialIdsType
<1>5. EvaluationCompleted(i, r)
  BY <1>1, <1>2, <1>4 DEF EvaluationCompleted
<1>6. q.material = m.material /\ q.followUps = m.followUps
  BY <1>1 DEF Question
<1>7. Counted(q)
  BY <1>1, <1>6 DEF Counted, FollowUpAnswers
<1> HIDE DEF q
<1>8. Pointed(r) /\ \A k \in Positions : Counted(r.questions[k])
  BY <1>3, <1>7, QuestionTallied
<1>9. Tallied(r)
  BY <1>3, <1>8 DEF Tallied, Asked, UserPhase
<1>10. QED
  BY <1>5, <1>9 DEF SaveAccepts, r

-------------------------------------------------------------------------------
(* Saves that move on, close the interview or store its report.            *)

LEMMA RecordUnevaluatedSaved ==
  ASSUME NEW i \in Interview, Tallied(i), NEW at \in Times, NEW outcome \in {"unknown", "skipped"},
         CanRecordUnevaluated(i), ~ IsPending(i)
  PROVE  LET r == RecordUnevaluated(i, outcome, at) IN SaveAccepts(i, r) /\ Tallied(r)
<1> DEFINE q == [CurrentQuestion(i) EXCEPT !.evaluation = {}, !.outcome = outcome]
           r == RecordUnevaluated(i, outcome, at)
<1>1. UnevaluatedOutcomeRecorded(i, r)
  <2>1. r = [WithCurrentQuestion(i, q) EXCEPT !.phase = "awaiting_continue", !.version = @ + 1,
                                              !.lastActivity = at]
    BY DEF RecordUnevaluated, WithCurrentQuestion, Interview
  <2>2. QED
    BY <2>1 DEF UnevaluatedOutcomeRecorded, CanRecordUnevaluated, IsPending
<1>2. /\ r.questions = [i.questions EXCEPT ![i.position] = q] /\ r.phase = "awaiting_continue"
      /\ r.pending = i.pending
  BY DEF RecordUnevaluated, WithCurrentQuestion, Interview
<1>3. CurrentQuestion(i) \in Question /\ Counted(CurrentQuestion(i))
  BY CurrentQuestionType DEF Tallied, CurrentQuestion, Interview
<1>4. Counted(q)
  <2>1. q.material = CurrentQuestion(i).material /\ q.followUps = CurrentQuestion(i).followUps
    BY <1>3 DEF Question
  <2>2. QED
    BY <1>3, <2>1 DEF Counted, FollowUpAnswers
<1> HIDE DEF q, r
<1>5. Pointed(r) /\ \A k \in Positions : Counted(r.questions[k])
  <2>1. ~ IsPending(r)
    BY <1>2 DEF IsPending
  <2>2. QED
    BY <1>2, <1>4, <2>1, QuestionTallied
<1>6. Tallied(r)
  BY <1>2, <1>5 DEF Tallied, Asked, UserPhase
<1>7. QED
  BY <1>1, <1>6 DEF SaveAccepts, r

(* A report is awaited after the last question and after an early end.     *)
LEMMA ReportAwaitedIs ==
  ASSUME NEW i \in Interview, NEW kind, NEW at
  PROVE  LET r == RequestReport(i, kind, at)
         IN  r = ReportAwaited(i, kind, at) /\ r.questions = i.questions /\ ~ IsPending(r)
             /\ r.status = "report_pending"
  BY DEF RequestReport, ReportAwaited, Interview, IsPending, NoPending

LEMMA QuietTallied ==
  ASSUME NEW i, Tallied(i), NEW r, r.questions = i.questions, ~ IsPending(r), r.status # "active"
  PROVE  Tallied(r)
  BY DEF Tallied, Pointed, Asked

LEMMA ContinueSaved ==
  ASSUME NEW i \in Interview, Sound(i), Tallied(i), NEW at \in Times, CanContinue(i), ~ IsPending(i)
  PROVE  SaveAccepts(i, Continue(i, at)) /\ Tallied(Continue(i, at))
<1> DEFINE q == [CurrentQuestion(i) EXCEPT !.frozen = TRUE]
           f == WithCurrentQuestion(i, q)
           r == Continue(i, at)
<1>1. CurrentQuestion(i) \in Question /\ Counted(CurrentQuestion(i)) /\ i.position \in Positions
  BY CurrentQuestionType DEF Tallied, CurrentQuestion, Interview
<1>2. Counted(q) /\ q \in Question
  <2>1. q \in Question /\ q.material = CurrentQuestion(i).material
        /\ q.followUps = CurrentQuestion(i).followUps
    BY <1>1 DEF Question
  <2>2. QED
    BY <1>1, <2>1 DEF Counted, FollowUpAnswers
<1>3. /\ i.status = "active" /\ i.phase = "awaiting_continue" /\ i.pending.op = NoOp
      /\ CurrentQuestion(i).outcome # "none" /\ ~ CurrentQuestion(i).frozen
  BY DEF CanContinue, IsPending, Sound, Requested
<1>4. f = Frozen(i)
  BY DEF Frozen
<1> HIDE DEF q
<1>5. /\ f \in Interview /\ f.questions = [i.questions EXCEPT ![i.position] = q]
      /\ f.version = i.version /\ f.pending = i.pending /\ f.position = i.position
  BY <1>2, WithCurrentQuestionType DEF WithCurrentQuestion, Interview
<1>6. ~ IsPending(f)
  BY <1>5 DEF IsPending
<1>7. Pointed(f) /\ \A k \in Positions : Counted(f.questions[k])
  BY <1>2, <1>5, <1>6, QuestionTallied
<1> HIDE DEF f
<1>8. r = IF i.position = QuestionCount THEN RequestReport(f, "complete", at)
          ELSE [f EXCEPT !.position = i.position + 1, !.phase = "awaiting_response",
                         !.version = i.version + 1, !.lastActivity = at]
  BY DEF Continue, f, q
<1> HIDE DEF r
<1>9. CASE i.position = QuestionCount
  <2>1. /\ r = ReportAwaited(f, "complete", at) /\ r.questions = f.questions /\ ~ IsPending(r)
        /\ r.status = "report_pending"
    BY <1>5, <1>8, <1>9, ReportAwaitedIs
  <2>2. QuestionFrozen(i, r)
    BY <1>3, <1>4, <1>9, <2>1 DEF QuestionFrozen
  <2>3. Tallied(r)
    BY <1>7, <2>1 DEF Tallied, Pointed, Asked
  <2>4. QED
    BY <2>2, <2>3 DEF SaveAccepts, r
<1>10. CASE i.position # QuestionCount
  <2>1. r = [f EXCEPT !.position = i.position + 1, !.phase = "awaiting_response",
                      !.version = i.version + 1, !.lastActivity = at]
    BY <1>8, <1>10
  <2>2. r = [f EXCEPT !.position = @ + 1, !.phase = "awaiting_response",
                      !.version = @ + 1, !.lastActivity = at]
    BY <1>5, <2>1 DEF Interview
  <2>3. QuestionFrozen(i, r)
    BY <1>3, <1>4, <1>10, <2>2 DEF QuestionFrozen
  <2>4. /\ r.position = i.position + 1 /\ r.questions = f.questions /\ r.pending = f.pending
        /\ r.phase = "awaiting_response"
    BY <1>5, <2>1 DEF Interview
  <2>5. i.position + 1 \in Positions /\ i.position + 1 > i.position
    BY <1>1, <1>10, InterviewAssumption DEF Positions
  <2>6. i.questions[i.position + 1] = FreshQuestion
    BY <2>5 DEF Sound, Ordered
  <2>7. CurrentQuestion(r) = FreshQuestion
    <3>1. i.questions \in [Positions -> Question] /\ i.position + 1 # i.position
      BY <1>1 DEF Interview, Positions
    <3>2. f.questions[i.position + 1] = i.questions[i.position + 1]
      BY <1>5, <2>5, <3>1
    <3>3. QED
      BY <2>4, <2>6, <3>2 DEF CurrentQuestion
  <2>8. Tallied(r)
    BY <1>6, <1>7, <2>4, <2>7 DEF Tallied, Pointed, Asked, IsPending, FreshQuestion
  <2>9. QED
    BY <2>3, <2>8 DEF SaveAccepts, r
<1>11. QED
  BY <1>9, <1>10

LEMMA EndEarlySaved ==
  ASSUME NEW i \in Interview, Tallied(i), NEW at \in Times, CanEndEarly(i), ~ IsPending(i)
  PROVE  SaveAccepts(i, EndEarly(i, at)) /\ Tallied(EndEarly(i, at))
<1>1. /\ EndEarly(i, at) = ReportAwaited(i, "incomplete", at)
      /\ EndEarly(i, at).questions = i.questions /\ ~ IsPending(EndEarly(i, at))
      /\ EndEarly(i, at).status = "report_pending"
  BY ReportAwaitedIs DEF EndEarly
<1>2. EndedEarly(i, EndEarly(i, at))
  BY <1>1 DEF EndedEarly, CanEndEarly, IsPending
<1>3. QED
  BY <1>1, <1>2, QuietTallied DEF SaveAccepts

LEMMA RecordReportSaved ==
  ASSUME NEW i \in Interview, Tallied(i), NEW kind, NEW at, CanRecordReport(i, kind, at),
         Sound(i)
  PROVE  SaveAccepts(i, RecordReport(i)) /\ Tallied(RecordReport(i))
<1> DEFINE r == RecordReport(i)
<1>1. i.status = "report_pending" /\ i.reportKind # "none" /\ i.reportRequestedAt # NoTime
  BY DEF CanRecordReport, Sound, Requested
<1>2. ReportStored(i, r)
  BY <1>1 DEF ReportStored, RecordReport
<1>3. r.questions = i.questions /\ ~ IsPending(r) /\ r.status # "active"
  BY DEF RecordReport, Interview, IsPending, NoPending
<1>4. QED
  BY <1>2, <1>3, QuietTallied DEF SaveAccepts

LEMMA CloseSaved ==
  ASSUME NEW i \in Interview, Tallied(i), i.status = "active"
  PROVE  /\ Tallied(Abandon(i)) /\ Tallied(CloseAbandoned(i))
         /\ ~ IsPending(i) => SaveAccepts(i, Abandon(i))
         /\ \A at \in Times : IsExpired(i, at) => SaveAccepts(i, Abandon(i))
         /\ IsPending(i) => SaveAccepts(i, CloseAbandoned(i))
<1>1. CloseAbandoned(i) = Closed(i, 0) /\ Abandon(i) = Closed(i, 1)
  <2>1. i.version + 0 = i.version
    BY DEF Interview
  <2>2. CloseAbandoned(i) = Closed(i, 0)
    BY <2>1 DEF CloseAbandoned, Closed, Interview
  <2>3. Abandon(i) = Closed(i, 1)
    BY DEF Abandon, CloseAbandoned, Closed, Interview
  <2>4. QED
    BY <2>2, <2>3
<1>2. /\ Abandon(i).questions = i.questions /\ ~ IsPending(Abandon(i)) /\ Abandon(i).status # "active"
      /\ CloseAbandoned(i).questions = i.questions /\ ~ IsPending(CloseAbandoned(i))
      /\ CloseAbandoned(i).status # "active"
  BY DEF Abandon, CloseAbandoned, Interview, IsPending, NoPending
<1>3. Tallied(Abandon(i)) /\ Tallied(CloseAbandoned(i))
  BY <1>2, QuietTallied
<1>4. ~ IsPending(i) => SaveAccepts(i, Abandon(i))
  BY <1>1 DEF SaveAccepts, Abandoned, IsPending
<1>5. \A at \in Times : IsExpired(i, at) => SaveAccepts(i, Abandon(i))
  BY <1>1 DEF SaveAccepts, ExpiredOnAccess, IsExpired
<1>6. IsPending(i) => SaveAccepts(i, CloseAbandoned(i))
  BY <1>1 DEF SaveAccepts, Abandoned, IsPending
<1>7. QED
  BY <1>3, <1>4, <1>5, <1>6

LEMMA DeleteSaved ==
  ASSUME NEW i \in Interview, Tallied(i), i.status # "deleting"
  PROVE  LET d == [Abandon(i) EXCEPT !.status = "deleting"] IN SaveAccepts(i, d) /\ Tallied(d)
<1> DEFINE d == [Abandon(i) EXCEPT !.status = "deleting"]
<1>1. Abandon(i) = Closed(i, 1)
  BY DEF Abandon, CloseAbandoned, Closed, Interview
<1>2. Deleting(i, d)
  BY <1>1 DEF Deleting
<1>3. d.questions = i.questions /\ ~ IsPending(d) /\ d.status # "active"
  BY DEF Abandon, CloseAbandoned, Interview, IsPending, NoPending
<1> HIDE DEF d
<1>4. QED
  BY <1>2, <1>3, QuietTallied DEF SaveAccepts, d
===============================================================================
