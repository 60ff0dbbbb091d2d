---------------------------- MODULE InterviewStore ----------------------------
(***************************************************************************)
(* The rows one interview is kept in, and the aggregate read back from     *)
(* them (packages/db/src/repositories/interview-repository.ts).  An        *)
(* aggregate is never stored as such: save overwrites the scalar columns    *)
(* from it, and turns the events of the transition into inserts, updates    *)
(* and deletes of snapshots, messages, evaluations and the report.  The     *)
(* next request rebuilds the aggregate from the rows and refuses any that   *)
(* do not fit together.                                                     *)
(***************************************************************************)
EXTENDS InterviewSession, SequencesExt

VARIABLE store

storeVars == <<vars, store>>

SessionColumns(i) ==
  [version |-> i.version, status |-> i.status, phase |-> i.phase, position |-> i.position,
   pending |-> i.pending, reportKind |-> i.reportKind,
   reportRequestedAt |-> i.reportRequestedAt, lastActivity |-> i.lastActivity]

(* create: a session row and its pristine question snapshots.  A message    *)
(* will carry its id (derived from the operation's), its kind (that of its   *)
(* goal for a follow-up), its question, and when it was asked for and made;  *)
(* an evaluation the material it judged; a report the outcomes it covers.    *)
CreatedRows(i) ==
  [session     |-> SessionColumns(i),
   ended       |-> FALSE,
   snapshots   |-> [k \in Positions |-> [outcome |-> "none", frozen |-> FALSE, frozenAt |-> NoTime]],
   messages    |-> <<>>,
   evaluations |-> {},
   reports     |-> {}]
-------------------------------------------------------------------------------
(* Events, as each transition of engine.ts emits them. *)
AnswerEvent(p) ==
  [type |-> "answer_material_submitted", op |-> p.command.op, position |-> p.position,
   kind |-> p.materialKind, at |-> p.command.occurredAt]

ClarificationEvents(p, at) ==
  <<[type |-> "question_clarification_recorded", op |-> p.command.op, position |-> p.position,
     requestedAt |-> p.command.occurredAt, at |-> at]>>

(* Fault: a provisional outcome is not announced as cleared.               *)
FaultFollowUpEvents(i, p, kind, at) ==
  <<AnswerEvent(p),
    [type |-> "system_follow_up_recorded", op |-> p.command.op, position |-> p.position,
     kind |-> kind, at |-> at]>>

FollowUpEvents(i, p, kind, at) ==
  LET cleared == [type |-> "question_outcome_cleared", position |-> p.position]
      hadEvaluation == CurrentQuestion(i).evaluation # {} \/ CurrentQuestion(i).outcome # "none"
  IN  <<AnswerEvent(p)>>
      \o (IF hadEvaluation THEN <<cleared>> ELSE <<>>)
      \o <<[type |-> "system_follow_up_recorded", op |-> p.command.op, position |-> p.position,
            kind |-> kind, at |-> at]>>

EvaluationEvents(i, p, outcome) ==
  <<AnswerEvent(p),
    [type |-> "question_evaluation_recorded", position |-> p.position, outcome |-> outcome,
     judged |-> MaterialIds(WithMaterial(CurrentQuestion(i), p))]>>

OutcomeEvents(i, outcome) ==
  <<[type |-> "unevaluated_question_outcome_recorded", position |-> i.position, outcome |-> outcome]>>

FrozenEvents(i, at) == <<[type |-> "question_frozen", position |-> i.position, at |-> at]>>

ReportEvents(i) == <<[type |-> "report_stored", kind |-> i.reportKind]>>

AbandonedEvents == <<[type |-> "interview_abandoned"]>>
-------------------------------------------------------------------------------
(* save.  persistEvents, one event at a time, on rows whose session columns *)
(* already hold the new aggregate `i`.                                      *)
SetOutcome(rows, k, outcome) == [rows EXCEPT !.snapshots[k].outcome = outcome]

WithoutEvaluation(rows, k) ==
  [rows EXCEPT !.evaluations = {e \in @ : e.position # k}]

(* Fault: a new message does not take the next sequence number.            *)
FaultWithMessage(rows, e, requestedAt, kind) ==
  [rows EXCEPT !.messages = <<[id |-> e.op, kind |-> kind, position |-> e.position,
                               requestedAt |-> requestedAt, createdAt |-> e.at]>> \o @]

WithMessage(rows, e, requestedAt, kind) ==
  [rows EXCEPT !.messages = Append(@, [id |-> e.op, kind |-> kind, position |-> e.position,
                                       requestedAt |-> requestedAt, createdAt |-> e.at])]

Covered(i, kind) ==
  IF kind = "complete" THEN Positions
  ELSE {k \in Positions : i.questions[k].outcome # "none"}

ReportOf(i, kind) ==
  [kind |-> kind, covered |-> Covered(i, kind),
   outcomes |-> [k \in Positions |-> i.questions[k].outcome]]

PersistOutcome(rows, e) ==
  SetOutcome(WithoutEvaluation(rows, e.position), e.position, e.outcome)

PersistEvaluation(rows, e) ==
  [SetOutcome(WithoutEvaluation(rows, e.position), e.position, e.outcome)
     EXCEPT !.evaluations = @ \cup {[position |-> e.position, judged |-> e.judged,
                                     outcome |-> e.outcome]}]

PersistFreeze(rows, e) ==
  [rows EXCEPT !.snapshots[e.position].frozen = TRUE, !.snapshots[e.position].frozenAt = e.at]

PersistEvent(rows, e, i) ==
  CASE e.type = "answer_material_submitted" -> WithMessage(rows, e, NoTime, e.kind)
    [] e.type = "question_clarification_recorded" ->
         WithMessage(rows, e, e.requestedAt, "question_clarification")
    [] e.type = "system_follow_up_recorded" -> WithMessage(rows, e, NoTime, e.kind)
    [] e.type = "question_outcome_cleared" ->
         SetOutcome(WithoutEvaluation(rows, e.position), e.position, "none")
    [] e.type = "question_evaluation_recorded" -> PersistEvaluation(rows, e)
    [] e.type = "unevaluated_question_outcome_recorded" -> PersistOutcome(rows, e)
    [] e.type = "question_frozen" -> PersistFreeze(rows, e)
    [] e.type = "report_stored" -> [rows EXCEPT !.reports = @ \cup {ReportOf(i, e.kind)}]
    [] e.type = "interview_abandoned" -> rows

IsTerminalEvent(e) == e.type \in {"report_stored", "interview_abandoned"}

(* The columns, and when the interview ended, are updated first.            *)
Updated(rows, i, events) ==
  [rows EXCEPT !.session = SessionColumns(i),
               !.ended = @ \/ \E n \in DOMAIN events : IsTerminalEvent(events[n])]

Saved(rows, i, events) ==
  LET saved[n \in 0..Len(events)] ==
        IF n = 0 THEN Updated(rows, i, events) ELSE PersistEvent(saved[n - 1], events[n], i)
  IN  saved[Len(events)]

Saves(events) == store' = Saved(store, interview', events)
-------------------------------------------------------------------------------
(* loadInterviewAggregate.  Every predicate is one of the checks that would *)
(* refuse the rows as corrupted.                                            *)
MessagesOf(rows, k) == {n \in DOMAIN rows.messages : rows.messages[n].position = k}

EvaluationsOf(rows, k) == {e \in rows.evaluations : e.position = k}

QuestionOf(rows, k) ==
  LET messages == {rows.messages[n] : n \in MessagesOf(rows, k)}
  IN  [material       |-> {[id |-> m.id, kind |-> m.kind] : m \in {n \in messages : n.kind \in MaterialKinds}},
       followUps      |-> {m.kind : m \in {n \in messages : n.kind \in FollowUpKinds}},
       clarifications |-> {m.id : m \in {n \in messages : n.kind = "question_clarification"}},
       evaluation     |-> UNION {e.judged : e \in EvaluationsOf(rows, k)},
       outcome        |-> rows.snapshots[k].outcome,
       frozen         |-> rows.snapshots[k].frozen]

(* Answers and the assistant's messages draw their ids from different names. *)
SameMessage(m, n) == m.id = n.id /\ (m.kind \in MaterialKinds <=> n.kind \in MaterialKinds)

QuestionFits(rows, k) ==
  LET message  == rows.messages
      snapshot == rows.snapshots[k]
  IN  /\ \A a, b \in MessagesOf(rows, k) : a # b =>
           /\ ~ SameMessage(message[a], message[b])
           /\ message[a].kind \in FollowUpKinds => message[a].kind # message[b].kind
      /\ \A a \in MessagesOf(rows, k) :
           message[a].kind = "question_clarification" =>
             message[a].requestedAt <= message[a].createdAt
      /\ Cardinality(EvaluationsOf(rows, k)) <= 1
      /\ \A e \in EvaluationsOf(rows, k) :
           e.judged \subseteq MaterialIds(QuestionOf(rows, k)) /\ e.outcome = snapshot.outcome
      /\ EvaluationsOf(rows, k) = {} => snapshot.outcome \in {"unknown", "skipped", "none"}
      /\ snapshot.frozen <=> snapshot.frozenAt # NoTime

(* The row of an operation as acceptance, retry and takeover leave it: the  *)
(* command of its plans, and last_attempt_at from the latest of them.       *)
PlansOf(op) == {p \in plans : p.command.op = op}

LastAttemptAt(op) == Max({p.acceptedAt : p \in PlansOf(op)})

MatchesRow(session, p) ==
  /\ session.pending.kind = OperationKind(p.command)
  /\ session.pending.previous = RequiredPhase(p.command)
  /\ p.position = session.pending.position
  /\ p.command.expectedVersion = session.version - 1
  /\ session.pending.acceptedAt \in {p.command.occurredAt, LastAttemptAt(p.command.op)}

PendingFits(session) ==
  session.pending.op # NoOp =>
    /\ session.phase = "processing"
    /\ session.pending.position = session.position
    /\ session.pending.op \notin failed
    /\ \E p \in PlansOf(session.pending.op) : MatchesRow(session, p)

ReportMatchesInterview(report, i) ==
  /\ Cardinality(report.covered) = Cardinality(Covered(i, report.kind))
  /\ \A k \in report.covered :
       i.questions[k].outcome # "none" /\ i.questions[k].outcome = report.outcomes[k]

ReportFits(rows, i) ==
  /\ Cardinality(rows.reports) <= 1
  /\ rows.reports = {} => i.status \notin {"completed", "early_ended"}
  /\ \A report \in rows.reports :
       /\ i.status = IF report.kind = "complete" THEN "completed" ELSE "early_ended"
       /\ ReportMatchesInterview(report, i)

ResponseState(q) ==
  ~ q.frozen /\ (q.outcome = "none" \/ HasUnansweredFollowUp(q))

ContinueState(q) == ~ q.frozen /\ q.outcome # "none"

CompleteLifecycle(i) == i.status = "completed" \/ i.reportKind = "complete"
IncompleteLifecycle(i) == i.status = "early_ended" \/ i.reportKind = "incomplete"

StateFits(i, ended) ==
  /\ i.status = "active" <=> i.phase # "none"
  /\ i.phase = "processing" <=> IsPending(i)
  /\ IsPending(i) => i.pending.position = i.position /\ i.pending.acceptedAt = i.lastActivity
  /\ i.status = "report_pending" <=> i.reportKind # "none"
  /\ i.status = "report_pending" => i.reportRequestedAt # NoTime
  /\ i.status \in {"completed", "early_ended", "abandoned"} <=> ended
  /\ \A k \in Positions :
       LET q == i.questions[k]
       IN  /\ q.frozen => q.outcome # "none"
           /\ k < i.position => q.frozen
           /\ k > i.position => q = FreshQuestion
  /\ i.status = "active" =>
       LET waits == IF i.phase = "processing" THEN i.pending.previous ELSE i.phase
       IN  IF waits = "awaiting_response" THEN ResponseState(CurrentQuestion(i))
           ELSE ContinueState(CurrentQuestion(i))
  /\ CompleteLifecycle(i) => \A k \in Positions : i.questions[k].frozen
  /\ IncompleteLifecycle(i) =>
       (\E k \in Positions : i.questions[k].outcome # "none") /\ ~ CurrentQuestion(i).frozen
  /\ i.status = "abandoned" => ~ CurrentQuestion(i).frozen

Loaded(rows) ==
  [version |-> rows.session.version, status |-> rows.session.status,
   phase |-> rows.session.phase, position |-> rows.session.position,
   questions |-> [k \in Positions |-> QuestionOf(rows, k)],
   pending |-> rows.session.pending, reportKind |-> rows.session.reportKind,
   reportRequestedAt |-> rows.session.reportRequestedAt,
   hasReport |-> rows.reports # {}, lastActivity |-> rows.session.lastActivity]

Loads(rows) ==
  /\ \A k \in Positions : QuestionFits(rows, k)
  /\ PendingFits(rows.session)
  /\ ReportFits(rows, Loaded(rows))
  /\ StateFits(Loaded(rows), rows.ended)
-------------------------------------------------------------------------------
(* findDetailByOwner: how much of the blueprint a client gets to see.      *)
HighestMessagePosition(rows) ==
  Max({0} \cup {m.position : m \in {n \in Range(rows.messages) : n.position <= rows.session.position}})

(* Fault: a question counts as visible without the one before being frozen. *)
FaultCurrentIsVisible(i) == i.status = "active"

CurrentIsVisible(i) ==
  \/ i.position = 1
  \/ i.questions[i.position - 1].frozen
  \/ CurrentQuestion(i) # [FreshQuestion EXCEPT !.frozen = CurrentQuestion(i).frozen]

TranscriptQuestionCount(rows) ==
  LET i == Loaded(rows)
      reached == IF CurrentIsVisible(i) THEN i.position ELSE i.position - 1
      allFrozen == \A k \in Positions : i.questions[k].frozen /\ i.questions[k].outcome # "none"
  IN  IF i.status = "completed" \/ (i.reportKind = "complete" /\ allFrozen) THEN QuestionCount
      ELSE Min({i.position, Max({HighestMessagePosition(rows), reached})})

(* createdAt for the first question, then when the one before was frozen. *)
QuestionRevealedAt(rows, k) == IF k = 1 THEN 0 ELSE rows.snapshots[k - 1].frozenAt

Revealed(rows) == 1..TranscriptQuestionCount(rows)
-------------------------------------------------------------------------------
(* The engine's steps, each saved with its events.  CompletedTooLate is not *)
(* among them: save refuses it (see InterviewSession).                      *)
StoredInit == Init /\ store = CreatedRows(interview)

StoredClientStep(at) ==
  \/ \E op \in Ops, type \in PlannedTypes : SubmitPlanned(op, type, at) /\ Saves(<<>>)
  \/ \E outcome \in {"unknown", "skipped"} :
       RecordOutcome(outcome, at) /\ Saves(OutcomeEvents(interview, outcome))
  \/ ContinueInterview(at) /\ Saves(FrozenEvents(interview, at))
  \/ EndInterviewEarly(at) /\ Saves(<<>>)
  \/ AbandonInterview(at) /\ Saves(AbandonedEvents)
  \/ \E p \in plans : (RetryFailed(p, at) \/ TakeOver(p, at)) /\ Saves(<<>>)
  \/ RetryReport(at) /\ Saves(<<>>)

StoredServerStep(at) ==
  \/ \E p \in plans :
       \/ Clarified(p, at) /\ Saves(ClarificationEvents(p, at))
       \/ \E kind \in FollowUpKinds :
            FollowedUp(p, kind, at) /\ Saves(FollowUpEvents(interview, p, kind, at))
       \/ \E outcome \in EvaluatedOutcomes :
            Evaluated(p, outcome, at) /\ Saves(EvaluationEvents(interview, p, outcome))
       \/ Cancelled(p) /\ Saves(<<>>)
  \/ StoreReport(at) /\ Saves(ReportEvents(interview))
  \/ ExpireOnCommand(at) /\ Saves(AbandonedEvents)

(* expireInterviewIfNeeded: the columns only, outside save. *)
StoredExpiry(at) ==
  /\ ExpireStored(at)
  /\ store' = [store EXCEPT !.session = SessionColumns(interview'), !.ended = TRUE]

StoredNext ==
  \E at \in Times : StoredClientStep(at) \/ StoredServerStep(at) \/ StoredExpiry(at)

StoredSpec == StoredInit /\ [][StoredNext]_storeVars
-------------------------------------------------------------------------------
(* Whatever the engine did, and in whatever order completions, retries and *)
(* expiry came, the rows its events left behind pass every check of the     *)
(* load and give back the very aggregate that was saved: an interview never *)
(* becomes unreadable, and nothing is lost between two requests.            *)
LoadsWhatWasSaved == Loads(store) /\ Loaded(store) = interview

(* A client sees the questions up to the one it has reached and no further, *)
(* all of them once the complete report is requested; each was revealed no  *)
(* earlier than the one before it.                                          *)
RevealsUpToCurrent ==
  /\ TranscriptQuestionCount(store) = interview.position
  /\ \A k \in Revealed(store) :
       /\ QuestionRevealedAt(store, k) # NoTime
       /\ k > 1 => QuestionRevealedAt(store, k - 1) <= QuestionRevealedAt(store, k)

(* The transcript only grows: a message, once stored, keeps its place, a    *)
(* question once revealed stays revealed at the same time, and a report     *)
(* once stored is never replaced.                                           *)
TranscriptOnlyGrows ==
  [][/\ IsPrefix(store.messages, store'.messages)
     /\ \A k \in Revealed(store) :
          k \in Revealed(store)' /\ QuestionRevealedAt(store, k)' = QuestionRevealedAt(store, k)
     /\ store.reports \subseteq store'.reports]_storeVars
===============================================================================
