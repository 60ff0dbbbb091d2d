---------------------------- MODULE ReportBuilder ----------------------------
(***************************************************************************)
(* From a stored interview to a stored report: the request for the         *)
(* analysis and the snapshot made of it (apps/server/src/                   *)
(* operation-report-builder.ts), the snapshot's own rules (packages/domain/ *)
(* src/reports.ts) and the repository's, which compares it with the rows it *)
(* is stored beside (packages/db/src/repositories/report-repository.ts,     *)
(* validation.ts).  Three layers check the same facts independently, none   *)
(* calling another's rules.  `texts` gives the characters of each accepted  *)
(* material and `facts` the evaluation and outcome of each question.        *)
(***************************************************************************)
EXTENDS ReportAnalysis, InterviewTypes

CONSTANT DomainOf    \* the domain of the question at each position

(* What validateInterviewBlueprintCoverage lets a blueprint be.             *)
ASSUME BlueprintAssumption ==
  /\ SupportedCounts \subseteq Nat \ {0} /\ IsFiniteSet(SupportedCounts)
  /\ QuestionCount \in SupportedCounts
  /\ DomainOf \in [Positions -> Domains]
  /\ Cardinality(Range(DomainOf)) = ExpectedDomains(QuestionCount)

NoFacts == [evaluation |-> NoEvaluation, outcome |-> [kind |-> "none", score |-> 0]]

NoReport == [kind |-> "none"]

MaterialOf(i, texts, k) == [id \in MaterialIds(i.questions[k]) |-> texts[id]]

(* Positions of the questions that have an outcome, in order. *)
Reported(i) ==
  LET ended == {k \in Positions : i.questions[k].outcome # "none"}
  IN  [n \in 1..Cardinality(ended) |->
         CHOOSE k \in ended : Cardinality({j \in ended : j <= k}) = n]

(* createReportAnalysisRequest *)
CanRequestReport(i, facts) ==
  /\ i.status = "report_pending" /\ i.reportKind # "none"
  /\ Reported(i) # <<>>
  /\ i.reportKind = "complete" => Len(Reported(i)) = QuestionCount
  /\ \A k \in Range(Reported(i)) :
       facts[k].evaluation = NoEvaluation => facts[k].outcome.kind \in {"unknown", "skipped"}

(* Fault: what was answered before a question was given up is sent along.  *)
FaultReportQuestion(i, texts, facts, k) ==
  [position |-> k, domain |-> DomainOf[k], evaluation |-> facts[k].evaluation,
   outcome |-> facts[k].outcome, material |-> MaterialOf(i, texts, k)]

ReportQuestion(i, texts, facts, k) ==
  [position |-> k, domain |-> DomainOf[k], evaluation |-> facts[k].evaluation,
   outcome |-> facts[k].outcome,
   material |-> IF facts[k].evaluation = NoEvaluation THEN <<>> ELSE MaterialOf(i, texts, k)]

ReportRequest(i, texts, facts) ==
  LET reported == Reported(i)
  IN  [kind |-> i.reportKind,
       questions |-> [n \in DOMAIN reported |-> ReportQuestion(i, texts, facts, reported[n])]]
-------------------------------------------------------------------------------
(* createReportPersistence. *)
(* assertNoPrivateReportContent: the private content of every reported      *)
(* question against the points of every evaluation.                         *)
ExposesPrivateContent(request) ==
  \E n, m \in DOMAIN request.questions :
    \E p \in Range(PointsOfAwards(request.questions[n].evaluation.awards)) :
      request.questions[m].position \in p.exposes

QuestionReference(k) == <<"question_snapshot", k>>
AnswerReferences(ids) == {<<"answer_material", id>> : id \in ids}

MatchedPoints(q) ==
  LET awards == q.evaluation.awards
  IN  {[item |-> awards[n].item, points |-> awards[n].points,
        evidence |-> AnswerReferences(awards[n].evidence)] :
         n \in {m \in DOMAIN awards : awards[m].points > 0}}

UnansweredPoint(k) ==
  [item |-> CHOOSE item \in Items : TRUE, point |-> [length |-> 1, exposes |-> {}],
   evidence |-> {QuestionReference(k)}]

MissingPoints(q) ==
  IF q.evaluation = NoEvaluation THEN {UnansweredPoint(q.position)}
  ELSE UNION {{[item |-> a.item, point |-> p, evidence |-> {QuestionReference(q.position)}] :
                 p \in Range(a.missing)} : a \in Range(q.evaluation.awards)}

(* createZeroPointFeedbackText replaces or introduces the model's text. *)
FeedbackTone(outcome, tone) == IF outcome.kind = "scored" THEN tone ELSE outcome.kind

(* createGlobalReportText *)
GlobalTone(questions, tone) ==
  IF \A n \in DOMAIN questions : questions[n].outcome.score = 0 THEN "neutral" ELSE tone

(* Fault: the evidence of the awards is not part of the question's.        *)
FaultFeedback(q, analysis) ==
  [position |-> q.position, domain |-> q.domain, outcome |-> q.outcome,
   tone |-> FeedbackTone(q.outcome, analysis.tone),
   matched |-> MatchedPoints(q), missing |-> MissingPoints(q),
   evidence |-> AnswerReferences(analysis.evidence)]

(* createReportQuestionFeedback *)
Feedback(q, analysis) ==
  [position |-> q.position, domain |-> q.domain, outcome |-> q.outcome,
   tone |-> FeedbackTone(q.outcome, analysis.tone),
   matched |-> MatchedPoints(q), missing |-> MissingPoints(q),
   evidence |-> {QuestionReference(q.position)} \cup AnswerReferences(analysis.evidence)
                  \cup UNION {p.evidence : p \in MatchedPoints(q)}]

NoOverall == -1

Snapshot(request, analysis) ==
  [kind |-> request.kind,
   tone |-> GlobalTone(request.questions, analysis.tone),
   questions |-> [n \in DOMAIN request.questions |->
                    Feedback(request.questions[n], analysis.perQuestion[n])],
   domains |-> DomainScores(request.questions),
   overall |-> IF request.kind = "complete" THEN OverallScore(ScoresOf(request.questions))
               ELSE NoOverall]
-------------------------------------------------------------------------------
(* parseImmutableReportSnapshot: decodeSnapshot and semanticIssues. *)
References(f) == f.matched \cup f.missing

FeedbackParses(f) ==
  /\ f.evidence # {}
  /\ \A p \in References(f) : p.evidence # {} /\ p.evidence \subseteq f.evidence
  /\ \A r \in f.evidence : r[1] = "question_snapshot" => r = QuestionReference(f.position)
  /\ Cardinality({p.item : p \in f.matched}) = Cardinality(f.matched)
  /\ SumFunction([p \in f.matched |-> p.points]) = f.outcome.score
  /\ f.outcome.kind = "scored" <=> f.outcome.score > 0

SnapshotParses(s) ==
  /\ {s.questions[n].position : n \in DOMAIN s.questions} = 1..Len(s.questions)
  /\ \A n \in DOMAIN s.questions : FeedbackParses(s.questions[n])
  /\ s.domains = DomainScores(s.questions)
  /\ Len(s.questions) \in 1..Max(SupportedCounts)
  /\ IF s.kind = "complete"
     THEN /\ Len(s.questions) \in SupportedCounts
          /\ Cardinality(AssessedDomains(s.questions)) = ExpectedDomains(Len(s.questions))
          /\ s.overall = OverallScore(ScoresOf(s.questions))
     ELSE s.overall = NoOverall

(* insert and assertReportMatchesInterview, against the persisted facts. *)
PointIsPersisted(p, evaluation, outcome) ==
  IF evaluation = NoEvaluation THEN outcome.kind \in {"unknown", "skipped"}
  ELSE \E a \in Range(evaluation.awards) : a.item = p.item /\ p.point \in Range(a.missing)

AwardIsPersisted(p, evaluation) ==
  \E a \in Range(evaluation.awards) :
    a.item = p.item /\ a.points = p.points /\ p.evidence \subseteq AnswerReferences(a.evidence)

FeedbackMatchesRows(f, i, facts) ==
  LET evaluation == facts[f.position].evaluation
      persisted == RequiredEvidence(evaluation)
  IN  /\ f.outcome = facts[f.position].outcome /\ f.domain = DomainOf[f.position]
      /\ f.evidence \subseteq {QuestionReference(f.position)}
                                \cup AnswerReferences(MaterialIds(i.questions[f.position]))
      /\ \A p \in f.matched : AwardIsPersisted(p, evaluation)
      /\ \A p \in f.missing :
           /\ PointIsPersisted(p, evaluation, f.outcome)
           /\ p.evidence \subseteq {QuestionReference(f.position)} \cup AnswerReferences(persisted)

StoreAcceptsReport(s, i, facts) ==
  /\ Len(s.questions) = IF s.kind = "complete" THEN QuestionCount ELSE Len(Reported(i))
  /\ \A n \in DOMAIN s.questions : FeedbackMatchesRows(s.questions[n], i, facts)
===============================================================================
