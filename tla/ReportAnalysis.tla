---------------------------- MODULE ReportAnalysis ----------------------------
(***************************************************************************)
(* What apps/server/src/report-analysis-model.ts accepts: the request the  *)
(* stored facts are put in, checked once more from scratch, and the output  *)
(* a model gives.  A request is [kind, questions], each question            *)
(*   [position, domain, material, evaluation, outcome]                      *)
(* An output is [tone, perQuestion], each analysis                          *)
(*   [position, evidence, tone]                                             *)
(* where a tone stands for what the texts say: nothing that conflicts with  *)
(* any outcome, a reason for zero points, praise, private content, or what  *)
(* is refused whatever the outcomes (length, language, score claims).       *)
(***************************************************************************)
EXTENDS AnswerEvaluation

CONSTANTS
  SupportedCounts,     \* 5, 10 and 15 questions
  ShortCount,          \* 5: the count that leaves one domain out
  MaxReportItems,      \* MAX_REPORT_ANSWER_MATERIAL_ITEMS
  MaxEvidenceLength,   \* MAX_REPORT_ANSWER_EVIDENCE_CHARACTERS
  MaxAuthoredLength,   \* MAX_REPORT_MODEL_AUTHORED_INPUT_CHARACTERS
  WordingLength        \* characters of a question's two wordings

Tones == ZeroReasons \cup {"neutral", "praising", "perfect", "leaking", "unusable"}

NoEvaluation == [classification |-> "none", awards |-> <<>>]

RequiredEvidence(evaluation) ==
  UNION {evaluation.awards[n].evidence : n \in DOMAIN evaluation.awards}

ExpectedDomains(count) ==
  IF count = ShortCount THEN Cardinality(Domains) - 1 ELSE Cardinality(Domains)

(* normalizeEvaluation *)
EvaluationNormalizes(q) ==
  /\ \A n \in DOMAIN q.evaluation.awards :
       LET points == q.evaluation.awards[n].missing
       IN  /\ Len(points) <= MaxPoints
           /\ \A m \in DOMAIN points : points[m].length \in 1..MaxPointLength
  /\ CanScore(q.evaluation.classification, q.evaluation.awards, DOMAIN q.material)
  /\ q.outcome = DerivedOutcome(q.evaluation.classification, q.evaluation.awards)

(* normalizeReportQuestion *)
QuestionNormalizes(q) ==
  IF q.evaluation = NoEvaluation
  THEN q.material = <<>> /\ q.outcome \in {ZeroOutcome("unknown"), ZeroOutcome("skipped")}
  ELSE /\ Cardinality(DOMAIN q.material) \in 1..MaxEvaluatedItems
       /\ EvaluationNormalizes(q)

SumOver(questions, Size(_)) == FoldLeft(LAMBDA sum, q : sum + Size(q), 0, questions)

(* The bounds of prepareRequestFacts and validateContextBudget, which no    *)
(* earlier step keeps the stored interview within.                          *)
WithinReportBounds(request) ==
  /\ SumOver(request.questions, LAMBDA q : Cardinality(DOMAIN q.material)) <= MaxReportItems
  /\ SumOver(request.questions, LAMBDA q : CharactersOf(q.material)) <= MaxEvidenceLength
  /\ SumOver(request.questions, LAMBDA q : WordingLength
                + LengthOfPoints(PointsOfAwards(q.evaluation.awards))) <= MaxAuthoredLength

CoverageFits(request) ==
  /\ request.kind = "complete" =>
       /\ Len(request.questions) \in SupportedCounts
       /\ Cardinality(AssessedDomains(request.questions)) = ExpectedDomains(Len(request.questions))
  /\ Len(request.questions) \in 1..Max(SupportedCounts)
  /\ IsInjective([n \in DOMAIN request.questions |-> request.questions[n].position])

(* prepareRequestFacts, but for the bounds. *)
RequestNormalizes(request) ==
  /\ CoverageFits(request)
  /\ \A n \in DOMAIN request.questions : QuestionNormalizes(request.questions[n])
-------------------------------------------------------------------------------
(* validateOutcomeLanguage *)
ToneFits(outcome, tone) ==
  /\ tone \in ZeroReasons => outcome.kind = tone
  /\ tone = "praising" => outcome.score > 0
  /\ tone = "perfect" => outcome.score = FullScore

(* validateAggregateOutcomeLanguage *)
GlobalToneFits(questions, tone) ==
  /\ tone = "praising" => \E n \in DOMAIN questions : questions[n].outcome.score > 0
  /\ tone = "perfect" => \A n \in DOMAIN questions : questions[n].outcome.score = FullScore

EvidenceFits(q, evidence) ==
  /\ evidence \subseteq DOMAIN q.material
  /\ q.evaluation # NoEvaluation <=> evidence # {}
  /\ RequiredEvidence(q.evaluation) \subseteq evidence

(* validateDomainOutput *)
AnalysisAccepted(request, output) ==
  /\ output.tone \notin {"leaking", "unusable"}
  /\ GlobalToneFits(request.questions, output.tone)
  /\ Len(output.perQuestion) = Len(request.questions)
  /\ \A n \in DOMAIN output.perQuestion :
       LET q == request.questions[n]
           analysis == output.perQuestion[n]
       IN  /\ analysis.position = q.position
           /\ analysis.tone \notin {"leaking", "unusable"}
           /\ ToneFits(q.outcome, analysis.tone)
           /\ EvidenceFits(q, analysis.evidence)
===============================================================================
