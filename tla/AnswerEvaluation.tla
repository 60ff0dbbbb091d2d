---------------------------- MODULE AnswerEvaluation ----------------------------
(***************************************************************************)
(* What apps/server/src/answer-evaluation-model.ts accepts: the request    *)
(* one evaluation is asked with and the output a model gives.  A request is *)
(*   [position, material, usedKinds]                                        *)
(* with the characters of each answer material by its id.  An output, past  *)
(* the JSON schema of packages/contracts/src/model-outputs.ts, is           *)
(*   [classification, awards, recommendation]                               *)
(* where a missing point has a length and the set of questions whose        *)
(* private content (rubric, goals, explanation) its wording exposes, and a  *)
(* recommendation names a goal by the kind it has in the question bank.     *)
(***************************************************************************)
EXTENDS Scoring

CONSTANTS
  MaxEvaluatedItems,   \* MAX_EVALUATION_ANSWER_MATERIAL_ITEMS
  EvaluationRoom,      \* characters of answers that fit the context fraction
  MaxPoints,           \* MAX_MISSING_OR_INCORRECT_POINTS_PER_ITEM
  MaxPointLength,      \* MAX_MISSING_OR_INCORRECT_POINT_CHARACTERS
  MaxPointsLength      \* MAX_MISSING_OR_INCORRECT_TOTAL_CHARACTERS

ASSUME LimitsAssumption == {MaxEvaluatedItems, MaxPoints, MaxPointLength} \subseteq Nat

GoalKinds == {"clarification", "depth"}

NoRecommendation == [goal |-> "none", kind |-> "none", purpose |-> "none"]

(* What the output's JSON schema lets through, as far as it matters.        *)
IsOutput(output) ==
  /\ output.classification \in Classifications
  /\ DOMAIN output.awards = 1..Len(output.awards)
  /\ output.recommendation = NoRecommendation \/ output.recommendation.kind \in GoalKinds

CharactersOf(material) == SumFunction(material)

(* validateRequest and validateContextBudget of the first call. *)
EvaluationRequestFits(request) ==
  /\ request.material # <<>>
  /\ Cardinality(DOMAIN request.material) <= MaxEvaluatedItems
  /\ CharactersOf(request.material) <= EvaluationRoom

PointsOfAwards(awards) == FoldLeft(LAMBDA all, a : all \o a.missing, <<>>, awards)

LengthOfPoints(points) == FoldLeft(LAMBDA sum, p : sum + p.length, 0, points)

(* Fault: the list of points of an item may be one too long.               *)
FaultMissingPointsFit(award) ==
  /\ Len(award.missing) <= MaxPoints + 1
  /\ award.points < Weight[award.item] <=> award.missing # <<>>

MissingPointsFit(award) ==
  /\ Len(award.missing) <= MaxPoints
  /\ award.points < Weight[award.item] <=> award.missing # <<>>

PointsAreSayable(awards, position) ==
  /\ \A a \in Range(awards) : \A p \in Range(a.missing) :
       p.length \in 1..MaxPointLength /\ position \notin p.exposes
  /\ LengthOfPoints(PointsOfAwards(awards)) <= MaxPointsLength

(* Fault: a first irrelevant answer need not be clarified.                 *)
FaultRecommendationFits(output, usedKinds) ==
  LET r == output.recommendation
  IN  r # NoRecommendation =>
        r.goal = r.kind /\ r.kind \notin usedKinds /\ (r.kind = "depth" <=> r.purpose = "depth")

(* validateRecommendation *)
RecommendationFits(output, usedKinds) ==
  LET r == output.recommendation
      irrelevant == output.classification = "irrelevant"
  IN  IF r = NoRecommendation THEN irrelevant => "clarification" \in usedKinds
      ELSE /\ r.goal = r.kind /\ r.kind \notin usedKinds
           /\ r.kind = "depth" <=> r.purpose = "depth"
           /\ irrelevant <=> r.purpose = "irrelevant_response_clarification"

(* validateDomainOutput *)
EvaluationAccepted(request, output) ==
  /\ Len(output.awards) = Cardinality(Items)
  /\ ItemsOf(output.awards) = Items
  /\ \A n \in DOMAIN output.awards :
       LET award == output.awards[n]
       IN  /\ award.points <= Weight[award.item]
           /\ award.points > 0 => award.evidence # {}
           /\ award.evidence \subseteq DOMAIN request.material
           /\ MissingPointsFit(award)
  /\ PointsAreSayable(output.awards, request.position)
  /\ output.classification = "irrelevant" => PointsOf(output.awards) = 0
  /\ RecommendationFits(output, request.usedKinds)
  /\ CanScore(output.classification, output.awards, DOMAIN request.material)
===============================================================================
