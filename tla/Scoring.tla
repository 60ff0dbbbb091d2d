---------------------------- MODULE Scoring ----------------------------
(***************************************************************************)
(* The deterministic scores of packages/domain/src/scoring.ts.  A model's  *)
(* awards, one per rubric item, make a question's outcome; the outcomes    *)
(* make the domain scores and the overall score.  An award is              *)
(*   [item, points, evidence, missing]                                      *)
(* with the answer material it rests on and the sequence of what was        *)
(* missing or wrong.  Operators Can... say when the code does not throw.    *)
(***************************************************************************)
EXTENDS Integers, SequencesExt

CONSTANTS
  Items,        \* rubric items; one rubric stands for every question's
  Weight,       \* the weight of each
  FullScore,    \* 100: what the weights of a rubric add up to
  Domains       \* KNOWLEDGE_DOMAINS

ASSUME RubricAssumption ==
  /\ IsFiniteSet(Items) /\ IsFiniteSet(Domains) /\ FullScore \in Nat
  /\ Weight \in [Items -> 1..FullScore]
  /\ SumFunction(Weight) = FullScore

Classifications == {"relevant", "ambiguous", "irrelevant"}

ZeroReasons == {"incorrect", "unknown", "skipped", "irrelevant"}

ZeroOutcome(reason) == [kind |-> reason, score |-> 0]

PointsOf(awards) == SumFunction([n \in DOMAIN awards |-> awards[n].points])

ItemsOf(awards) == {awards[n].item : n \in DOMAIN awards}

CanDerive(classification, awards) ==
  /\ Cardinality(ItemsOf(awards)) = Len(awards)
  /\ \A n \in DOMAIN awards : awards[n].points \in 0..FullScore
  /\ classification = "irrelevant" => PointsOf(awards) = 0
  /\ PointsOf(awards) <= FullScore

(* deriveEvaluatedQuestionOutcome *)
DerivedOutcome(classification, awards) ==
  IF classification = "irrelevant" THEN ZeroOutcome("irrelevant")
  ELSE IF PointsOf(awards) = 0 THEN ZeroOutcome("incorrect")
  ELSE [kind |-> "scored", score |-> PointsOf(awards)]

(* scoreQuestion, for answer material with the given ids. *)
CanScore(classification, awards, materialIds) ==
  /\ Len(awards) = Cardinality(Items)
  /\ \A n \in DOMAIN awards :
       /\ awards[n].item \in Items
       /\ awards[n].points \in 0..Weight[awards[n].item]
       /\ awards[n].points > 0 => awards[n].evidence # {}
       /\ awards[n].evidence \subseteq materialIds
  /\ CanDerive(classification, awards)
-------------------------------------------------------------------------------
(* Math.round: halves go up. *)
RoundedAverage(sum, count) == (2 * sum + count) \div (2 * count)

(* Fault: the average is cut off instead of rounded.                       *)
FaultOverallScore(scores) == SumFunction(scores) \div Len(scores)

OverallScore(scores) == RoundedAverage(SumFunction(scores), Len(scores))

ScoresOf(questions) == [n \in DOMAIN questions |-> questions[n].outcome.score]

Unassessed == [count |-> 0, score |-> 0]

(* aggregateDomainScores, of a sequence of [domain, outcome]. *)
DomainScores(questions) ==
  [d \in Domains |->
     LET mine  == {n \in DOMAIN questions : questions[n].domain = d}
         count == Cardinality(mine)
     IN  IF mine = {} THEN Unassessed
         ELSE [count |-> count,
               score |-> RoundedAverage(SumFunctionOnSet(ScoresOf(questions), mine), count)]]

AssessedDomains(questions) == {d \in Domains : DomainScores(questions)[d].count > 0}
===============================================================================
