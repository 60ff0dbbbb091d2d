------------------------------ MODULE MCAssessment ------------------------------
(***************************************************************************)
(* Two questions of one domain, a rubric of two items (weights 1 and 2),   *)
(* answers of one or twenty thousand characters.  The outputs offered are    *)
(* the ones near the edges of the acceptance rules: each departs from a     *)
(* good one in one respect.                                                 *)
(***************************************************************************)
EXTENDS Assessment

MCOps == {<<k, n>> : k \in 1..2, n \in 1..2}
MCNoOp == <<0, 0>>
MCWeight == [item \in {"a", "b"} |-> IF item = "a" THEN 1 ELSE 2]
MCDomainOf == [k \in 1..2 |-> "d1"]

Point(exposes) == [length |-> 1, exposes |-> exposes]
Award(item, points, evidence, missing) ==
  [item |-> item, points |-> points, evidence |-> evidence, missing |-> missing]

Main(k) == {<<k, 1>>}
Others(k) == {3 - k}

(* Full and half points for question 1, few and none for question 2; no     *)
(* adapter accepts the last two lists.                                       *)
AwardLists(k) ==
  (IF k = 1
   THEN { <<Award("a", 1, Main(k), <<>>), Award("b", 2, Main(k), <<>>)>>,
          <<Award("b", 1, {<<k, 2>>}, <<Point({})>>), Award("a", 1, Main(k), <<>>)>> }
   ELSE { <<Award("a", 1, Main(k), <<>>), Award("b", 0, {}, <<Point({})>>)>>,
          <<Award("a", 0, {}, <<Point({})>>), Award("b", 0, Main(k), <<Point(Others(k))>>)>> })
  \cup { <<Award("a", 0, {}, <<Point({})>>), Award("b", 0, {}, <<Point({}), Point({})>>)>>,
         <<Award("a", 0, {}, <<Point({k})>>), Award("b", 2, {}, <<>>)>> }

Recommendations ==
  { NoRecommendation,
    [goal |-> "clarification", kind |-> "clarification", purpose |-> "irrelevant_response_clarification"],
    [goal |-> "depth", kind |-> "depth", purpose |-> "depth"] }

MCEvaluationOutputs ==
  [k \in 1..2 |->
     {[classification |-> c, awards |-> awards, recommendation |-> r] :
        c \in {"relevant", "irrelevant"}, awards \in AwardLists(k), r \in Recommendations}]

(* The sound analysis, and those that differ from it in one text or in the *)
(* evidence of one question.                                                *)
MCAnalysisOutputs(request) ==
  LET sound == SoundAnalysis
      reported == DOMAIN request.questions
  IN  {sound, [sound EXCEPT !.tone = "praising"]}
      \cup {[sound EXCEPT !.perQuestion[n].tone = "unknown"] : n \in reported}
      \cup UNION {{[sound EXCEPT !.perQuestion[n].evidence = evidence] :
                       evidence \in SUBSET DOMAIN request.questions[n].material} : n \in reported}
===============================================================================
