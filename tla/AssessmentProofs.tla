---------------------------- MODULE AssessmentProofs ----------------------------
(***************************************************************************)
(* Proofs about Assessment, for every rubric, blueprint and number of       *)
(* questions, whatever the model answers and however often calls fail, are  *)
(* repaired or are retried.  One inductive invariant, AssessmentInv, says   *)
(* what of an evaluation is left in the interview and what of a checked      *)
(* request still holds; what it gives a request, an analysis and a report    *)
(* is then a matter of the operators of Scoring, ReportAnalysis and          *)
(* ReportBuilder, which the lemmas before it are about.                      *)
(***************************************************************************)
EXTENDS Assessment, InterviewEngineProofs, WellFoundedInduction, SequenceTheorems

(* A record of the fields of a call, whatever their values. *)
IsCall(c) ==
  c \in [stage : {c.stage}, type : {c.type}, length : {c.length}, prepared : {c.prepared},
         repairing : {c.repairing}, retries : {c.retries}, output : {c.output}]

(* The commands, plans and requests of Assessment for an interview i, texts t *)
(* and a call c.                                                              *)
CommandFor(i, type) ==
  [type |-> type, op |-> NextOp(i), expectedVersion |-> i.version, occurredAt |-> 0]

PlanFor(i, type) == PlanOf(i, CommandFor(i, type), i, 0)

EvaluationFor(i, t, c) ==
  [position |-> i.position,
   material |-> [id \in MaterialIds(CurrentQuestion(i)) \cup {NextOp(i)} |->
                   [t EXCEPT ![NextOp(i)] = c.length][id]],
   usedKinds |-> CurrentQuestion(i).followUps]

(* The inductive invariant.  The interview keeps the invariant of its engine, *)
(* and an operation is pending exactly while an answer is worked on: the one   *)
(* the plan rebuilt from the interview is for, whose material is not there yet. *)
Answers(i, type) ==
  /\ type \in {"submit_answer", "submit_supplement"}
  /\ NextOp(i) \in Ops
  /\ NextOp(i) \notin MaterialIds(CurrentQuestion(i))

StagesFit(i, c) ==
  /\ c.stage \in AnswerStages => Answers(i, c.type) /\ IsAccepted(i, PlanFor(i, c.type))
  /\ c.stage \notin AnswerStages => ~ IsPending(i)
  /\ c.stage \in ReportStages => i.status = "report_pending"
  /\ c.stage = "failed" /\ i.status = "active" =>
       Answers(i, c.type) /\ FitsPhase(i, CommandFor(i, c.type))
  /\ c.prepared => c.stage \in {"evaluating", "phrasing", "analyzing"}

(* What an adapter checked still fits: the request is checked once, before    *)
(* the first input, and the output when it comes, however many failures,       *)
(* repairs and calls follow.                                                   *)
ChecksHold(i, t, fs, c) ==
  /\ c.stage = "evaluating" /\ c.prepared => EvaluationRequestFits(EvaluationFor(i, t, c))
  /\ c.stage \in {"phrasing", "completing"} =>
       /\ EvaluationRequestFits(EvaluationFor(i, t, c))
       /\ IsOutput(c.output) /\ EvaluationAccepted(EvaluationFor(i, t, c), c.output)
  /\ c.stage = "storing" => AnalysisAccepted(ReportRequest(i, t, fs), c.output)

(* What a question with an outcome was left with: the reason it got no points *)
(* for, or an evaluation of material the question still has.                   *)
FactFits(ids, fact) ==
  IF fact.evaluation = NoEvaluation
  THEN fact.outcome \in {ZeroOutcome("unknown"), ZeroOutcome("skipped")}
  ELSE /\ Cardinality(ids) \in 1..MaxEvaluatedItems
       /\ DOMAIN fact.evaluation.awards = 1..Len(fact.evaluation.awards)
       /\ \A n \in DOMAIN fact.evaluation.awards :
            LET points == fact.evaluation.awards[n].missing
            IN  /\ Len(points) <= MaxPoints
                /\ \A m \in DOMAIN points : points[m].length \in 1..MaxPointLength
       /\ CanScore(fact.evaluation.classification, fact.evaluation.awards, ids)
       /\ fact.outcome = DerivedOutcome(fact.evaluation.classification, fact.evaluation.awards)

FactsOf(i, fs) ==
  \A k \in Positions :
    i.questions[k].outcome # "none" => FactFits(MaterialIds(i.questions[k]), fs[k])

(* What a report may be printed with. *)
Coherent(s) ==
  LET scores == {s.domains[d].score : d \in {e \in Domains : s.domains[e].count > 0}}
  IN  /\ s.kind = "complete" => s.overall \in Min(scores)..Max(scores)
      /\ GlobalToneFits(s.questions, s.tone)
      /\ \A n \in DOMAIN s.questions : ToneFits(s.questions[n].outcome, s.questions[n].tone)

AssessmentInv ==
  /\ interview \in Interview /\ Sound(interview)
  /\ DOMAIN facts = Positions /\ FactsOf(interview, facts)
  /\ IsCall(call) /\ StagesFit(interview, call) /\ ChecksHold(interview, texts, facts, call)
  /\ report # NoReport => Coherent(report)

-------------------------------------------------------------------------------
(* Finite sets.  A set of sets to which a set belongs with all its smaller   *)
(* subsets has every finite set: one left out would have a smallest subset   *)
(* left out.                                                                *)

LEMMA LeastNatural ==
  ASSUME NEW T \in SUBSET Nat, T # {}
  PROVE  \E x \in T : \A y \in T : x <= y
<1> DEFINE R == {ss \in Nat \X Nat : ss[1] < ss[2]}
<1>1. IsWellFoundedOn(R, Nat)
  BY NatLessThanWellFounded DEF OpToRel
<1>2. ASSUME NEW x \in Nat, NEW y \in Nat, ~ (<<y, x>> \in R)
      PROVE  x <= y
  <2>1. <<y, x>> \in Nat \X Nat /\ <<y, x>>[1] = y /\ <<y, x>>[2] = x
    OBVIOUS
  <2>2. ~ (y < x)
    BY <1>2, <2>1
  <2>3. QED
    BY <2>2
<1> HIDE DEF R
<1>3. \E x \in T : \A y \in T : ~ (<<y, x>> \in R)
  BY <1>1, WFMin
<1>4. QED
  BY <1>2, <1>3

LEMMA NaturalSteps ==
  ASSUME NEW G, 0 \in G, \A n \in Nat : n \in G => n + 1 \in G
  PROVE  Nat \subseteq G
<1> DEFINE T == Nat \ G
<1>1. ASSUME T # {}
      PROVE  FALSE
  <2>1. PICK m \in T : \A y \in T : m <= y
    <3>1. T \in SUBSET Nat
      OBVIOUS
    <3> HIDE DEF T
    <3>2. QED
      BY <1>1, <3>1, LeastNatural
  <2>2. m \in Nat /\ m # 0 /\ m - 1 \in Nat /\ m - 1 \notin T
    BY <2>1
  <2>3. (m - 1) + 1 \in G
    BY <2>2
  <2>4. QED
    BY <2>2, <2>3
<1>2. QED
  BY <1>1

LEMMA FiniteSteps ==
  ASSUME NEW S, IsFiniteSet(S), NEW G,
         \A T \in SUBSET S : (\A U \in SUBSET T : U # T => U \in G) => T \in G
  PROVE  S \in G
<1> DEFINE Left == {T \in SUBSET S : T \notin G}
           Sizes == {Cardinality(T) : T \in Left}
<1>1. \A T \in SUBSET S : IsFiniteSet(T) /\ Cardinality(T) \in Nat
  BY FS_Subset, FS_CardinalityType
<1>2. ASSUME S \notin G
      PROVE  FALSE
  <2>1. Sizes \in SUBSET Nat /\ Sizes # {}
    BY <1>1, <1>2
  <2>2. PICK least \in Sizes : \A y \in Sizes : least <= y
    <3> HIDE DEF Sizes
    <3>1. QED
      BY <2>1, LeastNatural
  <2>3. PICK T \in Left : Cardinality(T) = least
    BY <2>2
  <2>4. PICK U \in SUBSET T : U # T /\ U \notin G
    BY <2>3
  <2>5. /\ Cardinality(U) <= Cardinality(T) /\ Cardinality(U) # Cardinality(T)
        /\ Cardinality(U) \in Nat /\ Cardinality(T) \in Nat
    BY <1>1, <2>3, <2>4, FS_Subset
  <2>6. Cardinality(U) \in Sizes
    BY <2>4
  <2>7. least <= Cardinality(U)
    <3> HIDE DEF Sizes
    <3>1. QED
      BY <2>2, <2>6
  <2>8. QED
    BY <2>3, <2>5, <2>7
<1>3. QED
  BY <1>2

-------------------------------------------------------------------------------
(* Sums.  SumFunctionOnSet takes its terms in an order of its own; a sum of  *)
(* integers is the same in every order.                                     *)

Chosen(s) == CHOOSE x \in s : TRUE

IsSum(it, f, S) ==
  it = [s \in SUBSET S |-> IF s = {} THEN 0 ELSE f[Chosen(s)] + it[s \ {Chosen(s)}]]

LEMMA SumExists ==
  ASSUME NEW f, NEW S, IsFiniteSet(S)
  PROVE  \E it : IsSum(it, f, S)
<1> DEFINE Small(n) == {s \in SUBSET S : Cardinality(s) <= n}
           Term(it, s) == IF s = {} THEN 0 ELSE f[Chosen(s)] + it[s \ {Chosen(s)}]
           Has(n) == \E it : it = [s \in Small(n) |-> Term(it, s)]
           G == {n \in Nat : Has(n)}
<1>1. \A s \in SUBSET S : /\ IsFiniteSet(s) /\ Cardinality(s) \in Nat
                          /\ Cardinality(s) <= Cardinality(S)
                          /\ s # {} => Cardinality(s \ {Chosen(s)}) = Cardinality(s) - 1
  <2>1. \A s \in SUBSET S : IsFiniteSet(s) /\ Cardinality(s) <= Cardinality(S)
    BY FS_Subset
  <2>2. \A s \in SUBSET S : s # {} => Chosen(s) \in s
    BY DEF Chosen
  <2>3. QED
    BY <2>1, <2>2, FS_RemoveElement, FS_CardinalityType
<1>2. 0 \in G
  <2> DEFINE g == [s \in Small(0) |-> 0]
  <2>1. \A s \in Small(0) : s = {}
    <3>1. ASSUME NEW s \in Small(0)
          PROVE  s = {}
      <4>1. s \in SUBSET S /\ Cardinality(s) <= 0
        BY <3>1
      <4>2. IsFiniteSet(s) /\ Cardinality(s) \in Nat
        BY <1>1, <4>1
      <4> HIDE DEF Small
      <4>3. Cardinality(s) = 0
        BY <4>1, <4>2
      <4>4. QED
        BY <4>2, <4>3, FS_EmptySet
    <3>2. QED
      BY <3>1
  <2>2. g = [s \in Small(0) |-> Term(g, s)]
    BY <2>1
  <2>3. QED
    BY <2>2
<1>3. ASSUME NEW n \in Nat, n \in G
      PROVE  n + 1 \in G
  <2>1. PICK g : g = [s \in Small(n) |-> Term(g, s)]
    BY <1>3
  <2> DEFINE h == [s \in Small(n + 1) |-> Term(g, s)]
  <2>2. \A s \in Small(n) : s \in Small(n + 1) /\ h[s] = g[s]
    <3>1. ASSUME NEW s \in Small(n)
          PROVE  s \in Small(n + 1)
      <4>1. s \in SUBSET S /\ Cardinality(s) <= n /\ Cardinality(s) \in Nat
        BY <1>1, <3>1
      <4>2. \A c \in Nat : c <= n => c <= n + 1
        OBVIOUS
      <4>3. QED
        BY <4>1, <4>2
    <3>2. \A s \in Small(n) : g[s] = Term(g, s)
      BY <2>1
    <3>3. QED
      BY <3>1, <3>2
  <2>3. \A s \in Small(n + 1) : s # {} => s \ {Chosen(s)} \in Small(n)
    BY <1>1
  <2>4. \A s \in Small(n + 1) : Term(g, s) = Term(h, s)
    <3> HIDE DEF h
    <3>1. QED
      BY <2>2, <2>3
  <2>5. h = [s \in Small(n + 1) |-> Term(h, s)]
    BY <2>4
  <2>6. Has(n + 1)
    BY <2>5
  <2>7. n + 1 \in Nat
    OBVIOUS
  <2> HIDE DEF Has
  <2>8. QED
    BY <2>6, <2>7
<1>4. Cardinality(S) \in G
  <2>1. Nat \subseteq G
    <3> HIDE DEF G
    <3>1. QED
      BY <1>2, <1>3, NaturalSteps
  <2>2. Cardinality(S) \in Nat
    BY <1>1
  <2>3. QED
    BY <2>1, <2>2
<1>5. Small(Cardinality(S)) = SUBSET S
  BY <1>1
<1>6. QED
  BY <1>4, <1>5 DEF IsSum

LEMMA SumIs ==
  ASSUME NEW f, NEW S, IsFiniteSet(S)
  PROVE  \E it : IsSum(it, f, S) /\ SumFunctionOnSet(f, S) = it[S]
<1> DEFINE it == CHOOSE it : IsSum(it, f, S)
<1>1. IsSum(it, f, S)
  BY SumExists
<1>2. SumFunctionOnSet(f, S) = it[S]
  BY DEF SumFunctionOnSet, FoldFunctionOnSet, MapThenFoldSet, IsSum, Chosen
<1>3. QED
  BY <1>1, <1>2

LEMMA SumUnique ==
  ASSUME NEW f, NEW S, NEW T, IsFiniteSet(S), T \subseteq S,
         NEW it, IsSum(it, f, S), NEW jt, IsSum(jt, f, T)
  PROVE  it[T] = jt[T]
<1> DEFINE G == {U \in SUBSET T : it[U] = jt[U]}
<1>1. ASSUME NEW U \in SUBSET T, \A V \in SUBSET U : V # U => V \in G
      PROVE  U \in G
  <2>1. /\ it[U] = IF U = {} THEN 0 ELSE f[Chosen(U)] + it[U \ {Chosen(U)}]
        /\ jt[U] = IF U = {} THEN 0 ELSE f[Chosen(U)] + jt[U \ {Chosen(U)}]
    BY DEF IsSum
  <2>2. U # {} => U \ {Chosen(U)} \in G
    <3>1. U # {} => Chosen(U) \in U
      BY DEF Chosen
    <3>2. QED
      BY <1>1, <3>1
  <2>3. QED
    BY <2>1, <2>2
<1>2. IsFiniteSet(T)
  BY FS_Subset
<1>3. T \in G
  <2> HIDE DEF G
  <2>1. QED
    BY <1>1, <1>2, FiniteSteps
<1>4. QED
  BY <1>3

LEMMA SumUnfolds ==
  ASSUME NEW f, NEW S, IsFiniteSet(S)
  PROVE  SumFunctionOnSet(f, S)
           = IF S = {} THEN 0 ELSE f[Chosen(S)] + SumFunctionOnSet(f, S \ {Chosen(S)})
<1>1. PICK it : IsSum(it, f, S) /\ SumFunctionOnSet(f, S) = it[S]
  BY SumIs
<1>2. it[S] = IF S = {} THEN 0 ELSE f[Chosen(S)] + it[S \ {Chosen(S)}]
  BY <1>1 DEF IsSum
<1> DEFINE T == S \ {Chosen(S)}
<1>3. IsFiniteSet(T) /\ T \subseteq S
  BY FS_Subset
<1> HIDE DEF T
<1>4. PICK jt : IsSum(jt, f, T) /\ SumFunctionOnSet(f, T) = jt[T]
  BY <1>3, SumIs
<1>5. it[T] = jt[T]
  BY <1>1, <1>3, <1>4, SumUnique
<1>6. QED
  BY <1>1, <1>2, <1>4, <1>5 DEF T

LEMMA SumWithout ==
  ASSUME NEW f, NEW S, IsFiniteSet(S), \A x \in S : f[x] \in Int
  PROVE  /\ SumFunctionOnSet(f, S) \in Int
         /\ \A x \in S : SumFunctionOnSet(f, S) = f[x] + SumFunctionOnSet(f, S \ {x})
<1> DEFINE Sum(T) == SumFunctionOnSet(f, T)
           G == {T \in SUBSET S : /\ Sum(T) \in Int
                                  /\ \A x \in T : Sum(T) = f[x] + Sum(T \ {x})}
<1>1. ASSUME NEW T \in SUBSET S, \A U \in SUBSET T : U # T => U \in G
      PROVE  T \in G
  <2>1. IsFiniteSet(T)
    BY FS_Subset
  <2>2. Sum(T) = IF T = {} THEN 0 ELSE f[Chosen(T)] + Sum(T \ {Chosen(T)})
    BY <2>1, SumUnfolds
  <2>3. CASE T = {}
    BY <2>2, <2>3
  <2>4. CASE T # {}
    <3> DEFINE c == Chosen(T)
    <3>1. c \in T
      BY <2>4 DEF Chosen
    <3> HIDE DEF c
    <3>2. Sum(T) = f[c] + Sum(T \ {c})
      BY <2>2, <2>4 DEF c
    <3>3. T \ {c} \in G /\ f[c] \in Int
      BY <1>1, <3>1
    <3>4. Sum(T) \in Int
      BY <3>2, <3>3
    <3>5. ASSUME NEW x \in T
          PROVE  Sum(T) = f[x] + Sum(T \ {x})
      <4>1. CASE x = c
        BY <3>2, <4>1
      <4>2. CASE x # c
        <5> DEFINE R == T \ {c, x}
        <5>1. T \ {x} \in G /\ R \in G /\ (T \ {c}) \ {x} = R /\ (T \ {x}) \ {c} = R
          BY <1>1, <3>1
        <5>2. Sum(T \ {c}) = f[x] + Sum(R)
          BY <3>3, <4>2, <5>1
        <5>3. Sum(T \ {x}) = f[c] + Sum(R)
          BY <3>1, <4>2, <5>1
        <5>4. f[x] \in Int /\ f[c] \in Int /\ Sum(R) \in Int
          BY <3>3, <5>1
        <5> HIDE DEF Sum, R
        <5>5. QED
          BY <3>2, <5>2, <5>3, <5>4
      <4>3. QED
        BY <4>1, <4>2
    <3>6. QED
      BY <3>4, <3>5
  <2>5. QED
    BY <2>3, <2>4
<1>2. S \in G
  <2> HIDE DEF G
  <2>1. QED
    BY <1>1, FiniteSteps
<1>3. QED
  BY <1>2

(* From the empty set one element at a time. *)
LEMMA OneByOne ==
  ASSUME NEW S, IsFiniteSet(S), NEW G, {} \in G,
         \A T \in SUBSET S : \A x \in T : T \ {x} \in G => T \in G
  PROVE  S \in G
<1>1. ASSUME NEW T \in SUBSET S, \A U \in SUBSET T : U # T => U \in G
      PROVE  T \in G
  <2>1. CASE T = {}
    BY <2>1
  <2>2. CASE T # {}
    <3>1. PICK x \in T : TRUE
      BY <2>2
    <3>2. T \ {x} \in SUBSET T /\ T \ {x} # T
      OBVIOUS
    <3>3. QED
      BY <1>1, <3>2
  <2>3. QED
    BY <2>1, <2>2
<1>2. QED
  BY <1>1, FiniteSteps

LEMMA SumOfNone == ASSUME NEW f PROVE SumFunctionOnSet(f, {}) = 0
  BY SumUnfolds, FS_EmptySet

LEMMA SumAlike ==
  ASSUME NEW f, NEW g, NEW S, IsFiniteSet(S), \A x \in S : f[x] \in Int /\ f[x] = g[x]
  PROVE  SumFunctionOnSet(f, S) = SumFunctionOnSet(g, S)
<1> DEFINE G == {T \in SUBSET S : SumFunctionOnSet(f, T) = SumFunctionOnSet(g, T)}
<1>1. {} \in G
  BY SumOfNone
<1>2. ASSUME NEW T \in SUBSET S, NEW x \in T, T \ {x} \in G
      PROVE  T \in G
  <2>1. IsFiniteSet(T) /\ \A y \in T : f[y] \in Int /\ g[y] \in Int
    BY FS_Subset
  <2>2. /\ SumFunctionOnSet(f, T) = f[x] + SumFunctionOnSet(f, T \ {x})
        /\ SumFunctionOnSet(g, T) = g[x] + SumFunctionOnSet(g, T \ {x})
    BY <2>1, SumWithout
  <2>3. f[x] = g[x] /\ SumFunctionOnSet(f, T \ {x}) = SumFunctionOnSet(g, T \ {x})
    BY <1>2
  <2>4. SumFunctionOnSet(f, T) = SumFunctionOnSet(g, T)
    BY <2>2, <2>3
  <2>5. QED
    BY <2>4
<1>3. S \in G
  <2> HIDE DEF G
  <2>1. QED
    BY <1>1, <1>2, OneByOne
<1>4. QED
  BY <1>3

LEMMA SumNatural ==
  ASSUME NEW f, NEW S, IsFiniteSet(S), \A x \in S : f[x] \in Nat
  PROVE  SumFunctionOnSet(f, S) \in Nat
<1> DEFINE G == {T \in SUBSET S : SumFunctionOnSet(f, T) \in Nat}
<1>1. {} \in G
  BY SumOfNone
<1>2. ASSUME NEW T \in SUBSET S, NEW x \in T, T \ {x} \in G
      PROVE  T \in G
  <2>1. IsFiniteSet(T) /\ \A y \in T : f[y] \in Int
    BY FS_Subset
  <2>2. SumFunctionOnSet(f, T) = f[x] + SumFunctionOnSet(f, T \ {x})
    BY <2>1, SumWithout
  <2>3. f[x] \in Nat /\ SumFunctionOnSet(f, T \ {x}) \in Nat
    BY <1>2
  <2>4. SumFunctionOnSet(f, T) \in Nat
    BY <2>2, <2>3
  <2>5. QED
    BY <2>4
<1>3. S \in G
  <2> HIDE DEF G
  <2>1. QED
    BY <1>1, <1>2, OneByOne
<1>4. QED
  BY <1>3

LEMMA SumSplit ==
  ASSUME NEW f, NEW A, NEW B, IsFiniteSet(A), IsFiniteSet(B), A \cap B = {},
         \A x \in A \cup B : f[x] \in Int
  PROVE  SumFunctionOnSet(f, A \cup B) = SumFunctionOnSet(f, A) + SumFunctionOnSet(f, B)
<1> DEFINE Sum(T) == SumFunctionOnSet(f, T)
           G == {T \in SUBSET B : Sum(A \cup T) = Sum(A) + Sum(T)}
<1>1. \A T \in SUBSET B : IsFiniteSet(T) /\ IsFiniteSet(A \cup T) /\ Sum(T) \in Int /\ Sum(A) \in Int
  BY FS_Subset, FS_Union, SumWithout
<1>2. {} \in G
  <2>1. A \cup {} = A /\ Sum({}) = 0 /\ Sum(A) \in Int
    BY <1>1, SumOfNone
  <2> HIDE DEF Sum
  <2>2. QED
    BY <2>1
<1>3. ASSUME NEW T \in SUBSET B, NEW x \in T, T \ {x} \in G
      PROVE  T \in G
  <2>1. (A \cup T) \ {x} = A \cup (T \ {x})
    <3>1. x \notin A
      OBVIOUS
    <3>2. QED
      BY <3>1
  <2>2. Sum(A \cup T) = f[x] + Sum((A \cup T) \ {x})
    <3>1. IsFiniteSet(A \cup T) /\ x \in A \cup T /\ \A y \in A \cup T : f[y] \in Int
      BY <1>1
    <3>2. QED
      BY <3>1, SumWithout
  <2>3. Sum(T) = f[x] + Sum(T \ {x})
    <3>1. IsFiniteSet(T) /\ \A y \in T : f[y] \in Int
      BY <1>1
    <3>2. QED
      BY <3>1, SumWithout
  <2>4. Sum(A \cup (T \ {x})) = Sum(A) + Sum(T \ {x})
    BY <1>3
  <2>5. f[x] \in Int /\ Sum(A) \in Int /\ Sum(T \ {x}) \in Int
    BY <1>1
  <2> DEFINE R == T \ {x}
  <2> HIDE DEF Sum, R
  <2>6. Sum(A \cup T) = Sum(A) + Sum(T)
    <3>1. Sum(A \cup T) = f[x] + (Sum(A) + Sum(R))
      BY <2>1, <2>2, <2>4 DEF R
    <3>2. Sum(T) = f[x] + Sum(R) /\ f[x] \in Int /\ Sum(A) \in Int /\ Sum(R) \in Int
      BY <2>3, <2>5 DEF R
    <3>3. QED
      BY <3>1, <3>2
  <2>7. QED
    BY <2>6
<1>4. B \in G
  <2> HIDE DEF G
  <2>1. QED
    BY <1>2, <1>3, OneByOne
<1>5. QED
  BY <1>4

LEMMA SumOfZeros ==
  ASSUME NEW f, NEW S, IsFiniteSet(S), \A x \in S : f[x] = 0
  PROVE  SumFunctionOnSet(f, S) = 0
<1> DEFINE G == {T \in SUBSET S : SumFunctionOnSet(f, T) = 0}
<1>1. {} \in G
  BY SumOfNone
<1>2. ASSUME NEW T \in SUBSET S, NEW x \in T, T \ {x} \in G
      PROVE  T \in G
  <2>1. IsFiniteSet(T) /\ \A y \in T : f[y] \in Int
    BY FS_Subset
  <2>2. SumFunctionOnSet(f, T) = f[x] + SumFunctionOnSet(f, T \ {x})
    BY <2>1, SumWithout
  <2>3. f[x] = 0 /\ SumFunctionOnSet(f, T \ {x}) = 0
    BY <1>2
  <2>4. SumFunctionOnSet(f, T) = 0
    BY <2>2, <2>3
  <2>5. QED
    BY <2>4
<1>3. S \in G
  <2> HIDE DEF G
  <2>1. QED
    BY <1>1, <1>2, OneByOne
<1>4. QED
  BY <1>3

LEMMA SumOfSome ==
  ASSUME NEW f, NEW S, IsFiniteSet(S), \A x \in S : f[x] \in Int,
         NEW T \in SUBSET S, \A x \in S \ T : f[x] = 0
  PROVE  SumFunctionOnSet(f, S) = SumFunctionOnSet(f, T)
<1>1. IsFiniteSet(T) /\ IsFiniteSet(S \ T) /\ T \cup (S \ T) = S
  BY FS_Subset
<1>2. SumFunctionOnSet(f, T \cup (S \ T)) = SumFunctionOnSet(f, T) + SumFunctionOnSet(f, S \ T)
  BY <1>1, SumSplit
<1>3. SumFunctionOnSet(f, S \ T) = 0 /\ SumFunctionOnSet(f, T) \in Int
  BY <1>1, SumOfZeros, SumWithout
<1>4. SumFunctionOnSet(f, S) = SumFunctionOnSet(f, T) + 0
  BY <1>1, <1>2, <1>3
<1>5. QED
  BY <1>3, <1>4

(* A sum over the images of an injection. *)
LEMMA SumRenamed ==
  ASSUME NEW f, NEW g, NEW h, NEW S, IsFiniteSet(S),
         \A x \in S : f[x] \in Int /\ g[h[x]] = f[x],
         \A x, y \in S : h[x] = h[y] => x = y
  PROVE  SumFunctionOnSet(f, S) = SumFunctionOnSet(g, {h[x] : x \in S})
<1> DEFINE Image(T) == {h[x] : x \in T}
           G == {T \in SUBSET S : SumFunctionOnSet(f, T) = SumFunctionOnSet(g, Image(T))}
<1>1. {} \in G
  <2>1. Image({}) = {}
    OBVIOUS
  <2>2. QED
    BY <2>1, SumOfNone
<1>2. ASSUME NEW T \in SUBSET S, NEW x \in T, T \ {x} \in G
      PROVE  T \in G
  <2>1. IsFiniteSet(T)
    BY FS_Subset
  <2>2. SumFunctionOnSet(f, T) = f[x] + SumFunctionOnSet(f, T \ {x})
    BY <2>1, SumWithout
  <2>3. IsFiniteSet(Image(T)) /\ \A z \in Image(T) : g[z] \in Int
    <3>1. [y \in T |-> h[y]] \in Surjection(T, Image(T))
      BY DEF Surjection
    <3>2. IsFiniteSet(Image(T))
      <4> HIDE DEF Image
      <4>1. QED
        BY <2>1, <3>1, FS_Surjection
    <3>3. QED
      BY <3>2
  <2>4. Image(T) \ {h[x]} = Image(T \ {x}) /\ h[x] \in Image(T)
    OBVIOUS
  <2>5. g[h[x]] = f[x] /\ SumFunctionOnSet(f, T \ {x}) = SumFunctionOnSet(g, Image(T \ {x}))
    BY <1>2
  <2> HIDE DEF Image
  <2>6. SumFunctionOnSet(g, Image(T)) = g[h[x]] + SumFunctionOnSet(g, Image(T) \ {h[x]})
    BY <2>3, <2>4, SumWithout
  <2>7. SumFunctionOnSet(f, T) = SumFunctionOnSet(g, Image(T))
    BY <2>2, <2>4, <2>5, <2>6
  <2>8. QED
    BY <2>7
<1>3. S \in G
  <2> HIDE DEF G
  <2>1. QED
    BY <1>1, <1>2, OneByOne
<1>4. QED
  BY <1>3

LEMMA SumShifted ==
  ASSUME NEW f, NEW S, IsFiniteSet(S), \A x \in S : f[x] \in Int, NEW b \in Int
  PROVE  SumFunctionOnSet([x \in S |-> 2 * f[x] - b], S)
           = 2 * SumFunctionOnSet(f, S) - b * Cardinality(S)
<1> DEFINE g == [x \in S |-> 2 * f[x] - b]
           Sum(T) == SumFunctionOnSet(f, T)
           Shifted(T) == SumFunctionOnSet(g, T)
           G == {T \in SUBSET S : Shifted(T) = 2 * Sum(T) - b * Cardinality(T)}
<1>1. \A x \in S : g[x] = 2 * f[x] - b /\ g[x] \in Int
  OBVIOUS
<1> HIDE DEF g
<1>2. {} \in G
  <2>1. Shifted({}) = 0 /\ Sum({}) = 0 /\ Cardinality({}) = 0
    BY SumOfNone, FS_EmptySet
  <2> HIDE DEF Sum, Shifted
  <2>2. QED
    BY <2>1
<1>3. ASSUME NEW T \in SUBSET S, NEW x \in T, T \ {x} \in G
      PROVE  T \in G
  <2> DEFINE R == T \ {x}
  <2>1. IsFiniteSet(T) /\ IsFiniteSet(R)
    BY FS_Subset
  <2>2. Sum(T) = f[x] + Sum(R) /\ Sum(R) \in Int /\ Sum(T) \in Int
    BY <2>1, SumWithout
  <2>3. Shifted(T) = g[x] + Shifted(R)
    <3>1. \A y \in T : g[y] \in Int
      BY <1>1
    <3>2. QED
      BY <2>1, <3>1, SumWithout
  <2>4. Cardinality(R) = Cardinality(T) - 1 /\ Cardinality(T) \in Nat
    BY <2>1, FS_RemoveElement, FS_CardinalityType
  <2>5. Shifted(R) = 2 * Sum(R) - b * Cardinality(R)
    BY <1>3
  <2>6. g[x] = 2 * f[x] - b /\ f[x] \in Int
    BY <1>1
  <2> HIDE DEF R, Sum, Shifted
  <2>7. Shifted(T) = 2 * Sum(T) - b * Cardinality(T)
    <3>1. \A u, v, c \in Int : (2 * u - b) + (2 * v - b * (c - 1)) = 2 * (u + v) - b * c
      OBVIOUS
    <3>2. Shifted(T) = (2 * f[x] - b) + (2 * Sum(R) - b * (Cardinality(T) - 1))
      BY <2>3, <2>4, <2>5, <2>6
    <3>3. QED
      BY <2>2, <2>4, <2>6, <3>1, <3>2
  <2>8. QED
    BY <2>7 DEF Sum, Shifted
<1>4. S \in G
  <2> HIDE DEF G
  <2>1. QED
    BY <1>2, <1>3, OneByOne
<1>5. QED
  BY <1>4 DEF g

(* When the sum over every class of an equivalence lies in a set that is     *)
(* closed under addition, so does the sum over all.                          *)
ClassOf(c, S, x) == {y \in S : c[y] = c[x]}

LEMMA SumOfClasses ==
  ASSUME NEW f, NEW S, IsFiniteSet(S), S # {}, \A x \in S : f[x] \in Int, NEW c,
         NEW K \in SUBSET Int, \A a, b \in K : a + b \in K,
         \A x \in S : SumFunctionOnSet(f, ClassOf(c, S, x)) \in K
  PROVE  SumFunctionOnSet(f, S) \in K
<1> DEFINE Sum(T) == SumFunctionOnSet(f, T)
           Whole(T) == \A x \in T : ClassOf(c, S, x) \subseteq T
           G == {T \in SUBSET S : Whole(T) /\ T # {} => Sum(T) \in K}
<1>1. ASSUME NEW T \in SUBSET S, \A U \in SUBSET T : U # T => U \in G
      PROVE  T \in G
  <2>1. SUFFICES ASSUME Whole(T), T # {}
                 PROVE  Sum(T) \in K
    OBVIOUS
  <2>2. PICK x \in T : TRUE
    BY <2>1
  <2> DEFINE C == ClassOf(c, S, x)
             U == T \ C
  <2>3. C \subseteq T /\ x \in C /\ U \subseteq T /\ U # T /\ C \cap U = {} /\ C \cup U = T
    BY <2>1 DEF ClassOf
  <2>4. Whole(U)
    BY <2>1 DEF ClassOf
  <2>5. Sum(C) \in K
    OBVIOUS
  <2>6. CASE U = {}
    <3>1. C = T
      BY <2>3, <2>6
    <3>2. QED
      BY <2>5, <3>1
  <2>7. CASE U # {}
    <3>1. Sum(U) \in K
      BY <1>1, <2>3, <2>4, <2>7
    <3>2. IsFiniteSet(C) /\ IsFiniteSet(U)
      BY <2>3, FS_Subset
    <3>3. Sum(C \cup U) = Sum(C) + Sum(U)
      <4>1. \A y \in C \cup U : f[y] \in Int
        BY <2>3
      <4> HIDE DEF C, U
      <4>2. QED
        BY <2>3, <3>2, <4>1, SumSplit
    <3> HIDE DEF Sum, C, U
    <3>4. QED
      BY <2>3, <2>5, <3>1, <3>3
  <2>8. QED
    BY <2>6, <2>7
<1>2. S \in G
  <2> HIDE DEF G
  <2>1. QED
    BY <1>1, FiniteSteps
<1>3. Whole(S)
  BY DEF ClassOf
<1>4. QED
  BY <1>2, <1>3

LEMMA Divided ==
  ASSUME NEW a \in Int, NEW b \in Nat \ {0}
  PROVE  /\ a \div b \in Int
         /\ b * (a \div b) <= a /\ a < b * (a \div b) + b
  OBVIOUS

LEMMA DividedBetween ==
  ASSUME NEW a \in Int, NEW b \in Nat \ {0}, NEW m \in Int
  PROVE  /\ a \div b <= m <=> a < b * (m + 1)
         /\ m <= a \div b <=> b * m <= a
<1> DEFINE q == a \div b
<1>1. q \in Int /\ b * q <= a /\ a < b * q + b
  BY Divided
<1> HIDE DEF q
<1>2. ASSUME NEW x \in Int, NEW y \in Int, x <= y
      PROVE  b * x <= b * y
  BY <1>2
<1>3. b * (q + 1) = b * q + b /\ b * (m + 1) = b * m + b /\ b * q \in Int /\ b * m \in Int
  BY <1>1
<1>4. q <= m => b * (q + 1) <= b * (m + 1)
  BY <1>1, <1>2
<1>5. m + 1 <= q => b * (m + 1) <= b * q
  BY <1>1, <1>2
<1>6. m <= q => b * m <= b * q
  BY <1>1, <1>2
<1>7. q + 1 <= m => b * (q + 1) <= b * m
  BY <1>1, <1>2
<1>8. QED
  BY <1>1, <1>3, <1>4, <1>5, <1>6, <1>7 DEF q

(* A rounded average is at most, or at least, a score. *)
LEMMA RoundedBetween ==
  ASSUME NEW s \in Int, NEW n \in Nat \ {0}, NEW m \in Int
  PROVE  /\ RoundedAverage(s, n) \in Int
         /\ RoundedAverage(s, n) <= m <=> 2 * s - (2 * m + 1) * n < 0
         /\ m <= RoundedAverage(s, n) <=> 2 * s - (2 * m - 1) * n >= 0
<1> DEFINE a == 2 * s + n
           b == 2 * n
<1>1. a \in Int /\ b \in Nat \ {0}
  OBVIOUS
<1>2. RoundedAverage(s, n) = a \div b
  BY DEF RoundedAverage
<1>3. a < b * (m + 1) <=> 2 * s - (2 * m + 1) * n < 0
  <2>1. \A x \in Int : x < b * (m + 1) <=> x - b * (m + 1) < 0
    OBVIOUS
  <2>2. a - b * (m + 1) = 2 * s - (2 * m + 1) * n
    OBVIOUS
  <2>3. QED
    BY <1>1, <2>1, <2>2
<1>4. b * m <= a <=> 2 * s - (2 * m - 1) * n >= 0
  <2>1. \A x \in Int : b * m <= x <=> x - b * m >= 0
    OBVIOUS
  <2>2. a - b * m = 2 * s - (2 * m - 1) * n
    OBVIOUS
  <2>3. QED
    BY <1>1, <2>1, <2>2
<1> HIDE DEF a, b
<1>5. QED
  BY <1>1, <1>2, <1>3, <1>4, DividedBetween, Divided

LEMMA HasGreatest ==
  ASSUME NEW S \in SUBSET Nat, IsFiniteSet(S), S # {}
  PROVE  Max(S) \in S /\ \A y \in S : y <= Max(S)
<1> DEFINE G == {T \in SUBSET S : T # {} => \E x \in T : \A y \in T : x >= y}
<1>1. {} \in G
  OBVIOUS
<1>2. ASSUME NEW T \in SUBSET S, NEW x \in T, T \ {x} \in G
      PROVE  T \in G
  <2>1. CASE T \ {x} = {}
    <3>1. T = {x} /\ x \in Nat
      BY <2>1
    <3>2. QED
      BY <3>1
  <2>2. CASE T \ {x} # {}
    <3>1. PICK z \in T \ {x} : \A y \in T \ {x} : z >= y
      BY <1>2, <2>2
    <3>2. x \in Nat /\ z \in Nat /\ \A y \in T : y \in Nat
      OBVIOUS
    <3>3. CASE x >= z
      <4>1. \A y \in T : x >= y
        BY <3>1, <3>2, <3>3
      <4>2. QED
        BY <4>1
    <3>4. CASE ~ (x >= z)
      <4>1. \A y \in T : z >= y
        BY <3>1, <3>2, <3>4
      <4>2. QED
        BY <4>1
    <3>5. QED
      BY <3>3, <3>4
  <2>3. QED
    BY <2>1, <2>2
<1>3. S \in G
  <2> HIDE DEF G
  <2>1. QED
    BY <1>1, <1>2, OneByOne
<1>4. \E x \in S : \A y \in S : x >= y
  BY <1>3
<1>5. Max(S) \in S /\ \A y \in S : Max(S) >= y
  BY <1>4 DEF Max
<1>6. QED
  BY <1>5

LEMMA HasLeast ==
  ASSUME NEW S \in SUBSET Nat, S # {}
  PROVE  Min(S) \in S /\ \A y \in S : Min(S) <= y
  BY LeastNatural DEF Min

(* The domain scores and the overall score of questions that each have a     *)
(* domain and a score: every rounded by itself.                              *)
Mine(questions, d) == {n \in DOMAIN questions : questions[n].domain = d}

Scored(questions) ==
  /\ IsFiniteSet(DOMAIN questions) /\ DOMAIN questions # {}
  /\ Len(questions) = Cardinality(DOMAIN questions)
  /\ \A n \in DOMAIN questions : questions[n].domain \in Domains /\ questions[n].outcome.score \in Nat

SomeScores(questions) ==
  {DomainScores(questions)[d].score : d \in {e \in Domains : DomainScores(questions)[e].count > 0}}

LEMMA DomainScoreIs ==
  ASSUME NEW questions, Scored(questions), NEW d \in Domains
  PROVE  /\ IsFiniteSet(Mine(questions, d)) /\ Cardinality(Mine(questions, d)) \in Nat
         /\ DomainScores(questions)[d].count = Cardinality(Mine(questions, d))
         /\ DomainScores(questions)[d].count > 0 <=> Mine(questions, d) # {}
         /\ Mine(questions, d) # {} =>
              DomainScores(questions)[d].score
                = RoundedAverage(SumFunctionOnSet(ScoresOf(questions), Mine(questions, d)),
                                 Cardinality(Mine(questions, d)))
<1>1. IsFiniteSet(Mine(questions, d))
  BY FS_Subset DEF Mine, Scored
<1>2. /\ Cardinality(Mine(questions, d)) \in Nat
      /\ Cardinality(Mine(questions, d)) = 0 <=> Mine(questions, d) = {}
  BY <1>1, FS_CardinalityType, FS_EmptySet
<1>3. DomainScores(questions)[d]
        = IF Mine(questions, d) = {} THEN Unassessed
          ELSE [count |-> Cardinality(Mine(questions, d)),
                score |-> RoundedAverage(SumFunctionOnSet(ScoresOf(questions), Mine(questions, d)),
                                         Cardinality(Mine(questions, d)))]
  BY DEF DomainScores, Mine
<1>4. CASE Mine(questions, d) = {}
  BY <1>1, <1>2, <1>3, <1>4 DEF Unassessed
<1>5. CASE Mine(questions, d) # {}
  BY <1>1, <1>2, <1>3, <1>5
<1>6. QED
  BY <1>4, <1>5

LEMMA ScoreSums ==
  ASSUME NEW questions, Scored(questions), NEW T \in SUBSET DOMAIN questions, T # {}
  PROVE  /\ SumFunctionOnSet(ScoresOf(questions), T) \in Nat
         /\ IsFiniteSet(T) /\ Cardinality(T) \in Nat \ {0}
         /\ RoundedAverage(SumFunctionOnSet(ScoresOf(questions), T), Cardinality(T)) \in Nat
<1>1. IsFiniteSet(T)
  BY FS_Subset DEF Scored
<1>2. Cardinality(T) \in Nat \ {0}
  BY <1>1, FS_CardinalityType, FS_EmptySet
<1>3. SumFunctionOnSet(ScoresOf(questions), T) \in Nat
  <2>1. \A n \in T : ScoresOf(questions)[n] \in Nat
    BY DEF ScoresOf, Scored
  <2>2. QED
    BY <1>1, <2>1, SumNatural
<1> DEFINE sum == SumFunctionOnSet(ScoresOf(questions), T)
           n == Cardinality(T)
<1> HIDE DEF sum, n
<1>4. RoundedAverage(sum, n) \in Nat
  <2>1. sum \in Nat /\ n \in Nat \ {0}
    BY <1>2, <1>3 DEF sum, n
  <2>2. 2 * sum - (2 * 0 - 1) * n >= 0
    BY <2>1
  <2>3. RoundedAverage(sum, n) \in Int /\ 0 <= RoundedAverage(sum, n)
    BY <2>1, <2>2, RoundedBetween
  <2>4. QED
    BY <2>3
<1>5. QED
  BY <1>1, <1>2, <1>3, <1>4 DEF sum, n

(* Shifting every score by b / 2: the sum over a class is negative, or not,   *)
(* as its rounded average is at most, or at least, a bound.                   *)
LEMMA ShiftedSum ==
  ASSUME NEW questions, Scored(questions), NEW T \in SUBSET DOMAIN questions, T # {}, NEW b \in Int,
         NEW h, h = [n \in DOMAIN questions |-> 2 * ScoresOf(questions)[n] - b]
  PROVE  SumFunctionOnSet(h, T)
           = 2 * SumFunctionOnSet(ScoresOf(questions), T) - b * Cardinality(T)
<1>1. \A n \in T : ScoresOf(questions)[n] \in Int
  BY DEF ScoresOf, Scored
<1>2. IsFiniteSet(T)
  BY ScoreSums
<1> DEFINE g == [n \in T |-> 2 * ScoresOf(questions)[n] - b]
<1>3. \A n \in T : h[n] \in Int /\ h[n] = g[n]
  BY <1>1
<1>4. SumFunctionOnSet(h, T) = SumFunctionOnSet(g, T)
  <2> HIDE DEF g
  <2>1. QED
    BY <1>2, <1>3, SumAlike
<1>5. SumFunctionOnSet(g, T) = 2 * SumFunctionOnSet(ScoresOf(questions), T) - b * Cardinality(T)
  BY <1>1, <1>2, SumShifted
<1>6. QED
  BY <1>4, <1>5

LEMMA SomeScoresAre ==
  ASSUME NEW questions, Scored(questions)
  PROVE  /\ SomeScores(questions) \in SUBSET Nat /\ SomeScores(questions) # {}
         /\ IsFiniteSet(SomeScores(questions))
         /\ \A n \in DOMAIN questions :
              LET T == Mine(questions, questions[n].domain)
              IN  /\ T \in SUBSET DOMAIN questions /\ T # {}
                  /\ RoundedAverage(SumFunctionOnSet(ScoresOf(questions), T), Cardinality(T))
                       \in SomeScores(questions)
<1> DEFINE Assessed == {e \in Domains : DomainScores(questions)[e].count > 0}
<1>1. IsFiniteSet(Assessed)
  BY RubricAssumption, FS_Subset
<1>2. SomeScores(questions) = {DomainScores(questions)[d].score : d \in Assessed}
  BY DEF SomeScores
<1>3. \A d \in Assessed : DomainScores(questions)[d].score \in Nat
  <2>1. SUFFICES ASSUME NEW d \in Assessed PROVE DomainScores(questions)[d].score \in Nat
    OBVIOUS
  <2>2. Mine(questions, d) # {} /\ Mine(questions, d) \in SUBSET DOMAIN questions
    BY DomainScoreIs DEF Mine
  <2>3. QED
    BY <2>2, DomainScoreIs, ScoreSums
<1>4. ASSUME NEW n \in DOMAIN questions
      PROVE  LET T == Mine(questions, questions[n].domain)
             IN  /\ T \in SUBSET DOMAIN questions /\ T # {}
                 /\ RoundedAverage(SumFunctionOnSet(ScoresOf(questions), T), Cardinality(T))
                      \in SomeScores(questions)
  <2> DEFINE d == questions[n].domain
             T == Mine(questions, d)
  <2>1. d \in Domains /\ n \in T /\ T \in SUBSET DOMAIN questions
    BY DEF Mine, Scored
  <2>2. d \in Assessed
    BY <2>1, DomainScoreIs
  <2>3. DomainScores(questions)[d].score
          = RoundedAverage(SumFunctionOnSet(ScoresOf(questions), T), Cardinality(T))
    BY <2>1, DomainScoreIs
  <2> HIDE DEF d
  <2>4. DomainScores(questions)[d].score \in SomeScores(questions)
    BY <1>2, <2>2
  <2>5. QED
    BY <2>1, <2>3, <2>4 DEF d
<1>5. SomeScores(questions) # {}
  BY <1>4 DEF Scored
<1>6. IsFiniteSet(SomeScores(questions))
  <2> HIDE DEF Assessed
  <2> DEFINE f == [d \in Assessed |-> DomainScores(questions)[d].score]
  <2>1. f \in Surjection(Assessed, SomeScores(questions))
    BY <1>2 DEF Surjection
  <2> HIDE DEF f
  <2>2. QED
    BY <1>1, <2>1, FS_Surjection
<1>7. QED
  BY <1>2, <1>3, <1>4, <1>5, <1>6

(* The overall score lies between the lowest and the highest domain score.   *)
LEMMA ScoresAgree ==
  ASSUME NEW questions, Scored(questions)
  PROVE  OverallScore(ScoresOf(questions)) \in Min(SomeScores(questions))..Max(SomeScores(questions))
<1> DEFINE lowest == Min(SomeScores(questions))
           highest == Max(SomeScores(questions))
           D == DOMAIN questions
           f == ScoresOf(questions)
           c == [n \in D |-> questions[n].domain]
           Average(T) == RoundedAverage(SumFunctionOnSet(f, T), Cardinality(T))
           Negative == {k \in Int : k < 0}
           above == [n \in D |-> 2 * f[n] - (2 * highest + 1)]
           below == [n \in D |-> 2 * f[n] - (2 * lowest - 1)]
<1>1. lowest \in Nat /\ highest \in Nat /\ \A s \in SomeScores(questions) : lowest <= s /\ s <= highest
  BY SomeScoresAre, HasLeast, HasGreatest
<1>2. \A n \in D : ClassOf(c, D, n) = Mine(questions, questions[n].domain)
  BY DEF ClassOf, Mine
<1>3. IsFiniteSet(D) /\ D # {} /\ \A n \in D : f[n] \in Nat
  BY DEF Scored, ScoresOf
<1>4. ASSUME NEW n \in D
      PROVE  LET T == ClassOf(c, D, n)
             IN  T \in SUBSET D /\ T # {} /\ lowest <= Average(T) /\ Average(T) <= highest
  BY <1>1, <1>2, SomeScoresAre
<1>5. Average(D) = OverallScore(f)
  BY DEF OverallScore, SumFunction, Scored, ScoresOf
<1>6. \A n \in D : above[n] \in Int /\ below[n] \in Int
  BY <1>1, <1>3
<1> HIDE DEF lowest, highest, c, f
<1>7. \A T \in SUBSET D : T # {} =>
        /\ SumFunctionOnSet(above, T) = 2 * SumFunctionOnSet(f, T) - (2 * highest + 1) * Cardinality(T)
        /\ SumFunctionOnSet(below, T) = 2 * SumFunctionOnSet(f, T) - (2 * lowest - 1) * Cardinality(T)
  BY <1>1, ShiftedSum DEF f
<1>8. ASSUME NEW T \in SUBSET D, T # {}
      PROVE  /\ SumFunctionOnSet(above, T) \in Negative <=> Average(T) <= highest
             /\ SumFunctionOnSet(below, T) \in Nat <=> lowest <= Average(T)
  <2> DEFINE s == SumFunctionOnSet(f, T)
             n == Cardinality(T)
  <2>1. s \in Nat /\ n \in Nat \ {0}
    BY <1>8, ScoreSums DEF f
  <2>2. /\ SumFunctionOnSet(above, T) = 2 * s - (2 * highest + 1) * n
        /\ SumFunctionOnSet(below, T) = 2 * s - (2 * lowest - 1) * n
    BY <1>7, <1>8
  <2> HIDE DEF s, n, above, below
  <2>3. /\ RoundedAverage(s, n) <= highest <=> 2 * s - (2 * highest + 1) * n < 0
        /\ lowest <= RoundedAverage(s, n) <=> 2 * s - (2 * lowest - 1) * n >= 0
    BY <1>1, <2>1, RoundedBetween
  <2>4. 2 * s - (2 * highest + 1) * n \in Int /\ 2 * s - (2 * lowest - 1) * n \in Int
    BY <1>1, <2>1
  <2>5. QED
    BY <2>2, <2>3, <2>4 DEF s, n
<1> HIDE DEF above, below, Average
<1>9. SumFunctionOnSet(above, D) \in Negative
  <2>1. \A a, b \in Negative : a + b \in Negative
    OBVIOUS
  <2>2. \A n \in D : SumFunctionOnSet(above, ClassOf(c, D, n)) \in Negative
    BY <1>4, <1>8
  <2>3. Negative \in SUBSET Int
    OBVIOUS
  <2> HIDE DEF Negative, D
  <2>4. QED
    BY <1>3, <1>6, <2>1, <2>2, <2>3, SumOfClasses
<1>10. SumFunctionOnSet(below, D) \in Nat
  <2>1. \A a, b \in Nat : a + b \in Nat
    OBVIOUS
  <2>2. \A n \in D : SumFunctionOnSet(below, ClassOf(c, D, n)) \in Nat
    BY <1>4, <1>8
  <2>3. Nat \in SUBSET Int
    OBVIOUS
  <2> HIDE DEF D
  <2>4. QED
    BY <1>3, <1>6, <2>1, <2>2, <2>3, SumOfClasses
<1>11. lowest <= Average(D) /\ Average(D) <= highest
  BY <1>3, <1>8, <1>9, <1>10
<1>12. Average(D) \in Nat
  BY <1>3, ScoreSums DEF Average, f
<1>13. QED
  BY <1>1, <1>5, <1>11, <1>12 DEF lowest, highest, f

-------------------------------------------------------------------------------
(* The awards an adapter accepted.                                          *)

LEMMA LengthIs ==
  ASSUME NEW m \in Nat, NEW f, f = [n \in 1..m |-> f[n]]
  PROVE  Len(f) = m /\ DOMAIN f = 1..m
<1> DEFINE S == {f[n] : n \in 1..m}
<1>1. f \in [1..m -> S]
  OBVIOUS
<1> HIDE DEF S
<1>2. f \in Seq(S)
  BY <1>1, SeqDef
<1>3. Len(f) \in Nat /\ DOMAIN f = 1..Len(f)
  BY <1>2, LenProperties
<1>4. DOMAIN f = 1..m
  BY <1>1
<1>5. QED
  BY <1>3, <1>4

LEMMA UpTo ==
  ASSUME NEW m \in Nat
  PROVE  IsFiniteSet(1..m) /\ Cardinality(1..m) = m
  BY FS_Interval

LEMMA AwardsAre ==
  ASSUME NEW classification, NEW awards, NEW ids, DOMAIN awards = 1..Len(awards),
         CanScore(classification, awards, ids)
  PROVE  /\ IsFiniteSet(DOMAIN awards)
         /\ \A n \in DOMAIN awards : awards[n].points \in Nat
         /\ \A n, m \in DOMAIN awards : awards[n].item = awards[m].item => n = m
         /\ PointsOf(awards) \in Nat
<1>1. Len(awards) \in Nat
  BY RubricAssumption, FS_CardinalityType DEF CanScore
<1>2. IsFiniteSet(DOMAIN awards) /\ Cardinality(DOMAIN awards) = Len(awards)
  <2>1. IsFiniteSet(1..Len(awards)) /\ Cardinality(1..Len(awards)) = Len(awards)
    BY <1>1, UpTo
  <2>2. QED
    BY <2>1
<1>3. \A n \in DOMAIN awards : awards[n].points \in Nat
  BY RubricAssumption DEF CanScore, CanDerive
<1>4. \A n, m \in DOMAIN awards : awards[n].item = awards[m].item => n = m
  <2> DEFINE f == [n \in DOMAIN awards |-> awards[n].item]
  <2>1. f \in Surjection(DOMAIN awards, ItemsOf(awards))
    BY DEF Surjection, ItemsOf
  <2>2. Cardinality(ItemsOf(awards)) = Cardinality(DOMAIN awards)
    BY <1>2 DEF CanScore, CanDerive
  <2>3. f \in Injection(DOMAIN awards, ItemsOf(awards))
    <3> HIDE DEF f
    <3>1. QED
      BY <1>2, <2>1, <2>2, FS_SurjSameCardinalityImpliesInj
  <2>4. \A n, m \in DOMAIN awards : f[n] = f[m] => n = m
    BY <2>3 DEF Injection, IsInjective
  <2>5. QED
    BY <2>4
<1>5. PointsOf(awards) \in Nat
  <2> DEFINE f == [n \in DOMAIN awards |-> awards[n].points]
  <2>1. DOMAIN f = DOMAIN awards /\ \A n \in DOMAIN awards : f[n] \in Nat
    BY <1>3
  <2>2. PointsOf(awards) = SumFunctionOnSet(f, DOMAIN awards)
    BY DEF PointsOf, SumFunction
  <2> HIDE DEF f
  <2>3. QED
    BY <1>2, <2>1, <2>2, SumNatural
<1>6. QED
  BY <1>2, <1>3, <1>4, <1>5

(* The outcome a question was left with. *)
LEMMA OutcomeIs ==
  ASSUME NEW ids, NEW fact, FactFits(ids, fact)
  PROVE  /\ fact.outcome.score \in Nat
         /\ fact.outcome.kind = "scored" <=> fact.outcome.score > 0
         /\ fact.outcome.kind = "scored" \/ fact.outcome.kind \in ZeroReasons
         /\ fact.evaluation # NoEvaluation => fact.outcome.score = PointsOf(fact.evaluation.awards)
<1>1. CASE fact.evaluation = NoEvaluation
  BY <1>1 DEF FactFits, ZeroOutcome, ZeroReasons
<1>2. CASE fact.evaluation # NoEvaluation
  <2> DEFINE c == fact.evaluation.classification
             awards == fact.evaluation.awards
  <2>1. /\ DOMAIN awards = 1..Len(awards) /\ CanScore(c, awards, ids)
        /\ fact.outcome = DerivedOutcome(c, awards)
    BY <1>2 DEF FactFits
  <2>2. PointsOf(awards) \in Nat /\ (c = "irrelevant" => PointsOf(awards) = 0)
    <3> HIDE DEF c, awards
    <3>1. PointsOf(awards) \in Nat
      BY <2>1, AwardsAre
    <3>2. QED
      BY <2>1, <3>1 DEF CanScore, CanDerive
  <2> HIDE DEF c, awards
  <2>3. CASE c = "irrelevant"
    BY <2>1, <2>2, <2>3 DEF DerivedOutcome, ZeroOutcome, ZeroReasons, awards
  <2>4. CASE c # "irrelevant" /\ PointsOf(awards) = 0
    BY <2>1, <2>2, <2>4 DEF DerivedOutcome, ZeroOutcome, ZeroReasons, awards
  <2>5. CASE c # "irrelevant" /\ PointsOf(awards) # 0
    BY <2>1, <2>2, <2>5 DEF DerivedOutcome, awards
  <2>6. QED
    BY <2>3, <2>4, <2>5
<1>3. QED
  BY <1>1, <1>2

-------------------------------------------------------------------------------
(* The questions of a request: those with an outcome are the first ones.    *)

Ended(i) == {k \in Positions : i.questions[k].outcome # "none"}

LEMMA FirstOnesEnded ==
  ASSUME NEW i \in Interview, Sound(i)
  PROVE  \E m \in 0..QuestionCount : Ended(i) = 1..m
<1>1. /\ i.position \in Positions /\ QuestionCount \in Nat \ {0}
      /\ \A k \in Positions : /\ k < i.position => i.questions[k].outcome # "none"
                              /\ k > i.position => i.questions[k].outcome = "none"
  BY InterviewAssumption DEF Interview, Sound, Ordered, FreshQuestion
<1>2. CASE i.questions[i.position].outcome = "none"
  <2>1. \A k \in Positions : i.questions[k].outcome # "none" <=> k <= i.position - 1
    BY <1>1, <1>2 DEF Positions
  <2>2. i.position - 1 \in 0..QuestionCount /\ Ended(i) = 1..(i.position - 1)
    BY <1>1, <2>1 DEF Ended, Positions
  <2>3. QED
    BY <2>2
<1>3. CASE i.questions[i.position].outcome # "none"
  <2>1. \A k \in Positions : i.questions[k].outcome # "none" <=> k <= i.position
    BY <1>1, <1>3 DEF Positions
  <2>2. i.position \in 0..QuestionCount /\ Ended(i) = 1..i.position
    BY <1>1, <2>1 DEF Ended, Positions
  <2>3. QED
    BY <2>2
<1>4. QED
  BY <1>2, <1>3

Nth(S, n) == CHOOSE k \in S : Cardinality({j \in S : j <= k}) = n

LEMMA ReportedIs ==
  ASSUME NEW i, NEW m \in Nat, Ended(i) = 1..m
  PROVE  Reported(i) = [n \in 1..m |-> n]
<1>1. Reported(i) = [n \in 1..Cardinality(Ended(i)) |-> Nth(Ended(i), n)]
  BY DEF Reported, Ended, Nth
<1>2. Cardinality(1..m) = m
  BY UpTo
<1>3. \A k \in 1..m : Cardinality({j \in 1..m : j <= k}) = k
  <2>1. SUFFICES ASSUME NEW k \in 1..m PROVE Cardinality({j \in 1..m : j <= k}) = k
    OBVIOUS
  <2>2. {j \in 1..m : j <= k} = 1..k
    OBVIOUS
  <2>3. Cardinality(1..k) = k
    BY UpTo
  <2>4. QED
    BY <2>2, <2>3
<1>4. ASSUME NEW n \in 1..m
      PROVE  Nth(1..m, n) = n
  <2>1. Nth(1..m, n) \in 1..m /\ Cardinality({j \in 1..m : j <= Nth(1..m, n)}) = n
    BY <1>3 DEF Nth
  <2>2. QED
    BY <1>3, <2>1
<1>5. QED
  BY <1>1, <1>2, <1>4

LEMMA QuestionFits ==
  ASSUME NEW i, NEW t, NEW fs, NEW k, FactFits(MaterialIds(i.questions[k]), fs[k])
  PROVE  QuestionNormalizes(ReportQuestion(i, t, fs, k))
<1> DEFINE q == ReportQuestion(i, t, fs, k)
<1>1. /\ q.evaluation = fs[k].evaluation /\ q.outcome = fs[k].outcome
      /\ q.material = IF fs[k].evaluation = NoEvaluation THEN <<>> ELSE MaterialOf(i, t, k)
  BY DEF ReportQuestion
<1>2. DOMAIN MaterialOf(i, t, k) = MaterialIds(i.questions[k])
  BY DEF MaterialOf
<1> HIDE DEF q
<1>3. CASE fs[k].evaluation = NoEvaluation
  BY <1>1, <1>3 DEF QuestionNormalizes, FactFits, q
<1>4. CASE fs[k].evaluation # NoEvaluation
  BY <1>1, <1>2, <1>4 DEF QuestionNormalizes, EvaluationNormalizes, FactFits, q
<1>5. QED
  BY <1>3, <1>4

(* A request of the first m questions. *)
AsksAbout(request, i, t, fs, m) ==
  /\ request.kind = i.reportKind
  /\ request.questions = [n \in 1..m |-> ReportQuestion(i, t, fs, n)]
  /\ Len(request.questions) = m /\ DOMAIN request.questions = 1..m
  /\ \A n \in 1..m : /\ n \in Positions
                     /\ request.questions[n] = ReportQuestion(i, t, fs, n)
                     /\ request.questions[n].position = n
                     /\ request.questions[n].domain = DomainOf[n]
                     /\ request.questions[n].evaluation = fs[n].evaluation
                     /\ request.questions[n].outcome = fs[n].outcome
                     /\ i.questions[n].outcome # "none"

LEMMA RequestIs ==
  ASSUME NEW i \in Interview, NEW t, NEW fs, NEW m \in 0..QuestionCount, Ended(i) = 1..m
  PROVE  AsksAbout(ReportRequest(i, t, fs), i, t, fs, m)
<1> DEFINE questions == ReportRequest(i, t, fs).questions
<1>1. m \in Nat /\ QuestionCount \in Nat /\ \A n \in 1..m : n \in Positions
  BY InterviewAssumption DEF Positions
<1>2. Reported(i) = [n \in 1..m |-> n]
  BY <1>1, ReportedIs
<1>3. /\ ReportRequest(i, t, fs).kind = i.reportKind
      /\ questions = [n \in 1..m |-> ReportQuestion(i, t, fs, n)]
  BY <1>2 DEF ReportRequest
<1> HIDE DEF questions
<1>4. /\ DOMAIN questions = 1..m
      /\ \A n \in 1..m : questions[n] = ReportQuestion(i, t, fs, n)
  BY <1>3
<1>5. Len(questions) = m
  <2>1. questions = [n \in 1..m |-> questions[n]]
    BY <1>3
  <2>2. QED
    BY <1>1, <2>1, LengthIs
<1>6. \A n \in 1..m : i.questions[n].outcome # "none"
  BY DEF Ended
<1>7. ASSUME NEW n \in 1..m
      PROVE  /\ questions[n].position = n
             /\ questions[n].domain = DomainOf[n]
             /\ questions[n].evaluation = fs[n].evaluation
             /\ questions[n].outcome = fs[n].outcome
  BY <1>4 DEF ReportQuestion
<1>8. QED
  BY <1>1, <1>3, <1>4, <1>5, <1>6, <1>7 DEF questions, AsksAbout

(* Questions whose outcomes fit have scores. *)
LEMMA RequestScored ==
  ASSUME NEW i \in Interview, NEW t, NEW fs, NEW m \in 1..QuestionCount, Ended(i) = 1..m,
         FactsOf(i, fs)
  PROVE  Scored(ReportRequest(i, t, fs).questions)
<1> DEFINE questions == ReportRequest(i, t, fs).questions
<1>1. /\ m \in 0..QuestionCount /\ m \in Nat /\ QuestionCount \in Nat
  BY InterviewAssumption
<1>2. /\ Len(questions) = m /\ DOMAIN questions = 1..m
      /\ \A n \in 1..m : /\ n \in Positions /\ questions[n].domain = DomainOf[n]
                         /\ questions[n].outcome = fs[n].outcome
                         /\ i.questions[n].outcome # "none"
  <2>1. AsksAbout(ReportRequest(i, t, fs), i, t, fs, m)
    BY <1>1, RequestIs
  <2>2. QED
    BY <2>1 DEF AsksAbout
<1> HIDE DEF questions
<1>3. IsFiniteSet(1..m) /\ Cardinality(1..m) = m /\ 1 \in 1..m
  BY <1>1, UpTo
<1>4. \A n \in 1..m : DomainOf[n] \in Domains
  BY <1>2, BlueprintAssumption
<1>5. \A n \in 1..m : fs[n].outcome.score \in Nat
  BY <1>2, OutcomeIs DEF FactsOf
<1>6. QED
  BY <1>2, <1>3, <1>4, <1>5 DEF Scored, questions

LEMMA AllDomainsAssessed ==
  ASSUME NEW i \in Interview, NEW t, NEW fs, Ended(i) = Positions, FactsOf(i, fs)
  PROVE  AssessedDomains(ReportRequest(i, t, fs).questions) = Range(DomainOf)
<1> DEFINE questions == ReportRequest(i, t, fs).questions
<1>1. /\ QuestionCount \in 1..QuestionCount /\ QuestionCount \in 0..QuestionCount
      /\ Ended(i) = 1..QuestionCount
  BY InterviewAssumption DEF Positions
<1>2. /\ DOMAIN questions = Positions
      /\ \A n \in Positions : questions[n].domain = DomainOf[n]
  <2>1. AsksAbout(ReportRequest(i, t, fs), i, t, fs, QuestionCount)
    BY <1>1, RequestIs
  <2>2. QED
    BY <2>1 DEF AsksAbout, Positions
<1>3. Scored(questions)
  BY <1>1, RequestScored
<1> HIDE DEF questions
<1>4. DomainOf \in [Positions -> Domains]
  BY BlueprintAssumption
<1>5. AssessedDomains(questions) = {d \in Domains : Mine(questions, d) # {}}
  BY <1>3, DomainScoreIs DEF AssessedDomains
<1>6. \A d : Mine(questions, d) = {n \in Positions : DomainOf[n] = d}
  BY <1>2 DEF Mine
<1>7. QED
  BY <1>4, <1>5, <1>6 DEF Range, questions

(* Whatever evaluations left, an interview that waits for its report can be    *)
(* asked about.                                                               *)
LEMMA Askable ==
  ASSUME NEW i \in Interview, NEW t, NEW fs, Sound(i), FactsOf(i, fs),
         i.status = "report_pending"
  PROVE  CanRequestReport(i, fs) /\ RequestNormalizes(ReportRequest(i, t, fs))
<1> DEFINE request == ReportRequest(i, t, fs)
           questions == request.questions
<1>1. PICK m \in 0..QuestionCount : Ended(i) = 1..m
  BY FirstOnesEnded
<1>2. /\ i.reportKind \in ReportKinds
      /\ i.reportKind = "complete" => Ended(i) = Positions
      /\ Ended(i) # {}
  <2>1. i.reportKind \in ReportKinds
    BY DEF Sound, Requested, Interview
  <2>2. i.reportKind = "complete" => Ended(i) = Positions
    BY DEF Sound, Requested, Ordered, Ended
  <2>3. i.reportKind = "incomplete" => Ended(i) # {}
    BY DEF Sound, Requested, Ended
  <2>4. Positions # {}
    BY InterviewAssumption DEF Positions
  <2>5. QED
    BY <2>1, <2>2, <2>3, <2>4 DEF ReportKinds
<1>3. /\ m \in 1..QuestionCount /\ m \in Nat /\ QuestionCount \in Nat
      /\ i.reportKind = "complete" => m = QuestionCount
  <2>1. QuestionCount \in Nat \ {0} /\ Positions = 1..QuestionCount
    BY InterviewAssumption DEF Positions
  <2>2. m # 0
    BY <1>1, <1>2
  <2>3. 1..m = 1..QuestionCount => m = QuestionCount
    BY <2>1, UpTo
  <2>4. QED
    BY <1>1, <1>2, <2>1, <2>2, <2>3
<1>4. /\ request.kind = i.reportKind
      /\ Len(questions) = m /\ DOMAIN questions = 1..m
      /\ \A n \in 1..m : /\ n \in Positions
                         /\ questions[n] = ReportQuestion(i, t, fs, n)
                         /\ questions[n].position = n
                         /\ i.questions[n].outcome # "none"
  <2>1. AsksAbout(ReportRequest(i, t, fs), i, t, fs, m)
    BY <1>1, RequestIs
  <2>2. QED
    BY <2>1 DEF AsksAbout
<1>5. Reported(i) = [n \in 1..m |-> n] /\ Len(Reported(i)) = m /\ Range(Reported(i)) = 1..m
  <2>1. Reported(i) = [n \in 1..m |-> n]
    BY <1>1, <1>3, ReportedIs
  <2>2. Len(Reported(i)) = m
    BY <1>3, <2>1, LengthIs
  <2>3. QED
    BY <2>1, <2>2 DEF Range
<1> HIDE DEF request
<1>6. CanRequestReport(i, fs)
  <2>1. Reported(i) # <<>>
    <3>1. Len(Reported(i)) # 0
      BY <1>3, <1>5
    <3>2. Len(<<>>) = 0
      BY EmptySeq
    <3>3. QED
      BY <3>1, <3>2
  <2>2. ASSUME NEW k \in 1..m, fs[k].evaluation = NoEvaluation
        PROVE  fs[k].outcome.kind \in {"unknown", "skipped"}
    <3>1. FactFits(MaterialIds(i.questions[k]), fs[k])
      BY <1>4 DEF FactsOf
    <3>2. QED
      BY <2>2, <3>1 DEF FactFits, ZeroOutcome
  <2>3. QED
    BY <1>2, <1>3, <1>5, <2>1, <2>2 DEF CanRequestReport, ReportKinds
<1>7. CoverageFits(request)
  <2>1. m \in 1..Max(SupportedCounts)
    <3>1. SupportedCounts \in SUBSET Nat /\ SupportedCounts # {} /\ IsFiniteSet(SupportedCounts)
      BY BlueprintAssumption
    <3>2. Max(SupportedCounts) \in Nat /\ QuestionCount <= Max(SupportedCounts)
      BY <3>1, HasGreatest, BlueprintAssumption
    <3> HIDE DEF questions
    <3>3. QED
      BY <1>3, <3>2
  <2>2. IsInjective([n \in DOMAIN questions |-> questions[n].position])
    BY <1>4 DEF IsInjective
  <2>3. i.reportKind = "complete" =>
          /\ m \in SupportedCounts
          /\ Cardinality(AssessedDomains(questions)) = ExpectedDomains(m)
    <3>1. SUFFICES ASSUME i.reportKind = "complete"
                   PROVE  /\ m \in SupportedCounts
                          /\ Cardinality(AssessedDomains(questions)) = ExpectedDomains(m)
      OBVIOUS
    <3>2. m = QuestionCount /\ Ended(i) = Positions
      BY <1>2, <1>3, <3>1
    <3>3. AssessedDomains(questions) = Range(DomainOf)
      BY <3>2, AllDomainsAssessed DEF request
    <3>4. QED
      BY <3>2, <3>3, BlueprintAssumption
  <2>4. QED
    BY <1>4, <2>1, <2>2, <2>3 DEF CoverageFits
<1>8. \A n \in DOMAIN questions : QuestionNormalizes(questions[n])
  <2>1. ASSUME NEW n \in 1..m
        PROVE  QuestionNormalizes(questions[n])
    <3>1. FactFits(MaterialIds(i.questions[n]), fs[n])
      BY <1>4 DEF FactsOf
    <3>2. QED
      BY <1>4, <3>1, QuestionFits
  <2>2. QED
    BY <1>4, <2>1
<1>9. QED
  BY <1>6, <1>7, <1>8 DEF RequestNormalizes, request

-------------------------------------------------------------------------------
(* The snapshot made of an accepted analysis.                               *)

PointsAt(awards) == {n \in DOMAIN awards : awards[n].points > 0}

PointAt(awards, n) ==
  [item |-> awards[n].item, points |-> awards[n].points,
   evidence |-> AnswerReferences(awards[n].evidence)]

(* The matched points of a question add up to its awards' points.           *)
LEMMA MatchedPointsAre ==
  ASSUME NEW q, NEW ids, DOMAIN q.evaluation.awards = 1..Len(q.evaluation.awards),
         CanScore(q.evaluation.classification, q.evaluation.awards, ids)
  PROVE  LET matched == MatchedPoints(q)
         IN  /\ Cardinality({p.item : p \in matched}) = Cardinality(matched)
             /\ SumFunction([p \in matched |-> p.points]) = PointsOf(q.evaluation.awards)
<1> DEFINE awards == q.evaluation.awards
           matched == MatchedPoints(q)
           P == PointsAt(awards)
           f == [n \in DOMAIN awards |-> awards[n].points]
           g == [p \in matched |-> p.points]
           h == [n \in P |-> PointAt(awards, n)]
           items == {p.item : p \in matched}
           itemOf == [p \in matched |-> p.item]
<1>1. /\ IsFiniteSet(DOMAIN awards)
      /\ \A n \in DOMAIN awards : awards[n].points \in Nat
      /\ \A n, m \in DOMAIN awards : awards[n].item = awards[m].item => n = m
  BY AwardsAre
<1>2. matched = {PointAt(awards, n) : n \in P}
  BY DEF MatchedPoints, PointsAt, PointAt
<1>3. P \in SUBSET DOMAIN awards /\ IsFiniteSet(P)
  BY <1>1, FS_Subset DEF PointsAt
<1>4. \A n \in P : /\ PointAt(awards, n) \in matched
                   /\ PointAt(awards, n).item = awards[n].item
                   /\ PointAt(awards, n).points = awards[n].points
  BY <1>2 DEF PointAt
<1> HIDE DEF matched, awards
<1>5. IsFiniteSet(matched)
  <2>1. h \in Surjection(P, matched)
    BY <1>2 DEF Surjection
  <2> HIDE DEF h
  <2>2. QED
    BY <1>3, <2>1, FS_Surjection
<1>6. Cardinality(items) = Cardinality(matched)
  <2>1. \A p, r \in matched : p.item = r.item => p = r
    BY <1>1, <1>2, <1>3, <1>4
  <2>2. itemOf \in Injection(matched, items)
    BY <2>1 DEF Injection, IsInjective
  <2>3. itemOf \in Surjection(matched, items)
    BY DEF Surjection
  <2> HIDE DEF itemOf, items
  <2>4. QED
    BY <1>5, <2>2, <2>3, FS_Surjection
<1>7. SumFunction(g) = PointsOf(awards)
  <2>1. SumFunction(g) = SumFunctionOnSet(g, matched)
    BY DEF SumFunction
  <2>2. PointsOf(awards) = SumFunctionOnSet(f, DOMAIN awards)
    BY DEF PointsOf, SumFunction
  <2>3. /\ \A n \in DOMAIN awards : f[n] \in Int
        /\ \A n \in DOMAIN awards \ P : f[n] = 0
    BY <1>1 DEF PointsAt
  <2>4. \A n \in P : f[n] \in Int /\ g[h[n]] = f[n]
    BY <1>1, <1>3, <1>4
  <2>5. \A n, m \in P : h[n] = h[m] => n = m
    BY <1>1, <1>3, <1>4
  <2>6. matched = {h[n] : n \in P}
    BY <1>2
  <2> HIDE DEF f, g, h, P
  <2>7. SumFunctionOnSet(f, DOMAIN awards) = SumFunctionOnSet(f, P)
    BY <1>1, <1>3, <2>3, SumOfSome
  <2>8. SumFunctionOnSet(f, P) = SumFunctionOnSet(g, {h[n] : n \in P})
    BY <1>3, <2>4, <2>5, SumRenamed
  <2>9. QED
    BY <2>1, <2>2, <2>6, <2>7, <2>8
<1>8. QED
  BY <1>6, <1>7 DEF matched, awards

(* What an analysis says of a question of an interview. *)
Analyzes(analysis, q) == ToneFits(q.outcome, analysis.tone) /\ EvidenceFits(q, analysis.evidence)

LEMMA FeedbackIs ==
  ASSUME NEW i, NEW t, NEW fs, NEW k, NEW analysis
  PROVE  LET q == ReportQuestion(i, t, fs, k)
             f == Feedback(q, analysis)
         IN  /\ q.position = k /\ q.domain = DomainOf[k]
             /\ q.evaluation = fs[k].evaluation /\ q.outcome = fs[k].outcome
             /\ f.position = k /\ f.domain = DomainOf[k] /\ f.outcome = fs[k].outcome
             /\ f.tone = FeedbackTone(fs[k].outcome, analysis.tone)
             /\ f.matched = MatchedPoints(q) /\ f.missing = MissingPoints(q)
             /\ f.evidence = {QuestionReference(k)} \cup AnswerReferences(analysis.evidence)
                               \cup UNION {p.evidence : p \in MatchedPoints(q)}
<1> DEFINE q == ReportQuestion(i, t, fs, k)
<1>1. /\ q.position = k /\ q.domain = DomainOf[k]
      /\ q.evaluation = fs[k].evaluation /\ q.outcome = fs[k].outcome
  BY DEF ReportQuestion
<1> HIDE DEF q
<1>2. QED
  BY <1>1 DEF Feedback, q

(* The evidence of matched and missing points. *)
LEMMA PointEvidence ==
  ASSUME NEW q, NEW ids,
         q.evaluation = NoEvaluation
           \/ CanScore(q.evaluation.classification, q.evaluation.awards, ids)
  PROVE  /\ \A p \in MatchedPoints(q) :
              \E n \in DOMAIN q.evaluation.awards :
                 /\ p.item = q.evaluation.awards[n].item /\ p.points = q.evaluation.awards[n].points
                 /\ p.evidence = AnswerReferences(q.evaluation.awards[n].evidence)
                 /\ p.evidence # {} /\ p.evidence \subseteq AnswerReferences(ids)
         /\ \A p \in MissingPoints(q) : p.evidence = {QuestionReference(q.position)}
         /\ q.evaluation = NoEvaluation => MatchedPoints(q) = {}
<1>1. q.evaluation = NoEvaluation => DOMAIN q.evaluation.awards = {}
  BY DEF NoEvaluation
<1>2. q.evaluation = NoEvaluation => MatchedPoints(q) = {}
  BY <1>1 DEF MatchedPoints
<1>3. ASSUME NEW p \in MatchedPoints(q)
      PROVE  \E n \in DOMAIN q.evaluation.awards :
                /\ p.item = q.evaluation.awards[n].item /\ p.points = q.evaluation.awards[n].points
                /\ p.evidence = AnswerReferences(q.evaluation.awards[n].evidence)
                /\ p.evidence # {} /\ p.evidence \subseteq AnswerReferences(ids)
  <2>1. PICK n \in DOMAIN q.evaluation.awards :
           /\ q.evaluation.awards[n].points > 0
           /\ p = [item |-> q.evaluation.awards[n].item, points |-> q.evaluation.awards[n].points,
                   evidence |-> AnswerReferences(q.evaluation.awards[n].evidence)]
    BY <1>3 DEF MatchedPoints
  <2>2. CanScore(q.evaluation.classification, q.evaluation.awards, ids)
    BY <1>1
  <2>3. q.evaluation.awards[n].evidence # {} /\ q.evaluation.awards[n].evidence \subseteq ids
    BY <2>1, <2>2 DEF CanScore
  <2>4. QED
    BY <2>1, <2>3 DEF AnswerReferences
<1>4. \A p \in MissingPoints(q) : p.evidence = {QuestionReference(q.position)}
  BY DEF MissingPoints, UnansweredPoint
<1>5. QED
  BY <1>2, <1>3, <1>4

LEMMA FeedbackFits ==
  ASSUME NEW i, NEW t, NEW fs, NEW k, NEW analysis,
         FactFits(MaterialIds(i.questions[k]), fs[k]),
         Analyzes(analysis, ReportQuestion(i, t, fs, k))
  PROVE  FeedbackParses(Feedback(ReportQuestion(i, t, fs, k), analysis))
<1> DEFINE q == ReportQuestion(i, t, fs, k)
           f == Feedback(q, analysis)
           ids == MaterialIds(i.questions[k])
<1>1. /\ q.position = k /\ q.evaluation = fs[k].evaluation /\ q.outcome = fs[k].outcome
      /\ f.position = k /\ f.outcome = fs[k].outcome
      /\ f.matched = MatchedPoints(q) /\ f.missing = MissingPoints(q)
      /\ f.evidence = {QuestionReference(k)} \cup AnswerReferences(analysis.evidence)
                        \cup UNION {p.evidence : p \in MatchedPoints(q)}
  BY FeedbackIs
<1>2. q.evaluation = NoEvaluation \/ CanScore(q.evaluation.classification, q.evaluation.awards, ids)
  BY <1>1 DEF FactFits
<1> HIDE DEF q, f, ids
<1>3. /\ \A p \in MatchedPoints(q) : p.evidence # {} /\ p.evidence \subseteq AnswerReferences(ids)
      /\ \A p \in MissingPoints(q) : p.evidence = {QuestionReference(k)}
      /\ q.evaluation = NoEvaluation => MatchedPoints(q) = {}
  BY <1>1, <1>2, PointEvidence
<1>4. \A r : r \in AnswerReferences(ids) \/ r \in AnswerReferences(analysis.evidence) =>
         r[1] = "answer_material"
  BY DEF AnswerReferences
<1>5. f.evidence # {} /\ \A p \in References(f) : p.evidence # {} /\ p.evidence \subseteq f.evidence
  BY <1>1, <1>3 DEF References
<1>6. \A r \in f.evidence : r[1] = "question_snapshot" => r = QuestionReference(f.position)
  BY <1>1, <1>3, <1>4
<1>7. /\ fs[k].outcome.kind = "scored" <=> fs[k].outcome.score > 0
      /\ fs[k].evaluation # NoEvaluation => fs[k].outcome.score = PointsOf(fs[k].evaluation.awards)
  BY OutcomeIs
<1>8. /\ Cardinality({p.item : p \in f.matched}) = Cardinality(f.matched)
      /\ SumFunction([p \in f.matched |-> p.points]) = f.outcome.score
  <2>1. CASE fs[k].evaluation = NoEvaluation
    <3>1. f.matched = {}
      BY <1>1, <1>3, <2>1
    <3>2. {p.item : p \in f.matched} = f.matched
      BY <3>1
    <3>3. DOMAIN [p \in f.matched |-> p.points] = {}
      BY <3>1
    <3>4. SumFunction([p \in f.matched |-> p.points]) = 0
      BY <3>3, SumOfNone DEF SumFunction
    <3>5. fs[k].outcome.score = 0
      BY <2>1 DEF FactFits, ZeroOutcome
    <3>6. QED
      BY <1>1, <3>2, <3>4, <3>5
  <2>2. CASE fs[k].evaluation # NoEvaluation
    <3>1. DOMAIN q.evaluation.awards = 1..Len(q.evaluation.awards)
      BY <1>1, <2>2 DEF FactFits
    <3>2. CanScore(q.evaluation.classification, q.evaluation.awards, ids)
      BY <1>1, <1>2, <2>2
    <3>3. /\ Cardinality({p.item : p \in MatchedPoints(q)}) = Cardinality(MatchedPoints(q))
          /\ SumFunction([p \in MatchedPoints(q) |-> p.points]) = PointsOf(q.evaluation.awards)
      BY <3>1, <3>2, MatchedPointsAre
    <3>4. QED
      BY <1>1, <1>7, <2>2, <3>3
  <2>3. QED
    BY <2>1, <2>2
<1>9. FeedbackParses(f)
  BY <1>1, <1>5, <1>6, <1>7, <1>8 DEF FeedbackParses
<1>10. QED
  BY <1>9 DEF f, q

LEMMA FeedbackStored ==
  ASSUME NEW i, NEW t, NEW fs, NEW k, NEW analysis,
         FactFits(MaterialIds(i.questions[k]), fs[k]),
         Analyzes(analysis, ReportQuestion(i, t, fs, k))
  PROVE  FeedbackMatchesRows(Feedback(ReportQuestion(i, t, fs, k), analysis), i, fs)
<1> DEFINE q == ReportQuestion(i, t, fs, k)
           f == Feedback(q, analysis)
           ids == MaterialIds(i.questions[k])
<1>1. /\ q.position = k /\ q.evaluation = fs[k].evaluation
      /\ f.position = k /\ f.outcome = fs[k].outcome /\ f.domain = DomainOf[k]
      /\ f.matched = MatchedPoints(q) /\ f.missing = MissingPoints(q)
      /\ f.evidence = {QuestionReference(k)} \cup AnswerReferences(analysis.evidence)
                        \cup UNION {p.evidence : p \in MatchedPoints(q)}
  BY FeedbackIs
<1>2. q.evaluation = NoEvaluation \/ CanScore(q.evaluation.classification, q.evaluation.awards, ids)
  BY <1>1 DEF FactFits
<1>3. analysis.evidence \subseteq ids
  <2>1. /\ analysis.evidence \subseteq DOMAIN q.material
        /\ q.evaluation = NoEvaluation => analysis.evidence = {}
    BY DEF Analyzes, EvidenceFits
  <2>2. q.evaluation # NoEvaluation => DOMAIN q.material = ids
    BY DEF ReportQuestion, MaterialOf
  <2> HIDE DEF q, ids
  <2>3. QED
    BY <2>1, <2>2
<1> HIDE DEF q, f, ids
<1>4. /\ \A p \in MatchedPoints(q) :
           \E n \in DOMAIN q.evaluation.awards :
              /\ p.item = q.evaluation.awards[n].item /\ p.points = q.evaluation.awards[n].points
              /\ p.evidence = AnswerReferences(q.evaluation.awards[n].evidence)
              /\ p.evidence # {} /\ p.evidence \subseteq AnswerReferences(ids)
      /\ \A p \in MissingPoints(q) : p.evidence = {QuestionReference(k)}
  BY <1>1, <1>2, PointEvidence
<1>5. f.evidence \subseteq {QuestionReference(k)} \cup AnswerReferences(ids)
  <2>1. AnswerReferences(analysis.evidence) \subseteq AnswerReferences(ids)
    BY <1>3 DEF AnswerReferences
  <2>2. QED
    BY <1>1, <1>4, <2>1
<1>6. \A p \in f.matched : AwardIsPersisted(p, fs[k].evaluation)
  BY <1>1, <1>4 DEF AwardIsPersisted, Range
<1>7. \A p \in f.missing : PointIsPersisted(p, fs[k].evaluation, fs[k].outcome)
  <2>1. CASE fs[k].evaluation = NoEvaluation
    BY <2>1 DEF PointIsPersisted, FactFits, ZeroOutcome
  <2>2. CASE fs[k].evaluation # NoEvaluation
    <3>1. SUFFICES ASSUME NEW p \in MissingPoints(q)
                   PROVE  PointIsPersisted(p, fs[k].evaluation, fs[k].outcome)
      BY <1>1
    <3>2. PICK a \in Range(fs[k].evaluation.awards) : \E point \in Range(a.missing) :
             p = [item |-> a.item, point |-> point, evidence |-> {QuestionReference(q.position)}]
      BY <1>1, <2>2 DEF MissingPoints
    <3>3. a.item = p.item /\ p.point \in Range(a.missing)
      BY <3>2
    <3>4. QED
      BY <2>2, <3>3 DEF PointIsPersisted
  <2>3. QED
    BY <2>1, <2>2
<1>8. FeedbackMatchesRows(f, i, fs)
  BY <1>1, <1>4, <1>5, <1>6, <1>7 DEF FeedbackMatchesRows, ids
<1>9. QED
  BY <1>8 DEF f, q

(* The scores are those of the outcomes and domains alone. *)
DomainScore(scores, mine) ==
  IF mine = {} THEN Unassessed
  ELSE [count |-> Cardinality(mine),
        score |-> RoundedAverage(SumFunctionOnSet(scores, mine), Cardinality(mine))]

LEMMA SameScores ==
  ASSUME NEW q, NEW r, DOMAIN q = DOMAIN r,
         \A n \in DOMAIN q : q[n].domain = r[n].domain /\ q[n].outcome = r[n].outcome
  PROVE  /\ ScoresOf(q) = ScoresOf(r)
         /\ DomainScores(q) = DomainScores(r)
         /\ AssessedDomains(q) = AssessedDomains(r)
<1>1. ScoresOf(q) = ScoresOf(r)
  BY DEF ScoresOf
<1>2. \A d : Mine(q, d) = Mine(r, d)
  BY DEF Mine
<1>3. /\ DomainScores(q) = [d \in Domains |-> DomainScore(ScoresOf(q), Mine(q, d))]
      /\ DomainScores(r) = [d \in Domains |-> DomainScore(ScoresOf(r), Mine(r, d))]
  BY DEF DomainScores, DomainScore, Mine
<1>4. DomainScores(q) = DomainScores(r)
  BY <1>1, <1>2, <1>3
<1>5. QED
  BY <1>1, <1>4 DEF AssessedDomains

LEMMA FeedbackToneFits ==
  ASSUME NEW outcome, outcome.kind = "scored" \/ outcome.kind \in ZeroReasons,
         NEW tone, ToneFits(outcome, tone)
  PROVE  ToneFits(outcome, FeedbackTone(outcome, tone))
  BY DEF ToneFits, FeedbackTone, ZeroReasons

LEMMA GlobalToneKept ==
  ASSUME NEW q, NEW r, DOMAIN q = DOMAIN r, \A n \in DOMAIN q : q[n].outcome = r[n].outcome,
         NEW tone, GlobalToneFits(q, tone)
  PROVE  GlobalToneFits(r, GlobalTone(q, tone))
  BY DEF GlobalToneFits, GlobalTone

(* The analysis of a whole request. *)
LEMMA SnapshotFits ==
  ASSUME NEW i \in Interview, NEW t, NEW fs, Sound(i), FactsOf(i, fs),
         i.status = "report_pending", NEW output,
         AnalysisAccepted(ReportRequest(i, t, fs), output)
  PROVE  LET made == Snapshot(ReportRequest(i, t, fs), output)
         IN  SnapshotParses(made) /\ StoreAcceptsReport(made, i, fs) /\ Coherent(made)
<1> DEFINE request == ReportRequest(i, t, fs)
           questions == request.questions
           made == Snapshot(request, output)
           feedback == made.questions
<1>1. PICK m \in 0..QuestionCount : Ended(i) = 1..m
  BY FirstOnesEnded
<1>2. CanRequestReport(i, fs) /\ RequestNormalizes(request)
  BY Askable
<1>3. /\ request.kind = i.reportKind
      /\ Len(questions) = m /\ DOMAIN questions = 1..m
      /\ \A n \in 1..m : /\ n \in Positions
                         /\ questions[n] = ReportQuestion(i, t, fs, n)
                         /\ questions[n].domain = DomainOf[n]
                         /\ questions[n].outcome = fs[n].outcome
                         /\ i.questions[n].outcome # "none"
  <2>1. AsksAbout(request, i, t, fs, m)
    BY <1>1, RequestIs
  <2>2. QED
    BY <2>1 DEF AsksAbout
<1>4. /\ m \in Nat /\ m \in 1..QuestionCount
      /\ Reported(i) = [n \in 1..m |-> n] /\ Len(Reported(i)) = m
  <2>1. QuestionCount \in Nat /\ m \in Nat
    BY InterviewAssumption
  <2>2. Reported(i) = [n \in 1..m |-> n]
    BY <1>1, <2>1, ReportedIs
  <2>3. Len(Reported(i)) = m
    BY <2>1, <2>2, LengthIs
  <2>4. Len(questions) \in 1..Max(SupportedCounts)
    BY <1>2 DEF RequestNormalizes, CoverageFits
  <2>5. m # 0
    BY <1>3, <2>4
  <2>6. QED
    BY <2>1, <2>2, <2>3, <2>5
<1>5. /\ GlobalToneFits(questions, output.tone)
      /\ Len(output.perQuestion) = m
      /\ \A n \in DOMAIN output.perQuestion : Analyzes(output.perQuestion[n], questions[n])
  BY <1>3 DEF AnalysisAccepted, Analyzes
<1> HIDE DEF request
<1>6. /\ made.kind = i.reportKind
      /\ made.tone = GlobalTone(questions, output.tone)
      /\ feedback = [n \in 1..m |-> Feedback(questions[n], output.perQuestion[n])]
      /\ made.domains = DomainScores(questions)
      /\ made.overall = IF i.reportKind = "complete" THEN OverallScore(ScoresOf(questions))
                        ELSE NoOverall
  BY <1>3 DEF Snapshot
<1> HIDE DEF made
<1>7. /\ DOMAIN feedback = 1..m /\ Len(feedback) = m
      /\ \A n \in 1..m : feedback[n] = Feedback(ReportQuestion(i, t, fs, n), output.perQuestion[n])
  <2>1. feedback = [n \in 1..m |-> feedback[n]]
    BY <1>6
  <2>2. Len(feedback) = m
    BY <1>4, <2>1, LengthIs
  <2>3. QED
    BY <1>3, <1>6, <2>2
<1>8. \A n \in 1..m : FactFits(MaterialIds(i.questions[n]), fs[n])
  BY <1>3 DEF FactsOf
<1>9. \A n \in 1..m : Analyzes(output.perQuestion[n], ReportQuestion(i, t, fs, n))
  BY <1>3, <1>5
<1>10. ASSUME NEW n \in 1..m
       PROVE  /\ FeedbackParses(feedback[n]) /\ FeedbackMatchesRows(feedback[n], i, fs)
              /\ feedback[n].position = n
              /\ feedback[n].domain = questions[n].domain
              /\ feedback[n].outcome = questions[n].outcome
              /\ ToneFits(feedback[n].outcome, feedback[n].tone)
  <2> DEFINE f == Feedback(ReportQuestion(i, t, fs, n), output.perQuestion[n])
  <2>1. FeedbackParses(f) /\ FeedbackMatchesRows(f, i, fs)
    BY <1>8, <1>9, FeedbackFits, FeedbackStored
  <2>2. /\ f.position = n /\ f.domain = DomainOf[n] /\ f.outcome = fs[n].outcome
        /\ f.tone = FeedbackTone(fs[n].outcome, output.perQuestion[n].tone)
    BY FeedbackIs
  <2>3. ToneFits(fs[n].outcome, output.perQuestion[n].tone)
    BY <1>3, <1>9 DEF Analyzes
  <2>4. ToneFits(f.outcome, f.tone)
    <3>1. fs[n].outcome.kind = "scored" \/ fs[n].outcome.kind \in ZeroReasons
      BY <1>8, OutcomeIs
    <3>2. QED
      BY <2>2, <2>3, <3>1, FeedbackToneFits
  <2>5. feedback[n] = f
    BY <1>7
  <2> HIDE DEF f, feedback, questions
  <2>6. QED
    BY <1>3, <2>1, <2>2, <2>4, <2>5
<1> HIDE DEF feedback, questions
<1>11. /\ ScoresOf(feedback) = ScoresOf(questions)
       /\ DomainScores(feedback) = DomainScores(questions)
       /\ AssessedDomains(feedback) = AssessedDomains(questions)
  BY <1>3, <1>7, <1>10, SameScores
<1>12. SnapshotParses(made)
  <2>1. {feedback[n].position : n \in DOMAIN feedback} = 1..m
    BY <1>7, <1>10
  <2>2. \A n \in DOMAIN feedback : FeedbackParses(feedback[n])
    BY <1>7, <1>10
  <2>3. /\ Len(feedback) \in 1..Max(SupportedCounts)
        /\ i.reportKind = "complete" =>
             /\ Len(feedback) \in SupportedCounts
             /\ Cardinality(AssessedDomains(feedback)) = ExpectedDomains(Len(feedback))
    BY <1>2, <1>3, <1>7, <1>11 DEF RequestNormalizes, CoverageFits, questions
  <2>4. made.domains = DomainScores(feedback)
    BY <1>6, <1>11
  <2>5. IF made.kind = "complete"
        THEN made.overall = OverallScore(ScoresOf(feedback)) ELSE made.overall = NoOverall
    BY <1>6, <1>11
  <2>6. QED
    BY <1>6, <1>7, <2>1, <2>2, <2>3, <2>4, <2>5 DEF SnapshotParses, feedback
<1>13. StoreAcceptsReport(made, i, fs)
  <2>1. i.reportKind = "complete" => m = QuestionCount
    BY <1>2, <1>4 DEF CanRequestReport
  <2>2. QED
    BY <1>4, <1>6, <1>7, <1>10, <2>1 DEF StoreAcceptsReport, feedback
<1>14. Coherent(made)
  <2>1. Scored(questions)
    BY <1>1, <1>4, RequestScored DEF questions, request
  <2>2. OverallScore(ScoresOf(questions)) \in Min(SomeScores(questions))..Max(SomeScores(questions))
    BY <2>1, ScoresAgree
  <2>3. GlobalToneFits(feedback, made.tone)
    <3>1. GlobalToneFits(feedback, GlobalTone(questions, output.tone))
      BY <1>3, <1>5, <1>7, <1>10, GlobalToneKept
    <3>2. QED
      BY <1>6, <3>1
  <2>4. \A n \in DOMAIN feedback : ToneFits(feedback[n].outcome, feedback[n].tone)
    BY <1>7, <1>10
  <2>5. {made.domains[d].score : d \in {e \in Domains : made.domains[e].count > 0}}
          = SomeScores(questions)
    BY <1>6 DEF SomeScores
  <2>6. QED
    BY <1>6, <2>2, <2>3, <2>4, <2>5 DEF Coherent, feedback
<1>15. QED
  BY <1>12, <1>13, <1>14 DEF made, request

-------------------------------------------------------------------------------
(* Interviews, commands and calls.                                          *)

LEMMA NextOpIsOp ==
  ASSUME NEW i \in Interview, Cardinality(CurrentQuestion(i).material) < MaxMaterial
  PROVE  NextOp(i) \in Ops
<1> DEFINE material == CurrentQuestion(i).material
<1>1. IsFiniteSet(Material)
  <2>1. IsFiniteSet(MaterialKinds)
    <3>1. MaterialKinds = {"main_answer"} \cup {"follow_up_answer"} \cup {"supplement"}
      BY DEF MaterialKinds
    <3>2. QED
      BY <3>1, FS_Singleton, FS_Union
  <2>2. IsFiniteSet(Ops \X MaterialKinds)
    BY <2>1, InterviewAssumption, FS_Product
  <2> DEFINE f == [p \in Ops \X MaterialKinds |-> [id |-> p[1], kind |-> p[2]]]
  <2>3. \A m \in Material : <<m.id, m.kind>> \in Ops \X MaterialKinds /\ f[<<m.id, m.kind>>] = m
    BY DEF Material
  <2>4. f \in Surjection(Ops \X MaterialKinds, Material)
    <3>1. f \in [Ops \X MaterialKinds -> Material]
      BY DEF Material
    <3> HIDE DEF f
    <3>2. QED
      BY <2>3, <3>1 DEF Surjection
  <2> HIDE DEF f
  <2>5. QED
    BY <2>2, <2>4, FS_Surjection
<1>2. material \in SUBSET Material
  BY CurrentQuestionType DEF Question
<1> HIDE DEF material
<1>3. Cardinality(material) \in Nat
  BY <1>1, <1>2, FS_Subset, FS_CardinalityType
<1>4. Cardinality(material) + 1 \in 1..MaxMaterial
  BY <1>3, AssessmentAssumption DEF material
<1>5. <<i.position, Cardinality(material) + 1>> \in Positions \X (1..MaxMaterial)
  BY <1>4 DEF Interview
<1>6. QED
  BY <1>5, AssessmentAssumption DEF NextOp, material

LEMMA CommandForType ==
  ASSUME NEW i \in Interview, NEW type, Answers(i, type)
  PROVE  /\ CommandFor(i, type) \in PlannedCommand
         /\ PlanFor(i, type) \in Plan
         /\ OperationKind(CommandFor(i, type)) = "answer_analysis"
<1>1. CommandFor(i, type) \in PlannedCommand
  BY InterviewAssumption DEF CommandFor, PlannedCommand, PlannedTypes, Answers, Interview
<1>2. OperationKind(CommandFor(i, type)) = "answer_analysis"
  BY DEF CommandFor, Answers, OperationKind, IsAnswer
<1>3. PlanFor(i, type) \in Plan
  BY <1>1, PlanOfType, InterviewAssumption DEF PlanFor
<1>4. QED
  BY <1>1, <1>2, <1>3

(* The version is kept from growing; nothing else changes. *)
LEMMA UnversionedIs ==
  ASSUME NEW i \in Interview
  PROVE  /\ Unversioned(i) \in Interview
         /\ Sound(i) => Sound(Unversioned(i))
         /\ Unversioned(i).questions = i.questions /\ Unversioned(i).position = i.position
         /\ Unversioned(i).status = i.status /\ Unversioned(i).phase = i.phase
         /\ Unversioned(i).pending = i.pending /\ Unversioned(i).lastActivity = i.lastActivity
         /\ IsPending(Unversioned(i)) <=> IsPending(i)
<1>1. /\ Unversioned(i) \in Interview
      /\ Unversioned(i).questions = i.questions /\ Unversioned(i).position = i.position
      /\ Unversioned(i).status = i.status /\ Unversioned(i).phase = i.phase
      /\ Unversioned(i).pending = i.pending /\ Unversioned(i).lastActivity = i.lastActivity
      /\ Unversioned(i).reportKind = i.reportKind
  BY DEF Unversioned, Interview
<1> DEFINE u == Unversioned(i)
<1> HIDE DEF u
<1>2. Sound(i) => Sound(u)
  BY <1>1 DEF Sound, Phased, Ordered, Requested, Judged, IsPending, UserPhase, CurrentQuestion, u
<1>3. QED
  BY <1>1, <1>2 DEF IsPending, u

(* An accepted answer is the one the plan rebuilt from the interview is for. *)
LEMMA AcceptedIs ==
  ASSUME NEW i \in Interview, Sound(i), ~ IsPending(i), NEW type, Answers(i, type),
         FitsPhase(i, CommandFor(i, type)), NEW u,
         u = AcceptRetriedOperation(i, CommandFor(i, type), 0)
           \/ u = Unversioned(AcceptOperation(i, CommandFor(i, type), 0))
  PROVE  /\ u \in Interview /\ Sound(u) /\ u.questions = i.questions
         /\ Answers(u, type) /\ IsAccepted(u, PlanFor(u, type))
<1> DEFINE c == CommandFor(i, type)
<1>1. c \in PlannedCommand /\ OperationKind(c) = "answer_analysis" /\ 0 \in Times
  BY CommandForType, InterviewAssumption
<1>2. /\ AcceptRetriedOperation(i, c, 0) \in Interview /\ AcceptOperation(i, c, 0) \in Interview
      /\ Sound(AcceptRetriedOperation(i, c, 0)) /\ Sound(AcceptOperation(i, c, 0))
  BY <1>1, AcceptRetriedType, AcceptType, AcceptSound
<1>3. u \in Interview /\ Sound(u)
  BY <1>2, UnversionedIs
<1>4. /\ u.questions = i.questions /\ u.position = i.position /\ u.status = i.status
      /\ u.phase = "processing" /\ u.lastActivity = 0
      /\ u.pending = [op |-> c.op, kind |-> OperationKind(c), position |-> i.position,
                      acceptedAt |-> 0, previous |-> RequiredPhase(c)]
  <2> DEFINE r == AcceptRetriedOperation(i, c, 0)
             a == AcceptOperation(i, c, 0)
  <2>1. /\ r.questions = i.questions /\ r.position = i.position /\ r.status = i.status
        /\ r.phase = "processing" /\ r.lastActivity = 0
        /\ r.pending = [op |-> c.op, kind |-> OperationKind(c), position |-> i.position,
                        acceptedAt |-> 0, previous |-> RequiredPhase(c)]
    BY DEF AcceptRetriedOperation, Interview
  <2>2. /\ a.questions = r.questions /\ a.position = r.position /\ a.status = r.status
        /\ a.phase = r.phase /\ a.lastActivity = r.lastActivity /\ a.pending = r.pending
    BY <1>2 DEF AcceptOperation, Interview
  <2>3. /\ Unversioned(a).questions = a.questions /\ Unversioned(a).position = a.position
        /\ Unversioned(a).status = a.status /\ Unversioned(a).phase = a.phase
        /\ Unversioned(a).pending = a.pending /\ Unversioned(a).lastActivity = a.lastActivity
    BY <1>2, UnversionedIs
  <2>4. u = r \/ u = Unversioned(a)
    OBVIOUS
  <2> HIDE DEF r, a, c
  <2>5. QED
    BY <2>1, <2>2, <2>3, <2>4
<1>5. i.status = "active"
  BY DEF FitsPhase
<1>6. CurrentQuestion(u) = CurrentQuestion(i) /\ NextOp(u) = NextOp(i)
  BY <1>4 DEF CurrentQuestion, NextOp
<1>7. Answers(u, type)
  BY <1>6 DEF Answers
<1>8. /\ CommandFor(u, type).op = c.op
      /\ OperationKind(CommandFor(u, type)) = OperationKind(c)
      /\ RequiredPhase(CommandFor(u, type)) = RequiredPhase(c)
  BY <1>6 DEF CommandFor, OperationKind, IsAnswer, RequiredPhase
<1>9. /\ PlanFor(u, type).interview = u /\ PlanFor(u, type).acceptedAt = 0
      /\ PlanFor(u, type).position = u.position /\ PlanFor(u, type).command = CommandFor(u, type)
  BY DEF PlanFor, PlanOf
<1> HIDE DEF c
<1>10. IsAccepted(u, PlanFor(u, type))
  BY <1>4, <1>5, <1>8, <1>9 DEF IsAccepted
<1>11. QED
  BY <1>3, <1>4, <1>7, <1>10

LEMMA AcceptedPending ==
  ASSUME NEW i, NEW type, Answers(i, type), IsAccepted(i, PlanFor(i, type))
  PROVE  /\ IsPending(i) /\ i.status = "active"
         /\ i.pending.previous = RequiredPhase(CommandFor(i, type))
<1>1. PlanFor(i, type).command = CommandFor(i, type) /\ CommandFor(i, type).op = NextOp(i)
  BY DEF PlanFor, PlanOf, CommandFor
<1>2. NextOp(i) # NoOp
  BY InterviewAssumption DEF Answers
<1>3. QED
  BY <1>1, <1>2 DEF IsAccepted, IsPending

LEMMA CallsAre ==
  /\ IsCall(NoCall) /\ NoCall.stage = "none" /\ ~ NoCall.prepared
  /\ \A stage : IsCall(Begun(stage)) /\ Begun(stage).stage = stage /\ ~ Begun(stage).prepared
  BY DEF IsCall, Begun, NoCall

LEMMA ForThisInterview ==
  /\ \A type : CommandOf(type) = CommandFor(interview, type)
  /\ CurrentPlan = PlanFor(interview, call.type)
  /\ EvaluationRequest = EvaluationFor(interview, texts, call)
  /\ Request = ReportRequest(interview, texts, facts)
  BY DEF CommandOf, CommandFor, CurrentPlan, PlanFor, EvaluationRequest, EvaluationFor, Submitted,
         Request

(* The interview stays and the call goes on, or is followed by one about the  *)
(* same answer.                                                               *)
LEMMA SameInterview ==
  ASSUME AssessmentInv, UNCHANGED <<interview, texts, facts, report>>, IsCall(call'),
         call'.type = call.type,
         call'.stage \in AnswerStages <=> call.stage \in AnswerStages,
         call'.stage \in ReportStages => call.stage \in ReportStages,
         call'.stage # "failed",
         call'.prepared => call'.stage \in {"evaluating", "phrasing", "analyzing"},
         ChecksHold(interview, texts, facts, call')
  PROVE  AssessmentInv'
<1>1. /\ StagesFit(interview, call) /\ interview' = interview /\ texts' = texts
      /\ facts' = facts /\ report' = report
  BY DEF AssessmentInv
<1>2. StagesFit(interview', call')
  BY <1>1 DEF StagesFit
<1>3. ChecksHold(interview', texts', facts', call')
  BY <1>1
<1>4. QED
  BY <1>1, <1>2, <1>3 DEF AssessmentInv

(* Requests and outputs are checked against what stays. *)
LEMMA SameChecks ==
  ASSUME NEW i, NEW t, NEW fs, NEW c, NEW d, ChecksHold(i, t, fs, c),
         d.length = c.length, d.output = c.output, d.stage = c.stage,
         d.prepared => c.prepared \/ d.stage # "evaluating"
  PROVE  ChecksHold(i, t, fs, d)
<1>1. EvaluationFor(i, t, d) = EvaluationFor(i, t, c)
  BY DEF EvaluationFor
<1>2. QED
  BY <1>1 DEF ChecksHold

(* No answer and no report is worked on after the step. *)
LEMMA NothingWorkedOn ==
  ASSUME AssessmentInv, UNCHANGED report, interview' \in Interview, Sound(interview'),
         ~ IsPending(interview'),
         DOMAIN facts' = Positions, FactsOf(interview', facts'),
         IsCall(call'), ~ call'.prepared, call'.stage \in {"none", "failed", "analyzing"},
         call'.stage = "analyzing" => interview'.status = "report_pending",
         call'.stage = "failed" /\ interview'.status = "active" =>
           Answers(interview', call'.type) /\ FitsPhase(interview', CommandFor(interview', call'.type))
  PROVE  AssessmentInv'
<1>1. StagesFit(interview', call')
  BY DEF StagesFit, AnswerStages, ReportStages
<1>2. ChecksHold(interview', texts', facts', call')
  BY DEF ChecksHold
<1>3. report' = report
  OBVIOUS
<1>4. QED
  BY <1>1, <1>2, <1>3 DEF AssessmentInv

(* The facts fit when outcomes and materials stay. *)
LEMMA SameFacts ==
  ASSUME NEW i, NEW j, NEW fs, FactsOf(i, fs),
         \A k \in Positions : /\ j.questions[k].outcome = i.questions[k].outcome
                              /\ MaterialIds(j.questions[k]) = MaterialIds(i.questions[k])
  PROVE  FactsOf(j, fs)
  BY DEF FactsOf

(* Outside the stages of an answer no operation is pending. *)
LEMMA IdleInterview ==
  ASSUME AssessmentInv, call.stage \notin AnswerStages
  PROVE  interview \in Interview /\ Sound(interview) /\ ~ IsPending(interview)
  BY DEF AssessmentInv, StagesFit

-------------------------------------------------------------------------------
(* Commands.                                                                *)

LEMMA AnswerAccepted ==
  ASSUME AssessmentInv, call.stage \notin AnswerStages, NEW type, NEW length,
         Answers(interview, type), FitsPhase(interview, CommandFor(interview, type)),
         interview' = AcceptRetriedOperation(interview, CommandFor(interview, type), 0)
           \/ interview' = Unversioned(AcceptOperation(interview, CommandFor(interview, type), 0)),
         call' = [Begun("evaluating") EXCEPT !.type = type, !.length = length],
         UNCHANGED <<texts, facts, report>>
  PROVE  AssessmentInv'
<1>1. interview \in Interview /\ Sound(interview) /\ ~ IsPending(interview)
  BY IdleInterview
<1> DEFINE u == interview'
<1>2. u = AcceptRetriedOperation(interview, CommandFor(interview, type), 0)
        \/ u = Unversioned(AcceptOperation(interview, CommandFor(interview, type), 0))
  OBVIOUS
<1> HIDE DEF u
<1>3. /\ u \in Interview /\ Sound(u) /\ u.questions = interview.questions
      /\ Answers(u, type) /\ IsAccepted(u, PlanFor(u, type))
  <2>1. Answers(interview, type) /\ FitsPhase(interview, CommandFor(interview, type))
    OBVIOUS
  <2>2. QED
    BY <1>1, <1>2, <2>1, AcceptedIs, Zenon
<1>4. IsCall(call') /\ call'.stage = "evaluating" /\ call'.type = type /\ ~ call'.prepared
  BY DEF IsCall, Begun, NoCall
<1>5. StagesFit(u, call')
  BY <1>3, <1>4 DEF StagesFit, AnswerStages, ReportStages
<1>6. ChecksHold(u, texts', facts', call')
  BY <1>4 DEF ChecksHold
<1>7. FactsOf(u, facts) /\ DOMAIN facts = Positions
  BY <1>3, SameFacts DEF AssessmentInv
<1>8. facts' = facts /\ report' = report
  OBVIOUS
<1>9. QED
  BY <1>3, <1>4, <1>5, <1>6, <1>7, <1>8 DEF AssessmentInv, u

LEMMA SubmitKeeps ==
  ASSUME AssessmentInv, NEW type \in {"submit_answer", "submit_supplement"}, NEW length,
         Submit(type, length)
  PROVE  AssessmentInv'
<1> DEFINE c == CommandFor(interview, type)
<1>1. /\ call.stage \notin AnswerStages
      /\ Cardinality(CurrentQuestion(interview).material) < MaxMaterial
      /\ CanPlan(interview, c)
      /\ interview' = Unversioned(AcceptOperation(interview, c, 0))
      /\ call' = [Begun("evaluating") EXCEPT !.type = type, !.length = length]
      /\ UNCHANGED <<texts, facts, report>>
  BY ForThisInterview DEF Submit, Idle, AnswerStages
<1>2. NextOp(interview) \in Ops
  BY <1>1, IdleInterview, NextOpIsOp
<1>3. FitsPhase(interview, c)
  BY <1>1 DEF CanPlan
<1>4. Answers(interview, type)
  BY <1>2, <1>3 DEF Answers, FitsPhase, CommandFor, IsAnswer
<1>5. QED
  BY <1>1, <1>3, <1>4, AnswerAccepted

LEMMA RetryAnswerKeeps ==
  ASSUME AssessmentInv, RetryAnswer
  PROVE  AssessmentInv'
<1>1. /\ call.stage = "failed" /\ interview.status = "active"
      /\ interview' = AcceptRetriedOperation(interview, CommandFor(interview, call.type), 0)
      /\ call' = [Begun("evaluating") EXCEPT !.type = call.type, !.length = call.length]
      /\ UNCHANGED <<texts, facts, report>>
  BY ForThisInterview DEF RetryAnswer
<1>2. Answers(interview, call.type) /\ FitsPhase(interview, CommandFor(interview, call.type))
  BY <1>1 DEF AssessmentInv, StagesFit
<1>3. call.stage \notin AnswerStages
  BY <1>1 DEF AnswerStages
<1>4. QED
  BY <1>1, <1>2, <1>3, AnswerAccepted

LEMMA RetryReportKeeps ==
  ASSUME AssessmentInv, RetryReport
  PROVE  AssessmentInv'
<1>1. /\ call.stage = "failed" /\ interview.status = "report_pending"
      /\ call' = Begun("analyzing")
      /\ interview' = interview /\ facts' = facts /\ report' = report
  BY DEF RetryReport
<1>2. interview \in Interview /\ Sound(interview) /\ ~ IsPending(interview)
  BY <1>1, IdleInterview DEF AnswerStages
<1>3. FactsOf(interview, facts) /\ DOMAIN facts = Positions
  BY DEF AssessmentInv
<1>4. IsCall(call') /\ call'.stage = "analyzing" /\ ~ call'.prepared
  BY <1>1, CallsAre
<1>5. QED
  BY <1>1, <1>2, <1>3, <1>4, NothingWorkedOn

LEMMA RecordOutcomeKeeps ==
  ASSUME AssessmentInv, NEW outcome \in {"unknown", "skipped"}, RecordOutcome(outcome)
  PROVE  AssessmentInv'
<1> DEFINE r == RecordUnevaluated(interview, outcome, 0)
           p == interview.position
           fact == [NoFacts EXCEPT !.outcome = ZeroOutcome(outcome)]
<1>1. /\ CanRecordUnevaluated(interview) /\ call.stage \notin AnswerStages
      /\ interview' = Unversioned(r) /\ facts' = [facts EXCEPT ![p] = fact]
      /\ call' = NoCall /\ report' = report
  BY DEF RecordOutcome, Idle, AnswerStages
<1>2. interview \in Interview /\ Sound(interview) /\ ~ IsPending(interview)
  BY <1>1, IdleInterview
<1>3. r \in Interview /\ Sound(r)
  BY <1>1, <1>2, RecordUnevaluatedType, RecordUnevaluatedSound, InterviewAssumption
<1>4. /\ r.questions = [interview.questions EXCEPT ![p] =
                          [CurrentQuestion(interview) EXCEPT !.evaluation = {}, !.outcome = outcome]]
      /\ r.pending = interview.pending
  BY <1>2 DEF RecordUnevaluated, WithCurrentQuestion, Interview
<1> HIDE DEF r
<1>5. /\ interview' \in Interview /\ Sound(interview') /\ ~ IsPending(interview')
      /\ interview'.questions = r.questions
  BY <1>1, <1>2, <1>3, <1>4, UnversionedIs DEF IsPending
<1>6. fact.evaluation = NoEvaluation /\ fact.outcome = ZeroOutcome(outcome)
  BY DEF NoFacts
<1> HIDE DEF fact
<1>7. DOMAIN facts' = Positions
  BY <1>1 DEF AssessmentInv
<1>8. FactsOf(interview', facts')
  <2>1. SUFFICES ASSUME NEW k \in Positions, interview'.questions[k].outcome # "none"
                 PROVE  FactFits(MaterialIds(interview'.questions[k]), facts'[k])
    BY DEF FactsOf
  <2>2. CASE k = p
    <3>1. facts'[k] = fact
      BY <1>1, <2>2 DEF AssessmentInv
    <3>2. QED
      BY <1>6, <3>1 DEF FactFits
  <2>3. CASE k # p
    <3>1. facts'[k] = facts[k] /\ interview'.questions[k] = interview.questions[k]
      BY <1>1, <1>2, <1>4, <1>5, <2>3 DEF AssessmentInv, Interview
    <3>2. QED
      BY <2>1, <3>1 DEF AssessmentInv, FactsOf
  <2>4. QED
    BY <2>2, <2>3
<1>9. IsCall(call') /\ call'.stage = "none" /\ ~ call'.prepared
  BY <1>1, CallsAre
<1>10. QED
  BY <1>1, <1>5, <1>7, <1>8, <1>9, NothingWorkedOn

LEMMA RequestingKeeps ==
  ASSUME AssessmentInv, call.stage \notin AnswerStages, NEW next \in Interview, Sound(next),
         ~ IsPending(next), FactsOf(next, facts), Requesting(next)
  PROVE  AssessmentInv'
<1>1. /\ interview' = Unversioned(next) /\ facts' = facts /\ report' = report
      /\ call' = IF next.status = "report_pending" THEN Begun("analyzing") ELSE NoCall
  BY DEF Requesting
<1>2. /\ interview' \in Interview /\ Sound(interview') /\ ~ IsPending(interview')
      /\ interview'.questions = next.questions /\ interview'.status = next.status
  BY <1>1, UnversionedIs
<1>3. FactsOf(interview', facts') /\ DOMAIN facts' = Positions
  BY <1>1, <1>2, SameFacts DEF AssessmentInv
<1>4. /\ IsCall(call') /\ ~ call'.prepared /\ call'.stage \in {"none", "analyzing"}
      /\ call'.stage = "analyzing" => interview'.status = "report_pending"
  BY <1>1, <1>2, CallsAre
<1>5. QED
  BY <1>1, <1>2, <1>3, <1>4, NothingWorkedOn

LEMMA ContinueKeeps ==
  ASSUME AssessmentInv, ContinueInterview
  PROVE  AssessmentInv'
<1> DEFINE next == Continue(interview, 0)
           q == [CurrentQuestion(interview) EXCEPT !.frozen = TRUE]
<1>1. call.stage \notin AnswerStages /\ CanContinue(interview) /\ Requesting(next)
  BY DEF ContinueInterview, Idle, AnswerStages
<1>2. interview \in Interview /\ Sound(interview) /\ ~ IsPending(interview)
  BY <1>1, IdleInterview
<1>3. next \in Interview /\ Sound(next)
  BY <1>1, <1>2, ContinueType, ContinueSound, InterviewAssumption
<1>4. /\ next.questions = [interview.questions EXCEPT ![interview.position] = q]
      /\ ~ IsPending(next)
  BY <1>2 DEF Continue, RequestReport, WithCurrentQuestion, Interview, IsPending, NoPending
<1>5. q.outcome = CurrentQuestion(interview).outcome /\ MaterialIds(q) = MaterialIds(CurrentQuestion(interview))
  BY <1>2, CurrentQuestionType DEF Question, MaterialIds
<1> HIDE DEF next, q
<1>6. \A k \in Positions : /\ next.questions[k].outcome = interview.questions[k].outcome
                           /\ MaterialIds(next.questions[k]) = MaterialIds(interview.questions[k])
  BY <1>2, <1>4, <1>5 DEF Interview, CurrentQuestion
<1>7. FactsOf(next, facts)
  BY <1>6, SameFacts DEF AssessmentInv
<1>8. QED
  BY <1>1, <1>3, <1>4, <1>7, RequestingKeeps

LEMMA EndEarlyKeeps ==
  ASSUME AssessmentInv, EndInterviewEarly
  PROVE  AssessmentInv'
<1> DEFINE next == EndEarly(interview, 0)
<1>1. call.stage \notin AnswerStages /\ CanEndEarly(interview) /\ Requesting(next)
  BY DEF EndInterviewEarly, Idle, AnswerStages
<1>2. interview \in Interview /\ Sound(interview) /\ ~ IsPending(interview)
  BY <1>1, IdleInterview
<1>3. next \in Interview /\ Sound(next)
  BY <1>1, <1>2, RequestReportType, EndEarlySound, InterviewAssumption DEF EndEarly, ReportKinds
<1>4. next.questions = interview.questions /\ ~ IsPending(next)
  BY <1>2 DEF EndEarly, RequestReport, Interview, IsPending, NoPending
<1> HIDE DEF next
<1>5. FactsOf(next, facts)
  BY <1>4, SameFacts DEF AssessmentInv
<1>6. QED
  BY <1>1, <1>3, <1>4, <1>5, RequestingKeeps

-------------------------------------------------------------------------------
(* Execution.                                                               *)

(* What fails gives the interview back as it was before the answer was       *)
(* accepted: the same answer fits it again.                                  *)
LEMMA CancelledFits ==
  ASSUME NEW i \in Interview, Sound(i), NEW type, Answers(i, type), IsAccepted(i, PlanFor(i, type))
  PROVE  LET c == CancelOperation(i)
         IN  /\ c \in Interview /\ Sound(c) /\ ~ IsPending(c) /\ c.questions = i.questions
             /\ c.status = "active" /\ Answers(c, type) /\ FitsPhase(c, CommandFor(c, type))
<1> DEFINE c == CancelOperation(i)
<1>1. IsPending(i) /\ i.status = "active" /\ i.pending.previous = RequiredPhase(CommandFor(i, type))
  BY AcceptedPending
<1>2. c \in Interview /\ Sound(c)
  BY <1>1, CancelType, CancelSound
<1>3. /\ c.questions = i.questions /\ c.position = i.position /\ c.status = i.status
      /\ c.phase = i.pending.previous /\ c.pending = NoPending
  BY DEF CancelOperation, Interview
<1> HIDE DEF c
<1>4. CurrentQuestion(c) = CurrentQuestion(i) /\ NextOp(c) = NextOp(i)
  BY <1>3 DEF CurrentQuestion, NextOp
<1>5. Answers(c, type)
  BY <1>4 DEF Answers
<1>6. /\ RequiredPhase(CommandFor(c, type)) = RequiredPhase(CommandFor(i, type))
      /\ CommandFor(c, type).op = NextOp(c)
  BY DEF RequiredPhase, CommandFor
<1>7. FitsPhase(c, CommandFor(c, type))
  BY <1>1, <1>3, <1>5, <1>6 DEF FitsPhase, Answers
<1>8. ~ IsPending(c)
  BY <1>3 DEF IsPending, NoPending
<1>9. QED
  BY <1>1, <1>2, <1>3, <1>5, <1>7, <1>8 DEF c

LEMMA FailsKeeps ==
  ASSUME AssessmentInv, call.stage \in AnswerStages \cup ReportStages, NEW retryable,
         Fails(retryable)
  PROVE  AssessmentInv'
<1>1. /\ interview' = IF interview.status = "active" THEN CancelOperation(interview) ELSE interview
      /\ facts' = facts /\ report' = report
  BY DEF Fails
<1>2. /\ IsCall(call') /\ ~ call'.prepared
      /\ \/ call'.stage = "failed" /\ call'.type = call.type
         \/ call'.stage = "none"
  BY DEF Fails, IsCall, NoCall
<1>3. /\ interview \in Interview /\ Sound(interview) /\ DOMAIN facts = Positions
      /\ FactsOf(interview, facts) /\ StagesFit(interview, call)
  BY DEF AssessmentInv
<1>4. CASE interview.status = "active"
  <2> DEFINE c == CancelOperation(interview)
  <2>1. Answers(interview, call.type) /\ IsAccepted(interview, PlanFor(interview, call.type))
    BY <1>3, <1>4 DEF StagesFit
  <2>2. /\ c \in Interview /\ Sound(c) /\ ~ IsPending(c) /\ c.questions = interview.questions
        /\ c.status = "active" /\ Answers(c, call.type) /\ FitsPhase(c, CommandFor(c, call.type))
    BY <1>3, <2>1, CancelledFits
  <2>3. interview' = c
    BY <1>1, <1>4
  <2> HIDE DEF c
  <2>4. FactsOf(c, facts)
    BY <1>3, <2>2, SameFacts
  <2>5. call'.stage = "failed" =>
          Answers(interview', call'.type) /\ FitsPhase(interview', CommandFor(interview', call'.type))
    BY <1>2, <2>2, <2>3
  <2>6. interview' \in Interview /\ Sound(interview') /\ ~ IsPending(interview')
    BY <2>2, <2>3
  <2>7. DOMAIN facts' = Positions /\ FactsOf(interview', facts')
    BY <1>1, <1>3, <2>3, <2>4
  <2>8. call'.stage \in {"none", "failed", "analyzing"} /\ call'.stage # "analyzing"
    BY <1>2
  <2>9. QED
    BY <1>1, <1>2, <2>5, <2>6, <2>7, <2>8, NothingWorkedOn
<1>5. CASE interview.status # "active"
  <2>1. call.stage \notin AnswerStages
    BY <1>3, <1>5, AcceptedPending DEF StagesFit
  <2>2. interview' = interview /\ ~ IsPending(interview)
    BY <1>1, <1>5, <2>1, IdleInterview
  <2>3. interview' \in Interview /\ Sound(interview') /\ ~ IsPending(interview')
    BY <1>3, <2>2
  <2>4. DOMAIN facts' = Positions /\ FactsOf(interview', facts')
    BY <1>1, <1>3, <2>2
  <2>5. call'.stage \in {"none", "failed", "analyzing"} /\ call'.stage # "analyzing"
    BY <1>2
  <2>6. interview'.status # "active"
    BY <1>5, <2>2
  <2>7. QED
    BY <1>1, <1>2, <2>3, <2>4, <2>5, <2>6, NothingWorkedOn
<1>6. QED
  BY <1>4, <1>5

LEMMA PrepareKeeps ==
  ASSUME AssessmentInv, Prepare
  PROVE  AssessmentInv'
<1>1. /\ call.stage \in {"evaluating", "phrasing", "analyzing"} /\ RequestFits
      /\ UNCHANGED <<interview, texts, facts, report>>
  BY DEF Prepare, Preparing
<1>2. /\ IsCall(call') /\ call'.stage = call.stage /\ call'.type = call.type
      /\ call'.length = call.length /\ call'.output = call.output
  BY DEF Prepare, AssessmentInv, IsCall
<1>3. call.stage = "evaluating" => EvaluationRequestFits(EvaluationFor(interview, texts, call))
  BY <1>1, ForThisInterview DEF RequestFits
<1>4. EvaluationFor(interview, texts, call') = EvaluationFor(interview, texts, call)
  BY <1>2 DEF EvaluationFor
<1>5. ChecksHold(interview, texts, facts, call')
  BY <1>2, <1>3, <1>4 DEF AssessmentInv, ChecksHold
<1>6. QED
  BY <1>1, <1>2, <1>5, SameInterview DEF AnswerStages, ReportStages

(* A prepared call that goes on after a failure or an unusable reply.        *)
LEMMA GoesOn ==
  ASSUME AssessmentInv, UNCHANGED <<interview, texts, facts, report>>, IsCall(call'), call.prepared,
         call'.stage = call.stage, call'.type = call.type,
         call'.length = call.length, call'.output = call.output, call'.prepared = call.prepared
  PROVE  AssessmentInv'
<1>1. call.stage \in {"evaluating", "phrasing", "analyzing"}
  BY DEF AssessmentInv, StagesFit
<1>2. ChecksHold(interview, texts, facts, call)
  BY DEF AssessmentInv
<1>3. ChecksHold(interview, texts, facts, call')
  BY <1>2, SameChecks
<1>4. QED
  BY <1>1, <1>3, SameInterview

LEMMA TransientFailureKeeps ==
  ASSUME AssessmentInv, TransientFailure
  PROVE  AssessmentInv'
<1>1. /\ call.prepared /\ IsCall(call') /\ call'.stage = call.stage /\ call'.type = call.type
      /\ call'.length = call.length /\ call'.output = call.output
      /\ call'.prepared = call.prepared /\ UNCHANGED <<interview, texts, facts, report>>
  BY DEF TransientFailure, AssessmentInv, IsCall
<1>2. QED
  BY <1>1, GoesOn

LEMMA UnusableReplyKeeps ==
  ASSUME AssessmentInv, UnusableReply
  PROVE  AssessmentInv'
<1>1. call.prepared /\ call.stage \in AnswerStages \cup ReportStages
  BY DEF UnusableReply, AssessmentInv, StagesFit, AnswerStages, ReportStages
<1>2. CASE call.repairing \/ call.stage = "phrasing"
  BY <1>1, <1>2, FailsKeeps DEF UnusableReply
<1>3. CASE ~ (call.repairing \/ call.stage = "phrasing")
  <2>1. /\ IsCall(call') /\ call'.stage = call.stage /\ call'.type = call.type
        /\ call'.length = call.length /\ call'.output = call.output
        /\ call'.prepared = call.prepared /\ UNCHANGED <<interview, texts, facts, report>>
    BY <1>3 DEF UnusableReply, Repair, AssessmentInv, IsCall
  <2>2. QED
    BY <1>1, <2>1, GoesOn
<1>4. QED
  BY <1>2, <1>3

LEMMA Accepts ==
  ASSUME NEW stage, NEW output, Accepting(stage, output)
  PROVE  /\ UNCHANGED <<interview, texts, facts, report>>
         /\ IsCall(call') /\ call'.stage = stage /\ call'.output = output
         /\ call'.type = call.type /\ call'.length = call.length /\ ~ call'.prepared
         /\ EvaluationFor(interview, texts, call') = EvaluationFor(interview, texts, call)
<1>1. /\ UNCHANGED <<interview, texts, facts, report>>
      /\ IsCall(call') /\ call'.stage = stage /\ call'.output = output
      /\ call'.type = call.type /\ call'.length = call.length /\ ~ call'.prepared
  BY DEF Accepting, IsCall, Begun, NoCall
<1>2. EvaluationFor(interview, texts, call') = EvaluationFor(interview, texts, call)
  BY <1>1 DEF EvaluationFor
<1>3. QED
  BY <1>1, <1>2

LEMMA EvaluationReplyKeeps ==
  ASSUME AssessmentInv, EvaluationReply
  PROVE  AssessmentInv'
<1>1. call.stage = "evaluating" /\ call.prepared
  BY DEF EvaluationReply
<1>2. PICK output \in EvaluationOutputs[interview.position] :
        /\ Accepting(IF output.recommendation = NoRecommendation THEN "completing" ELSE "phrasing",
                     output)
        /\ EvaluationAccepted(EvaluationRequest, output)
  BY DEF EvaluationReply
<1> DEFINE stage == IF output.recommendation = NoRecommendation THEN "completing" ELSE "phrasing"
<1>3. stage \in {"phrasing", "completing"}
  OBVIOUS
<1> HIDE DEF stage
<1>4. /\ UNCHANGED <<interview, texts, facts, report>>
      /\ IsCall(call') /\ call'.stage = stage /\ call'.output = output
      /\ call'.type = call.type /\ call'.length = call.length /\ ~ call'.prepared
      /\ EvaluationFor(interview, texts, call') = EvaluationFor(interview, texts, call)
  <2>1. Accepting(stage, output)
    BY <1>2 DEF stage
  <2>2. QED
    BY <2>1, Accepts
<1>5. EvaluationAccepted(EvaluationFor(interview, texts, call), output)
  BY <1>2, ForThisInterview
<1>6. IsOutput(output)
  BY AssessmentAssumption DEF AssessmentInv, Interview
<1>7. EvaluationRequestFits(EvaluationFor(interview, texts, call))
  BY <1>1 DEF AssessmentInv, ChecksHold
<1>8. ChecksHold(interview, texts, facts, call')
  BY <1>3, <1>4, <1>5, <1>6, <1>7 DEF ChecksHold
<1>9. QED
  BY <1>1, <1>3, <1>4, <1>8, SameInterview DEF AnswerStages, ReportStages

LEMMA FollowUpPhrasedKeeps ==
  ASSUME AssessmentInv, FollowUpPhrased
  PROVE  AssessmentInv'
<1>1. call.stage = "phrasing" /\ Accepting("completing", call.output)
  BY DEF FollowUpPhrased
<1>2. /\ UNCHANGED <<interview, texts, facts, report>>
      /\ IsCall(call') /\ call'.stage = "completing" /\ call'.output = call.output
      /\ call'.type = call.type /\ call'.length = call.length /\ ~ call'.prepared
      /\ EvaluationFor(interview, texts, call') = EvaluationFor(interview, texts, call)
  BY <1>1, Accepts
<1>3. /\ EvaluationRequestFits(EvaluationFor(interview, texts, call)) /\ IsOutput(call.output)
      /\ EvaluationAccepted(EvaluationFor(interview, texts, call), call.output)
  BY <1>1 DEF AssessmentInv, ChecksHold
<1>4. ChecksHold(interview, texts, facts, call')
  BY <1>2, <1>3 DEF ChecksHold
<1>5. QED
  BY <1>1, <1>2, <1>4, SameInterview DEF AnswerStages, ReportStages

LEMMA AnalysisReplyKeeps ==
  ASSUME AssessmentInv, NEW output, AnalysisReply(output)
  PROVE  AssessmentInv'
<1>1. /\ call.stage = "analyzing" /\ Accepting("storing", output)
      /\ AnalysisAccepted(ReportRequest(interview, texts, facts), output)
  BY ForThisInterview DEF AnalysisReply
<1>2. /\ UNCHANGED <<interview, texts, facts, report>>
      /\ IsCall(call') /\ call'.stage = "storing" /\ call'.output = output
      /\ call'.type = call.type /\ ~ call'.prepared
  BY <1>1, Accepts
<1>3. ChecksHold(interview, texts, facts, call')
  BY <1>1, <1>2 DEF ChecksHold
<1>4. QED
  BY <1>1, <1>2, <1>3, SameInterview DEF AnswerStages, ReportStages

(* An evaluation the adapter accepted leaves facts that fit the question it   *)
(* is stored with, the answer just evaluated included.                        *)
LEMMA EvaluatedFits ==
  ASSUME NEW request, NEW output, EvaluationRequestFits(request), IsOutput(output),
         EvaluationAccepted(request, output), IsFiniteSet(DOMAIN request.material),
         DOMAIN request.material # {}
  PROVE  FactFits(DOMAIN request.material,
                  [evaluation |-> [classification |-> output.classification, awards |-> output.awards],
                   outcome |-> DerivedOutcome(output.classification, output.awards)])
<1> DEFINE evaluation == [classification |-> output.classification, awards |-> output.awards]
           outcome == DerivedOutcome(output.classification, output.awards)
           fact == [evaluation |-> evaluation, outcome |-> outcome]
           ids == DOMAIN request.material
<1>1. evaluation # NoEvaluation
  BY DEF IsOutput, Classifications, NoEvaluation
<1>2. Cardinality(ids) \in 1..MaxEvaluatedItems
  <2>1. Cardinality(ids) \in Nat /\ Cardinality(ids) # 0
    BY FS_CardinalityType, FS_EmptySet
  <2>2. Cardinality(ids) <= MaxEvaluatedItems /\ MaxEvaluatedItems \in Nat
    BY LimitsAssumption DEF EvaluationRequestFits
  <2>3. QED
    BY <2>1, <2>2
<1>3. DOMAIN output.awards = 1..Len(output.awards)
  BY DEF IsOutput
<1>4. CanScore(output.classification, output.awards, ids)
  BY DEF EvaluationAccepted
<1>5. ASSUME NEW n \in DOMAIN output.awards
      PROVE  /\ Len(output.awards[n].missing) <= MaxPoints
             /\ \A m \in DOMAIN output.awards[n].missing :
                  output.awards[n].missing[m].length \in 1..MaxPointLength
  <2>1. Len(output.awards[n].missing) <= MaxPoints
    BY DEF EvaluationAccepted, MissingPointsFit
  <2>2. \A a \in Range(output.awards) : \A p \in Range(a.missing) : p.length \in 1..MaxPointLength
    BY DEF EvaluationAccepted, PointsAreSayable
  <2>3. output.awards[n] \in Range(output.awards)
    BY DEF Range
  <2>4. \A m \in DOMAIN output.awards[n].missing :
          output.awards[n].missing[m] \in Range(output.awards[n].missing)
    BY DEF Range
  <2>5. QED
    BY <2>1, <2>2, <2>3, <2>4
<1>6. /\ fact.evaluation = evaluation /\ fact.outcome = outcome
      /\ evaluation.classification = output.classification /\ evaluation.awards = output.awards
      /\ outcome = DerivedOutcome(output.classification, output.awards)
  OBVIOUS
<1> HIDE DEF fact, evaluation, outcome, ids
<1>7. FactFits(ids, fact)
  BY <1>1, <1>2, <1>3, <1>4, <1>5, <1>6 DEF FactFits
<1>8. QED
  BY <1>7 DEF fact, evaluation, outcome, ids

(* The completions, of the plan rebuilt from the interview. *)
LEMMA CompletedIs ==
  ASSUME NEW i \in Interview, Sound(i), NEW type, Answers(i, type), IsAccepted(i, PlanFor(i, type)),
         NEW kind \in FollowUpKinds, NEW outcome \in EvaluatedOutcomes
  PROVE  LET f == CompleteWithFollowUp(i, PlanFor(i, type), kind)
             e == CompleteWithEvaluation(i, PlanFor(i, type), outcome)
         IN  /\ f \in Interview /\ Sound(f) /\ ~ IsPending(f)
             /\ f.questions[i.position].outcome = "none"
             /\ \A k \in Positions \ {i.position} : f.questions[k] = i.questions[k]
             /\ e \in Interview /\ Sound(e) /\ ~ IsPending(e)
             /\ MaterialIds(e.questions[i.position]) = MaterialIds(CurrentQuestion(i)) \cup {NextOp(i)}
             /\ \A k \in Positions \ {i.position} : e.questions[k] = i.questions[k]
<1> DEFINE p == PlanFor(i, type)
           f == CompleteWithFollowUp(i, p, kind)
           e == CompleteWithEvaluation(i, p, outcome)
           m == WithMaterial(CurrentQuestion(i), p)
           fq == [m EXCEPT !.followUps = @ \cup {kind}, !.evaluation = {}, !.outcome = "none"]
           eq == [m EXCEPT !.evaluation = MaterialIds(m), !.outcome = outcome]
<1>1. p \in Plan
  BY CommandForType
<1>2. p.command.op = NextOp(i)
  BY DEF PlanFor, PlanOf, CommandFor
<1>3. IsAccepted(i, p)
  OBVIOUS
<1> HIDE DEF p
<1>4. f \in Interview /\ Sound(f) /\ e \in Interview /\ Sound(e)
  BY <1>1, <1>3, FollowUpType, FollowUpSound, EvaluationType, EvaluationSound
<1>5. m \in Question /\ m.material = CurrentQuestion(i).material \cup {[id |-> NextOp(i), kind |-> p.materialKind]}
  BY <1>1, <1>2, CurrentQuestionType, WithMaterialType DEF WithMaterial, Question
<1>6. /\ f.questions = [i.questions EXCEPT ![i.position] = fq] /\ f.pending = NoPending
      /\ e.questions = [i.questions EXCEPT ![i.position] = eq] /\ e.pending = NoPending
  BY DEF CompleteWithFollowUp, CompleteWithEvaluation, WithCurrentQuestion, Interview
<1> HIDE DEF f, e, m
<1>7. fq.outcome = "none" /\ eq.material = m.material
  <2>1. m \in Question
    BY <1>5
  <2>2. DOMAIN m = {"material", "followUps", "clarifications", "evaluation", "outcome", "frozen"}
    BY <2>1 DEF Question
  <2>3. "outcome" \in DOMAIN m
    BY <2>2
  <2>4. fq.outcome = "none"
    BY <2>3
  <2>5. eq.material = m.material
    BY <2>2
  <2>6. QED
    BY <2>4, <2>5
<1> HIDE DEF fq, eq
<1>8. MaterialIds(eq) = MaterialIds(CurrentQuestion(i)) \cup {NextOp(i)}
  <2> DEFINE new == [id |-> NextOp(i), kind |-> p.materialKind]
             M == CurrentQuestion(i).material
  <2>1. eq.material = M \cup {new} /\ new.id = NextOp(i)
    BY <1>5, <1>7
  <2>2. MaterialIds(eq) = {x.id : x \in M \cup {new}}
    BY <2>1 DEF MaterialIds
  <2>3. MaterialIds(CurrentQuestion(i)) = {x.id : x \in M}
    BY DEF MaterialIds
  <2> HIDE DEF new, M
  <2>4. {x.id : x \in M \cup {new}} = {x.id : x \in M} \cup {new.id}
    OBVIOUS
  <2>5. QED
    BY <2>1, <2>2, <2>3, <2>4
<1>9. i.questions \in [Positions -> Question] /\ i.position \in Positions
  BY DEF Interview
<1>10. ~ IsPending(f) /\ ~ IsPending(e)
  BY <1>6 DEF IsPending, NoPending
<1>11. /\ f.questions[i.position] = fq /\ e.questions[i.position] = eq
       /\ \A k \in Positions \ {i.position} : /\ f.questions[k] = i.questions[k]
                                               /\ e.questions[k] = i.questions[k]
  BY <1>6, <1>9
<1>12. QED
  BY <1>4, <1>7, <1>8, <1>10, <1>11 DEF f, e, p

LEMMA FinishAnswerKeeps ==
  ASSUME AssessmentInv, FinishAnswer
  PROVE  AssessmentInv'
<1> DEFINE p == interview.position
           plan == PlanFor(interview, call.type)
           request == EvaluationFor(interview, texts, call)
           kind == call.output.recommendation.kind
           fact == [evaluation |-> [classification |-> call.output.classification,
                                    awards |-> call.output.awards],
                    outcome |-> DerivedOutcome(call.output.classification, call.output.awards)]
<1>1. /\ call.stage = "completing" /\ call' = NoCall /\ report' = report
      /\ IF FollowsUp
         THEN /\ interview' = CompleteWithFollowUp(interview, plan, kind)
              /\ facts' = [facts EXCEPT ![p] = NoFacts]
         ELSE /\ interview' = CompleteWithEvaluation(interview, plan, EngineOutcome)
              /\ facts' = [facts EXCEPT ![p] = fact]
  BY ForThisInterview DEF FinishAnswer, EvaluatedOutcome
<1>2. /\ interview \in Interview /\ Sound(interview) /\ p \in Positions
      /\ Answers(interview, call.type) /\ IsAccepted(interview, plan)
  BY <1>1 DEF AssessmentInv, StagesFit, AnswerStages, Interview
<1>3. DOMAIN facts = Positions /\ FactsOf(interview, facts)
  BY DEF AssessmentInv
<1>4. /\ EvaluationRequestFits(request) /\ IsOutput(call.output)
      /\ EvaluationAccepted(request, call.output)
  BY <1>1 DEF AssessmentInv, ChecksHold
<1>5. DOMAIN request.material = MaterialIds(CurrentQuestion(interview)) \cup {NextOp(interview)}
  BY DEF EvaluationFor
<1>6. IsFiniteSet(DOMAIN request.material) /\ DOMAIN request.material # {}
  <2>1. DOMAIN request.material \subseteq Ops
    BY <1>2, <1>5, CurrentQuestionType, MaterialIdsType DEF Answers
  <2>2. QED
    BY <1>5, <2>1, InterviewAssumption, FS_Subset
<1>7. FactFits(DOMAIN request.material, fact)
  BY <1>4, <1>6, EvaluatedFits
<1>8. EngineOutcome \in EvaluatedOutcomes
  BY DEF EngineOutcome, EvaluatedOutcomes
<1>9. IsCall(call') /\ call'.stage = "none" /\ ~ call'.prepared
  BY <1>1, CallsAre
<1> HIDE DEF fact, request, plan
<1>10. CASE FollowsUp
  <2> DEFINE f == CompleteWithFollowUp(interview, plan, kind)
  <2>1. kind \in FollowUpKinds
    BY <1>4, <1>10 DEF FollowsUp, IsOutput, GoalKinds, FollowUpKinds
  <2>2. /\ f \in Interview /\ Sound(f) /\ ~ IsPending(f)
        /\ f.questions[p].outcome = "none"
        /\ \A k \in Positions \ {p} : f.questions[k] = interview.questions[k]
    BY <1>2, <1>8, <2>1, CompletedIs DEF plan
  <2>3. interview' = f /\ facts' = [facts EXCEPT ![p] = NoFacts]
    BY <1>1, <1>10
  <2> HIDE DEF f
  <2>4. interview' \in Interview /\ Sound(interview') /\ ~ IsPending(interview')
    BY <2>2, <2>3
  <2>5. DOMAIN facts' = Positions /\ FactsOf(interview', facts')
    BY <1>2, <1>3, <2>2, <2>3 DEF FactsOf
  <2>6. QED
    BY <1>1, <1>9, <2>4, <2>5, NothingWorkedOn
<1>11. CASE ~ FollowsUp
  <2> DEFINE e == CompleteWithEvaluation(interview, plan, EngineOutcome)
  <2>1. "depth" \in FollowUpKinds
    BY DEF FollowUpKinds
  <2>2. /\ e \in Interview /\ Sound(e) /\ ~ IsPending(e)
        /\ MaterialIds(e.questions[p]) = DOMAIN request.material
        /\ \A k \in Positions \ {p} : e.questions[k] = interview.questions[k]
    BY <1>2, <1>5, <1>8, <2>1, CompletedIs DEF plan
  <2>3. interview' = e /\ facts' = [facts EXCEPT ![p] = fact]
    BY <1>1, <1>11
  <2> HIDE DEF e
  <2>4. interview' \in Interview /\ Sound(interview') /\ ~ IsPending(interview')
    BY <2>2, <2>3
  <2>5. DOMAIN facts' = Positions /\ FactsOf(interview', facts')
    BY <1>2, <1>3, <1>7, <2>2, <2>3 DEF FactsOf
  <2>6. QED
    BY <1>1, <1>9, <2>4, <2>5, NothingWorkedOn
<1>12. QED
  BY <1>10, <1>11

LEMMA StoreReportKeeps ==
  ASSUME AssessmentInv, StoreReport
  PROVE  AssessmentInv'
<1> DEFINE next == RecordReport(interview)
<1>1. /\ call.stage = "storing" /\ interview.status = "report_pending"
      /\ report' = Snapshot(ReportRequest(interview, texts, facts), call.output)
      /\ interview' = Unversioned(next) /\ call' = NoCall /\ facts' = facts
  BY ForThisInterview DEF StoreReport, CanRecordReport
<1>2. /\ interview \in Interview /\ Sound(interview)
      /\ DOMAIN facts = Positions /\ FactsOf(interview, facts)
      /\ AnalysisAccepted(ReportRequest(interview, texts, facts), call.output)
  BY <1>1 DEF AssessmentInv, ChecksHold
<1>3. Coherent(report')
  BY <1>1, <1>2, SnapshotFits
<1>4. next \in Interview /\ Sound(next)
  BY <1>1, <1>2, RecordReportType, RecordReportSound
<1>5. next.questions = interview.questions /\ ~ IsPending(next)
  BY <1>2 DEF RecordReport, Interview, IsPending, NoPending
<1> HIDE DEF next
<1>6. /\ interview' \in Interview /\ Sound(interview') /\ ~ IsPending(interview')
      /\ interview'.questions = interview.questions
  BY <1>1, <1>4, <1>5, UnversionedIs
<1>7. FactsOf(interview', facts') /\ DOMAIN facts' = Positions
  BY <1>1, <1>2, <1>6, SameFacts
<1>8. IsCall(call') /\ call'.stage = "none" /\ ~ call'.prepared
  BY <1>1, CallsAre
<1>9. StagesFit(interview', call')
  BY <1>6, <1>8 DEF StagesFit, AnswerStages, ReportStages
<1>10. ChecksHold(interview', texts', facts', call')
  BY <1>8 DEF ChecksHold
<1>11. QED
  BY <1>3, <1>6, <1>7, <1>8, <1>9, <1>10 DEF AssessmentInv

-------------------------------------------------------------------------------
LEMMA AssessmentInit == Init => AssessmentInv
<1> SUFFICES ASSUME Init PROVE AssessmentInv
  OBVIOUS
<1>1. /\ interview = FreshInterview /\ facts = [k \in Positions |-> NoFacts]
      /\ call = NoCall /\ report = NoReport
  BY DEF Init
<1>2. interview \in Interview /\ Sound(interview)
  BY <1>1, FreshType, FreshSound
<1>3. ~ IsPending(interview) /\ \A k \in Positions : interview.questions[k].outcome = "none"
  BY <1>1 DEF FreshInterview, FreshQuestion, IsPending, NoPending
<1>4. FactsOf(interview, facts) /\ DOMAIN facts = Positions
  BY <1>1, <1>3 DEF FactsOf
<1>5. IsCall(call) /\ call.stage = "none" /\ ~ call.prepared
  BY <1>1, CallsAre
<1>6. StagesFit(interview, call) /\ ChecksHold(interview, texts, facts, call)
  BY <1>3, <1>5 DEF StagesFit, ChecksHold, AnswerStages, ReportStages
<1>7. QED
  BY <1>1, <1>2, <1>4, <1>5, <1>6 DEF AssessmentInv

LEMMA ExecuteKeeps ==
  ASSUME AssessmentInv, Execute
  PROVE  AssessmentInv'
<1>1. call.prepared => call.stage \in AnswerStages \cup ReportStages
  BY DEF AssessmentInv, StagesFit, AnswerStages, ReportStages
<1>2. CASE RefuseRequest
  BY <1>2, FailsKeeps DEF RefuseRequest, Preparing, AnswerStages, ReportStages
<1>3. CASE ProviderFailure
  BY <1>1, <1>3, FailsKeeps DEF ProviderFailure
<1>4. CASE WithholdReport
  BY <1>4, FailsKeeps DEF WithholdReport, ReportStages
<1>5. CASE call.stage = "analyzing" /\ \E output \in AnalysisOutputs(Request) : AnalysisReply(output)
  BY <1>5, AnalysisReplyKeeps
<1>6. QED
  BY <1>2, <1>3, <1>4, <1>5, PrepareKeeps, TransientFailureKeeps, UnusableReplyKeeps,
     EvaluationReplyKeeps, FollowUpPhrasedKeeps, FinishAnswerKeeps, StoreReportKeeps DEF Execute

LEMMA AssessmentNext == AssessmentInv /\ [Next]_vars => AssessmentInv'
<1> SUFFICES ASSUME AssessmentInv, [Next]_vars PROVE AssessmentInv'
  OBVIOUS
<1>1. CASE UNCHANGED vars
  BY <1>1 DEF vars, AssessmentInv, StagesFit, ChecksHold
<1>2. CASE Execute
  BY <1>2, ExecuteKeeps
<1>3. ASSUME NEW type \in {"submit_answer", "submit_supplement"}, NEW length \in AnswerLengths,
             Submit(type, length)
      PROVE  AssessmentInv'
  BY <1>3, SubmitKeeps
<1>4. ASSUME NEW outcome \in {"unknown", "skipped"}, RecordOutcome(outcome)
      PROVE  AssessmentInv'
  BY <1>4, RecordOutcomeKeeps
<1>5. QED
  BY <1>1, <1>2, <1>3, <1>4, ContinueKeeps, EndEarlyKeeps, RetryAnswerKeeps, RetryReportKeeps DEF Next

(* However calls fail, are repaired, phrased, retried by the server or by the   *)
(* user, given up or withheld: the answer worked on is the one the plan rebuilt  *)
(* from the interview is for, what an adapter checked before or after its call   *)
(* (answer-evaluation-model.ts, report-analysis-model.ts) fits when it is used,   *)
(* and every outcome stands beside the evaluation it was derived from.           *)
THEOREM AssessmentInvariant == Spec => []AssessmentInv
<1>1. QED
  BY AssessmentInit, AssessmentNext, PTL DEF Spec

-------------------------------------------------------------------------------
(* What the adapter's rules accept, the engine's accept: a follow-up of a    *)
(* kind not used yet, an irrelevant answer only after a clarification.       *)
LEMMA FittingCompletes ==
  ASSUME RecommendationFits(call.output, CurrentQuestion(interview).followUps)
  PROVE  CanFinish
<1>1. CASE FollowsUp
  BY <1>1 DEF FollowsUp, CanFinish, CanFollowUp, RecommendationFits
<1>2. CASE ~ FollowsUp
  <2>1. EngineOutcome = "irrelevant" => call.output.classification = "irrelevant"
    BY DEF EngineOutcome, EvaluatedOutcome, DerivedOutcome, ZeroOutcome
  <2>2. QED
    BY <1>2, <2>1 DEF FollowsUp, CanFinish, CanEvaluate, RecommendationFits
<1>3. QED
  BY <1>1, <1>2

(* What the evaluation adapter accepted, the engine accepts too, however      *)
(* many failures, repairs and phrasing calls come between: a checked          *)
(* evaluation never ends in an error no failure is recorded for.              *)
THEOREM AcceptedCompletes == Spec => []CompletionIsAccepted
<1>1. ASSUME AssessmentInv, call.stage = "completing"
      PROVE  CanFinish
  <2>1. EvaluationAccepted(EvaluationFor(interview, texts, call), call.output)
    BY <1>1 DEF AssessmentInv, ChecksHold
  <2>2. RecommendationFits(call.output, CurrentQuestion(interview).followUps)
    BY <2>1 DEF EvaluationAccepted, EvaluationFor
  <2>3. QED
    BY <2>2, FittingCompletes
<1>2. AssessmentInv => CompletionIsAccepted
  BY <1>1 DEF CompletionIsAccepted
<1>3. QED
  BY <1>2, AssessmentInvariant, PTL

(* Whatever was answered, supplemented, skipped or ended early, in an          *)
(* interview of any length and for any rubric: when a report is waited for,    *)
(* createReportAnalysisRequest rebuilds a request whose facts                   *)
(* prepareRequestFacts accepts, size apart, so no interview is left with a      *)
(* report that cannot even be asked for.                                       *)
THEOREM PendingIsAskable == Spec => []PendingReportIsAskable
<1>1. AssessmentInv => PendingReportIsAskable
  BY Askable, ForThisInterview DEF AssessmentInv, PendingReportIsAskable
<1>2. QED
  BY <1>1, AssessmentInvariant, PTL

(* Whatever analysis validateDomainOutput accepts, of whatever request: the     *)
(* snapshot made of it passes the parser of packages/domain/src/reports.ts and  *)
(* the comparison with the stored rows, or it is withheld for what it exposes.  *)
THEOREM AnalysisStores == Spec => []AnalysisIsStorable
<1>1. ASSUME AssessmentInv, call.stage = "storing"
      PROVE  LET made == Snapshot(Request, call.output)
             IN  SnapshotParses(made) /\ StoreAcceptsReport(made, interview, facts)
  <2>1. /\ interview \in Interview /\ Sound(interview) /\ FactsOf(interview, facts)
        /\ interview.status = "report_pending"
        /\ AnalysisAccepted(ReportRequest(interview, texts, facts), call.output)
    BY <1>1 DEF AssessmentInv, StagesFit, ChecksHold, ReportStages
  <2>2. QED
    BY <2>1, SnapshotFits, ForThisInterview
<1>2. AssessmentInv => AnalysisIsStorable
  BY <1>1 DEF AnalysisIsStorable
<1>3. QED
  BY <1>2, AssessmentInvariant, PTL

(* A stored report is coherent: rounding the overall score and each domain's    *)
(* by itself (packages/domain/src/scoring.ts) never takes the overall score      *)
(* outside them, and no text contradicts the outcomes it is printed with.        *)
THEOREM ReportsCohere == Spec => []ReportIsCoherent
<1>1. AssessmentInv => ReportIsCoherent
  BY DEF AssessmentInv, ReportIsCoherent, Coherent
<1>2. QED
  BY <1>1, AssessmentInvariant, PTL
===============================================================================
