--------------------------- MODULE BlueprintSelection ---------------------------
(* How the questions of an interview are chosen and ordered                 *)
(* (blueprint-selection.ts, blueprint-coverage.ts).  The selection seed     *)
(* ranks domains and candidates by a hash; every ranking is allowed here,   *)
(* so an operator of this module gives the set of what any seed may choose. *)
EXTENDS QuestionBank

CONSTANTS
  ShortCount,   \* the count of which one domain stays unassessed (5)
  Minimum       \* per longer count, the questions each domain gets at least

(* "none" stands for the domain before the first question.                  *)
ASSUME SelectionAssumption ==
  /\ IsFiniteSet(Domains) /\ Domains # {} /\ "none" \notin Domains
  /\ ShortCount = Cardinality(Domains) - 1
  /\ DOMAIN Minimum \subseteq Nat
  /\ \A count \in DOMAIN Minimum : Minimum[count] \in [Domains -> Nat]

InDomain(candidates, d) == {c \in candidates : c.domain = d}
Unseen(candidates, recent) == {c \in candidates : c.question \notin recent}
Seen(candidates, recent) == {c \in candidates : c.question \in recent}

(* Of `candidates` the n ranked first, unseen ones before recent ones; all  *)
(* of them if there are fewer.                                              *)
Preferred(candidates, recent, n) ==
  LET unseen == Unseen(candidates, recent)
      seen   == Seen(candidates, recent)
      short  == n - Cardinality(unseen)
  IN  IF short <= 0 THEN kSubset(n, unseen)
      ELSE IF short >= Cardinality(seen) THEN {candidates}
      ELSE {unseen \cup more : more \in kSubset(short, seen)}

(* A short interview leaves out a domain such that the others lack as few   *)
(* candidates as possible, and then repeat as few recent ones as possible.  *)
Unavailable(candidates, omitted) ==
  Cardinality({d \in Domains \ {omitted} : InDomain(candidates, d) = {}})

(* Fault: every domain with a recent question counts.                       *)
FaultUnavoidablyRecent(candidates, recent, omitted) ==
  Cardinality({d \in Domains \ {omitted} : Seen(InDomain(candidates, d), recent) # {}})

UnavoidablyRecent(candidates, recent, omitted) ==
  Cardinality({d \in Domains \ {omitted} :
    InDomain(candidates, d) # {} /\ Unseen(InDomain(candidates, d), recent) = {}})

Omittable(candidates, recent) ==
  {d \in Domains : \A e \in Domains :
     \/ Unavailable(candidates, d) < Unavailable(candidates, e)
     \/ /\ Unavailable(candidates, d) = Unavailable(candidates, e)
        /\ UnavoidablyRecent(candidates, recent, d)
             <= UnavoidablyRecent(candidates, recent, e)}

Quotas(candidates, recent, count) ==
  IF count = ShortCount
    THEN {[d \in Domains |-> IF d = omitted THEN 0 ELSE 1] :
            omitted \in Omittable(candidates, recent)}
    ELSE {Minimum[count]}

(* A selection is a shortage if some quota, or the count, cannot be met.    *)
Suffices(candidates, quota, count) ==
  /\ Cardinality(candidates) >= count
  /\ \A d \in Domains : Cardinality(InDomain(candidates, d)) >= quota[d]

(* Every way of meeting the quota, domain by domain.                        *)
Required(candidates, recent, quota) ==
  LET best == [d \in Domains |-> Preferred(InDomain(candidates, d), recent, quota[d])]
  IN  {UNION Range(choice) :
         choice \in {c \in [Domains -> UNION Range(best)] : \A d \in Domains : c[d] \in best[d]}}

(* Slots no quota claims go to the best remaining candidates of any domain. *)
Filled(candidates, recent, required, count) ==
  {required \cup flexible :
     flexible \in Preferred(candidates \ required, recent, count - Cardinality(required))}

Selections(candidates, recent, count) ==
  UNION {UNION {Filled(candidates, recent, required, count) :
                  required \in Required(candidates, recent, quota)} :
           quota \in {q \in Quotas(candidates, recent, count) : Suffices(candidates, q, count)}}

(* The next question comes from a domain with most questions left, other    *)
(* than the previous one while there is another.                            *)
NextDomains(left, previous) ==
  LET open   == {c.domain : c \in left}
      others == IF open = {previous} THEN open ELSE open \ {previous}
  IN  {d \in others : \A e \in others :
         Cardinality(InDomain(left, d)) >= Cardinality(InDomain(left, e))}

LastDomain(order) == IF order = <<>> THEN "none" ELSE order[Len(order)].domain

Interleavings(selected) ==
  LET f[n \in 0..Cardinality(selected)] ==
        IF n = 0 THEN {<<>>}
        ELSE UNION {LET left == {c \in selected : \A i \in 1..(n - 1) : order[i] # c}
                    IN  {Append(order, c) :
                           c \in {x \in left : x.domain \in NextDomains(left, LastDomain(order))}} :
                      order \in f[n - 1]}
  IN  f[Cardinality(selected)]

(* validateInterviewBlueprintCoverage.                                      *)
Covers(picked, count) ==
  /\ Cardinality(picked) = count
  /\ IF count = ShortCount
       THEN \A d \in Domains : Cardinality(InDomain(picked, d)) <= 1
       ELSE \A d \in Domains : Cardinality(InDomain(picked, d)) >= Minimum[count][d]

(* What select returns for some seed: nothing on a shortage.                *)
Blueprints(candidates, recent, count) ==
  {order \in UNION {Interleavings(s) : s \in Selections(candidates, recent, count)} :
     Covers({order[i] : i \in 1..Len(order)}, count)}
===============================================================================
