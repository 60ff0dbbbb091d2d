----------------------------- MODULE QuestionBank -----------------------------
(* The question bank: immutable versions of questions, synchronised from a  *)
(* tree of YAML files, of which at most one version per question is offered *)
(* to new interviews (question-bank-repository.ts, import-question-bank.ts, *)
(* validate-question-bank.ts).  A definition's text, rubric and provenance  *)
(* are one value, its content; the hash of it is that value.                *)
EXTENDS Integers, FiniteSets, SequencesExt

CONSTANTS
  Questions,    \* stable question ids
  Versions,     \* content versions, positive numbers
  Domains,      \* knowledge domains
  Contents      \* what a definition may say

ASSUME BankAssumption == Versions \subseteq Nat \ {0}

Definition ==
  [question : Questions, version : Versions, domain : Domains,
   active : BOOLEAN, reviewed : BOOLEAN, content : Contents]

(* A stored version.  sourceActive is what the file asked for, active       *)
(* whether the version is offered now.                                      *)
Row ==
  [version : Versions, domain : Domains, sourceActive : BOOLEAN,
   active : BOOLEAN, reviewed : BOOLEAN, content : Contents]

SameIdentity(d, e) == d.question = e.question /\ d.version = e.version

(* What the loader of the YAML tree and the request check let through.      *)
IsRelease(entries) ==
  /\ \A d, e \in entries : SameIdentity(d, e) => d = e
  /\ \A d \in entries : d.active => d.reviewed

(* A row as the import writes it, and the immutable part of one.            *)
Imported(d) ==
  [version |-> d.version, domain |-> d.domain, sourceActive |-> d.active,
   active |-> d.active, reviewed |-> d.reviewed, content |-> d.content]

Immutable(r) == [r EXCEPT !.active = FALSE]

Latest(rows) == Max({0} \cup {r.version : r \in rows})

Retired(rows) == {[r EXCEPT !.active = FALSE] : r \in rows}

(* One entry of an import: `known` are the rows of its question read after  *)
(* the lock was taken together with those this import inserted, `rows` the  *)
(* table.  An identical version is a no-op, also if it has been retired; a  *)
(* version that says something else, or is older than the newest known one, *)
(* fails the import, and so does the primary key.                           *)
Entered(state, d) ==
  LET same == {r \in state.known : r.version = d.version}
  IN  IF same # {}
        THEN [state EXCEPT !.ok = @ /\ \A r \in same : Immutable(r) = Immutable(Imported(d))]
        ELSE [ok    |-> /\ state.ok
                        /\ d.version > Latest(state.known)
                        /\ \A r \in state.rows : r.version # d.version,
              known |-> state.known \cup {Imported(d)},
              rows  |-> Retired(state.rows) \cup {Imported(d)}]

(* The entries of one question, in the order of their versions.             *)
EnteredAt(state, entries, v) ==
  LET due == {d \in entries : d.version = v}
  IN  IF due = {} THEN state ELSE Entered(state, CHOOSE d \in due : TRUE)

Synchronized(rows, known, entries) ==
  LET upTo[v \in 0..Latest(entries)] ==
        IF v = 0 THEN [ok |-> TRUE, known |-> known, rows |-> rows]
                 ELSE EnteredAt(upTo[v - 1], entries, v)
  IN  upTo[Latest(entries)]

OfQuestion(entries, q) == {d \in entries : d.question = q}

(* The whole import, of which either every entry is entered or none is.     *)
Synchronizes(bank, known, entries) ==
  \A q \in Questions : Synchronized(bank[q], known[q], OfQuestion(entries, q)).ok

Synchronize(bank, known, entries) ==
  [q \in Questions |-> Synchronized(bank[q], known[q], OfQuestion(entries, q)).rows]

(* listEligibleQuestions: what a new interview may ask.                     *)
Offerable(rows) == {r \in rows : r.active /\ r.sourceActive /\ r.reviewed}

Eligible(bank) ==
  UNION {{[question |-> q, domain |-> r.domain, version |-> r.version] :
            r \in Offerable(bank[q])} : q \in Questions}

(* The newest imported version of a question alone decides whether it is    *)
(* offered: concurrent imports never leave an older version active, and a   *)
(* newer tombstone leaves none.                                             *)
NewestDecides(bank) ==
  \A q \in Questions : \A r \in bank[q] :
    r.active <=> r.version = Latest(bank[q]) /\ r.sourceActive
===============================================================================
