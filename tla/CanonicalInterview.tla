-------------------------- MODULE CanonicalInterview --------------------------
(***************************************************************************)
(* The abstract specification of one stored interview: it starts as        *)
(* createInterview makes it, and every transaction that writes it goes      *)
(* from the aggregate stored before to one validateInterviewSave accepts    *)
(* after it, or closes it the way the repository itself does.               *)
(***************************************************************************)
EXTENDS SaveTransitions

VARIABLE interview

Init == interview = FreshInterview

(* A transaction that leaves the interview as it was is a stutter.         *)
Next == interview' # interview /\ SaveAccepts(interview, interview')

Spec == Init /\ [][Next]_interview
===============================================================================
