---------------------------- MODULE MCInterviewStore ----------------------------
(***************************************************************************)
(* Versions never go back, and every step that presents a plan (a late     *)
(* completion, a retry, a takeover) asks for the interview's own version:  *)
(* of older plans only the use of their operation id matters.               *)
(***************************************************************************)
EXTENDS InterviewStore, TLC

LivePlans == {p \in plans : p.interview.version = interview.version}

LiveView == <<interview, store, failed, LivePlans, {p.command.op : p \in plans}>>

Symmetry == Permutations(Ops)
===============================================================================
