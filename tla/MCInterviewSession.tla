-------------------------- MODULE MCInterviewSession --------------------------
(***************************************************************************)
(* Operation ids are interchangeable: nothing orders them.                 *)
(***************************************************************************)
EXTENDS InterviewSession, TLC

Symmetry == Permutations(Ops)
===============================================================================
