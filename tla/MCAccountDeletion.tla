-------------------------- MODULE MCAccountDeletion --------------------------
(***************************************************************************)
(* One account with an interview and one whose purge always fails.         *)
(***************************************************************************)
EXTENDS AccountDeletion

CONSTANTS alice, mallory, talk

MCAccounts == {alice, mallory}
MCInterviews == {talk}
MCOwner == [i \in MCInterviews |-> alice]
MCPoison == {mallory}
===============================================================================
