------------------------------ MODULE MCRowLocks ------------------------------
(* Two deliveries of one continue, two retries of one target, and whatever   *)
(* may close the interview under them.                                        *)
EXTENDS RowLocks

CONSTANTS ask1, ask2, retry1, retry2, retry3, finish1, delete, leave, refresh, sweep, key1, key2

MCCommandOf == (retry1 :> key1) @@ (retry2 :> key1) @@ (retry3 :> key2)

MCCasts ==
  {{ask1, ask2, retry1, finish1}, {retry1, retry2, finish1, delete},
   {retry1, finish1, leave, refresh}, {retry1, retry3, finish1, sweep}}
===============================================================================
