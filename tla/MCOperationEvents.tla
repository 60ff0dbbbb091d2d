--------------------------- MODULE MCOperationEvents ---------------------------
(* Small instances of OperationEvents for TLC.                               *)
EXTENDS OperationEvents, TLC

AnyClient == Permutations(Clients)
================================================================================
