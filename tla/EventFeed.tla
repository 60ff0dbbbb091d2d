------------------------------- MODULE EventFeed -------------------------------
(***************************************************************************)
(* What the stream of an operation's events promises the clients that       *)
(* follow it: one feed, numbered as published, of which a client that says  *)
(* where it stands is given the very next event, and a client that says     *)
(* nothing may be started anywhere.  A client can be sent back to starting   *)
(* afresh, never past an event.                                             *)
(***************************************************************************)
EXTENDS Naturals

CONSTANT Clients

VARIABLES
  feed,       \* events published so far
  position    \* of each client: its last event, 0 when it starts afresh

vars == <<feed, position>>

Init ==
  /\ feed = 0
  /\ position = [c \in Clients |-> 0]

Hears(c) ==
  /\ position'[c] \in 1..feed
  /\ position[c] # 0 => position'[c] = position[c] + 1

StartsAfresh(c) == position'[c] = 0

Next ==
  /\ feed' \in Nat /\ feed' >= feed
  /\ position' \in [Clients -> Nat]
  /\ \A c \in Clients : position'[c] = position[c] \/ Hears(c) \/ StartsAfresh(c)

Spec == Init /\ [][Next]_vars
================================================================================
