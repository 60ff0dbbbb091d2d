--------------------------- MODULE ErasureContract ---------------------------
(***************************************************************************)
(* What deletion promises, without requests, leases, workers or clocks: a  *)
(* thing asked to be deleted is hidden at once, stays hidden, and is erased *)
(* as a whole, once, and not before its time; whatever belongs to a hidden  *)
(* account is hidden with it.                                               *)
(***************************************************************************)
EXTENDS Naturals

CONSTANTS Accounts, Interviews, Owner

VARIABLES
  account,    \* kept, hidden or erased
  interview,  \* absent, kept, hidden or erased
  asked,      \* what a deletion was requested for and is still to be erased
  ripe,       \* what may be erased by now
  records     \* how often each erasure was recorded

promised == <<account, interview, asked, ripe, records>>

Belongings(s) == {s} \cup {i \in Interviews : Owner[i] = s}

Init ==
  /\ account = [a \in Accounts |-> "kept"]
  /\ interview = [i \in Interviews |-> "absent"]
  /\ asked = {} /\ ripe = {}
  /\ records = [s \in Accounts \cup Interviews |-> 0]

Create(i) ==
  /\ account[Owner[i]] = "kept" /\ interview[i] = "absent"
  /\ interview' = [interview EXCEPT ![i] = "kept"]
  /\ UNCHANGED <<account, asked, ripe, records>>

HideInterview(i) ==
  /\ account[Owner[i]] = "kept" /\ interview[i] = "kept"
  /\ interview' = [interview EXCEPT ![i] = "hidden"]
  /\ asked' = asked \cup {i}
  /\ UNCHANGED <<account, ripe, records>>

HideAccount(a) ==
  /\ account[a] = "kept"
  /\ account' = [account EXCEPT ![a] = "hidden"]
  /\ interview' = [i \in Interviews |->
       IF Owner[i] = a /\ interview[i] = "kept" THEN "hidden" ELSE interview[i]]
  /\ asked' = asked \cup {a}
  /\ UNCHANGED <<ripe, records>>

Ripen ==
  /\ ripe \subseteq ripe' /\ ripe' \subseteq asked
  /\ UNCHANGED <<account, interview, asked, records>>

Erase(s) ==
  /\ s \in ripe
  /\ account' = [a \in Accounts |-> IF a = s THEN "erased" ELSE account[a]]
  /\ interview' = [i \in Interviews |->
       IF i \in Belongings(s) /\ interview[i] # "absent" THEN "erased" ELSE interview[i]]
  /\ asked' = asked \ Belongings(s)
  /\ ripe' = ripe \ Belongings(s)
  /\ records' = [records EXCEPT ![s] = @ + 1]

Next ==
  \/ \E i \in Interviews : Create(i) \/ HideInterview(i)
  \/ \E a \in Accounts : HideAccount(a)
  \/ \E s \in Accounts \cup Interviews : Erase(s)
  \/ Ripen

Spec == Init /\ [][Next]_promised
===============================================================================
