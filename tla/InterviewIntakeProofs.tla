------------------------- MODULE InterviewIntakeProofs -------------------------
(***************************************************************************)
(* What creating interviews promises for any number of concurrent requests, *)
(* keys, importers and tries; what the bank offers while releases of any     *)
(* size are imported beside each other; and which of all the questions it    *)
(* might choose, and in which order, a blueprint asks.                       *)
(***************************************************************************)
EXTENDS InterviewIntake, SequenceTheorems, FiniteSetTheorems, WellFoundedInduction, TLAPS

-------------------------------------------------------------------------------
(* Shapes.  What was asked, and which questions a request found eligible,   *)
(* is data no step of a creation branches on.                               *)

OperationStatuses == {"none", "pending", "settled"}

IsList(list) ==
  /\ \E S : list \in Seq(S)
  /\ \A n \in DOMAIN list :
       /\ list[n] = [key |-> list[n].key, status |-> list[n].status, asked |-> list[n].asked]
       /\ list[n].key \in Keys

HandlerFields == {"pc", "key", "count", "attempt", "seen"}

IsHandler(x) ==
  /\ x = [field \in HandlerFields |-> x[field]]
  /\ x.pc \in {"creating", "prepared"} => x.key \in Keys

(* No two open interviews, and none without the operation that created it.  *)
Single ==
  /\ \A m, n \in DOMAIN interviews : IsOpen(interviews[m]) /\ IsOpen(interviews[n]) => m = n
  /\ \A m, n \in DOMAIN interviews : interviews[m].key = interviews[n].key => m = n
  /\ \A n \in DOMAIN interviews : operations[interviews[n].key] # "none"

(* A snapshot is behind the tables by whole interviews; as long as it is    *)
(* behind by none, what it shows as free still is.                          *)
Covering(x) ==
  x.pc = "creating" =>
    LET list == x.seen.interviews
    IN  /\ IsList(list) /\ Len(list) <= Len(interviews)
        /\ Len(list) = Len(interviews) =>
             /\ \A n \in DOMAIN list : IsOpen(interviews[n]) => IsOpen(list[n])
             /\ \A k \in Keys : x.seen.operations[k] = "none" => operations[k] = "none"

IntakeInv ==
  /\ IsList(interviews)
  /\ operations \in [Keys -> OperationStatuses]
  /\ handlers = [h \in Handlers |-> handlers[h]]
  /\ \A h \in Handlers : IsHandler(handlers[h]) /\ Covering(handlers[h])
  /\ Single

LEMMA IntakeInit == Init => IntakeInv
<1> SUFFICES ASSUME Init PROVE IntakeInv
  OBVIOUS
<1>1. IsList(<<>>) /\ DOMAIN <<>> = {}
  BY DEF IsList
<1>2. operations \in [Keys -> OperationStatuses]
  BY DEF Init, OperationStatuses
<1>3. /\ handlers = [h \in Handlers |-> handlers[h]]
      /\ \A h \in Handlers : handlers[h] = HandlerAtRest
  BY DEF Init
<1>4. IsHandler(HandlerAtRest) /\ Covering(HandlerAtRest)
  BY DEF HandlerAtRest, IsHandler, HandlerFields, Covering
<1>5. QED
  BY <1>1, <1>2, <1>3, <1>4 DEF Init, IntakeInv, Single

-------------------------------------------------------------------------------
(* Lists of interviews. *)

LEMMA ListLength ==
  ASSUME NEW list, IsList(list)
  PROVE  Len(list) \in Nat /\ DOMAIN list = 1..Len(list)
  BY LenProperties DEF IsList

StatusIsSet(list, n, status, next) == next = [list EXCEPT ![n].status = status]

LEMMA StatusSet ==
  ASSUME NEW list, IsList(list), NEW n \in DOMAIN list, NEW status,
         NEW next, StatusIsSet(list, n, status, next)
  PROVE  /\ IsList(next) /\ Len(next) = Len(list) /\ DOMAIN next = DOMAIN list
         /\ next[n].status = status /\ next[n].key = list[n].key
         /\ \A m \in DOMAIN list \ {n} : next[m] = list[m]
<1> PICK e : e = [key |-> list[n].key, status |-> status, asked |-> list[n].asked]
  OBVIOUS
<1>1. PICK T : list \in Seq(T) /\ e \in T
  <2>1. PICK S : list \in Seq(S)
    BY DEF IsList
  <2>2. list \in Seq(S \cup {e})
    BY <2>1, SeqMonotonic
  <2>3. QED
    BY <2>2
<1>2. n \in 1..Len(list) /\ DOMAIN list = 1..Len(list)
  BY ListLength
<1>3. next = [list EXCEPT ![n] = e]
  <2>1. list[n] = [key |-> list[n].key, status |-> list[n].status, asked |-> list[n].asked]
    BY DEF IsList
  <2>2. [list[n] EXCEPT !.status = status] = e
    BY <2>1
  <2>3. QED
    BY <2>2 DEF StatusIsSet
<1>4. /\ next \in Seq(T) /\ Len(next) = Len(list)
      /\ \A m \in 1..Len(list) : next[m] = IF m = n THEN e ELSE list[m]
  <2>1. list \in [1..Len(list) -> T] /\ Len(list) \in Nat
    BY <1>1, LenProperties
  <2>2. next \in [1..Len(list) -> T] /\ \A m \in 1..Len(list) : next[m] = IF m = n THEN e ELSE list[m]
    BY <1>1, <1>2, <1>3, <2>1
  <2>3. QED
    BY <2>1, <2>2
<1>5. DOMAIN next = 1..Len(list)
  BY <1>4, LenProperties
<1>6. IsList(next)
  BY <1>2, <1>4, <1>5 DEF IsList
<1>7. next[n].status = status /\ next[n].key = list[n].key
  BY <1>2, <1>4
<1>8. \A m \in DOMAIN list \ {n} : next[m] = list[m]
  BY <1>2, <1>4
<1>9. QED
  BY <1>2, <1>4, <1>5, <1>6, <1>7, <1>8

IsAdded(list, key, status, asked, next) ==
  next = Append(list, [key |-> key, status |-> status, asked |-> asked])

LEMMA OneMore ==
  ASSUME NEW list, IsList(list), NEW key \in Keys, NEW status, NEW asked, NEW next,
         IsAdded(list, key, status, asked, next)
  PROVE  /\ IsList(next) /\ Len(next) = Len(list) + 1
         /\ DOMAIN next = DOMAIN list \cup {Len(next)} /\ Len(next) \notin DOMAIN list
         /\ next[Len(next)].key = key
         /\ \A n \in DOMAIN list : next[n] = list[n]
<1> PICK e : e = [key |-> key, status |-> status, asked |-> asked]
  OBVIOUS
<1>1. PICK S : list \in Seq(S)
  BY DEF IsList
<1>2. list \in Seq(S \cup {e}) /\ e \in S \cup {e}
  BY <1>1, SeqMonotonic
<1>3. /\ next \in Seq(S \cup {e}) /\ Len(next) = Len(list) + 1
      /\ \A n \in 1..Len(list) : next[n] = list[n]
      /\ next[Len(list) + 1] = e
  BY <1>2, AppendProperties DEF IsAdded
<1>4. Len(list) \in Nat /\ DOMAIN list = 1..Len(list) /\ DOMAIN next = 1..(Len(list) + 1)
  BY <1>3, ListLength, LenProperties
<1>5. IsList(next)
  BY <1>3, <1>4 DEF IsList
<1>6. QED
  BY <1>3, <1>4, <1>5

-------------------------------------------------------------------------------
(* Handlers move one at a time. *)

LEMMA HandlerReset ==
  ASSUME NEW x, IsHandler(x), x.key \in Keys
  PROVE  /\ IsHandler(Prepared(x)) /\ Prepared(x).pc = "prepared"
         /\ IsHandler(TryAgain(x)) /\ TryAgain(x).seen = Snapshot
  BY DEF IsHandler, HandlerFields, Prepared, TryAgain

LEMMA HandlerMoves ==
  ASSUME IntakeInv, NEW h \in Handlers, NEW x, IsHandler(x), Covering(x)',
         handlers' = [handlers EXCEPT ![h] = x],
         \A y : (\E g \in Handlers : y = handlers[g]) => Covering(y)'
  PROVE  /\ handlers' = [g \in Handlers |-> handlers'[g]]
         /\ \A g \in Handlers : IsHandler(handlers'[g]) /\ Covering(handlers[g])'
<1>1. handlers = [g \in Handlers |-> handlers[g]] /\ \A g \in Handlers : IsHandler(handlers[g])
  BY DEF IntakeInv
<1>2. /\ handlers' = [g \in Handlers |-> handlers'[g]]
      /\ \A g \in Handlers : handlers'[g] = IF g = h THEN x ELSE handlers[g]
  BY <1>1
<1>3. ASSUME NEW g \in Handlers
      PROVE  IsHandler(handlers'[g]) /\ Covering(handlers[g])'
  <2>1. PICK y : y = handlers[g]
    OBVIOUS
  <2>2. Covering(y)'
    BY <2>1
  <2>3. CASE g = h
    BY <1>2, <2>3
  <2>4. CASE g # h
    <3>1. handlers'[g] = y
      BY <1>2, <2>1, <2>4
    <3>2. QED
      BY <1>1, <2>1, <2>2, <3>1
  <2>5. QED
    BY <2>3, <2>4
<1>4. QED
  BY <1>2, <1>3

LEMMA StayingHandlers ==
  ASSUME IntakeInv, handlers' = handlers,
         \A y : (\E g \in Handlers : y = handlers[g]) => Covering(y)'
  PROVE  /\ handlers' = [g \in Handlers |-> handlers'[g]]
         /\ \A g \in Handlers : IsHandler(handlers'[g]) /\ Covering(handlers[g])'
<1>1. ASSUME NEW g \in Handlers
      PROVE  Covering(handlers[g])'
  <2>1. PICK y : y = handlers[g]
    OBVIOUS
  <2>2. Covering(y)' /\ handlers'[g] = y
    BY <2>1
  <2>3. QED
    BY <2>2
<1>2. QED
  BY <1>1 DEF IntakeInv

-------------------------------------------------------------------------------
(* What a step does to the account's tables: at most a status changes, and  *)
(* not to an open one, or an interview comes with its operation's row.      *)

SameKeysUsed ==
  /\ operations' \in [Keys -> OperationStatuses]
  /\ \A k \in Keys : operations'[k] = "none" <=> operations[k] = "none"

TablesKept ==
  /\ IsList(interviews)' /\ operations' \in [Keys -> OperationStatuses]
  /\ Single'
  /\ \A y : (\E g \in Handlers : y = handlers[g]) => Covering(y)'

LEMMA SameTables ==
  ASSUME IntakeInv, interviews' = interviews, SameKeysUsed
  PROVE  TablesKept
<1>1. IsList(interviews)' /\ operations' \in [Keys -> OperationStatuses]
  BY DEF IntakeInv, SameKeysUsed
<1>2. \A n \in DOMAIN interviews : interviews[n].key \in Keys
  BY DEF IntakeInv, IsList
<1>3. Single'
  BY <1>2 DEF IntakeInv, Single, SameKeysUsed
<1>4. \A y : (\E g \in Handlers : y = handlers[g]) => Covering(y)'
  BY DEF IntakeInv, Covering, SameKeysUsed
<1>5. QED
  BY <1>1, <1>3, <1>4 DEF TablesKept

LEMMA StatusMoves ==
  ASSUME IntakeInv, NEW n \in DOMAIN interviews, NEW status,
         status \in {"stale", "ended", "deleting"}, status = "stale" => IsOpen(interviews[n]),
         interviews' = [interviews EXCEPT ![n].status = status], SameKeysUsed
  PROVE  TablesKept
<1>1. IsList(interviews) /\ Len(interviews) \in Nat /\ DOMAIN interviews = 1..Len(interviews)
  BY ListLength DEF IntakeInv
<1>2. /\ IsList(interviews') /\ Len(interviews') = Len(interviews)
      /\ DOMAIN interviews' = DOMAIN interviews
      /\ interviews'[n].status = status /\ interviews'[n].key = interviews[n].key
      /\ \A m \in DOMAIN interviews \ {n} : interviews'[m] = interviews[m]
  <2>1. PICK next : next = [interviews EXCEPT ![n].status = status]
    OBVIOUS
  <2>2. interviews' = next
    BY <2>1
  <2>3. /\ IsList(next) /\ Len(next) = Len(interviews) /\ DOMAIN next = DOMAIN interviews
        /\ next[n].status = status /\ next[n].key = interviews[n].key
        /\ \A m \in DOMAIN interviews \ {n} : next[m] = interviews[m]
    <3>1. StatusIsSet(interviews, n, status, next)
      BY <2>1 DEF StatusIsSet
    <3>2. QED
      BY <1>1, <3>1, StatusSet
  <2>4. QED
    BY <2>2, <2>3
<1>3. \A m \in DOMAIN interviews :
        /\ interviews'[m].key = interviews[m].key /\ interviews[m].key \in Keys
        /\ IsOpen(interviews'[m]) => IsOpen(interviews[m])
  BY <1>1, <1>2 DEF IsOpen, IsList
<1>4. Single'
  BY <1>2, <1>3 DEF IntakeInv, Single, SameKeysUsed
<1>5. ASSUME NEW y, \E g \in Handlers : y = handlers[g]
      PROVE  Covering(y)'
  <2>1. SUFFICES ASSUME y.pc = "creating"
                 PROVE  Covering(y)'
    BY DEF Covering
  <2>2. PICK list : list = y.seen.interviews
    OBVIOUS
  <2>3. /\ IsList(list) /\ Len(list) <= Len(interviews)
        /\ Len(list) = Len(interviews) =>
             /\ \A m \in DOMAIN list : IsOpen(interviews[m]) => IsOpen(list[m])
             /\ \A k \in Keys : y.seen.operations[k] = "none" => operations[k] = "none"
    BY <1>5, <2>1, <2>2 DEF IntakeInv, Covering
  <2>4. Len(list) = Len(interviews) => DOMAIN list = DOMAIN interviews
    BY <1>1, <2>3, ListLength
  <2>5. QED
    BY <1>2, <1>3, <2>2, <2>3, <2>4 DEF Covering, SameKeysUsed
<1>6. QED
  BY <1>2, <1>4, <1>5 DEF TablesKept, SameKeysUsed

LEMMA InterviewComes ==
  ASSUME IntakeInv, NEW h \in Handlers, CreateInterview(h)
  PROVE  TablesKept
<1>1. IsList(interviews) /\ Len(interviews) \in Nat /\ DOMAIN interviews = 1..Len(interviews)
  BY ListLength DEF IntakeInv
<1>2. PICK key : key = handlers[h].key
  OBVIOUS
<1>3. PICK asked : interviews' = Append(interviews, [key |-> key, status |-> "open", asked |-> asked])
  BY <1>2 DEF CreateInterview
<1>4. PICK next : next = Append(interviews, [key |-> key, status |-> "open", asked |-> asked])
  OBVIOUS
<1>5. key \in Keys /\ operations' = [operations EXCEPT ![key] = "pending"]
  BY <1>2 DEF CreateInterview, Creating, IntakeInv, IsHandler
<1>6. /\ IsList(next) /\ Len(next) = Len(interviews) + 1
      /\ DOMAIN next = DOMAIN interviews \cup {Len(next)} /\ Len(next) \notin DOMAIN interviews
      /\ next[Len(next)].key = key
      /\ \A n \in DOMAIN interviews : next[n] = interviews[n]
  <2>1. IsAdded(interviews, key, "open", asked, next)
    BY <1>4 DEF IsAdded
  <2>2. QED
    BY <1>1, <1>5, <2>1, OneMore
<1>7. interviews' = next
  BY <1>3, <1>4
<1>8. /\ operations \in [Keys -> OperationStatuses]
      /\ operations' \in [Keys -> OperationStatuses]
      /\ \A k \in Keys : operations'[k] = IF k = key THEN "pending" ELSE operations[k]
  BY <1>5 DEF IntakeInv, OperationStatuses
<1>9. /\ \A n \in DOMAIN interviews : ~ IsOpen(interviews[n])
      /\ operations[key] = "none"
  <2>1. PICK list : list = handlers[h].seen.interviews
    OBVIOUS
  <2>2. /\ IsList(list) /\ Len(list) = Len(interviews)
        /\ \A n \in DOMAIN list : IsOpen(interviews[n]) => IsOpen(list[n])
        /\ operations[key] = "none"
    BY <1>2, <1>5, <2>1 DEF CreateInterview, Creating, Conflicts, IntakeInv, Covering
  <2>3. DOMAIN list = DOMAIN interviews
    BY <1>1, <2>2, ListLength
  <2>4. \A n \in DOMAIN list : ~ IsOpen(list[n])
    BY <2>1 DEF CreateInterview, OpenOnes
  <2>5. QED
    BY <2>2, <2>3, <2>4
<1>10. \A n \in DOMAIN interviews : interviews[n].key \in Keys /\ interviews[n].key # key
  BY <1>1, <1>9 DEF IntakeInv, Single, IsList
<1>11. /\ \A m, n \in DOMAIN next : IsOpen(next[m]) /\ IsOpen(next[n]) => m = n
       /\ \A m, n \in DOMAIN next : next[m].key = next[n].key => m = n
  BY <1>6, <1>9, <1>10 DEF IntakeInv, Single
<1>12. \A n \in DOMAIN next : operations'[next[n].key] # "none"
  BY <1>5, <1>6, <1>8, <1>10 DEF IntakeInv, Single
<1>13. Single'
  BY <1>7, <1>11, <1>12 DEF Single
<1>14. ASSUME NEW y, \E g \in Handlers : y = handlers[g]
       PROVE  Covering(y)'
  <2>1. SUFFICES ASSUME y.pc = "creating"
                 PROVE  Covering(y)'
    BY DEF Covering
  <2>2. PICK list : list = y.seen.interviews
    OBVIOUS
  <2>3. IsList(list) /\ Len(list) <= Len(interviews) /\ Len(list) \in Nat
    BY <1>14, <2>1, <2>2, ListLength DEF IntakeInv, Covering
  <2>4. Len(list) <= Len(interviews') /\ Len(list) # Len(interviews')
    BY <1>1, <1>6, <1>7, <2>3
  <2>5. QED
    BY <2>2, <2>3, <2>4 DEF Covering
<1>15. QED
  BY <1>6, <1>7, <1>8, <1>13, <1>14 DEF TablesKept

-------------------------------------------------------------------------------
(* Every step.  *)

LEMMA Kept ==
  ASSUME IntakeInv, TablesKept,
         \/ handlers' = handlers
         \/ \E h \in Handlers : \E x :
              IsHandler(x) /\ Covering(x)' /\ handlers' = [handlers EXCEPT ![h] = x]
  PROVE  IntakeInv'
<1>1. /\ handlers' = [g \in Handlers |-> handlers'[g]]
      /\ \A g \in Handlers : IsHandler(handlers'[g]) /\ Covering(handlers[g])'
  <2>1. CASE handlers' = handlers
    BY <2>1, StayingHandlers DEF TablesKept
  <2>2. ASSUME NEW h \in Handlers, NEW x, IsHandler(x), Covering(x)',
               handlers' = [handlers EXCEPT ![h] = x]
        PROVE  /\ handlers' = [g \in Handlers |-> handlers'[g]]
               /\ \A g \in Handlers : IsHandler(handlers'[g]) /\ Covering(handlers[g])'
    BY <2>2, HandlerMoves DEF TablesKept
  <2>3. QED
    BY <2>1, <2>2
<1>2. QED
  BY <1>1 DEF TablesKept, IntakeInv

(* A handler that stops reading is at no interview's front or back.         *)
LEMMA Leaves ==
  ASSUME IntakeInv, NEW h \in Handlers,
         \/ Respond(h)
         \/ handlers' = [handlers EXCEPT ![h] = Prepared(@)]
              /\ handlers[h].pc = "creating"
  PROVE  \E x : IsHandler(x) /\ Covering(x)' /\ handlers' = [handlers EXCEPT ![h] = x]
<1>1. CASE Respond(h)
  <2> PICK x : x = [HandlerAtRest EXCEPT !.pc = "done"]
    OBVIOUS
  <2>1. IsHandler(x) /\ Covering(x)'
    BY DEF HandlerAtRest, IsHandler, HandlerFields, Covering
  <2>2. QED
    BY <1>1, <2>1 DEF Respond
<1>2. CASE handlers' = [handlers EXCEPT ![h] = Prepared(@)]
             /\ handlers[h].pc = "creating"
  <2> PICK y : y = handlers[h]
    OBVIOUS
  <2> PICK x : x = Prepared(y)
    OBVIOUS
  <2>1. handlers' = [handlers EXCEPT ![h] = x]
    BY <1>2
  <2>2. IsHandler(y) /\ y.key \in Keys
    BY <1>2 DEF IntakeInv, IsHandler
  <2>3. IsHandler(x) /\ x.pc = "prepared"
    BY <2>2, HandlerReset
  <2>4. QED
    BY <2>1, <2>3 DEF Covering
<1>3. QED
  BY <1>1, <1>2

LEMMA Looks ==
  ASSUME IntakeInv, NEW h \in Handlers, NEW x, IsHandler(x), x.seen = Snapshot,
         interviews' = interviews, operations' = operations,
         handlers' = [handlers EXCEPT ![h] = x]
  PROVE  IntakeInv'
<1>1. x.seen.interviews = interviews /\ x.seen.operations = operations
  BY DEF Snapshot
<1>2. Len(interviews) \in Nat /\ IsList(interviews)
  BY ListLength DEF IntakeInv
<1>3. Covering(x)'
  BY <1>1, <1>2 DEF Covering
<1>4. SameKeysUsed
  BY DEF SameKeysUsed, IntakeInv
<1>5. TablesKept
  BY <1>4, SameTables
<1>6. QED
  BY <1>3, <1>5, Kept

LEMMA HandleStep ==
  ASSUME IntakeInv, NEW h \in Handlers, Handle(h)
  PROVE  IntakeInv'
<1>1. ASSUME NEW key \in Keys, NEW count \in Counts, BeginCreation(h, key, count)
      PROVE  IntakeInv'
  <2> PICK x : x = [pc |-> "creating", key |-> key, count |-> count, attempt |-> 1, seen |-> Snapshot]
    OBVIOUS
  <2>1. IsHandler(x) /\ x.seen = Snapshot
    BY DEF IsHandler, HandlerFields
  <2>2. QED
    BY <1>1, <2>1, Looks DEF BeginCreation
<1>2. CASE CreatedBefore(h) \/ RefusedForShortage(h) \/ CrashHandler(h)
  <2>1. SameKeysUsed /\ interviews' = interviews
    BY <1>2 DEF CreatedBefore, RefusedForShortage, CrashHandler, SameKeysUsed, IntakeInv
  <2>2. \E x : IsHandler(x) /\ Covering(x)' /\ handlers' = [handlers EXCEPT ![h] = x]
    BY <1>2, Leaves DEF CreatedBefore, RefusedForShortage, CrashHandler
  <2>3. QED
    BY <2>1, <2>2, SameTables, Kept
<1>3. CASE RefusedForOpenOne(h)
  <2>1. \E x : IsHandler(x) /\ Covering(x)' /\ handlers' = [handlers EXCEPT ![h] = x]
    BY <1>3, Leaves DEF RefusedForOpenOne
  <2>2. PICK n \in OpenOnes(handlers[h].seen.interviews) :
          \/ interviews[n].status = "stale" /\ Abandoned(n)
          \/ UNCHANGED <<interviews, operations>>
    BY <1>3 DEF RefusedForOpenOne
  <2>3. CASE UNCHANGED <<interviews, operations>>
    <3>1. SameKeysUsed /\ interviews' = interviews
      BY <2>3 DEF SameKeysUsed, IntakeInv
    <3>2. QED
      BY <2>1, <3>1, SameTables, Kept
  <2>4. CASE interviews[n].status = "stale" /\ Abandoned(n)
    <3>1. n \in DOMAIN interviews
      <4>1. PICK list : list = handlers[h].seen.interviews
        OBVIOUS
      <4>2. IsList(list) /\ Len(list) <= Len(interviews) /\ n \in DOMAIN list
        BY <1>3, <2>2, <4>1 DEF RefusedForOpenOne, Creating, IntakeInv, Covering, OpenOnes
      <4>3. IsList(interviews)
        BY DEF IntakeInv
      <4>4. QED
        BY <4>2, <4>3, ListLength
    <3>2. SameKeysUsed
      BY <2>4, <3>1 DEF Abandoned, SameKeysUsed, IntakeInv, IsList, Single, OperationStatuses
    <3>3. TablesKept
      BY <2>4, <3>1, <3>2, StatusMoves DEF Abandoned
    <3>4. QED
      BY <2>1, <3>3, Kept
  <2>5. QED
    BY <2>2, <2>3, <2>4
<1>4. CASE CreateInterview(h)
  <2>1. \E x : IsHandler(x) /\ Covering(x)' /\ handlers' = [handlers EXCEPT ![h] = x]
    BY <1>4, Leaves DEF CreateInterview, Creating
  <2>2. QED
    BY <1>4, <2>1, InterviewComes, Kept
<1>5. CASE RetryTransaction(h)
  <2>1. interviews' = interviews /\ operations' = operations
    BY <1>5 DEF RetryTransaction
  <2>2. CASE Respond(h)
    <3>1. SameKeysUsed
      BY <2>1 DEF SameKeysUsed, IntakeInv
    <3>2. QED
      BY <2>1, <2>2, <3>1, Leaves, SameTables, Kept
  <2>3. CASE handlers' = [handlers EXCEPT ![h] = TryAgain(@)]
    <3> PICK y : y = handlers[h]
      OBVIOUS
    <3> PICK x : x = TryAgain(y)
      OBVIOUS
    <3>1. handlers' = [handlers EXCEPT ![h] = x]
      BY <2>3
    <3>2. IsHandler(y) /\ y.key \in Keys
      BY <1>5 DEF RetryTransaction, Creating, IntakeInv, IsHandler
    <3>3. IsHandler(x) /\ x.seen = Snapshot
      BY <3>2, HandlerReset
    <3>4. QED
      BY <2>1, <3>1, <3>3, Looks
  <2>4. QED
    BY <1>5, <2>2, <2>3 DEF RetryTransaction
<1>6. CASE SettleCreation(h)
  <2>1. handlers[h].key \in Keys
    BY <1>6 DEF SettleCreation, IntakeInv, IsHandler
  <2>2. SameKeysUsed /\ interviews' = interviews
    BY <1>6, <2>1 DEF SettleCreation, SameKeysUsed, IntakeInv, OperationStatuses
  <2>3. \E x : IsHandler(x) /\ Covering(x)' /\ handlers' = [handlers EXCEPT ![h] = x]
    BY <1>6, Leaves DEF SettleCreation
  <2>4. QED
    BY <2>2, <2>3, SameTables, Kept
<1>7. QED
  BY <1>1, <1>2, <1>3, <1>4, <1>5, <1>6 DEF Handle

LEMMA HappenStep ==
  ASSUME IntakeInv, NEW n \in DOMAIN interviews, Happen(n)
  PROVE  IntakeInv'
<1>1. interviews[n].key \in Keys /\ operations[interviews[n].key] # "none"
  BY DEF IntakeInv, IsList, Single
<1>2. SameKeysUsed
  BY <1>1 DEF Happen, FinishInterview, LeaveAlone, AbandonInterview, Abandoned, DeleteInterview,
     SameKeysUsed, IntakeInv, OperationStatuses
<1>3. handlers' = handlers
  BY DEF Happen, FinishInterview, LeaveAlone, AbandonInterview, DeleteInterview
<1>4. \/ interviews' = [interviews EXCEPT ![n].status = "ended"]
      \/ interviews' = [interviews EXCEPT ![n].status = "deleting"]
      \/ interviews' = [interviews EXCEPT ![n].status = "stale"] /\ IsOpen(interviews[n])
  BY DEF Happen, FinishInterview, LeaveAlone, AbandonInterview, Abandoned, DeleteInterview, IsOpen
<1>5. TablesKept
  BY <1>2, <1>4, StatusMoves
<1>6. QED
  BY <1>3, <1>5, Kept

LEMMA IntakeNext == IntakeInv /\ [Next]_vars => IntakeInv'
<1> SUFFICES ASSUME IntakeInv, [Next]_vars
             PROVE  IntakeInv'
  OBVIOUS
<1>1. CASE UNCHANGED vars \/ \E i \in Importers : Import(i)
  <2>1. interviews' = interviews /\ operations' = operations /\ handlers' = handlers
    BY <1>1 DEF vars, Import, BeginImport, TakeLock, EndImport
  <2>2. SameKeysUsed
    BY <2>1 DEF SameKeysUsed, IntakeInv
  <2>3. QED
    BY <2>1, <2>2, SameTables, Kept
<1>2. QED
  BY <1>1, HandleStep, HappenStep DEF Next

LEMMA IntakeInvariant == Spec => []IntakeInv
  BY IntakeInit, IntakeNext, PTL DEF Spec

(* However often and however concurrently creations are sent, and whatever  *)
(* crashes between their two transactions, an account has at most one open  *)
(* interview, a key at most one interview, and every interview the row of    *)
(* the operation that created it.                                           *)
THEOREM OneInterview == Spec => []OneInterviewPerKey
<1>1. IntakeInv => OneInterviewPerKey
  <2> SUFFICES ASSUME IntakeInv
               PROVE  Cardinality(OpenOnes(interviews)) <= 1
    BY DEF IntakeInv, Single, OneInterviewPerKey
  <2>1. CASE OpenOnes(interviews) = {}
    BY <2>1, FS_EmptySet
  <2>2. CASE OpenOnes(interviews) # {}
    <3>1. PICK n : n \in OpenOnes(interviews)
      BY <2>2
    <3>2. OpenOnes(interviews) = {n}
      BY <3>1 DEF OpenOnes, IntakeInv, Single
    <3>3. Cardinality({n}) = 1
      BY FS_Singleton
    <3>4. QED
      BY <3>2, <3>3
  <2>3. QED
    BY <2>1, <2>2
<1>2. QED
  BY <1>1, IntakeInvariant, PTL

-------------------------------------------------------------------------------
(* Versions.  A finite set of rows or entries has a newest version.          *)

LEMMA LeastNatural ==
  ASSUME NEW T \in SUBSET Nat, T # {}
  PROVE  \E x \in T : \A y \in T : x <= y
<1> DEFINE R == {ss \in Nat \X Nat : ss[1] < ss[2]}
<1>1. IsWellFoundedOn(R, Nat)
  BY NatLessThanWellFounded DEF OpToRel
<1>2. ASSUME NEW x \in Nat, NEW y \in Nat, ~ (<<y, x>> \in R)
      PROVE  x <= y
  <2>1. <<y, x>> \in Nat \X Nat /\ <<y, x>>[1] = y /\ <<y, x>>[2] = x
    OBVIOUS
  <2>2. ~ (y < x)
    BY <1>2, <2>1
  <2>3. QED
    BY <2>2
<1> HIDE DEF R
<1>3. \E x \in T : \A y \in T : ~ (<<y, x>> \in R)
  BY <1>1, WFMin
<1>4. QED
  BY <1>2, <1>3

(* Of finite sets of naturals without a greatest number there would be a    *)
(* smallest, and one number less would not make it greater.                 *)
LEMMA FiniteHasGreatest ==
  ASSUME NEW T \in SUBSET Nat, IsFiniteSet(T), T # {}
  PROVE  \E x \in T : \A y \in T : y <= x
<1> DEFINE Lacks(U) == U # {} /\ ~ \E x \in U : \A y \in U : y <= x
           Sizes == {Cardinality(U) : U \in {V \in SUBSET T : Lacks(V)}}
<1>1. ASSUME Lacks(T)
      PROVE  FALSE
  <2>1. \A U \in SUBSET T : IsFiniteSet(U) /\ Cardinality(U) \in Nat
    BY FS_Subset, FS_CardinalityType
  <2>2. Sizes \in SUBSET Nat /\ Sizes # {}
    BY <1>1, <2>1
  <2>3. PICK least \in Sizes : \A y \in Sizes : least <= y
    <3> HIDE DEF Sizes
    <3>1. QED
      BY <2>2, LeastNatural
  <2>4. PICK U \in SUBSET T : Lacks(U) /\ Cardinality(U) = least
    BY <2>3
  <2>5. PICK u \in U : TRUE
    BY <2>4
  <2>6. IsFiniteSet(U \ {u}) /\ Cardinality(U \ {u}) = least - 1 /\ least \in Nat
    BY <2>1, <2>4, FS_RemoveElement
  <2>7. ~ Lacks(U \ {u})
    <3>1. U \ {u} \in SUBSET T
      OBVIOUS
    <3>2. Lacks(U \ {u}) => Cardinality(U \ {u}) \in Sizes
      BY <3>1
    <3>3. Cardinality(U \ {u}) \notin Sizes
      <4> HIDE DEF Sizes
      <4>1. \A y \in Sizes : y \in Nat /\ least <= y
        BY <2>2, <2>3
      <4>2. QED
        BY <2>6, <4>1
    <3>4. QED
      BY <3>2, <3>3
  <2>8. CASE U \ {u} = {}
    <3>1. U = {u} /\ u \in Nat
      BY <2>8
    <3>2. \A y \in U : y <= u
      BY <3>1
    <3>3. QED
      BY <2>4, <3>2
  <2>9. CASE U \ {u} # {}
    <3>1. PICK x \in U \ {u} : \A y \in U \ {u} : y <= x
      BY <2>7, <2>9
    <3>2. x \in Nat /\ u \in Nat /\ x \in U /\ \A y \in U : y \in Nat
      OBVIOUS
    <3>3. CASE u <= x
      <4>1. \A y \in U : y <= x
        BY <3>1, <3>3
      <4>2. QED
        BY <2>4, <3>2, <4>1
    <3>4. CASE ~ (u <= x)
      <4>1. \A y \in U : y <= u
        BY <3>1, <3>2, <3>4
      <4>2. QED
        BY <2>4, <4>1
    <3>5. QED
      BY <3>3, <3>4
  <2>10. QED
    BY <2>8, <2>9
<1>2. QED
  BY <1>1

(* Rows of which one is the newest; none is newer than version 0.           *)
VersionsOf(rows) == {r.version : r \in rows}

HasLatest(rows) ==
  /\ Latest(rows) \in {0} \cup VersionsOf(rows)
  /\ \A r \in rows : r.version <= Latest(rows)

LEMMA LatestIs ==
  ASSUME NEW rows, VersionsOf(rows) \subseteq Nat, NEW n \in {0} \cup VersionsOf(rows),
         \A r \in rows : r.version <= n
  PROVE  Latest(rows) = n
<1> DEFINE S == {0} \cup {r.version : r \in rows}
<1>1. n \in S /\ \A y \in S : n >= y /\ y \in Nat
  BY DEF VersionsOf
<1>2. Max(S) \in S /\ \A y \in S : Max(S) >= y
  <2> HIDE DEF S
  <2>1. \E x \in S : \A y \in S : x >= y
    BY <1>1
  <2>2. QED
    BY <2>1 DEF Max
<1>3. Max(S) >= n /\ n >= Max(S) /\ Max(S) \in Nat /\ n \in Nat
  <2> HIDE DEF S
  <2>1. QED
    BY <1>1, <1>2
<1>4. Max(S) = n
  <2> HIDE DEF S
  <2>1. QED
    BY <1>3
<1>5. QED
  BY <1>4 DEF Latest

LEMMA FiniteHasLatest ==
  ASSUME NEW rows, VersionsOf(rows) \subseteq Nat, IsFiniteSet(rows)
  PROVE  HasLatest(rows) /\ Latest(rows) \in Nat
<1>1. IsFiniteSet(VersionsOf(rows))
  <2> DEFINE f == [r \in rows |-> r.version]
  <2>1. f \in Surjection(rows, VersionsOf(rows))
    BY DEF Surjection, VersionsOf
  <2>2. QED
    <3> HIDE DEF f
    <3>1. QED
      BY <2>1, FS_Surjection
<1>2. PICK n \in {0} \cup VersionsOf(rows) : \A r \in rows : r.version <= n
  <2>1. CASE rows = {}
    BY <2>1
  <2>2. CASE rows # {}
    <3>1. VersionsOf(rows) # {}
      BY <2>2 DEF VersionsOf
    <3>2. PICK x \in VersionsOf(rows) : \A y \in VersionsOf(rows) : y <= x
      BY <1>1, <3>1, FiniteHasGreatest
    <3>3. QED
      BY <3>2 DEF VersionsOf
  <2>3. QED
    BY <2>1, <2>2
<1>3. Latest(rows) = n
  BY <1>2, LatestIs
<1>4. QED
  BY <1>2, <1>3 DEF HasLatest

-------------------------------------------------------------------------------
(* One import of one question: the state after the entries up to a version.  *)

State == [ok : BOOLEAN, known : SUBSET Row, rows : SUBSET Row]

Begins(rows, known) == [ok |-> TRUE, known |-> known, rows |-> rows]

Enters(f, start, entries, n) ==
  f = [v \in 0..n |-> IF v = 0 THEN start ELSE EnteredAt(f[v - 1], entries, v)]

LEMMA EntersExists ==
  ASSUME NEW start, NEW entries, NEW n \in Nat
  PROVE  \E f : Enters(f, start, entries, n)
<1> DEFINE T == {m \in Nat : ~ \E f : Enters(f, start, entries, m)}
<1>1. ASSUME T # {}
      PROVE  FALSE
  <2>1. PICK m \in T : \A y \in T : m <= y
    <3> HIDE DEF T
    <3>1. T \in SUBSET Nat
      BY DEF T
    <3>2. QED
      BY <1>1, <3>1, LeastNatural
  <2>2. CASE m = 0
    <3> DEFINE g == [v \in 0..0 |-> start]
    <3>1. g = [v \in 0..0 |-> IF v = 0 THEN start ELSE EnteredAt(g[v - 1], entries, v)]
      OBVIOUS
    <3>2. Enters(g, start, entries, 0)
      BY <3>1 DEF Enters
    <3>3. QED
      BY <2>2, <3>2
  <2>3. CASE m # 0
    <3>1. m - 1 \in Nat /\ m - 1 \notin T
      BY <2>1, <2>3
    <3>2. PICK f : Enters(f, start, entries, m - 1)
      BY <3>1
    <3> DEFINE g == [v \in 0..m |-> IF v = m THEN EnteredAt(f[m - 1], entries, m) ELSE f[v]]
    <3>3. \A v \in 0..(m - 1) : f[v] = IF v = 0 THEN start ELSE EnteredAt(f[v - 1], entries, v)
      BY <3>2 DEF Enters
    <3>4. \A v \in 0..(m - 1) : g[v] = f[v]
      BY <3>1
    <3>5. ASSUME NEW v \in 0..m
          PROVE  g[v] = IF v = 0 THEN start ELSE EnteredAt(g[v - 1], entries, v)
      <4>1. CASE v = m
        <5>1. g[v] = EnteredAt(f[v - 1], entries, v) /\ v - 1 \in 0..(m - 1) /\ v # 0
          BY <2>3, <4>1
        <5>2. g[v - 1] = f[v - 1]
          BY <3>4, <5>1
        <5> HIDE DEF g
        <5>3. QED
          BY <5>1, <5>2
      <4>2. CASE v = 0
        <5>1. v \in 0..(m - 1)
          BY <3>1, <4>2
        <5>2. QED
          BY <3>3, <3>4, <4>2, <5>1
      <4>3. CASE v # m /\ v # 0
        <5>1. v \in 0..(m - 1) /\ v - 1 \in 0..(m - 1)
          BY <4>3
        <5>2. g[v] = f[v] /\ g[v - 1] = f[v - 1]
          BY <3>4, <5>1
        <5>3. f[v] = EnteredAt(f[v - 1], entries, v)
          BY <3>3, <4>3, <5>1
        <5> HIDE DEF g
        <5>4. QED
          BY <4>3, <5>2, <5>3
      <4>4. QED
        BY <4>1, <4>2, <4>3
    <3>6. Enters(g, start, entries, m)
      <4>1. g = [v \in 0..m |-> g[v]]
        OBVIOUS
      <4> HIDE DEF g
      <4>2. QED
        BY <3>5, <4>1 DEF Enters
    <3>7. QED
      BY <3>6, <2>1
  <2>4. QED
    BY <2>2, <2>3
<1>2. QED
  BY <1>1

LEMMA SynchronizedIs ==
  ASSUME NEW rows, NEW known, NEW entries, Latest(entries) \in Nat
  PROVE  \E f : /\ Enters(f, Begins(rows, known), entries, Latest(entries))
                /\ Synchronized(rows, known, entries) = f[Latest(entries)]
<1> DEFINE f == CHOOSE f : Enters(f, Begins(rows, known), entries, Latest(entries))
<1>1. Enters(f, Begins(rows, known), entries, Latest(entries))
  BY EntersExists
<1>2. Synchronized(rows, known, entries) = f[Latest(entries)]
  BY DEF Synchronized, Enters, Begins
<1>3. QED
  BY <1>1, <1>2

(* What a finished entry leaves: the newest row alone is offered, if it      *)
(* asks for it, and it is the newest one known.                             *)
Newest(rows) ==
  /\ HasLatest(rows)
  /\ \A r \in rows : r.active <=> r.version = Latest(rows) /\ r.sourceActive

Follows(state) ==
  /\ state \in State
  /\ state.ok => Newest(state.rows) /\ VersionsOf(state.known) = VersionsOf(state.rows)

LEMMA RowVersions ==
  ASSUME NEW rows \in SUBSET Row
  PROVE  VersionsOf(rows) \subseteq Nat /\ \A r \in rows : r.version \in Nat \ {0}
  BY BankAssumption DEF VersionsOf, Row

LEMMA ImportedRow ==
  ASSUME NEW d \in Definition
  PROVE  /\ Imported(d) \in Row /\ Imported(d).version = d.version
         /\ Imported(d).active = d.active /\ Imported(d).sourceActive = d.active
  BY DEF Imported, Row, Definition

LEMMA RetiredRows ==
  ASSUME NEW rows \in SUBSET Row
  PROVE  /\ Retired(rows) \in SUBSET Row /\ VersionsOf(Retired(rows)) = VersionsOf(rows)
         /\ \A s \in Retired(rows) :
              s.active = FALSE /\ \E r \in rows : s.version = r.version
<1>1. ASSUME NEW r \in rows
      PROVE  /\ [r EXCEPT !.active = FALSE] \in Row
             /\ [r EXCEPT !.active = FALSE].version = r.version
             /\ [r EXCEPT !.active = FALSE].active = FALSE
  BY DEF Row
<1>2. QED
  BY <1>1 DEF Retired, VersionsOf

LEMMA SameLatest ==
  ASSUME NEW rows, NEW others, VersionsOf(rows) = VersionsOf(others)
  PROVE  Latest(rows) = Latest(others)
  BY DEF VersionsOf, Latest

LEMMA EntryFollows ==
  ASSUME NEW state, Follows(state), NEW d \in Definition
  PROVE  Follows(Entered(state, d))
<1> DEFINE same == {r \in state.known : r.version = d.version}
           after == Entered(state, d)
<1>1. state \in State
  BY DEF Follows
<1>2. CASE same # {}
  <2>1. PICK agreed \in BOOLEAN : agreed = (\A r \in same : Immutable(r) = Immutable(Imported(d)))
    OBVIOUS
  <2>2. after = [state EXCEPT !.ok = @ /\ agreed]
    BY <1>2, <2>1 DEF Entered
  <2>3. /\ after \in State /\ after.known = state.known /\ after.rows = state.rows
        /\ after.ok => state.ok
    BY <1>1, <2>2 DEF State
  <2> HIDE DEF after
  <2>4. QED
    BY <2>3 DEF Follows, after
<1>3. CASE same = {}
  <2>1. after = [ok    |-> /\ state.ok
                           /\ d.version > Latest(state.known)
                           /\ \A r \in state.rows : r.version # d.version,
                 known |-> state.known \cup {Imported(d)},
                 rows  |-> Retired(state.rows) \cup {Imported(d)}]
    BY <1>3 DEF Entered
  <2>2. PICK ok \in BOOLEAN : ok = (/\ state.ok
                                    /\ d.version > Latest(state.known)
                                    /\ \A r \in state.rows : r.version # d.version)
    BY <1>1 DEF State
  <2>3. PICK known : known = state.known \cup {Imported(d)}
    OBVIOUS
  <2>4. PICK rows : rows = Retired(state.rows) \cup {Imported(d)}
    OBVIOUS
  <2>5. after = [ok |-> ok, known |-> known, rows |-> rows]
    BY <2>1, <2>2, <2>3, <2>4
  <2>6. state.known \in SUBSET Row /\ state.rows \in SUBSET Row
    BY <1>1 DEF State
  <2>7. known \in SUBSET Row /\ rows \in SUBSET Row
    BY <2>3, <2>4, <2>6, ImportedRow, RetiredRows
  <2>8. after \in State /\ after.ok = ok /\ after.known = known /\ after.rows = rows
    BY <2>5, <2>7 DEF State
  <2>9. ASSUME ok
        PROVE  Newest(rows) /\ VersionsOf(known) = VersionsOf(rows)
    <3>1. /\ Newest(state.rows) /\ VersionsOf(state.known) = VersionsOf(state.rows)
          /\ d.version > Latest(state.known)
      BY <2>2, <2>9 DEF Follows
    <3>2. Latest(state.known) = Latest(state.rows)
      BY <3>1, SameLatest
    <3>3. d.version \in Nat /\ d.version # 0
      BY BankAssumption DEF Definition
    <3>4. \A r \in state.rows : r.version < d.version
      <4>1. Latest(state.rows) \in Nat
        BY <2>6, <3>1, RowVersions DEF Newest, HasLatest
      <4>2. \A r \in state.rows : r.version \in Nat /\ r.version <= Latest(state.rows)
        BY <2>6, <3>1, RowVersions DEF Newest, HasLatest
      <4>3. QED
        BY <3>1, <3>2, <3>3, <4>1, <4>2
    <3>5. \A r \in Retired(state.rows) : r.version < d.version /\ r.active = FALSE
      BY <2>6, <3>4, RetiredRows
    <3>6. VersionsOf(rows) = VersionsOf(state.rows) \cup {d.version}
      <4>1. VersionsOf(rows) = VersionsOf(Retired(state.rows)) \cup {d.version}
        BY <2>4, ImportedRow DEF VersionsOf
      <4>2. QED
        BY <2>6, <4>1, RetiredRows
    <3>7. VersionsOf(known) = VersionsOf(state.known) \cup {d.version}
      BY <2>3, ImportedRow DEF VersionsOf
    <3>8. VersionsOf(rows) \subseteq Nat /\ \A r \in rows : r.version \in Nat
      BY <2>7, RowVersions
    <3>9. \A r \in rows : r.version <= d.version
      BY <2>4, <3>3, <3>5, <3>8, ImportedRow
    <3>10. Latest(rows) = d.version
      BY <3>6, <3>8, <3>9, LatestIs
    <3>11. HasLatest(rows)
      BY <3>6, <3>9, <3>10 DEF HasLatest
    <3>12. ASSUME NEW r \in rows
           PROVE  r.active <=> r.version = Latest(rows) /\ r.sourceActive
      <4>1. CASE r = Imported(d)
        <5>1. r.version = d.version /\ r.active = r.sourceActive
          BY <4>1, ImportedRow
        <5>2. QED
          BY <2>7, <3>10, <5>1 DEF Row
      <4>2. CASE r \in Retired(state.rows)
        <5>1. r.version < d.version /\ r.active = FALSE
          BY <3>5, <4>2
        <5>2. r.version # d.version
          BY <3>3, <3>8, <5>1
        <5>3. QED
          BY <3>10, <5>1, <5>2
      <4>3. QED
        BY <2>4, <4>1, <4>2
    <3>13. QED
      BY <3>1, <3>6, <3>7, <3>11, <3>12 DEF Newest
  <2> HIDE DEF after
  <2>10. QED
    BY <2>8, <2>9 DEF Follows, after
<1>4. QED
  BY <1>2, <1>3

LEMMA VersionFollows ==
  ASSUME NEW state, Follows(state), NEW entries \in SUBSET Definition, NEW v
  PROVE  Follows(EnteredAt(state, entries, v))
<1> DEFINE due == {d \in entries : d.version = v}
<1>1. due # {} => (CHOOSE d \in due : TRUE) \in Definition
  OBVIOUS
<1>2. QED
  BY <1>1, EntryFollows DEF EnteredAt

LEMMA SynchronizedFollows ==
  ASSUME NEW rows, NEW known, NEW entries \in SUBSET Definition, IsFiniteSet(entries),
         Follows(Begins(rows, known))
  PROVE  Follows(Synchronized(rows, known, entries))
<1> DEFINE N == Latest(entries)
<1>1. N \in Nat
  <2>1. VersionsOf(entries) \subseteq Nat
    BY BankAssumption DEF VersionsOf, Definition
  <2>2. QED
    BY <2>1, FiniteHasLatest
<1> HIDE DEF N
<1>2. PICK f : Enters(f, Begins(rows, known), entries, N) /\ Synchronized(rows, known, entries) = f[N]
  BY <1>1, SynchronizedIs DEF N
<1>3. \A v \in 0..N : f[v] = IF v = 0 THEN Begins(rows, known) ELSE EnteredAt(f[v - 1], entries, v)
  BY <1>2 DEF Enters
<1> DEFINE T == {v \in 0..N : ~ Follows(f[v])}
<1>4. ASSUME T # {}
      PROVE  FALSE
  <2>1. PICK v \in T : \A y \in T : v <= y
    <3>1. T \in SUBSET Nat
      BY <1>1
    <3> HIDE DEF T
    <3>2. QED
      BY <1>4, <3>1, LeastNatural
  <2>2. v \in 0..N /\ ~ Follows(f[v])
    BY <2>1
  <2>3. v # 0
    BY <1>1, <1>3, <2>2
  <2>4. v - 1 \in 0..N /\ v - 1 \notin T
    BY <1>1, <2>1, <2>2, <2>3
  <2>5. Follows(f[v - 1])
    BY <2>4
  <2>6. f[v] = EnteredAt(f[v - 1], entries, v)
    BY <1>3, <2>2, <2>3
  <2>7. QED
    BY <2>2, <2>5, <2>6, VersionFollows
<1>5. Follows(f[N])
  <2>1. N \in 0..N
    BY <1>1
  <2>2. QED
    BY <1>4, <2>1
<1>6. QED
  BY <1>2, <1>5

(* A first import has nothing to contradict.                                *)
Fresh(state, v) ==
  /\ Follows(state) /\ state.ok
  /\ \A r \in state.known : r.version <= v

LEMMA FirstIsFresh ==
  ASSUME NEW state, NEW entries \in SUBSET Definition, NEW v \in Nat \ {0}, Fresh(state, v - 1)
  PROVE  Fresh(EnteredAt(state, entries, v), v)
<1>1. /\ state \in State /\ Newest(state.rows) /\ VersionsOf(state.known) = VersionsOf(state.rows)
      /\ state.known \in SUBSET Row /\ state.rows \in SUBSET Row
  BY DEF Fresh, Follows, State
<1>2. \A r \in state.known : r.version \in Nat /\ r.version < v
  <2>1. \A r \in state.known : r.version \in Nat /\ r.version <= v - 1
    BY <1>1, RowVersions DEF Fresh
  <2>2. QED
    BY <2>1
<1> DEFINE due == {d \in entries : d.version = v}
<1>3. CASE due = {}
  <2>1. EnteredAt(state, entries, v) = state
    BY <1>3 DEF EnteredAt
  <2>2. \A r \in state.known : r.version <= v
    BY <1>2
  <2>3. QED
    BY <2>1, <2>2 DEF Fresh
<1>4. CASE due # {}
  <2>1. PICK d \in due : EnteredAt(state, entries, v) = Entered(state, d)
    BY <1>4 DEF EnteredAt
  <2>2. d \in Definition /\ d.version = v
    OBVIOUS
  <2>3. {r \in state.known : r.version = d.version} = {}
    BY <1>2, <2>2
  <2>4. /\ Entered(state, d).ok = (/\ state.ok
                                  /\ d.version > Latest(state.known)
                                  /\ \A r \in state.rows : r.version # d.version)
        /\ Entered(state, d).known = state.known \cup {Imported(d)}
    BY <2>3 DEF Entered
  <2>5. Latest(state.known) = Latest(state.rows)
    BY <1>1, SameLatest
  <2>6. Latest(state.rows) \in {0} \cup VersionsOf(state.known)
    BY <1>1 DEF Newest, HasLatest
  <2>7. v > Latest(state.known)
    BY <1>2, <2>5, <2>6 DEF VersionsOf
  <2>8. \A r \in state.rows : r.version # v
    <3>1. \A r \in state.rows : r.version \in VersionsOf(state.known)
      BY <1>1 DEF VersionsOf
    <3>2. \A n \in VersionsOf(state.known) : n \in Nat /\ n < v
      BY <1>2 DEF VersionsOf
    <3>3. QED
      BY <3>1, <3>2
  <2>9. Entered(state, d).ok
    BY <2>2, <2>4, <2>7, <2>8 DEF Fresh
  <2>10. \A r \in Entered(state, d).known : r.version <= v
    BY <1>2, <2>2, <2>4, ImportedRow
  <2>11. Follows(Entered(state, d))
    BY <2>2, EntryFollows DEF Fresh
  <2>12. QED
    BY <2>1, <2>9, <2>10, <2>11 DEF Fresh
<1>5. QED
  BY <1>3, <1>4

LEMMA EmptyFollows == Newest({}) /\ Follows(Begins({}, {}))
<1>1. Latest({}) = 0
  BY LatestIs DEF VersionsOf
<1>2. Newest({})
  BY <1>1 DEF Newest, HasLatest
<1>3. QED
  BY <1>2 DEF Follows, Begins, State

LEMMA FirstSynchronized ==
  ASSUME NEW entries \in SUBSET Definition, IsFiniteSet(entries)
  PROVE  Newest(Synchronized({}, {}, entries).rows) /\ Synchronized({}, {}, entries) \in State
<1> DEFINE N == Latest(entries)
<1>1. N \in Nat
  <2>1. VersionsOf(entries) \subseteq Nat
    BY BankAssumption DEF VersionsOf, Definition
  <2>2. QED
    BY <2>1, FiniteHasLatest
<1> HIDE DEF N
<1>2. PICK f : Enters(f, Begins({}, {}), entries, N) /\ Synchronized({}, {}, entries) = f[N]
  BY <1>1, SynchronizedIs DEF N
<1>3. \A v \in 0..N : f[v] = IF v = 0 THEN Begins({}, {}) ELSE EnteredAt(f[v - 1], entries, v)
  BY <1>2 DEF Enters
<1>4. Fresh(Begins({}, {}), 0)
  BY EmptyFollows DEF Fresh, Begins
<1> DEFINE T == {v \in 0..N : ~ Fresh(f[v], v)}
<1>5. ASSUME T # {}
      PROVE  FALSE
  <2>1. PICK v \in T : \A y \in T : v <= y
    <3>1. T \in SUBSET Nat
      BY <1>1
    <3> HIDE DEF T
    <3>2. QED
      BY <1>5, <3>1, LeastNatural
  <2>2. v \in 0..N /\ ~ Fresh(f[v], v)
    BY <2>1
  <2>3. v # 0
    BY <1>1, <1>3, <1>4, <2>2
  <2>4. v - 1 \in 0..N /\ v - 1 \notin T /\ v \in Nat \ {0}
    BY <1>1, <2>1, <2>2, <2>3
  <2>5. Fresh(f[v - 1], v - 1)
    BY <2>4
  <2>6. f[v] = EnteredAt(f[v - 1], entries, v)
    BY <1>3, <2>2, <2>3
  <2>7. QED
    BY <2>2, <2>4, <2>5, <2>6, FirstIsFresh
<1>6. Fresh(f[N], N)
  <2>1. N \in 0..N
    BY <1>1
  <2>2. QED
    BY <1>5, <2>1
<1>7. QED
  BY <1>2, <1>6 DEF Fresh, Follows

-------------------------------------------------------------------------------
(* Importers.  Who holds the lock compares with what the bank holds.         *)

Importer ==
  [pc : {"idle", "waiting", "importing", "done"},
   release : {entries \in SUBSET Definition : IsFiniteSet(entries)},
   known : [Questions -> SUBSET Row]]

BankInv ==
  /\ bank \in [Questions -> SUBSET Row] /\ \A q \in Questions : Newest(bank[q])
  /\ importers \in [Importers -> Importer]
  /\ \A i \in Importers : importers[i].pc = "importing" => lock = {i} /\ importers[i].known = bank

LEMMA ImporterRests == ImporterAtRest \in Importer
  BY FS_EmptySet DEF ImporterAtRest, Importer, EmptyBank

LEMMA BankInit == Init => BankInv
<1> SUFFICES ASSUME Init
             PROVE  BankInv
  OBVIOUS
<1>1. ASSUME NEW q \in Questions
      PROVE  Newest(Synchronize(EmptyBank, EmptyBank, FirstRelease)[q])
               /\ Synchronize(EmptyBank, EmptyBank, FirstRelease)[q] \in SUBSET Row
  <2>1. OfQuestion(FirstRelease, q) \in SUBSET Definition /\ IsFiniteSet(OfQuestion(FirstRelease, q))
    <3>1. OfQuestion(FirstRelease, q) \subseteq FirstRelease
      BY DEF OfQuestion
    <3>2. QED
      BY <3>1, IntakeAssumption, FS_Subset
  <2>2. Synchronize(EmptyBank, EmptyBank, FirstRelease)[q]
          = Synchronized({}, {}, OfQuestion(FirstRelease, q)).rows
    BY DEF Synchronize, EmptyBank
  <2>3. QED
    BY <2>1, <2>2, FirstSynchronized DEF State
<1>2. bank = [q \in Questions |-> bank[q]]
  BY DEF Init, Synchronize
<1>3. /\ importers \in [Importers -> Importer]
      /\ \A i \in Importers : importers[i].pc # "importing"
  BY ImporterRests DEF Init, ImporterAtRest
<1>4. QED
  BY <1>1, <1>2, <1>3 DEF Init, BankInv

LEMMA BankStays ==
  ASSUME BankInv, UNCHANGED <<bank, importers, lock>>
  PROVE  BankInv'
  BY DEF BankInv, Newest, HasLatest, Latest, VersionsOf

LEMMA ImportBegins ==
  ASSUME BankInv, NEW i \in Importers, NEW release \in Releases, BeginImport(i, release)
  PROVE  BankInv'
<1> DEFINE x == [ImporterAtRest EXCEPT !.pc = "waiting", !.release = release]
<1>1. x \in Importer /\ x.pc # "importing"
  BY ImporterRests, IntakeAssumption DEF Importer
<1>2. importers' = [importers EXCEPT ![i] = x] /\ bank' = bank /\ lock' = lock
  BY DEF BeginImport
<1> HIDE DEF x
<1>3. /\ importers' \in [Importers -> Importer]
      /\ \A j \in Importers : importers'[j].pc = "importing" => importers'[j] = importers[j]
  BY <1>1, <1>2 DEF BankInv
<1>4. QED
  BY <1>2, <1>3 DEF BankInv

LEMMA LockTaken ==
  ASSUME BankInv, NEW i \in Importers, TakeLock(i)
  PROVE  BankInv'
<1> DEFINE x == [importers[i] EXCEPT !.pc = "importing", !.known = bank]
<1>1. importers[i] \in Importer /\ bank \in [Questions -> SUBSET Row]
  BY DEF BankInv
<1>2. x \in Importer /\ x.known = bank
  BY <1>1 DEF Importer
<1>3. importers' = [importers EXCEPT ![i] = x] /\ bank' = bank /\ lock' = {i} /\ lock = {}
  BY <1>1 DEF TakeLock, Known, Importer, BankInv
<1> HIDE DEF x
<1>4. /\ importers' \in [Importers -> Importer] /\ importers'[i] = x
      /\ \A j \in Importers \ {i} : importers'[j] = importers[j]
  BY <1>2, <1>3 DEF BankInv
<1>5. \A j \in Importers : importers[j].pc # "importing"
  BY <1>3 DEF BankInv
<1>6. \A j \in Importers : importers'[j].pc = "importing" => j = i
  BY <1>4, <1>5
<1>7. QED
  BY <1>2, <1>3, <1>4, <1>6 DEF BankInv

LEMMA ImportEnds ==
  ASSUME BankInv, NEW i \in Importers, EndImport(i)
  PROVE  BankInv'
<1> DEFINE x == [ImporterAtRest EXCEPT !.pc = "done"]
           release == importers[i].release
<1>1. x \in Importer /\ x.pc # "importing"
  BY ImporterRests DEF Importer
<1>2. /\ importers' = [importers EXCEPT ![i] = x] /\ lock = {i} /\ importers[i].known = bank
      /\ bank' = IF Synchronizes(bank, bank, release) THEN Synchronize(bank, bank, release) ELSE bank
  BY DEF EndImport, BankInv
<1>3. release \in SUBSET Definition /\ IsFiniteSet(release)
  BY DEF BankInv, Importer
<1> HIDE DEF x, release
<1>4. importers' \in [Importers -> Importer] /\ \A j \in Importers : importers'[j].pc # "importing"
  <2>1. /\ importers' \in [Importers -> Importer] /\ importers'[i] = x
        /\ \A j \in Importers \ {i} : importers'[j] = importers[j]
    BY <1>1, <1>2 DEF BankInv
  <2>2. \A j \in Importers \ {i} : importers[j].pc # "importing"
    BY <1>2 DEF BankInv
  <2>3. QED
    BY <1>1, <2>1, <2>2
<1>5. bank' \in [Questions -> SUBSET Row] /\ \A q \in Questions : Newest(bank'[q])
  <2>1. CASE ~ Synchronizes(bank, bank, release)
    BY <1>2, <2>1 DEF BankInv
  <2>2. CASE Synchronizes(bank, bank, release)
    <3>1. ASSUME NEW q \in Questions
          PROVE  Newest(bank'[q]) /\ bank'[q] \in SUBSET Row
      <4>1. OfQuestion(release, q) \in SUBSET Definition /\ IsFiniteSet(OfQuestion(release, q))
        <5>1. OfQuestion(release, q) \subseteq release
          BY DEF OfQuestion
        <5>2. QED
          BY <1>3, <5>1, FS_Subset
      <4>2. PICK state : state = Synchronized(bank[q], bank[q], OfQuestion(release, q))
        OBVIOUS
      <4>3. bank'[q] = state.rows /\ state.ok
        BY <1>2, <2>2, <4>2 DEF Synchronizes, Synchronize
      <4>4. Follows(Begins(bank[q], bank[q]))
        <5>1. Newest(bank[q]) /\ bank[q] \in SUBSET Row
          BY DEF BankInv
        <5>2. QED
          BY <5>1 DEF Follows, Begins, State
      <4>5. Follows(state)
        BY <4>1, <4>2, <4>4, SynchronizedFollows
      <4>6. QED
        BY <4>3, <4>5 DEF Follows, State
    <3>2. bank' = [q \in Questions |-> bank'[q]]
      BY <1>2, <2>2 DEF Synchronize
    <3>3. QED
      BY <3>1, <3>2
  <2>3. QED
    BY <2>1, <2>2
<1>6. QED
  BY <1>4, <1>5 DEF BankInv, Newest, HasLatest, Latest, VersionsOf

LEMMA BankNext == BankInv /\ [Next]_vars => BankInv'
<1> SUFFICES ASSUME BankInv, [Next]_vars
             PROVE  BankInv'
  OBVIOUS
<1>1. ASSUME NEW i \in Importers, Import(i)
      PROVE  BankInv'
  BY <1>1, ImportBegins, LockTaken, ImportEnds DEF Import
<1>2. ASSUME NEW h \in Handlers, Handle(h)
      PROVE  BankInv'
  <2>1. UNCHANGED <<bank, importers, lock>>
    BY <1>2 DEF Handle, BeginCreation, CreatedBefore, RefusedForOpenOne, RefusedForShortage,
       CreateInterview, RetryTransaction, SettleCreation, CrashHandler
  <2>2. QED
    BY <2>1, BankStays
<1>3. ASSUME NEW n \in DOMAIN interviews, Happen(n)
      PROVE  BankInv'
  <2>1. UNCHANGED <<bank, importers, lock>>
    BY <1>3 DEF Happen, FinishInterview, LeaveAlone, AbandonInterview, DeleteInterview
  <2>2. QED
    BY <2>1, BankStays
<1>4. CASE UNCHANGED vars
  BY <1>4, BankStays DEF vars
<1>5. QED
  BY <1>1, <1>2, <1>3, <1>4 DEF Next

LEMMA BankInvariant == Spec => []BankInv
  BY BankInit, BankNext, PTL DEF Spec

(* Whatever releases any number of importers bring, and however their        *)
(* imports overlap, fail or repeat, the newest version imported of a         *)
(* question alone decides whether it is offered.                            *)
THEOREM NewestVersion == Spec => []NewestVersionDecides
<1>1. BankInv => NewestVersionDecides
  BY DEF BankInv, Newest, NewestVersionDecides, NewestDecides
<1>2. QED
  BY <1>1, BankInvariant, PTL

-------------------------------------------------------------------------------
(* Counting.  A family of subsets that can always be grown by one element    *)
(* has the whole of a finite set.                                           *)

LEMMA OneByOne ==
  ASSUME NEW S, IsFiniteSet(S), NEW G \in SUBSET SUBSET S, {} \in G,
         \A T \in G : \A x \in S \ T : T \cup {x} \in G
  PROVE  S \in G
<1> DEFINE Lacking == {Cardinality(S \ T) : T \in G}
<1>1. \A T \in G : IsFiniteSet(S \ T) /\ Cardinality(S \ T) \in Nat
  <2>1. ASSUME NEW T \in G
        PROVE  IsFiniteSet(S \ T)
    BY FS_Difference
  <2>2. QED
    BY <2>1, FS_CardinalityType
<1>2. Lacking \in SUBSET Nat /\ Lacking # {}
  BY <1>1
<1>3. PICK least \in Lacking : \A y \in Lacking : least <= y
  <2> HIDE DEF Lacking
  <2>1. QED
    BY <1>2, LeastNatural
<1>4. PICK T \in G : Cardinality(S \ T) = least
  BY <1>3
<1>5. CASE S \ T = {}
  <2>1. T = S
    BY <1>5
  <2>2. QED
    BY <2>1
<1>6. CASE S \ T # {}
  <2>1. PICK x \in S \ T : TRUE
    BY <1>6
  <2>2. T \cup {x} \in G
    BY <2>1
  <2>3. S \ (T \cup {x}) = (S \ T) \ {x}
    OBVIOUS
  <2>4. Cardinality(S \ (T \cup {x})) = least - 1
    <3>1. IsFiniteSet(S \ T)
      BY <1>1
    <3>2. Cardinality((S \ T) \ {x}) = Cardinality(S \ T) - 1
      BY <2>1, <3>1, FS_RemoveElement
    <3>3. QED
      BY <1>4, <2>3, <3>2
  <2>5. least - 1 \in Lacking
    BY <2>2, <2>4
  <2>6. least \in Nat
    BY <1>1, <1>4
  <2>7. FALSE
    <3> HIDE DEF Lacking
    <3>1. least <= least - 1
      BY <1>3, <2>5
    <3>2. QED
      BY <2>6, <3>1
  <2>8. QED
    BY <2>7
<1>7. QED
  BY <1>5, <1>6

LEMMA HasSubset ==
  ASSUME NEW S, IsFiniteSet(S), NEW n \in Nat, n <= Cardinality(S)
  PROVE  \E T \in SUBSET S : Cardinality(T) = n
<1> DEFINE Sizes == {Cardinality(T) : T \in {U \in SUBSET S : n <= Cardinality(U)}}
<1>1. \A T \in SUBSET S : IsFiniteSet(T) /\ Cardinality(T) \in Nat
  BY FS_Subset, FS_CardinalityType
<1>2. Sizes \in SUBSET Nat /\ Sizes # {}
  BY <1>1
<1>3. PICK least \in Sizes : \A y \in Sizes : least <= y
  <2> HIDE DEF Sizes
  <2>1. QED
    BY <1>2, LeastNatural
<1>4. PICK T \in SUBSET S : n <= Cardinality(T) /\ Cardinality(T) = least
  BY <1>3
<1>5. CASE least = n
  BY <1>4, <1>5
<1>6. CASE least # n
  <2>1. least \in Nat /\ n < least
    BY <1>1, <1>4, <1>6
  <2>2. PICK x \in T : TRUE
    BY <1>1, <1>4, <2>1, FS_EmptySet
  <2>3. Cardinality(T \ {x}) = least - 1
    BY <1>1, <1>4, <2>2, FS_RemoveElement
  <2>4. n <= least - 1
    BY <2>1
  <2>5. least - 1 \in Sizes
    BY <2>3, <2>4
  <2>6. FALSE
    <3> HIDE DEF Sizes
    <3>1. least <= least - 1
      BY <1>3, <2>5
    <3>2. QED
      BY <2>1, <3>1
  <2>7. QED
    BY <2>6
<1>7. QED
  BY <1>5, <1>6

LEMMA Parts ==
  ASSUME NEW A, NEW B, IsFiniteSet(A), IsFiniteSet(B), A \cap B = {}
  PROVE  /\ IsFiniteSet(A \cup B)
         /\ Cardinality(A \cup B) = Cardinality(A) + Cardinality(B)
<1>1. /\ IsFiniteSet(A \cup B)
      /\ Cardinality(A \cup B) = Cardinality(A) + Cardinality(B) - Cardinality(A \cap B)
  BY FS_Union
<1>2. Cardinality(A \cap B) = 0 /\ Cardinality(A) \in Nat /\ Cardinality(B) \in Nat
  BY FS_EmptySet, FS_CardinalityType
<1>3. QED
  BY <1>1, <1>2

-------------------------------------------------------------------------------
(* Candidates.  Recent questions are repeated only when the others have run   *)
(* out, and then as few of them as can be.                                  *)

LEMMA SeenOrNot ==
  ASSUME NEW S, IsFiniteSet(S), NEW recent
  PROVE  /\ Seen(S, recent) \in SUBSET S /\ Unseen(S, recent) \in SUBSET S
         /\ Seen(S, recent) \cap Unseen(S, recent) = {}
         /\ Seen(S, recent) \cup Unseen(S, recent) = S
         /\ IsFiniteSet(Seen(S, recent)) /\ IsFiniteSet(Unseen(S, recent))
         /\ Cardinality(S) \in Nat /\ Cardinality(Seen(S, recent)) \in Nat
         /\ Cardinality(Unseen(S, recent)) \in Nat
         /\ Cardinality(S) = Cardinality(Seen(S, recent)) + Cardinality(Unseen(S, recent))
<1>1. /\ Seen(S, recent) \in SUBSET S /\ Unseen(S, recent) \in SUBSET S
      /\ Seen(S, recent) \cap Unseen(S, recent) = {}
      /\ Seen(S, recent) \cup Unseen(S, recent) = S
  BY DEF Seen, Unseen
<1>2. /\ IsFiniteSet(Seen(S, recent)) /\ IsFiniteSet(Unseen(S, recent))
      /\ Cardinality(S) \in Nat /\ Cardinality(Seen(S, recent)) \in Nat
      /\ Cardinality(Unseen(S, recent)) \in Nat
  BY <1>1, FS_Subset, FS_CardinalityType
<1>3. Cardinality(S) = Cardinality(Seen(S, recent)) + Cardinality(Unseen(S, recent))
  BY <1>1, <1>2, Parts
<1>4. QED
  BY <1>1, <1>2, <1>3

(* Fewer in all, and either none of them recent or all of the unseen ones.   *)
LEMMA FewestSeen ==
  ASSUME NEW recent, NEW p, NEW q, IsFiniteSet(p), IsFiniteSet(q),
         Cardinality(p) <= Cardinality(q),
         Seen(p, recent) = {} \/ Unseen(q, recent) \subseteq p
  PROVE  Cardinality(Seen(p, recent)) <= Cardinality(Seen(q, recent))
<1>1. /\ Cardinality(p) \in Nat /\ Cardinality(Seen(p, recent)) \in Nat
      /\ Cardinality(Unseen(p, recent)) \in Nat /\ IsFiniteSet(Unseen(p, recent))
      /\ Cardinality(p) = Cardinality(Seen(p, recent)) + Cardinality(Unseen(p, recent))
  BY SeenOrNot
<1>2. /\ Cardinality(q) \in Nat /\ Cardinality(Seen(q, recent)) \in Nat
      /\ Cardinality(Unseen(q, recent)) \in Nat /\ IsFiniteSet(Unseen(q, recent))
      /\ Cardinality(q) = Cardinality(Seen(q, recent)) + Cardinality(Unseen(q, recent))
  BY SeenOrNot
<1>3. CASE Seen(p, recent) = {}
  BY <1>2, <1>3, FS_EmptySet
<1>4. CASE Unseen(q, recent) \subseteq p
  <2>1. Unseen(q, recent) \in SUBSET Unseen(p, recent)
    BY <1>4 DEF Unseen
  <2>2. Cardinality(Unseen(q, recent)) <= Cardinality(Unseen(p, recent))
    BY <1>1, <2>1, FS_Subset
  <2>3. QED
    BY <1>1, <1>2, <2>2
<1>5. QED
  BY <1>3, <1>4

Prefers(p, candidates, recent, n) ==
  /\ n >= 0 /\ p \in SUBSET candidates
  /\ n <= Cardinality(candidates) => Cardinality(p) = n
  /\ Seen(p, recent) # {} => Unseen(candidates, recent) \subseteq p

LEMMA PreferredAre ==
  ASSUME NEW candidates, IsFiniteSet(candidates), NEW recent, NEW n \in Int
  PROVE  /\ \A p \in Preferred(candidates, recent, n) : Prefers(p, candidates, recent, n)
         /\ n >= 0 => Preferred(candidates, recent, n) # {}
<1> DEFINE unseen == Unseen(candidates, recent)
           seen   == Seen(candidates, recent)
           short  == n - Cardinality(unseen)
<1>1. /\ seen \in SUBSET candidates /\ unseen \in SUBSET candidates
      /\ seen \cap unseen = {} /\ seen \cup unseen = candidates
      /\ IsFiniteSet(seen) /\ IsFiniteSet(unseen)
      /\ Cardinality(candidates) \in Nat /\ Cardinality(seen) \in Nat
      /\ Cardinality(unseen) \in Nat
      /\ Cardinality(candidates) = Cardinality(seen) + Cardinality(unseen)
  BY SeenOrNot
<1>2. /\ \A p : p \in SUBSET unseen => Seen(p, recent) = {}
      /\ \A s, k : kSubset(k, s) = {t \in SUBSET s : Cardinality(t) = k}
  BY DEF Unseen, Seen, kSubset
<1>3. CASE short <= 0
  <2>1. Preferred(candidates, recent, n) = {t \in SUBSET unseen : Cardinality(t) = n}
    BY <1>2, <1>3 DEF Preferred
  <2> HIDE DEF unseen, seen
  <2>2. ASSUME NEW p \in SUBSET unseen, Cardinality(p) = n
        PROVE  Prefers(p, candidates, recent, n)
    <3>1. Cardinality(p) \in Nat
      BY <1>1, FS_Subset, FS_CardinalityType
    <3>2. Seen(p, recent) = {} /\ p \in SUBSET candidates
      BY <1>1, <1>2
    <3>3. QED
      BY <2>2, <3>1, <3>2 DEF Prefers
  <2>3. ASSUME n >= 0
        PROVE  \E t \in SUBSET unseen : Cardinality(t) = n
    <3>1. n \in Nat /\ n <= Cardinality(unseen)
      BY <1>1, <1>3, <2>3
    <3>2. QED
      BY <1>1, <3>1, HasSubset
  <2>4. QED
    BY <2>1, <2>2, <2>3
<1>4. CASE ~ (short <= 0) /\ short >= Cardinality(seen)
  <2>1. Preferred(candidates, recent, n) = {candidates}
    BY <1>4 DEF Preferred
  <2> HIDE DEF unseen, seen
  <2>2. n >= 0 /\ n >= Cardinality(candidates)
    BY <1>1, <1>4
  <2>3. Prefers(candidates, candidates, recent, n)
    BY <1>1, <2>2 DEF Prefers, unseen
  <2>4. QED
    BY <2>1, <2>3
<1>5. CASE ~ (short <= 0) /\ ~ (short >= Cardinality(seen))
  <2>1. Preferred(candidates, recent, n)
          = {unseen \cup more : more \in {t \in SUBSET seen : Cardinality(t) = short}}
    BY <1>2, <1>5 DEF Preferred
  <2>2. short \in Nat /\ short <= Cardinality(seen) /\ n >= 0 /\ n = Cardinality(unseen) + short
    BY <1>1, <1>5
  <2> HIDE DEF unseen, seen, short
  <2>3. ASSUME NEW more \in SUBSET seen, Cardinality(more) = short
        PROVE  Prefers(unseen \cup more, candidates, recent, n)
    <3>1. IsFiniteSet(more) /\ unseen \cap more = {} /\ unseen \cup more \in SUBSET candidates
      BY <1>1, FS_Subset
    <3>2. Cardinality(unseen \cup more) = n
      BY <1>1, <2>2, <2>3, <3>1, Parts
    <3>3. QED
      BY <2>2, <3>1, <3>2 DEF Prefers, unseen
  <2>4. \E t \in SUBSET seen : Cardinality(t) = short
    BY <1>1, <2>2, HasSubset
  <2>5. QED
    BY <2>1, <2>3, <2>4
<1>6. QED
  BY <1>3, <1>4, <1>5

-------------------------------------------------------------------------------
(* Domains. *)

Choice(candidates) ==
  IsFiniteSet(candidates) /\ \A c \in candidates : c.domain \in Domains

DomainsOf(candidates) == {c.domain : c \in candidates}

LEMMA InOneDomain ==
  ASSUME NEW S, IsFiniteSet(S), NEW d
  PROVE  /\ InDomain(S, d) \in SUBSET S /\ IsFiniteSet(InDomain(S, d))
         /\ Cardinality(InDomain(S, d)) \in Nat
         /\ Cardinality(InDomain(S, d)) <= Cardinality(S)
<1>1. InDomain(S, d) \in SUBSET S
  BY DEF InDomain
<1>2. QED
  BY <1>1, FS_Subset, FS_CardinalityType

LEMMA ByDomain ==
  ASSUME NEW A, NEW B, Choice(A), IsFiniteSet(B),
         \A d \in Domains : Cardinality(InDomain(A, d)) <= Cardinality(InDomain(B, d))
  PROVE  Cardinality(A) <= Cardinality(B)
<1> DEFINE Of(S, D) == {c \in S : c.domain \in D}
           G == {D \in SUBSET Domains : Cardinality(Of(A, D)) <= Cardinality(Of(B, D))}
<1>1. IsFiniteSet(A) /\ IsFiniteSet(B) /\ IsFiniteSet(Domains) /\ \A c \in A : c.domain \in Domains
  BY SelectionAssumption DEF Choice
<1>2. \A D : IsFiniteSet(Of(A, D)) /\ IsFiniteSet(Of(B, D))
  BY <1>1, FS_Subset
<1>3. \A D : Cardinality(Of(A, D)) \in Nat /\ Cardinality(Of(B, D)) \in Nat
  BY <1>2, FS_CardinalityType
<1>4. {} \in G
  <2>1. Of(A, {}) = {} /\ Of(B, {}) = {}
    OBVIOUS
  <2>2. Cardinality(Of(A, {})) = 0 /\ Cardinality(Of(B, {})) = 0
    BY <2>1, FS_EmptySet
  <2>3. QED
    BY <2>2
<1>5. ASSUME NEW D \in G, NEW d \in Domains \ D
      PROVE  D \cup {d} \in G
  <2>1. /\ Of(A, D \cup {d}) = Of(A, D) \cup InDomain(A, d) /\ Of(A, D) \cap InDomain(A, d) = {}
        /\ Of(B, D \cup {d}) = Of(B, D) \cup InDomain(B, d) /\ Of(B, D) \cap InDomain(B, d) = {}
    BY DEF InDomain
  <2>2. /\ IsFiniteSet(InDomain(A, d)) /\ IsFiniteSet(InDomain(B, d))
        /\ Cardinality(InDomain(A, d)) \in Nat /\ Cardinality(InDomain(B, d)) \in Nat
    BY <1>1, InOneDomain
  <2>3. Cardinality(InDomain(A, d)) <= Cardinality(InDomain(B, d))
    OBVIOUS
  <2>4. Cardinality(Of(A, D)) <= Cardinality(Of(B, D)) /\ D \cup {d} \in SUBSET Domains
    OBVIOUS
  <2> HIDE DEF Of
  <2>5. /\ Cardinality(Of(A, D \cup {d})) = Cardinality(Of(A, D)) + Cardinality(InDomain(A, d))
        /\ Cardinality(Of(B, D \cup {d})) = Cardinality(Of(B, D)) + Cardinality(InDomain(B, d))
    BY <1>2, <2>1, <2>2, Parts
  <2>6. Cardinality(Of(A, D \cup {d})) <= Cardinality(Of(B, D \cup {d}))
    BY <1>3, <2>2, <2>3, <2>4, <2>5
  <2>7. QED
    BY <2>4, <2>6
<1>6. Domains \in G
  <2>1. G \in SUBSET SUBSET Domains
    OBVIOUS
  <2> HIDE DEF G
  <2>2. \A D \in G : \A d \in Domains \ D : D \cup {d} \in G
    BY <1>5
  <2>3. QED
    BY <1>1, <1>4, <2>1, <2>2, OneByOne
<1>7. Cardinality(Of(A, Domains)) <= Cardinality(Of(B, Domains))
  BY <1>6
<1>8. Of(A, Domains) = A /\ Of(B, Domains) \in SUBSET B
  BY <1>1
<1>9. Cardinality(Of(B, Domains)) <= Cardinality(B) /\ Cardinality(B) \in Nat
  BY <1>1, <1>8, FS_Subset, FS_CardinalityType
<1> HIDE DEF Of
<1>10. QED
  BY <1>3, <1>7, <1>8, <1>9

LEMMA Sole ==
  ASSUME NEW T, IsFiniteSet(T)
  PROVE  Cardinality(T) <= 1 <=> \A c, e \in T : c = e
<1>1. Cardinality(T) \in Nat
  BY FS_CardinalityType
<1>2. CASE T = {}
  BY <1>2, FS_EmptySet
<1>3. CASE T # {}
  <2>1. PICK x \in T : TRUE
    BY <1>3
  <2>2. Cardinality(T) # 0
    BY <1>3, FS_EmptySet
  <2>3. Cardinality(T) = 1 <=> \E y : T = {y}
    BY FS_Singleton
  <2>4. (\A c, e \in T : c = e) <=> \E y : T = {y}
    <3>1. (\A c, e \in T : c = e) => T = {x}
      BY <2>1
    <3>2. QED
      BY <3>1
  <2>5. QED
    BY <1>1, <2>2, <2>3, <2>4
<1>4. QED
  BY <1>2, <1>3

LEMMA DomainsAre ==
  ASSUME NEW S, IsFiniteSet(S)
  PROVE  /\ IsFiniteSet(DomainsOf(S)) /\ Cardinality(DomainsOf(S)) \in Nat
         /\ Cardinality(DomainsOf(S)) <= Cardinality(S)
         /\ (\A d \in DomainsOf(S) : Cardinality(InDomain(S, d)) <= 1)
              => Cardinality(DomainsOf(S)) = Cardinality(S)
<1> DEFINE f == [c \in S |-> c.domain]
<1>1. f \in Surjection(S, DomainsOf(S))
  BY DEF Surjection, DomainsOf
<1>2. ASSUME \A d \in DomainsOf(S) : Cardinality(InDomain(S, d)) <= 1
      PROVE  f \in Injection(S, DomainsOf(S))
  <2>1. ASSUME NEW c \in S, NEW e \in S, c.domain = e.domain
        PROVE  c = e
    <3>1. c \in InDomain(S, c.domain) /\ e \in InDomain(S, c.domain)
      BY <2>1 DEF InDomain
    <3>2. Cardinality(InDomain(S, c.domain)) <= 1
      BY <1>2 DEF DomainsOf
    <3>3. IsFiniteSet(InDomain(S, c.domain))
      BY InOneDomain
    <3>4. QED
      BY <3>1, <3>2, <3>3, Sole
  <2>2. f \in [S -> DomainsOf(S)]
    BY DEF DomainsOf
  <2>3. IsInjective(f)
    BY <2>1 DEF IsInjective
  <2>4. QED
    BY <2>2, <2>3 DEF Injection
<1> HIDE DEF f
<1>3. /\ IsFiniteSet(DomainsOf(S)) /\ Cardinality(DomainsOf(S)) <= Cardinality(S)
      /\ f \in Injection(S, DomainsOf(S)) => Cardinality(DomainsOf(S)) = Cardinality(S)
  BY <1>1, FS_Surjection
<1>4. Cardinality(DomainsOf(S)) \in Nat
  BY <1>3, FS_CardinalityType
<1>5. QED
  BY <1>2, <1>3, <1>4

-------------------------------------------------------------------------------
(* What a quota makes of the candidates. *)

Meets(r, candidates, recent, quota) ==
  /\ r \in SUBSET candidates
  /\ \A d \in Domains : Prefers(InDomain(r, d), InDomain(candidates, d), recent, quota[d])

LEMMA RequiredAre ==
  ASSUME NEW candidates, Choice(candidates), NEW recent, NEW quota \in [Domains -> Nat]
  PROVE  /\ \A r \in Required(candidates, recent, quota) : Meets(r, candidates, recent, quota)
         /\ Required(candidates, recent, quota) # {}
<1> DEFINE best == [d \in Domains |-> Preferred(InDomain(candidates, d), recent, quota[d])]
           choices == {c \in [Domains -> UNION Range(best)] : \A d \in Domains : c[d] \in best[d]}
<1>1. ASSUME NEW d \in Domains
      PROVE  /\ \A p \in best[d] : Prefers(p, InDomain(candidates, d), recent, quota[d])
             /\ best[d] # {} /\ best[d] \in Range(best)
  <2>1. IsFiniteSet(InDomain(candidates, d)) /\ quota[d] \in Int /\ quota[d] >= 0
    BY InOneDomain DEF Choice
  <2>2. /\ \A p \in Preferred(InDomain(candidates, d), recent, quota[d]) :
             Prefers(p, InDomain(candidates, d), recent, quota[d])
        /\ Preferred(InDomain(candidates, d), recent, quota[d]) # {}
    BY <2>1, PreferredAre
  <2>3. best[d] = Preferred(InDomain(candidates, d), recent, quota[d]) /\ best[d] \in Range(best)
    BY DEF Range
  <2> HIDE DEF best
  <2>4. QED
    BY <2>2, <2>3
<1>2. Required(candidates, recent, quota) = {UNION Range(c) : c \in choices}
  BY DEF Required
<1>3. ASSUME NEW c \in choices
      PROVE  Meets(UNION Range(c), candidates, recent, quota)
  <2>1. c \in [Domains -> UNION Range(best)] /\ \A d \in Domains : c[d] \in best[d]
    OBVIOUS
  <2> HIDE DEF best, choices
  <2>2. \A d \in Domains : Prefers(c[d], InDomain(candidates, d), recent, quota[d])
    BY <1>1, <2>1
  <2>3. \A d \in Domains : c[d] \in SUBSET InDomain(candidates, d)
    BY <2>2 DEF Prefers
  <2>4. \A x : x \in UNION Range(c) <=> \E d \in Domains : x \in c[d]
    BY <2>1 DEF Range
  <2>5. \A d \in Domains : InDomain(UNION Range(c), d) = c[d]
    BY <2>3, <2>4 DEF InDomain
  <2>6. UNION Range(c) \in SUBSET candidates
    BY <2>3, <2>4 DEF InDomain
  <2>7. QED
    BY <2>2, <2>5, <2>6 DEF Meets
<1>4. choices # {}
  <2> DEFINE c == [d \in Domains |-> CHOOSE p \in best[d] : TRUE]
  <2> HIDE DEF best
  <2>1. \A d \in Domains : c[d] \in best[d] /\ c[d] \in UNION Range(best)
    BY <1>1
  <2>2. c \in [Domains -> UNION Range(best)]
    BY <2>1
  <2> HIDE DEF c
  <2>3. c \in choices
    BY <2>1, <2>2
  <2>4. QED
    BY <2>3
<1>5. QED
  <2> HIDE DEF choices
  <2>1. QED
    BY <1>2, <1>3, <1>4

LEMMA QuotasAre ==
  ASSUME NEW candidates, NEW recent, NEW count \in Counts,
         NEW quota \in Quotas(candidates, recent, count)
  PROVE  /\ quota \in [Domains -> Nat]
         /\ count # ShortCount => count \in DOMAIN Minimum /\ quota = Minimum[count]
         /\ count = ShortCount =>
              \E omitted \in Omittable(candidates, recent) :
                quota = [d \in Domains |-> IF d = omitted THEN 0 ELSE 1]
<1>1. count # ShortCount => count \in DOMAIN Minimum
  BY IntakeAssumption
<1>2. QED
  BY <1>1, SelectionAssumption DEF Quotas

(* A selection: what a quota claims, and what fills the other slots.         *)
Composes(p, r, f, candidates, recent, quota, count) ==
  /\ Meets(r, candidates, recent, quota)
  /\ Prefers(f, candidates \ r, recent, count - Cardinality(r))
  /\ p = r \cup f

LEMMA CountsAre ==
  ASSUME NEW count \in Counts
  PROVE  count \in Nat
<1>1. Cardinality(Domains) \in Nat /\ Cardinality(Domains) # 0
  BY SelectionAssumption, FS_CardinalityType, FS_EmptySet
<1>2. ShortCount \in Nat
  BY <1>1, SelectionAssumption
<1>3. QED
  BY <1>2, SelectionAssumption, IntakeAssumption

LEMMA SelectionsAre ==
  ASSUME NEW candidates, Choice(candidates), NEW recent, NEW count \in Counts,
         NEW p \in Selections(candidates, recent, count)
  PROVE  \E quota \in Quotas(candidates, recent, count) :
           /\ Suffices(candidates, quota, count)
           /\ \E r, f : Composes(p, r, f, candidates, recent, quota, count)
<1>1. PICK quota \in Quotas(candidates, recent, count) :
        /\ Suffices(candidates, quota, count)
        /\ \E r \in Required(candidates, recent, quota) : p \in Filled(candidates, recent, r, count)
  BY DEF Selections
<1>2. PICK r \in Required(candidates, recent, quota) : p \in Filled(candidates, recent, r, count)
  BY <1>1
<1>3. quota \in [Domains -> Nat] /\ count \in Nat
  BY QuotasAre, CountsAre
<1>4. Meets(r, candidates, recent, quota)
  BY <1>3, RequiredAre
<1>5. PICK f \in Preferred(candidates \ r, recent, count - Cardinality(r)) : p = r \cup f
  BY <1>2 DEF Filled
<1>6. IsFiniteSet(candidates \ r) /\ count - Cardinality(r) \in Int
  <2>1. r \in SUBSET candidates
    BY <1>4 DEF Meets
  <2>2. IsFiniteSet(r) /\ IsFiniteSet(candidates \ r)
    BY <2>1, FS_Subset, FS_Difference DEF Choice
  <2>3. QED
    BY <1>3, <2>2, FS_CardinalityType
<1>7. Prefers(f, candidates \ r, recent, count - Cardinality(r))
  BY <1>6, PreferredAre
<1>8. Composes(p, r, f, candidates, recent, quota, count)
  BY <1>4, <1>5, <1>7 DEF Composes
<1>9. QED
  BY <1>1, <1>8

LEMMA SelectionExists ==
  ASSUME NEW candidates, Choice(candidates), NEW recent, NEW count \in Counts,
         NEW quota \in Quotas(candidates, recent, count), Suffices(candidates, quota, count),
         \A r : Meets(r, candidates, recent, quota) => Cardinality(r) <= count
  PROVE  Selections(candidates, recent, count) # {}
<1>1. quota \in [Domains -> Nat] /\ count \in Nat
  BY QuotasAre, CountsAre
<1>2. PICK r \in Required(candidates, recent, quota) : Meets(r, candidates, recent, quota)
  BY <1>1, RequiredAre
<1>3. r \in SUBSET candidates /\ Cardinality(r) <= count
  BY <1>2 DEF Meets
<1>4. IsFiniteSet(r) /\ IsFiniteSet(candidates \ r)
  BY <1>3, FS_Subset, FS_Difference DEF Choice
<1>5. count - Cardinality(r) \in Int /\ count - Cardinality(r) >= 0
  <2>1. Cardinality(r) \in Nat
    BY <1>4, FS_CardinalityType
  <2>2. QED
    BY <1>1, <1>3, <2>1
<1>6. PICK f : f \in Preferred(candidates \ r, recent, count - Cardinality(r))
  BY <1>4, <1>5, PreferredAre
<1>7. r \cup f \in Filled(candidates, recent, r, count)
  BY <1>6 DEF Filled
<1>8. r \cup f \in Selections(candidates, recent, count)
  BY <1>2, <1>7 DEF Selections
<1>9. QED
  BY <1>8

(* Repeats are what is seen of a selection.                                  *)
Best(p, candidates, recent, count) ==
  /\ p \in SUBSET candidates /\ Covers(p, count)
  /\ \A q \in SUBSET candidates :
       Covers(q, count) => Cardinality(Seen(p, recent)) <= Cardinality(Seen(q, recent))

LEMMA MeetsIs ==
  ASSUME NEW candidates, Choice(candidates), NEW recent, NEW count, NEW quota \in [Domains -> Nat],
         Suffices(candidates, quota, count), NEW r, Meets(r, candidates, recent, quota)
  PROVE  /\ r \in SUBSET candidates /\ Choice(r)
         /\ \A d \in Domains : Cardinality(InDomain(r, d)) = quota[d]
<1>1. r \in SUBSET candidates
  BY DEF Meets
<1>2. Choice(r)
  BY <1>1, FS_Subset DEF Choice
<1>3. ASSUME NEW d \in Domains
      PROVE  Cardinality(InDomain(r, d)) = quota[d]
  <2>1. Prefers(InDomain(r, d), InDomain(candidates, d), recent, quota[d])
    BY DEF Meets
  <2>2. quota[d] \in Nat /\ Cardinality(InDomain(candidates, d)) \in Nat
    BY InOneDomain DEF Choice
  <2>3. quota[d] <= Cardinality(InDomain(candidates, d))
    BY <2>2 DEF Suffices
  <2>4. QED
    BY <2>1, <2>3 DEF Prefers
<1>4. QED
  BY <1>1, <1>2, <1>3

IsSelection(p, r, f, candidates, quota, count) ==
  /\ r \in SUBSET candidates /\ f \in SUBSET (candidates \ r) /\ p \in SUBSET candidates
  /\ IsFiniteSet(r) /\ IsFiniteSet(f) /\ IsFiniteSet(p) /\ Cardinality(p) = count
  /\ Cardinality(r) \in Nat /\ Cardinality(f) = count - Cardinality(r)
  /\ \A d \in Domains :
       Cardinality(InDomain(r, d)) = quota[d] /\ quota[d] <= Cardinality(InDomain(p, d))

LEMMA ComposedIs ==
  ASSUME NEW candidates, Choice(candidates), NEW recent, NEW count \in Nat,
         NEW quota \in [Domains -> Nat], Suffices(candidates, quota, count),
         NEW p, NEW r, NEW f, Composes(p, r, f, candidates, recent, quota, count)
  PROVE  IsSelection(p, r, f, candidates, quota, count)
<1>1. /\ Meets(r, candidates, recent, quota) /\ p = r \cup f
      /\ Prefers(f, candidates \ r, recent, count - Cardinality(r))
      /\ IsFiniteSet(candidates)
  BY DEF Composes, Choice
<1>2. r \in SUBSET candidates /\ f \in SUBSET (candidates \ r) /\ p \in SUBSET candidates
  BY <1>1 DEF Meets, Prefers
<1>3. /\ IsFiniteSet(r) /\ IsFiniteSet(f) /\ IsFiniteSet(p)
      /\ IsFiniteSet(candidates \ r) /\ r \cap f = {} /\ (candidates \ r) \cap r = {}
      /\ (candidates \ r) \cup r = candidates
  BY <1>1, <1>2, FS_Subset
<1>4. /\ Cardinality(r) \in Nat /\ Cardinality(f) \in Nat /\ Cardinality(candidates \ r) \in Nat
  BY <1>3, FS_CardinalityType
<1>5. Cardinality(candidates) = Cardinality(candidates \ r) + Cardinality(r)
  BY <1>3, Parts
<1>6. Cardinality(f) = count - Cardinality(r)
  <2>1. Cardinality(candidates) >= count
    BY DEF Suffices
  <2>2. count - Cardinality(r) <= Cardinality(candidates \ r)
    BY <1>4, <1>5, <2>1
  <2>3. QED
    BY <1>1, <2>2 DEF Prefers
<1>7. Cardinality(p) = count
  BY <1>1, <1>3, <1>4, <1>6, Parts
<1>8. ASSUME NEW d \in Domains
      PROVE  Cardinality(InDomain(r, d)) = quota[d] /\ quota[d] <= Cardinality(InDomain(p, d))
  <2>1. Cardinality(InDomain(r, d)) = quota[d]
    BY <1>1, MeetsIs
  <2>2. InDomain(r, d) \in SUBSET InDomain(p, d) /\ IsFiniteSet(InDomain(p, d))
    BY <1>1, <1>3, InOneDomain DEF InDomain
  <2>3. Cardinality(InDomain(r, d)) <= Cardinality(InDomain(p, d))
    BY <2>2, FS_Subset
  <2>4. QED
    BY <2>1, <2>3
<1>9. QED
  BY <1>2, <1>3, <1>4, <1>6, <1>7, <1>8 DEF IsSelection

(* A long interview.  Either the flexible slots took every unseen question    *)
(* left, or all repeats were claimed by quotas, of which no domain has more  *)
(* than any other selection that meets them.                                *)
LEMMA LongIsBest ==
  ASSUME NEW candidates, Choice(candidates), NEW recent, NEW count \in Counts,
         count # ShortCount, NEW quota \in Quotas(candidates, recent, count),
         Suffices(candidates, quota, count),
         NEW p, NEW r, NEW f, Composes(p, r, f, candidates, recent, quota, count)
  PROVE  Best(p, candidates, recent, count)
<1>1. count \in Nat /\ quota \in [Domains -> Nat] /\ quota = Minimum[count]
  BY CountsAre, QuotasAre
<1>2. /\ r \in SUBSET candidates /\ f \in SUBSET (candidates \ r) /\ p \in SUBSET candidates
      /\ IsFiniteSet(r) /\ IsFiniteSet(f) /\ IsFiniteSet(p) /\ Cardinality(p) = count
      /\ \A d \in Domains :
           Cardinality(InDomain(r, d)) = quota[d] /\ quota[d] <= Cardinality(InDomain(p, d))
  <2>1. /\ Choice(candidates) /\ Suffices(candidates, quota, count)
        /\ Composes(p, r, f, candidates, recent, quota, count)
    OBVIOUS
  <2>2. IsSelection(p, r, f, candidates, quota, count)
    BY <1>1, <2>1, ComposedIs, Zenon
  <2>3. QED
    BY <2>2 DEF IsSelection
<1>3. Covers(p, count)
  <2>1. ASSUME NEW d \in Domains
        PROVE  Cardinality(InDomain(p, d)) >= Minimum[count][d]
    <3>1. Cardinality(InDomain(p, d)) \in Nat /\ quota[d] \in Nat
      BY <1>1, <1>2, InOneDomain
    <3>2. QED
      BY <1>1, <1>2, <3>1
  <2>2. QED
    BY <1>2, <2>1 DEF Covers
<1>4. ASSUME NEW q \in SUBSET candidates, Covers(q, count)
      PROVE  Cardinality(Seen(p, recent)) <= Cardinality(Seen(q, recent))
  <2>1. IsFiniteSet(q) /\ Choice(q) /\ Choice(r) /\ Cardinality(q) = count
    BY <1>2, <1>4, FS_Subset DEF Choice, Covers
  <2>2. \A d \in Domains : Cardinality(InDomain(q, d)) >= quota[d]
    BY <1>1, <1>4 DEF Covers
  <2>3. /\ Meets(r, candidates, recent, quota) /\ p = r \cup f
        /\ Prefers(f, candidates \ r, recent, count - Cardinality(r))
    BY DEF Composes
  <2>4. CASE Seen(f, recent) # {}
    <3>1. Unseen(candidates \ r, recent) \subseteq f
      BY <2>3, <2>4 DEF Prefers
    <3>2. Unseen(q, recent) \subseteq p
      BY <2>3, <3>1 DEF Unseen
    <3>3. Cardinality(p) <= Cardinality(q)
      BY <1>1, <1>2, <2>1
    <3>4. QED
      BY <1>2, <2>1, <3>2, <3>3, FewestSeen
  <2>5. CASE Seen(f, recent) = {}
    <3>1. Seen(p, recent) = Seen(r, recent)
      BY <2>3, <2>5 DEF Seen
    <3>2. ASSUME NEW d \in Domains
          PROVE  Cardinality(InDomain(Seen(r, recent), d)) <= Cardinality(InDomain(Seen(q, recent), d))
      <4>1. /\ IsFiniteSet(InDomain(r, d)) /\ IsFiniteSet(InDomain(q, d))
            /\ Cardinality(InDomain(q, d)) \in Nat
        BY <1>2, <2>1, InOneDomain
      <4>2. Cardinality(InDomain(r, d)) <= Cardinality(InDomain(q, d))
        BY <1>1, <1>2, <2>2, <4>1
      <4>3. Prefers(InDomain(r, d), InDomain(candidates, d), recent, quota[d])
        BY <2>3 DEF Meets
      <4>4. Seen(InDomain(r, d), recent) # {}
              => Unseen(InDomain(candidates, d), recent) \subseteq InDomain(r, d)
        BY <4>3 DEF Prefers
      <4>5. Unseen(InDomain(q, d), recent) \subseteq Unseen(InDomain(candidates, d), recent)
        BY DEF Unseen, InDomain
      <4>6. Cardinality(Seen(InDomain(r, d), recent)) <= Cardinality(Seen(InDomain(q, d), recent))
        BY <4>1, <4>2, <4>4, <4>5, FewestSeen
      <4>7. /\ InDomain(Seen(r, recent), d) = Seen(InDomain(r, d), recent)
            /\ InDomain(Seen(q, recent), d) = Seen(InDomain(q, d), recent)
        BY DEF InDomain, Seen
      <4>8. QED
        BY <4>6, <4>7
    <3>3. Choice(Seen(r, recent)) /\ IsFiniteSet(Seen(q, recent))
      <4>1. IsFiniteSet(Seen(r, recent)) /\ IsFiniteSet(Seen(q, recent))
        BY <1>2, <2>1, SeenOrNot
      <4>2. QED
        BY <2>1, <4>1 DEF Choice, Seen
    <3>4. Cardinality(Seen(r, recent)) <= Cardinality(Seen(q, recent))
      BY <3>2, <3>3, ByDomain
    <3>5. QED
      BY <3>1, <3>4
  <2>6. QED
    BY <2>4, <2>5
<1>5. QED
  BY <1>2, <1>3, <1>4 DEF Best

(* A short interview.  What any selection with its coverage leaves out shows  *)
(* how few recent questions can be avoided.                                 *)
UnavailableDomains(candidates, omitted) ==
  {d \in Domains \ {omitted} : InDomain(candidates, d) = {}}
RecentDomains(candidates, recent, omitted) ==
  {d \in Domains \ {omitted} :
    InDomain(candidates, d) # {} /\ Unseen(InDomain(candidates, d), recent) = {}}

LEMMA Counted ==
  ASSUME NEW candidates, NEW recent, NEW d
  PROVE  /\ Unavailable(candidates, d) = Cardinality(UnavailableDomains(candidates, d))
         /\ UnavoidablyRecent(candidates, recent, d) = Cardinality(RecentDomains(candidates, recent, d))
         /\ IsFiniteSet(UnavailableDomains(candidates, d))
         /\ IsFiniteSet(RecentDomains(candidates, recent, d))
         /\ Unavailable(candidates, d) \in Nat /\ UnavoidablyRecent(candidates, recent, d) \in Nat
<1>1. /\ Unavailable(candidates, d) = Cardinality(UnavailableDomains(candidates, d))
      /\ UnavoidablyRecent(candidates, recent, d) = Cardinality(RecentDomains(candidates, recent, d))
  BY DEF Unavailable, UnavoidablyRecent, UnavailableDomains, RecentDomains
<1>2. /\ UnavailableDomains(candidates, d) \in SUBSET Domains
      /\ RecentDomains(candidates, recent, d) \in SUBSET Domains
  BY DEF UnavailableDomains, RecentDomains
<1>3. /\ IsFiniteSet(UnavailableDomains(candidates, d))
      /\ IsFiniteSet(RecentDomains(candidates, recent, d))
  BY <1>2, SelectionAssumption, FS_Subset
<1>4. QED
  BY <1>1, <1>3, FS_CardinalityType

LEMMA CoverOmits ==
  ASSUME NEW candidates, Choice(candidates), NEW recent, NEW q \in SUBSET candidates,
         Covers(q, ShortCount)
  PROVE  \E o \in Domains :
           /\ Unavailable(candidates, o) = 0
           /\ UnavoidablyRecent(candidates, recent, o) <= Cardinality(Seen(q, recent))
<1>1. /\ IsFiniteSet(q) /\ Cardinality(q) = ShortCount /\ IsFiniteSet(Domains)
      /\ \A d \in Domains : Cardinality(InDomain(q, d)) <= 1
      /\ DomainsOf(q) \in SUBSET Domains
  BY SelectionAssumption, FS_Subset DEF Covers, Choice, DomainsOf
<1>2. IsFiniteSet(DomainsOf(q)) /\ Cardinality(DomainsOf(q)) = Cardinality(Domains) - 1
  <2>1. \A d \in DomainsOf(q) : Cardinality(InDomain(q, d)) <= 1
    BY <1>1
  <2>2. QED
    BY <1>1, <2>1, DomainsAre, SelectionAssumption
<1>3. PICK o \in Domains : o \notin DomainsOf(q)
  <2>1. Cardinality(Domains) \in Nat
    BY <1>1, FS_CardinalityType
  <2>2. DomainsOf(q) # Domains
    BY <1>2, <2>1
  <2>3. QED
    BY <1>1, <2>2
<1>4. DomainsOf(q) = Domains \ {o}
  <2>1. IsFiniteSet(Domains \ {o}) /\ Cardinality(Domains \ {o}) = Cardinality(Domains) - 1
    BY <1>1, FS_RemoveElement
  <2>2. DomainsOf(q) \in SUBSET (Domains \ {o})
    BY <1>1, <1>3
  <2>3. QED
    BY <1>2, <2>1, <2>2, FS_Subset
<1>5. UnavailableDomains(candidates, o) = {}
  BY <1>4 DEF UnavailableDomains, DomainsOf, InDomain
<1>6. RecentDomains(candidates, recent, o) \in SUBSET DomainsOf(Seen(q, recent))
  <2>1. ASSUME NEW d \in RecentDomains(candidates, recent, o)
        PROVE  d \in DomainsOf(Seen(q, recent))
    <3>1. d \in DomainsOf(q) /\ Unseen(InDomain(candidates, d), recent) = {}
      BY <1>4 DEF RecentDomains
    <3>2. PICK c \in q : c.domain = d
      BY <3>1 DEF DomainsOf
    <3>3. c \in InDomain(candidates, d)
      BY <3>2 DEF InDomain
    <3>4. c \in Seen(q, recent)
      BY <3>1, <3>3 DEF Unseen, Seen
    <3>5. QED
      BY <3>2, <3>4 DEF DomainsOf
  <2>2. QED
    BY <2>1
<1>7. Cardinality(RecentDomains(candidates, recent, o)) <= Cardinality(Seen(q, recent))
  <2>1. IsFiniteSet(Seen(q, recent)) /\ Cardinality(Seen(q, recent)) \in Nat
    BY <1>1, SeenOrNot
  <2>2. /\ IsFiniteSet(DomainsOf(Seen(q, recent))) /\ Cardinality(DomainsOf(Seen(q, recent))) \in Nat
        /\ Cardinality(DomainsOf(Seen(q, recent))) <= Cardinality(Seen(q, recent))
    BY <2>1, DomainsAre
  <2>3. /\ Cardinality(RecentDomains(candidates, recent, o)) <= Cardinality(DomainsOf(Seen(q, recent)))
        /\ Cardinality(RecentDomains(candidates, recent, o)) \in Nat
    BY <1>6, <2>2, FS_Subset, FS_CardinalityType
  <2>4. QED
    BY <2>1, <2>2, <2>3
<1>8. QED
  BY <1>5, <1>7, Counted, FS_EmptySet

LEMMA OmittedLeast ==
  ASSUME NEW candidates, NEW recent, NEW m \in Omittable(candidates, recent),
         NEW o \in Domains, Unavailable(candidates, o) = 0
  PROVE  /\ Unavailable(candidates, m) = 0
         /\ UnavoidablyRecent(candidates, recent, m) <= UnavoidablyRecent(candidates, recent, o)
<1>1. \/ Unavailable(candidates, m) < Unavailable(candidates, o)
      \/ /\ Unavailable(candidates, m) = Unavailable(candidates, o)
         /\ UnavoidablyRecent(candidates, recent, m) <= UnavoidablyRecent(candidates, recent, o)
  BY DEF Omittable
<1>2. Unavailable(candidates, m) \in Nat
  BY Counted
<1>3. QED
  BY <1>1, <1>2

LEMMA OmittableExists ==
  ASSUME NEW candidates, NEW recent
  PROVE  Omittable(candidates, recent) # {}
<1> DEFINE lacks == {Unavailable(candidates, d) : d \in Domains}
<1>1. lacks \in SUBSET Nat /\ lacks # {}
  BY Counted, SelectionAssumption
<1>2. PICK least \in lacks : \A n \in lacks : least <= n
  <2> HIDE DEF lacks
  <2>1. QED
    BY <1>1, LeastNatural
<1> DEFINE repeats == {UnavoidablyRecent(candidates, recent, d) :
                         d \in {e \in Domains : Unavailable(candidates, e) = least}}
<1>3. repeats \in SUBSET Nat /\ repeats # {}
  BY Counted
<1>4. PICK fewest \in repeats : \A n \in repeats : fewest <= n
  <2> HIDE DEF repeats
  <2>1. QED
    BY <1>3, LeastNatural
<1>5. PICK d \in Domains : /\ Unavailable(candidates, d) = least
                           /\ UnavoidablyRecent(candidates, recent, d) = fewest
  BY <1>4
<1>6. ASSUME NEW e \in Domains
      PROVE  \/ Unavailable(candidates, d) < Unavailable(candidates, e)
             \/ /\ Unavailable(candidates, d) = Unavailable(candidates, e)
                /\ UnavoidablyRecent(candidates, recent, d)
                     <= UnavoidablyRecent(candidates, recent, e)
  <2>1. /\ Unavailable(candidates, e) \in Nat /\ Unavailable(candidates, d) \in Nat
        /\ Unavailable(candidates, e) \in lacks
    BY Counted
  <2>2. Unavailable(candidates, d) <= Unavailable(candidates, e)
    <3> HIDE DEF lacks
    <3>1. QED
      BY <1>2, <1>5, <2>1
  <2>3. CASE Unavailable(candidates, e) = least
    <3>1. UnavoidablyRecent(candidates, recent, e) \in repeats
      BY <2>3
    <3>2. UnavoidablyRecent(candidates, recent, d) <= UnavoidablyRecent(candidates, recent, e)
      <4> HIDE DEF repeats
      <4>1. QED
        BY <1>4, <1>5, <3>1
    <3>3. QED
      BY <1>5, <2>3, <3>2
  <2>4. CASE Unavailable(candidates, e) # least
    BY <1>5, <2>1, <2>2, <2>4
  <2>5. QED
    BY <2>3, <2>4
<1>7. d \in Omittable(candidates, recent)
  BY <1>6 DEF Omittable
<1>8. QED
  BY <1>7

OneEach(omitted) == [d \in Domains |-> IF d = omitted THEN 0 ELSE 1]

LEMMA ShortRequired ==
  ASSUME NEW candidates, Choice(candidates), NEW recent, NEW m \in Domains,
         Suffices(candidates, OneEach(m), ShortCount),
         NEW r, Meets(r, candidates, recent, OneEach(m))
  PROVE  /\ r \in SUBSET candidates /\ Choice(r) /\ Cardinality(r) = ShortCount
         /\ \A d \in Domains : Cardinality(InDomain(r, d)) <= 1
         /\ m \notin DomainsOf(r)
<1>1. OneEach(m) \in [Domains -> Nat]
  BY DEF OneEach
<1>2. /\ r \in SUBSET candidates /\ Choice(r) /\ IsFiniteSet(r)
      /\ \A d \in Domains : Cardinality(InDomain(r, d)) = OneEach(m)[d]
  BY <1>1, MeetsIs DEF Choice
<1>3. \A d \in Domains : Cardinality(InDomain(r, d)) = IF d = m THEN 0 ELSE 1
  BY <1>2 DEF OneEach
<1>4. DomainsOf(r) = Domains \ {m}
  <2>1. DomainsOf(r) \subseteq Domains
    BY <1>2 DEF DomainsOf, Choice
  <2>2. ASSUME NEW d \in Domains
        PROVE  d \in DomainsOf(r) <=> d # m
    <3>1. IsFiniteSet(InDomain(r, d))
      BY <1>2, InOneDomain
    <3>2. Cardinality(InDomain(r, d)) = 0 <=> InDomain(r, d) = {}
      BY <3>1, FS_EmptySet
    <3>3. d \in DomainsOf(r) <=> InDomain(r, d) # {}
      BY DEF DomainsOf, InDomain
    <3>4. QED
      BY <1>3, <3>2, <3>3
  <2>3. QED
    BY <2>1, <2>2
<1>5. Cardinality(r) = ShortCount
  <2>1. \A d \in DomainsOf(r) : Cardinality(InDomain(r, d)) <= 1
    BY <1>3, <1>4
  <2>2. Cardinality(DomainsOf(r)) = Cardinality(r)
    BY <1>2, <2>1, DomainsAre
  <2>3. Cardinality(Domains \ {m}) = Cardinality(Domains) - 1
    BY SelectionAssumption, FS_RemoveElement
  <2>4. QED
    BY <1>4, <2>2, <2>3, SelectionAssumption
<1>6. \A d \in Domains : Cardinality(InDomain(r, d)) <= 1
  BY <1>3
<1>7. QED
  BY <1>2, <1>4, <1>5, <1>6

LEMMA ShortIsBest ==
  ASSUME NEW candidates, Choice(candidates), NEW recent, NEW m \in Omittable(candidates, recent),
         Suffices(candidates, OneEach(m), ShortCount),
         NEW p, NEW r, NEW f, Composes(p, r, f, candidates, recent, OneEach(m), ShortCount)
  PROVE  Best(p, candidates, recent, ShortCount)
<1>1. /\ m \in Domains /\ ShortCount \in Nat /\ OneEach(m) \in [Domains -> Nat]
  <2>1. Cardinality(Domains) \in Nat /\ Cardinality(Domains) # 0
    BY SelectionAssumption, FS_CardinalityType, FS_EmptySet
  <2>2. QED
    BY <2>1, SelectionAssumption DEF Omittable, OneEach
<1>2. /\ p \in SUBSET candidates /\ IsFiniteSet(f) /\ Cardinality(p) = ShortCount
      /\ Cardinality(f) = ShortCount - Cardinality(r)
  <2>1. /\ Choice(candidates) /\ Suffices(candidates, OneEach(m), ShortCount)
        /\ Composes(p, r, f, candidates, recent, OneEach(m), ShortCount)
    OBVIOUS
  <2>2. IsSelection(p, r, f, candidates, OneEach(m), ShortCount)
    BY <1>1, <2>1, ComposedIs, Zenon
  <2>3. QED
    BY <2>2 DEF IsSelection
<1>3. Meets(r, candidates, recent, OneEach(m)) /\ p = r \cup f
  BY DEF Composes
<1>4. /\ r \in SUBSET candidates /\ Choice(r) /\ Cardinality(r) = ShortCount
      /\ \A d \in Domains : Cardinality(InDomain(r, d)) <= 1
      /\ m \notin DomainsOf(r)
  BY <1>1, <1>3, ShortRequired
<1>5. p = r
  <2>1. Cardinality(f) = 0
    BY <1>1, <1>2, <1>4
  <2>2. f = {}
    BY <1>2, <2>1, FS_EmptySet
  <2>3. QED
    BY <1>3, <2>2
<1>6. Covers(p, ShortCount)
  BY <1>4, <1>5 DEF Covers
<1>7. IsFiniteSet(Seen(r, recent)) /\ Cardinality(Seen(r, recent)) \in Nat
  BY <1>4, SeenOrNot DEF Choice
<1>8. DomainsOf(Seen(r, recent)) \in SUBSET RecentDomains(candidates, recent, m)
  <2>1. ASSUME NEW c \in Seen(r, recent)
        PROVE  c.domain \in RecentDomains(candidates, recent, m)
    <3>1. PICK d : d = c.domain
      OBVIOUS
    <3>2. d \in Domains /\ d # m /\ c \in InDomain(r, d) /\ c \in candidates /\ c \in r
      BY <1>4, <3>1 DEF Choice, DomainsOf, Seen, InDomain
    <3>3. Prefers(InDomain(r, d), InDomain(candidates, d), recent, OneEach(m)[d])
      BY <1>3, <3>2 DEF Meets
    <3>4. c \in Seen(InDomain(r, d), recent)
      BY <3>2 DEF Seen
    <3>5. Unseen(InDomain(candidates, d), recent) \subseteq InDomain(r, d)
      BY <3>3, <3>4 DEF Prefers
    <3>6. \A e \in InDomain(r, d) : e = c
      <4>1. IsFiniteSet(InDomain(r, d)) /\ Cardinality(InDomain(r, d)) <= 1
        BY <1>4, <3>2, InOneDomain DEF Choice
      <4>2. QED
        BY <3>2, <4>1, Sole
    <3>7. Unseen(InDomain(candidates, d), recent) = {}
      BY <3>5, <3>6 DEF Seen, Unseen
    <3>8. InDomain(candidates, d) # {}
      BY <3>1, <3>2 DEF InDomain
    <3>9. QED
      BY <3>1, <3>2, <3>7, <3>8 DEF RecentDomains
  <2>2. QED
    BY <2>1 DEF DomainsOf
<1>9. Cardinality(Seen(r, recent)) <= UnavoidablyRecent(candidates, recent, m)
  <2>1. \A d \in DomainsOf(Seen(r, recent)) : Cardinality(InDomain(Seen(r, recent), d)) <= 1
    <3>1. ASSUME NEW d \in DomainsOf(Seen(r, recent))
          PROVE  Cardinality(InDomain(Seen(r, recent), d)) <= 1
      <4>1. d \in Domains
        BY <1>8 DEF RecentDomains
      <4>2. IsFiniteSet(InDomain(r, d)) /\ IsFiniteSet(InDomain(Seen(r, recent), d))
        BY <1>4, <1>7, InOneDomain DEF Choice
      <4>3. \A c, e \in InDomain(r, d) : c = e
        BY <1>4, <4>1, <4>2, Sole
      <4>4. InDomain(Seen(r, recent), d) \in SUBSET InDomain(r, d)
        BY DEF InDomain, Seen
      <4>5. QED
        BY <4>2, <4>3, <4>4, Sole
    <3>2. QED
      BY <3>1
  <2>2. Cardinality(DomainsOf(Seen(r, recent))) = Cardinality(Seen(r, recent))
    BY <1>7, <2>1, DomainsAre
  <2>3. /\ IsFiniteSet(RecentDomains(candidates, recent, m))
        /\ UnavoidablyRecent(candidates, recent, m) = Cardinality(RecentDomains(candidates, recent, m))
    BY Counted
  <2>4. QED
    BY <1>8, <2>2, <2>3, FS_Subset
<1>10. ASSUME NEW q \in SUBSET candidates, Covers(q, ShortCount)
       PROVE  Cardinality(Seen(p, recent)) <= Cardinality(Seen(q, recent))
  <2>1. PICK o \in Domains : /\ Unavailable(candidates, o) = 0
                             /\ UnavoidablyRecent(candidates, recent, o) <= Cardinality(Seen(q, recent))
    BY <1>10, CoverOmits
  <2>2. UnavoidablyRecent(candidates, recent, m) <= UnavoidablyRecent(candidates, recent, o)
    BY <2>1, OmittedLeast
  <2>3. /\ UnavoidablyRecent(candidates, recent, m) \in Nat
        /\ UnavoidablyRecent(candidates, recent, o) \in Nat
    BY Counted
  <2>4. Cardinality(Seen(q, recent)) \in Nat
    <3>1. IsFiniteSet(q)
      BY FS_Subset DEF Choice
    <3>2. QED
      BY <3>1, SeenOrNot
  <2>5. QED
    BY <1>5, <1>7, <1>9, <2>1, <2>2, <2>3, <2>4
<1>11. QED
  BY <1>2, <1>6, <1>10 DEF Best

LEMMA SelectedIsBest ==
  ASSUME NEW candidates, Choice(candidates), NEW recent, NEW count \in Counts,
         NEW p \in Selections(candidates, recent, count)
  PROVE  Best(p, candidates, recent, count)
<1>1. PICK quota \in Quotas(candidates, recent, count) :
        /\ Suffices(candidates, quota, count)
        /\ \E r, f : Composes(p, r, f, candidates, recent, quota, count)
  BY SelectionsAre
<1>2. PICK r, f : Composes(p, r, f, candidates, recent, quota, count)
  BY <1>1
<1>3. CASE count # ShortCount
  BY <1>1, <1>2, <1>3, LongIsBest
<1>4. CASE count = ShortCount
  <2>1. PICK m \in Omittable(candidates, recent) : quota = OneEach(m)
    BY <1>4, QuotasAre DEF OneEach
  <2>2. QED
    BY <1>1, <1>2, <1>4, <2>1, ShortIsBest
<1>5. QED
  BY <1>3, <1>4

LEMMA CoverSelects ==
  ASSUME NEW candidates, Choice(candidates), NEW recent, NEW count \in Counts,
         NEW q \in SUBSET candidates, Covers(q, count)
  PROVE  Selections(candidates, recent, count) # {}
<1>1. /\ IsFiniteSet(candidates) /\ IsFiniteSet(q) /\ Choice(q) /\ Cardinality(q) = count
      /\ count \in Nat
  BY CountsAre, FS_Subset DEF Choice, Covers
<1>2. Cardinality(candidates) >= count
  <2>1. Cardinality(q) <= Cardinality(candidates) /\ Cardinality(candidates) \in Nat
    BY <1>1, FS_Subset, FS_CardinalityType
  <2>2. QED
    BY <1>1, <2>1
<1>3. CASE count # ShortCount
  <2>1. Quotas(candidates, recent, count) = {Minimum[count]} /\ count \in DOMAIN Minimum
    BY <1>3, IntakeAssumption DEF Quotas
  <2>2. PICK quota \in Quotas(candidates, recent, count) : quota = Minimum[count]
    BY <2>1
  <2>3. quota \in [Domains -> Nat]
    BY <2>1, <2>2, SelectionAssumption
  <2>4. \A d \in Domains : quota[d] <= Cardinality(InDomain(q, d))
    <3>1. \A d \in Domains : Cardinality(InDomain(q, d)) >= quota[d]
      BY <1>3, <2>2 DEF Covers
    <3>2. \A d \in Domains : Cardinality(InDomain(q, d)) \in Nat /\ quota[d] \in Nat
      BY <1>1, <2>3, InOneDomain
    <3>3. QED
      BY <3>1, <3>2
  <2>5. Suffices(candidates, quota, count)
    <3>1. ASSUME NEW d \in Domains
          PROVE  Cardinality(InDomain(candidates, d)) >= quota[d]
      <4>1. IsFiniteSet(InDomain(candidates, d)) /\ InDomain(q, d) \in SUBSET InDomain(candidates, d)
        BY <1>1, InOneDomain DEF InDomain
      <4>2. /\ Cardinality(InDomain(q, d)) <= Cardinality(InDomain(candidates, d))
            /\ Cardinality(InDomain(candidates, d)) \in Nat /\ Cardinality(InDomain(q, d)) \in Nat
        BY <1>1, <4>1, FS_Subset, InOneDomain
      <4>3. QED
        BY <2>3, <2>4, <4>2
    <3>2. QED
      BY <1>2, <3>1 DEF Suffices
  <2>6. ASSUME NEW r, Meets(r, candidates, recent, quota)
        PROVE  Cardinality(r) <= count
    <3>1. Choice(r) /\ \A d \in Domains : Cardinality(InDomain(r, d)) = quota[d]
      BY <2>3, <2>5, <2>6, MeetsIs
    <3>2. QED
      BY <1>1, <2>4, <3>1, ByDomain
  <2>7. QED
    BY <2>5, <2>6, SelectionExists
<1>4. CASE count = ShortCount
  <2>1. PICK m : m \in Omittable(candidates, recent)
    BY OmittableExists
  <2>2. PICK o \in Domains : Unavailable(candidates, o) = 0
    BY <1>4, CoverOmits
  <2>3. Unavailable(candidates, m) = 0
    BY <2>1, <2>2, OmittedLeast
  <2>4. UnavailableDomains(candidates, m) = {}
    BY <2>3, Counted, FS_EmptySet
  <2>5. PICK quota \in Quotas(candidates, recent, count) : quota = OneEach(m)
    BY <1>4, <2>1 DEF Quotas, OneEach
  <2>6. Suffices(candidates, quota, count)
    <3>1. ASSUME NEW d \in Domains
          PROVE  Cardinality(InDomain(candidates, d)) >= quota[d]
      <4>1. IsFiniteSet(InDomain(candidates, d)) /\ Cardinality(InDomain(candidates, d)) \in Nat
        BY <1>1, InOneDomain
      <4>2. d # m => Cardinality(InDomain(candidates, d)) # 0
        BY <2>4, <4>1, FS_EmptySet DEF UnavailableDomains
      <4>3. quota[d] = IF d = m THEN 0 ELSE 1
        BY <2>5 DEF OneEach
      <4>4. QED
        BY <4>1, <4>2, <4>3
    <3>2. QED
      BY <1>2, <3>1 DEF Suffices
  <2>7. ASSUME NEW r, Meets(r, candidates, recent, quota)
        PROVE  Cardinality(r) <= count
    <3>1. m \in Domains
      BY <2>1 DEF Omittable
    <3>2. Cardinality(r) = ShortCount
      BY <1>4, <2>5, <2>6, <2>7, <3>1, ShortRequired
    <3>3. QED
      BY <1>1, <1>4, <3>2
  <2>8. QED
    BY <2>6, <2>7, SelectionExists
<1>5. QED
  BY <1>3, <1>4

-------------------------------------------------------------------------------
(* The order of a blueprint.  As long as no domain has more than half of     *)
(* what is left to ask, it can be asked without two of a kind in a row.     *)

LEMMA NextDomainsAre ==
  ASSUME NEW left, Choice(left), left # {}, NEW previous
  PROVE  /\ NextDomains(left, previous) # {}
         /\ \A d \in NextDomains(left, previous) :
              /\ d \in DomainsOf(left)
              /\ d = previous => DomainsOf(left) = {previous}
              /\ \A e \in DomainsOf(left) \ {previous} :
                   Cardinality(InDomain(left, e)) <= Cardinality(InDomain(left, d))
<1> DEFINE open == DomainsOf(left)
           others == IF open = {previous} THEN open ELSE open \ {previous}
           sizes == {Cardinality(InDomain(left, d)) : d \in others}
<1>1. NextDomains(left, previous)
        = {d \in others : \A e \in others :
             Cardinality(InDomain(left, d)) >= Cardinality(InDomain(left, e))}
  BY DEF NextDomains, DomainsOf
<1>2. others # {} /\ others \in SUBSET open
  BY DEF DomainsOf
<1>3. IsFiniteSet(others)
  BY <1>2, DomainsAre, FS_Subset DEF Choice
<1>4. \A d : Cardinality(InDomain(left, d)) \in Nat
  BY InOneDomain DEF Choice
<1>5. PICK d \in others : \A e \in others :
        Cardinality(InDomain(left, e)) <= Cardinality(InDomain(left, d))
  <2> DEFINE f == [d \in others |-> Cardinality(InDomain(left, d))]
  <2>1. f \in Surjection(others, sizes)
    BY DEF Surjection
  <2>2. sizes \in SUBSET Nat /\ sizes # {}
    BY <1>2, <1>4
  <2>3. IsFiniteSet(sizes)
    <3> HIDE DEF f, sizes, others
    <3>1. QED
      BY <1>3, <2>1, FS_Surjection
  <2>4. PICK n \in sizes : \A k \in sizes : k <= n
    <3> HIDE DEF sizes, others
    <3>1. QED
      BY <2>2, <2>3, FiniteHasGreatest
  <2>5. QED
    BY <2>4
<1> HIDE DEF sizes
<1>6. d \in NextDomains(left, previous)
  <2> HIDE DEF others
  <2>1. \A e \in others : Cardinality(InDomain(left, d)) >= Cardinality(InDomain(left, e))
    BY <1>4, <1>5
  <2>2. QED
    BY <1>1, <2>1
<1>7. ASSUME NEW c \in NextDomains(left, previous)
      PROVE  /\ c \in DomainsOf(left)
             /\ c = previous => DomainsOf(left) = {previous}
             /\ \A e \in DomainsOf(left) \ {previous} :
                  Cardinality(InDomain(left, e)) <= Cardinality(InDomain(left, c))
  <2>1. c \in others /\ \A e \in others :
          Cardinality(InDomain(left, c)) >= Cardinality(InDomain(left, e))
    <3> HIDE DEF others
    <3>1. QED
      BY <1>1
  <2>2. c \in open /\ (c = previous => open = {previous})
    BY <2>1
  <2>3. \A e \in open \ {previous} : e \in others
    OBVIOUS
  <2> HIDE DEF others
  <2>4. QED
    BY <1>4, <2>1, <2>2, <2>3
<1>8. QED
  BY <1>6, <1>7

(* No domain has more than half of what is left, the previous one not even    *)
(* half of it and one.                                                      *)
Balances(left, previous) ==
  /\ \A d \in Domains : 2 * Cardinality(InDomain(left, d)) <= Cardinality(left) + 1
  /\ previous \in Domains => 2 * Cardinality(InDomain(left, previous)) <= Cardinality(left)

LEMMA BalanceKept ==
  ASSUME NEW left, Choice(left), NEW previous, Balances(left, previous),
         NEW x \in left, x.domain \in NextDomains(left, previous)
  PROVE  x.domain # previous /\ Balances(left \ {x}, x.domain)
<1> DEFINE d == x.domain
           size(e) == Cardinality(InDomain(left, e))
           l == Cardinality(left)
           after == left \ {x}
<1>1. /\ d \in Domains /\ IsFiniteSet(left) /\ l \in Nat /\ \A e : size(e) \in Nat
      /\ \A e : IsFiniteSet(InDomain(left, e)) /\ InDomain(left, e) \in SUBSET left
  BY InOneDomain, FS_CardinalityType DEF Choice
<1>2. /\ d = previous => DomainsOf(left) = {previous}
      /\ \A e \in DomainsOf(left) \ {previous} : size(e) <= size(d)
  BY NextDomainsAre
<1>3. IsFiniteSet(after) /\ Cardinality(after) = l - 1
  BY <1>1, FS_RemoveElement
<1>4. InDomain(after, d) = InDomain(left, d) \ {x} /\ x \in InDomain(left, d)
  BY DEF InDomain
<1>5. \A e \in Domains \ {d} : InDomain(after, e) = InDomain(left, e)
  BY DEF InDomain
<1>6. Cardinality(InDomain(after, d)) = size(d) - 1
  <2>1. IsFiniteSet(InDomain(left, d))
    BY <1>1
  <2>2. Cardinality(InDomain(left, d) \ {x}) = Cardinality(InDomain(left, d)) - 1
    BY <1>4, <2>1, FS_RemoveElement
  <2>3. QED
    BY <1>4, <2>2
<1>7. l # 0 /\ size(d) # 0
  <2>1. left # {} /\ InDomain(left, d) # {}
    BY <1>4
  <2>2. QED
    BY <1>1, <2>1, FS_EmptySet
<1>8. \A e \in Domains : 2 * size(e) <= l + 1
  BY DEF Balances
<1>9. previous \in Domains => 2 * size(previous) <= l
  BY DEF Balances
<1>10. ASSUME NEW e \in Domains \ {d}
       PROVE  size(e) + size(d) <= l
  <2>1. InDomain(left, e) \cap InDomain(left, d) = {}
    BY DEF InDomain
  <2>2. /\ IsFiniteSet(InDomain(left, e) \cup InDomain(left, d))
        /\ Cardinality(InDomain(left, e) \cup InDomain(left, d)) = size(e) + size(d)
    BY <1>1, <2>1, Parts
  <2>3. InDomain(left, e) \cup InDomain(left, d) \in SUBSET left
    BY <1>1
  <2>4. QED
    BY <1>1, <2>2, <2>3, FS_Subset
<1>11. d # previous
  <2>1. SUFFICES ASSUME d = previous
                 PROVE  FALSE
    OBVIOUS
  <2>2. InDomain(left, d) = left
    BY <1>2, <2>1 DEF InDomain, DomainsOf
  <2>3. size(d) = l /\ 2 * size(d) <= l
    BY <1>1, <1>9, <2>1, <2>2
  <2> HIDE DEF d, size, l
  <2>4. QED
    BY <1>1, <1>7, <2>3
<1>12. ASSUME NEW e \in Domains \ {d}
       PROVE  2 * Cardinality(InDomain(after, e)) <= l
  <2>1. Cardinality(InDomain(after, e)) = size(e)
    BY <1>5
  <2>2. 2 * size(e) <= l
    <3>1. CASE e = previous
      BY <1>9, <3>1
    <3>2. CASE e # previous /\ e \in DomainsOf(left)
      <4>1. size(e) <= size(d) /\ size(e) + size(d) <= l /\ size(e) \in Nat /\ size(d) \in Nat
        BY <1>1, <1>2, <1>10, <3>2
      <4> HIDE DEF d, size, l
      <4>2. QED
        BY <1>1, <4>1
    <3>3. CASE e \notin DomainsOf(left)
      <4>1. InDomain(left, e) = {}
        BY <3>3 DEF InDomain, DomainsOf
      <4>2. size(e) = 0
        BY <4>1, FS_EmptySet
      <4> HIDE DEF d, size, l
      <4>3. QED
        BY <1>1, <4>2
    <3>4. QED
      BY <3>1, <3>2, <3>3
  <2>3. QED
    BY <2>1, <2>2
<1>13. 2 * Cardinality(InDomain(after, d)) <= l - 1
  <2>1. 2 * size(d) <= l + 1 /\ size(d) \in Nat
    BY <1>1, <1>8
  <2> HIDE DEF d, size, l, after
  <2>2. QED
    BY <1>1, <1>6, <2>1
<1>14. ASSUME NEW e \in Domains
       PROVE  2 * Cardinality(InDomain(after, e)) <= Cardinality(after) + 1
  <2>1. Cardinality(InDomain(after, e)) \in Nat
    BY <1>3, InOneDomain
  <2>2. 2 * Cardinality(InDomain(after, e)) <= l
    <3>1. CASE e = d
      <4> HIDE DEF l, after
      <4>1. QED
        BY <1>1, <1>13, <2>1, <3>1
    <3>2. CASE e # d
      BY <1>12, <3>2
    <3>3. QED
      BY <3>1, <3>2
  <2> HIDE DEF l, after
  <2>3. QED
    BY <1>1, <1>3, <2>1, <2>2
<1>15. 2 * Cardinality(InDomain(after, d)) <= Cardinality(after)
  <2> HIDE DEF l, after, d
  <2>1. QED
    BY <1>3, <1>13
<1>16. Balances(after, d)
  BY <1>14, <1>15 DEF Balances
<1>17. QED
  BY <1>11, <1>16

(* One question more: what is left after `n` of them, and what may follow.    *)
LeftAfter(S, order, n) == {c \in S : \A i \in 1..n : order[i] # c}

Follow(S, order, n) ==
  {Append(order, c) :
     c \in {x \in LeftAfter(S, order, n - 1) :
              x.domain \in NextDomains(LeftAfter(S, order, n - 1), LastDomain(order))}}

Laid(S, order, n) ==
  /\ order \in Seq(S) /\ Len(order) = n
  /\ \A i, j \in 1..n : order[i] = order[j] => i = j
  /\ Cardinality(LeftAfter(S, order, n)) = Cardinality(S) - n
  /\ Balances(S, "none") =>
       Balances(LeftAfter(S, order, n), LastDomain(order)) /\ Neighbours(order) = {}

LEMMA NoneLaid ==
  ASSUME NEW S, Choice(S)
  PROVE  Laid(S, <<>>, 0)
<1>1. LeftAfter(S, <<>>, 0) = S
  BY DEF LeftAfter
<1>2. Neighbours(<<>>) = {}
  BY DEF Neighbours
<1>3. LastDomain(<<>>) = "none"
  BY DEF LastDomain
<1>4. Cardinality(S) - 0 = Cardinality(S)
  <2>1. Cardinality(S) \in Nat
    BY FS_CardinalityType DEF Choice
  <2>2. QED
    BY <2>1
<1>5. <<>> \in Seq(S) /\ Len(<<>>) = 0 /\ \A i \in 1..0 : FALSE
  OBVIOUS
<1>6. QED
  BY <1>1, <1>2, <1>3, <1>4, <1>5 DEF Laid

LEMMA OneMoreLaid ==
  ASSUME NEW S, Choice(S), NEW n \in 1..Cardinality(S), NEW order, Laid(S, order, n - 1)
  PROVE  /\ Follow(S, order, n) # {}
         /\ \A next \in Follow(S, order, n) : Laid(S, next, n)
<1> DEFINE left == LeftAfter(S, order, n - 1)
           previous == LastDomain(order)
<1>1. /\ order \in Seq(S) /\ Len(order) = n - 1 /\ n \in Nat /\ n >= 1 /\ n - 1 \in Nat
      /\ Cardinality(S) \in Nat /\ n <= Cardinality(S)
  BY FS_CardinalityType DEF Laid, Choice
<1>2. Choice(left) /\ left \in SUBSET S
  BY FS_Subset DEF Choice, LeftAfter
<1>3. left # {}
  <2>1. Cardinality(left) = Cardinality(S) - (n - 1)
    BY DEF Laid
  <2>2. Cardinality(left) # 0
    BY <1>1, <2>1
  <2>3. QED
    BY <2>2, FS_EmptySet
<1>4. PICK x \in left : x.domain \in NextDomains(left, previous)
  <2>1. PICK d \in NextDomains(left, previous) : d \in DomainsOf(left)
    BY <1>2, <1>3, NextDomainsAre
  <2>2. QED
    BY <2>1 DEF DomainsOf
<1>5. Follow(S, order, n) # {}
  BY <1>4 DEF Follow
<1>6. ASSUME NEW c \in left, c.domain \in NextDomains(left, previous)
      PROVE  Laid(S, Append(order, c), n)
  <2>1. PICK next : next = Append(order, c)
    OBVIOUS
  <2>2. c \in S /\ \A i \in 1..(n - 1) : order[i] # c
    BY DEF LeftAfter
  <2>3. /\ next \in Seq(S) /\ Len(next) = n /\ next[n] = c
        /\ \A i \in 1..(n - 1) : next[i] = order[i]
    <3>1. /\ next \in Seq(S) /\ Len(next) = Len(order) + 1 /\ next[Len(order) + 1] = c
          /\ \A i \in 1..Len(order) : next[i] = order[i]
      BY <1>1, <2>1, <2>2, AppendProperties
    <3>2. Len(order) + 1 = n
      BY <1>1
    <3>3. QED
      BY <1>1, <3>1, <3>2
  <2>4. \A i \in 1..n : i \in 1..(n - 1) \/ i = n
    BY <1>1
  <2>5. ASSUME NEW i \in 1..n, NEW j \in 1..n, next[i] = next[j]
        PROVE  i = j
    <3>1. \A a, b \in 1..(n - 1) : order[a] = order[b] => a = b
      BY DEF Laid
    <3>2. QED
      BY <2>2, <2>3, <2>4, <2>5, <3>1
  <2>6. LeftAfter(S, next, n) = left \ {c}
    <3>1. ASSUME NEW e \in S
          PROVE  (\A i \in 1..n : next[i] # e) <=> (\A i \in 1..(n - 1) : order[i] # e) /\ e # c
      <4>1. \A i \in 1..(n - 1) : i \in 1..n
        BY <1>1
      <4>2. n \in 1..n
        BY <1>1
      <4>3. QED
        BY <2>3, <2>4, <4>1, <4>2
    <3>2. QED
      BY <3>1 DEF LeftAfter
  <2>7. Cardinality(LeftAfter(S, next, n)) = Cardinality(S) - n
    <3>1. Cardinality(left) = Cardinality(S) - (n - 1)
      BY DEF Laid
    <3>2. Cardinality(left \ {c}) = Cardinality(left) - 1
      BY <1>2, FS_RemoveElement DEF Choice
    <3> HIDE DEF left
    <3>3. QED
      BY <1>1, <2>6, <3>1, <3>2
  <2>8. LastDomain(next) = c.domain
    <3>1. next # <<>>
      BY <1>1, <2>3
    <3>2. QED
      BY <2>3, <3>1 DEF LastDomain
  <2>9. ASSUME Balances(S, "none")
        PROVE  Balances(LeftAfter(S, next, n), LastDomain(next)) /\ Neighbours(next) = {}
    <3>1. Balances(left, previous) /\ Neighbours(order) = {}
      BY <2>9 DEF Laid
    <3>2. c.domain # previous /\ Balances(left \ {c}, c.domain)
      BY <1>2, <1>6, <3>1, BalanceKept
    <3>3. ASSUME NEW i \in 1..(n - 1)
          PROVE  next[i].domain # next[i + 1].domain
      <4>1. next[i] = order[i]
        BY <2>3
      <4>2. CASE i = n - 1
        <5>1. next[i + 1] = c
          BY <1>1, <2>3, <4>2
        <5>2. order # <<>>
          BY <1>1, <4>2
        <5>3. previous = order[i].domain
          BY <1>1, <4>2, <5>2 DEF LastDomain
        <5>4. QED
          BY <3>2, <4>1, <5>1, <5>3
      <4>3. CASE i # n - 1
        <5>1. i + 1 \in 1..(n - 1) /\ i \in 1..(Len(order) - 1)
          BY <1>1, <4>3
        <5>2. next[i + 1] = order[i + 1]
          BY <2>3, <5>1
        <5>3. order[i].domain # order[i + 1].domain
          BY <3>1, <5>1 DEF Neighbours
        <5>4. QED
          BY <4>1, <5>2, <5>3
      <4>4. QED
        BY <4>2, <4>3
    <3>4. Neighbours(next) = {}
      BY <2>3, <3>3 DEF Neighbours
    <3>5. QED
      BY <2>6, <2>8, <3>2, <3>4
  <2>10. Laid(S, next, n)
    BY <2>3, <2>5, <2>7, <2>9 DEF Laid
  <2>11. QED
    BY <2>1, <2>10
<1>7. QED
  BY <1>5, <1>6 DEF Follow

(* All orders, question by question.                                         *)
Orders(f, S, n) ==
  f = [k \in 0..n |-> IF k = 0 THEN {<<>>} ELSE UNION {Follow(S, order, k) : order \in f[k - 1]}]

LEMMA OrdersExist ==
  ASSUME NEW S, NEW n \in Nat
  PROVE  \E f : Orders(f, S, n)
<1> DEFINE T == {m \in Nat : ~ \E f : Orders(f, S, m)}
<1>1. ASSUME T # {}
      PROVE  FALSE
  <2>1. PICK m \in T : \A y \in T : m <= y
    <3> HIDE DEF T
    <3>1. T \in SUBSET Nat
      BY DEF T
    <3>2. QED
      BY <1>1, <3>1, LeastNatural
  <2>2. CASE m = 0
    <3> DEFINE g == [k \in 0..0 |-> {<<>>}]
    <3>1. g = [k \in 0..0 |-> IF k = 0 THEN {<<>>} ELSE UNION {Follow(S, order, k) : order \in g[k - 1]}]
      OBVIOUS
    <3>2. Orders(g, S, 0)
      BY <3>1 DEF Orders
    <3>3. QED
      BY <2>2, <3>2
  <2>3. CASE m # 0
    <3>1. m - 1 \in Nat /\ m - 1 \notin T
      BY <2>1, <2>3
    <3>2. PICK f : Orders(f, S, m - 1)
      BY <3>1
    <3> DEFINE more(orders, k) == UNION {Follow(S, order, k) : order \in orders}
               g == [k \in 0..m |-> IF k = m THEN more(f[m - 1], m) ELSE f[k]]
    <3>3. \A k \in 0..(m - 1) : f[k] = IF k = 0 THEN {<<>>} ELSE more(f[k - 1], k)
      BY <3>2 DEF Orders
    <3> HIDE DEF more
    <3>4. \A k \in 0..(m - 1) : g[k] = f[k]
      BY <3>1
    <3>5. ASSUME NEW k \in 0..m
          PROVE  g[k] = IF k = 0 THEN {<<>>} ELSE more(g[k - 1], k)
      <4>1. CASE k = m
        <5>1. g[k] = more(f[k - 1], k) /\ k - 1 \in 0..(m - 1) /\ k # 0
          BY <2>3, <4>1
        <5>2. g[k - 1] = f[k - 1]
          BY <3>4, <5>1
        <5> HIDE DEF g
        <5>3. QED
          BY <5>1, <5>2
      <4>2. CASE k = 0
        <5>1. k \in 0..(m - 1)
          BY <3>1, <4>2
        <5>2. QED
          BY <3>3, <3>4, <4>2, <5>1
      <4>3. CASE k # m /\ k # 0
        <5>1. k \in 0..(m - 1) /\ k - 1 \in 0..(m - 1)
          BY <4>3
        <5>2. g[k] = f[k] /\ g[k - 1] = f[k - 1]
          BY <3>4, <5>1
        <5>3. f[k] = more(f[k - 1], k)
          BY <3>3, <4>3, <5>1
        <5> HIDE DEF g
        <5>4. QED
          BY <4>3, <5>2, <5>3
      <4>4. QED
        BY <4>1, <4>2, <4>3
    <3>6. Orders(g, S, m)
      <4>1. g = [k \in 0..m |-> g[k]]
        OBVIOUS
      <4> HIDE DEF g
      <4>2. g = [k \in 0..m |-> IF k = 0 THEN {<<>>} ELSE more(g[k - 1], k)]
        BY <3>5, <4>1
      <4>3. QED
        BY <4>2 DEF Orders, more
    <3>7. QED
      BY <3>6, <2>1
  <2>4. QED
    BY <2>2, <2>3
<1>2. QED
  BY <1>1

LEMMA InterleavingsAre ==
  ASSUME NEW S, Choice(S)
  PROVE  /\ Interleavings(S) # {}
         /\ \A order \in Interleavings(S) : Laid(S, order, Cardinality(S))
<1> DEFINE N == Cardinality(S)
           f == CHOOSE f : Orders(f, S, N)
<1>1. N \in Nat
  BY FS_CardinalityType DEF Choice
<1>2. Orders(f, S, N)
  BY <1>1, OrdersExist
<1>3. Interleavings(S) = f[N]
  BY DEF Interleavings, Orders, Follow, LeftAfter
<1> HIDE DEF N, f
<1>4. \A k \in 0..N : f[k] = IF k = 0 THEN {<<>>} ELSE UNION {Follow(S, order, k) : order \in f[k - 1]}
  BY <1>2 DEF Orders
<1> DEFINE Fits(k) == f[k] # {} /\ \A order \in f[k] : Laid(S, order, k)
           T == {k \in 0..N : ~ Fits(k)}
<1>5. ASSUME T # {}
      PROVE  FALSE
  <2>1. PICK k \in T : \A y \in T : k <= y
    <3>1. T \in SUBSET Nat
      BY <1>1
    <3> HIDE DEF T
    <3>2. QED
      BY <1>5, <3>1, LeastNatural
  <2>2. k \in 0..N /\ ~ Fits(k)
    BY <2>1
  <2>3. k # 0
    <3>1. SUFFICES ASSUME k = 0
                   PROVE  FALSE
      OBVIOUS
    <3>2. f[k] = {<<>>}
      BY <1>4, <2>2, <3>1
    <3>3. QED
      BY <2>2, <3>1, <3>2, NoneLaid
  <2>4. k - 1 \in 0..N /\ k - 1 \notin T /\ k \in 1..N
    BY <1>1, <2>1, <2>2, <2>3
  <2>5. f[k - 1] # {} /\ \A order \in f[k - 1] : Laid(S, order, k - 1)
    BY <2>4
  <2>6. f[k] = UNION {Follow(S, order, k) : order \in f[k - 1]}
    BY <1>4, <2>2, <2>3
  <2>7. \A order \in f[k - 1] :
          Follow(S, order, k) # {} /\ \A next \in Follow(S, order, k) : Laid(S, next, k)
    BY <2>4, <2>5, OneMoreLaid DEF N
  <2>8. Fits(k)
    BY <2>5, <2>6, <2>7
  <2>9. QED
    BY <2>2, <2>8
<1>6. Fits(N)
  <2>1. N \in 0..N
    BY <1>1
  <2>2. QED
    BY <1>5, <2>1
<1>7. QED
  BY <1>3, <1>6 DEF N

Listed(order) == {order[i] : i \in 1..Len(order)}

LEMMA AllLaid ==
  ASSUME NEW S, Choice(S), NEW order, Laid(S, order, Cardinality(S))
  PROVE  Listed(order) = S
<1> DEFINE N == Cardinality(S)
<1>1. N \in Nat /\ order \in [1..N -> S] /\ Len(order) = N
  <2>1. N \in Nat /\ order \in Seq(S) /\ Len(order) = N
    BY FS_CardinalityType DEF Choice, Laid
  <2>2. QED
    BY <2>1, LenProperties
<1>2. order \in Injection(1..N, S)
  BY <1>1 DEF Laid, Injection, IsInjective
<1>3. IsFiniteSet(1..N) /\ Cardinality(1..N) = N
  BY <1>1, FS_Interval
<1>4. order \in Surjection(1..N, S)
  BY <1>2, <1>3, FS_Injection DEF Choice
<1>5. QED
  BY <1>1, <1>4 DEF Surjection, Listed

(* What select returns.                                                      *)
LEMMA BlueprintsAre ==
  ASSUME NEW candidates, Choice(candidates), NEW recent, NEW count \in Counts
  PROVE  /\ Blueprints(candidates, recent, count) = {}
              <=> ~ \E q \in SUBSET candidates : Covers(q, count)
         /\ \A order \in Blueprints(candidates, recent, count) :
              /\ Best(Listed(order), candidates, recent, count)
              /\ Balances(Listed(order), "none") => Neighbours(order) = {}
<1>1. ASSUME NEW order \in Blueprints(candidates, recent, count)
      PROVE  /\ Best(Listed(order), candidates, recent, count)
             /\ Balances(Listed(order), "none") => Neighbours(order) = {}
  <2>1. PICK p \in Selections(candidates, recent, count) : order \in Interleavings(p)
    BY DEF Blueprints
  <2>2. Best(p, candidates, recent, count)
    BY SelectedIsBest
  <2>3. Choice(p)
    BY <2>2, FS_Subset DEF Best, Choice
  <2>4. Laid(p, order, Cardinality(p))
    BY <2>1, <2>3, InterleavingsAre
  <2>5. Listed(order) = p
    BY <2>3, <2>4, AllLaid
  <2>6. QED
    BY <2>2, <2>4, <2>5 DEF Laid
<1>2. ASSUME NEW q \in SUBSET candidates, Covers(q, count)
      PROVE  Blueprints(candidates, recent, count) # {}
  <2>1. PICK p : p \in Selections(candidates, recent, count)
    BY <1>2, CoverSelects
  <2>2. Best(p, candidates, recent, count)
    BY <2>1, SelectedIsBest
  <2>3. Choice(p)
    BY <2>2, FS_Subset DEF Best, Choice
  <2>4. PICK order \in Interleavings(p) : Laid(p, order, Cardinality(p))
    BY <2>3, InterleavingsAre
  <2>5. Covers(Listed(order), count)
    BY <2>2, <2>3, <2>4, AllLaid DEF Best
  <2>6. order \in Blueprints(candidates, recent, count)
    BY <2>1, <2>5 DEF Blueprints, Listed
  <2>7. QED
    BY <2>6
<1>3. QED
  BY <1>1, <1>2 DEF Best

-------------------------------------------------------------------------------
(* What a request may choose from.  No import brings more than its release,   *)
(* so that the bank, and what it offers, stay finite.                        *)

Named(q, x) == [question |-> q, domain |-> x.domain, version |-> x.version]

Entries(stored) == UNION {{Named(q, r) : r \in stored[q]} : q \in Questions}

NamesOf(q, rows) == {Named(q, r) : r \in rows}

LEMMA EntryNamed ==
  ASSUME NEW state \in State, NEW d \in Definition, NEW q
  PROVE  NamesOf(q, Entered(state, d).rows) \subseteq NamesOf(q, state.rows) \cup {Named(q, d)}
<1> DEFINE same == {r \in state.known : r.version = d.version}
<1>1. CASE same # {}
  <2>1. PICK agreed : agreed = (\A r \in same : Immutable(r) = Immutable(Imported(d)))
    OBVIOUS
  <2>2. Entered(state, d) = [state EXCEPT !.ok = @ /\ agreed]
    BY <1>1, <2>1 DEF Entered
  <2>3. Entered(state, d).rows = state.rows
    BY <2>2 DEF State
  <2>4. QED
    BY <2>3
<1>2. CASE same = {}
  <2>1. Entered(state, d).rows = Retired(state.rows) \cup {Imported(d)}
    BY <1>2 DEF Entered
  <2>2. Named(q, Imported(d)) = Named(q, d)
    BY DEF Named, Imported
  <2>3. \A r \in state.rows : Named(q, [r EXCEPT !.active = FALSE]) = Named(q, r)
    BY DEF Named, State, Row
  <2>4. NamesOf(q, Retired(state.rows)) = NamesOf(q, state.rows)
    BY <2>3 DEF NamesOf, Retired
  <2>5. QED
    BY <2>1, <2>2, <2>4 DEF NamesOf
<1>3. QED
  BY <1>1, <1>2

LEMMA VersionNamed ==
  ASSUME NEW state \in State, NEW entries \in SUBSET Definition, NEW v, NEW q
  PROVE  NamesOf(q, EnteredAt(state, entries, v).rows)
           \subseteq NamesOf(q, state.rows) \cup NamesOf(q, entries)
<1> DEFINE due == {d \in entries : d.version = v}
<1>1. CASE due = {}
  BY <1>1 DEF EnteredAt
<1>2. CASE due # {}
  <2>1. PICK d \in entries : EnteredAt(state, entries, v) = Entered(state, d)
    BY <1>2 DEF EnteredAt
  <2>2. d \in Definition
    OBVIOUS
  <2>3. Named(q, d) \in NamesOf(q, entries)
    BY DEF NamesOf
  <2>4. QED
    BY <2>1, <2>2, <2>3, EntryNamed
<1>3. QED
  BY <1>1, <1>2

LEMMA SynchronizedNamed ==
  ASSUME NEW rows, NEW known, NEW entries \in SUBSET Definition, IsFiniteSet(entries),
         Follows(Begins(rows, known)), NEW q
  PROVE  NamesOf(q, Synchronized(rows, known, entries).rows)
           \subseteq NamesOf(q, rows) \cup NamesOf(q, entries)
<1> DEFINE N == Latest(entries)
<1>1. N \in Nat
  <2>1. VersionsOf(entries) \subseteq Nat
    BY BankAssumption DEF VersionsOf, Definition
  <2>2. QED
    BY <2>1, FiniteHasLatest
<1> HIDE DEF N
<1>2. PICK f : Enters(f, Begins(rows, known), entries, N) /\ Synchronized(rows, known, entries) = f[N]
  BY <1>1, SynchronizedIs DEF N
<1>3. \A v \in 0..N : f[v] = IF v = 0 THEN Begins(rows, known) ELSE EnteredAt(f[v - 1], entries, v)
  BY <1>2 DEF Enters
<1> DEFINE OfThese(state) ==
             NamesOf(q, state.rows) \subseteq NamesOf(q, rows) \cup NamesOf(q, entries)
           T == {v \in 0..N : ~ (Follows(f[v]) /\ OfThese(f[v]))}
<1>4. Follows(Begins(rows, known)) /\ OfThese(Begins(rows, known))
  BY DEF Begins
<1>5. ASSUME NEW state, Follows(state), OfThese(state), NEW v
      PROVE  Follows(EnteredAt(state, entries, v)) /\ OfThese(EnteredAt(state, entries, v))
  <2>1. state \in State
    BY <1>5 DEF Follows
  <2>2. NamesOf(q, EnteredAt(state, entries, v).rows)
          \subseteq NamesOf(q, state.rows) \cup NamesOf(q, entries)
    BY <2>1, VersionNamed
  <2>3. QED
    BY <1>5, <2>2, VersionFollows
<1> HIDE DEF OfThese
<1>6. ASSUME T # {}
      PROVE  FALSE
  <2>1. PICK v \in T : \A y \in T : v <= y
    <3>1. T \in SUBSET Nat
      BY <1>1
    <3> HIDE DEF T
    <3>2. QED
      BY <1>6, <3>1, LeastNatural
  <2>2. v \in 0..N /\ ~ (Follows(f[v]) /\ OfThese(f[v]))
    BY <2>1
  <2>3. v # 0
    BY <1>1, <1>3, <1>4, <2>2
  <2>4. v - 1 \in 0..N /\ v - 1 \notin T
    BY <1>1, <2>1, <2>2, <2>3
  <2>5. Follows(f[v - 1]) /\ OfThese(f[v - 1])
    BY <2>4
  <2>6. f[v] = EnteredAt(f[v - 1], entries, v)
    BY <1>3, <2>2, <2>3
  <2>7. QED
    BY <1>5, <2>2, <2>5, <2>6
<1>7. OfThese(f[N])
  <2>1. N \in 0..N
    BY <1>1
  <2>2. QED
    BY <1>6, <2>1
<1>8. QED
  BY <1>2, <1>7 DEF OfThese

LEMMA ReleaseFinite ==
  ASSUME NEW release, IsFiniteSet(release)
  PROVE  IsFiniteSet({Named(d.question, d) : d \in release})
<1> DEFINE f == [d \in release |-> Named(d.question, d)]
<1>1. f \in Surjection(release, {Named(d.question, d) : d \in release})
  BY DEF Surjection
<1> HIDE DEF f
<1>2. QED
  BY <1>1, FS_Surjection

LEMMA EntriesFinite ==
  ASSUME NEW old, NEW known, NEW release \in SUBSET Definition, IsFiniteSet(release),
         old \in [Questions -> SUBSET Row], IsFiniteSet(Entries(old)),
         \A q \in Questions : Follows(Begins(old[q], known[q]))
  PROVE  IsFiniteSet(Entries(Synchronize(old, known, release)))
<1> DEFINE new == Synchronize(old, known, release)
           brought == {Named(d.question, d) : d \in release}
<1>1. ASSUME NEW q \in Questions
      PROVE  NamesOf(q, new[q]) \subseteq Entries(old) \cup brought
  <2>1. OfQuestion(release, q) \in SUBSET Definition /\ IsFiniteSet(OfQuestion(release, q))
    <3>1. OfQuestion(release, q) \in SUBSET release
      BY DEF OfQuestion
    <3>2. QED
      BY <3>1, FS_Subset
  <2>2. Follows(Begins(old[q], known[q]))
    OBVIOUS
  <2>3. NamesOf(q, Synchronized(old[q], known[q], OfQuestion(release, q)).rows)
          \subseteq NamesOf(q, old[q]) \cup NamesOf(q, OfQuestion(release, q))
    BY <2>1, <2>2, SynchronizedNamed
  <2>4. new[q] = Synchronized(old[q], known[q], OfQuestion(release, q)).rows
    BY DEF Synchronize
  <2>5. NamesOf(q, old[q]) \subseteq Entries(old)
    BY DEF NamesOf, Entries
  <2>6. NamesOf(q, OfQuestion(release, q)) \subseteq brought
    BY DEF NamesOf, OfQuestion
  <2>7. QED
    BY <2>3, <2>4, <2>5, <2>6
<1>2. Entries(new) \in SUBSET (Entries(old) \cup brought)
  BY <1>1 DEF Entries, NamesOf
<1>3. IsFiniteSet(brought)
  BY ReleaseFinite
<1> HIDE DEF brought, new
<1>4. IsFiniteSet(Entries(old) \cup brought)
  BY <1>3, FS_Union
<1>5. IsFiniteSet(Entries(new))
  BY <1>2, <1>4, FS_Subset
<1>6. QED
  BY <1>5 DEF new

(* A request that is choosing asks for a count there is, of finitely many     *)
(* questions.                                                               *)
Chooses(x) == x.pc = "creating" => Choice(x.seen.eligible) /\ x.count \in Counts

ChoiceInv ==
  /\ IsFiniteSet(Entries(bank))
  /\ \A h \in Handlers : Chooses(handlers[h])

LEMMA SnapshotIsChoice ==
  ASSUME BankInv, ChoiceInv
  PROVE  Choice(Snapshot.eligible)
<1>1. Snapshot.eligible = Eligible(bank)
  BY DEF Snapshot
<1>2. Eligible(bank) \in SUBSET Entries(bank)
  BY DEF Eligible, Entries, Named, Offerable
<1>3. \A q \in Questions : \A r \in bank[q] : r.domain \in Domains
  BY DEF BankInv, Row
<1>4. \A c \in Eligible(bank) : c.domain \in Domains
  BY <1>3 DEF Eligible, Offerable
<1>5. QED
  BY <1>1, <1>2, <1>4, FS_Subset DEF ChoiceInv, Choice

LEMMA ChoiceInit == Init => ChoiceInv
<1> SUFFICES ASSUME Init
             PROVE  ChoiceInv
  OBVIOUS
<1>1. Entries(EmptyBank) = {}
  BY DEF Entries, EmptyBank
<1>2. \A q \in Questions : Follows(Begins(EmptyBank[q], EmptyBank[q]))
  BY EmptyFollows DEF EmptyBank
<1>3. EmptyBank \in [Questions -> SUBSET Row] /\ IsFiniteSet(Entries(EmptyBank))
  BY <1>1, FS_EmptySet DEF EmptyBank
<1>4. IsFiniteSet(Entries(Synchronize(EmptyBank, EmptyBank, FirstRelease)))
  BY <1>2, <1>3, IntakeAssumption, EntriesFinite
<1>5. \A h \in Handlers : Chooses(handlers[h])
  BY DEF Init, HandlerAtRest, Chooses
<1>6. QED
  BY <1>4, <1>5 DEF Init, ChoiceInv

LEMMA ChooserMoves ==
  ASSUME IntakeInv, ChoiceInv, bank' = bank, NEW h \in Handlers, NEW x, Chooses(x),
         handlers' = [handlers EXCEPT ![h] = x]
  PROVE  ChoiceInv'
<1>1. \A g \in Handlers : handlers'[g] = IF g = h THEN x ELSE handlers[g]
  BY DEF IntakeInv
<1>2. \A g \in Handlers : Chooses(handlers[g])
  BY DEF ChoiceInv
<1>3. \A g \in Handlers : Chooses(handlers'[g])
  BY <1>1, <1>2
<1>4. IsFiniteSet(Entries(bank))'
  BY DEF ChoiceInv, Entries
<1>5. QED
  BY <1>3, <1>4 DEF ChoiceInv, Chooses

LEMMA ImportsStayFinite ==
  ASSUME BankInv, ChoiceInv, NEW i \in Importers, Import(i)
  PROVE  ChoiceInv'
<1>1. IsFiniteSet(Entries(bank'))
  <2>1. CASE bank' = bank
    BY <2>1 DEF ChoiceInv
  <2>2. CASE bank' # bank
    <3>1. EndImport(i)
      BY <2>2 DEF Import, BeginImport, TakeLock
    <3>2. importers[i].known = bank /\ importers[i] \in Importer
      BY <3>1 DEF EndImport, BankInv
    <3>3. bank' = Synchronize(bank, bank, importers[i].release)
      BY <2>2, <3>1, <3>2 DEF EndImport
    <3>4. \A q \in Questions : Follows(Begins(bank[q], bank[q]))
      BY DEF BankInv, Follows, Begins, State
    <3>5. importers[i].release \in SUBSET Definition /\ IsFiniteSet(importers[i].release)
      BY <3>2 DEF Importer
    <3>6. bank \in [Questions -> SUBSET Row] /\ IsFiniteSet(Entries(bank))
      BY DEF BankInv, ChoiceInv
    <3>7. QED
      BY <3>3, <3>4, <3>5, <3>6, EntriesFinite
  <2>3. QED
    BY <2>1, <2>2
<1>2. handlers' = handlers
  BY DEF Import, BeginImport, TakeLock, EndImport
<1>3. QED
  BY <1>1, <1>2 DEF ChoiceInv, Entries, Chooses

LEMMA RequestsChoose ==
  ASSUME IntakeInv, BankInv, ChoiceInv, NEW h \in Handlers, Handle(h)
  PROVE  ChoiceInv'
<1>1. bank' = bank
  BY DEF Handle, BeginCreation, CreatedBefore, RefusedForOpenOne, RefusedForShortage,
     CreateInterview, RetryTransaction, SettleCreation, CrashHandler
<1>2. Choice(Snapshot.eligible)
  BY SnapshotIsChoice
<1>3. IsHandler(handlers[h]) /\ Chooses(handlers[h])
  BY DEF IntakeInv, ChoiceInv
<1>4. Chooses([HandlerAtRest EXCEPT !.pc = "done"])
  BY DEF Chooses, HandlerAtRest
<1>5. Chooses(Prepared(handlers[h]))
  BY <1>3 DEF Chooses, Prepared, IsHandler, HandlerFields
<1>6. CASE Respond(h)
  BY <1>1, <1>4, <1>6, ChooserMoves DEF Respond
<1>7. CASE handlers' = [handlers EXCEPT ![h] = Prepared(@)]
  <2>1. handlers' = [handlers EXCEPT ![h] = Prepared(handlers[h])]
    BY <1>7
  <2>2. QED
    BY <1>1, <1>5, <2>1, ChooserMoves
<1>8. ASSUME NEW key \in Keys, NEW count \in Counts, BeginCreation(h, key, count)
      PROVE  ChoiceInv'
  <2> DEFINE x == [pc |-> "creating", key |-> key, count |-> count, attempt |-> 1, seen |-> Snapshot]
  <2>1. Chooses(x)
    BY <1>2 DEF Chooses
  <2>2. handlers' = [handlers EXCEPT ![h] = x]
    BY <1>8 DEF BeginCreation
  <2> HIDE DEF x
  <2>3. QED
    BY <1>1, <2>1, <2>2, ChooserMoves
<1>9. CASE RetryTransaction(h) /\ handlers' = [handlers EXCEPT ![h] = TryAgain(@)]
  <2> DEFINE x == TryAgain(handlers[h])
  <2>1. handlers[h].pc = "creating"
    BY <1>9 DEF RetryTransaction, Creating
  <2>2. x.seen = Snapshot /\ x.count = handlers[h].count
    BY <1>3 DEF TryAgain, IsHandler, HandlerFields
  <2>3. Chooses(x)
    BY <1>2, <1>3, <2>1, <2>2 DEF Chooses
  <2>4. handlers' = [handlers EXCEPT ![h] = x]
    BY <1>9
  <2> HIDE DEF x
  <2>5. QED
    BY <1>1, <2>3, <2>4, ChooserMoves
<1>10. QED
  BY <1>6, <1>7, <1>8, <1>9 DEF Handle, CreatedBefore, RefusedForOpenOne, RefusedForShortage,
     CreateInterview, RetryTransaction, SettleCreation, CrashHandler

LEMMA ChoiceNext == IntakeInv /\ BankInv /\ ChoiceInv /\ [Next]_vars => ChoiceInv'
<1> SUFFICES ASSUME IntakeInv, BankInv, ChoiceInv, [Next]_vars
             PROVE  ChoiceInv'
  OBVIOUS
<1>1. ASSUME NEW n \in DOMAIN interviews, Happen(n)
      PROVE  UNCHANGED <<bank, handlers>>
  BY <1>1 DEF Happen, FinishInterview, LeaveAlone, AbandonInterview, DeleteInterview
<1>2. CASE UNCHANGED <<bank, handlers>>
  BY <1>2 DEF ChoiceInv, Entries, Chooses
<1>3. CASE UNCHANGED vars
  BY <1>2, <1>3 DEF vars
<1>4. QED
  BY <1>1, <1>2, <1>3, ImportsStayFinite, RequestsChoose DEF Next

LEMMA ChoiceInvariant == Spec => []ChoiceInv
  BY ChoiceInit, ChoiceNext, IntakeInvariant, BankInvariant, PTL DEF Spec

LEMMA ChoosesBest ==
  ASSUME NEW seen, NEW count \in Counts, Choice(seen.eligible)
  PROVE  LET recent  == RecentQuestions(seen.interviews)
             covers  == {picked \in kSubset(count, seen.eligible) : Covers(picked, count)}
             offered == Offered(seen, count)
         IN  /\ offered = {} <=> covers = {}
             /\ \A order \in offered :
                  LET picked == {order[n] : n \in 1..Len(order)}
                  IN  /\ picked \in covers
                      /\ \A other \in covers : Repeats(picked, recent) <= Repeats(other, recent)
                      /\ Neighbours(order) # {} =>
                           \E d \in Domains : 2 * Cardinality(InDomain(picked, d)) > count + 1
<1> DEFINE candidates == seen.eligible
           recent == RecentQuestions(seen.interviews)
           covers == {picked \in kSubset(count, candidates) : Covers(picked, count)}
<1>1. \A picked : picked \in covers <=> picked \in SUBSET candidates /\ Covers(picked, count)
  BY DEF kSubset, Covers
<1>2. Offered(seen, count) = Blueprints(candidates, recent, count)
  BY DEF Offered
<1>3. \A picked : Repeats(picked, recent) = Cardinality(Seen(picked, recent))
  BY DEF Repeats, Seen
<1>4. count \in Nat
  BY CountsAre
<1> HIDE DEF covers, recent, candidates
<1>5. Choice(candidates)
  BY DEF candidates
<1>6. /\ Blueprints(candidates, recent, count) = {}
           <=> ~ \E q \in SUBSET candidates : Covers(q, count)
      /\ \A order \in Blueprints(candidates, recent, count) :
           /\ Best(Listed(order), candidates, recent, count)
           /\ Balances(Listed(order), "none") => Neighbours(order) = {}
  BY <1>5, BlueprintsAre
<1>7. Offered(seen, count) = {} <=> covers = {}
  BY <1>1, <1>2, <1>6
<1>8. ASSUME NEW order \in Offered(seen, count)
      PROVE  /\ Listed(order) \in covers
             /\ \A other \in covers : Repeats(Listed(order), recent) <= Repeats(other, recent)
             /\ Neighbours(order) # {} =>
                  \E d \in Domains : 2 * Cardinality(InDomain(Listed(order), d)) > count + 1
  <2>1. PICK picked : picked = Listed(order)
    OBVIOUS
  <2>2. /\ Best(picked, candidates, recent, count)
        /\ Balances(picked, "none") => Neighbours(order) = {}
    BY <1>2, <1>6, <2>1
  <2>3. picked \in covers
    BY <1>1, <2>2 DEF Best
  <2>4. \A other \in covers : Repeats(picked, recent) <= Repeats(other, recent)
    BY <1>1, <1>3, <2>2 DEF Best
  <2>5. ASSUME \A d \in Domains : ~ (2 * Cardinality(InDomain(picked, d)) > count + 1)
        PROVE  Balances(picked, "none")
    <3>1. IsFiniteSet(picked) /\ Cardinality(picked) = count
      BY <1>5, <2>2, FS_Subset DEF Best, Covers, Choice
    <3>2. \A d \in Domains : Cardinality(InDomain(picked, d)) \in Nat
      BY <3>1, InOneDomain
    <3>3. \A d \in Domains : 2 * Cardinality(InDomain(picked, d)) <= Cardinality(picked) + 1
      BY <1>4, <2>5, <3>1, <3>2
    <3>4. QED
      BY <3>3, SelectionAssumption DEF Balances
  <2>6. Neighbours(order) # {} =>
          \E d \in Domains : 2 * Cardinality(InDomain(picked, d)) > count + 1
    BY <2>2, <2>5
  <2>7. QED
    BY <2>1, <2>3, <2>4, <2>6
<1>9. QED
  BY <1>7, <1>8 DEF covers, recent, candidates, Listed

(* Whatever the bank offers and however often the account was interviewed,    *)
(* a request is refused for a shortage only if no choice has the coverage    *)
(* its count asks for; and the blueprint it gets has that coverage, repeats  *)
(* as few recent questions as any such choice, and asks two of a domain in   *)
(* a row only if that domain has more than half of them.                    *)
THEOREM BestBlueprint == Spec => []BlueprintIsBest
<1>1. ChoiceInv => BlueprintIsBest
  <2> SUFFICES ASSUME ChoiceInv, NEW h \in Handlers, Creating(h)
               PROVE  LET seen    == handlers[h].seen
                          count   == handlers[h].count
                          recent  == RecentQuestions(seen.interviews)
                          covers  == {picked \in kSubset(count, seen.eligible) : Covers(picked, count)}
                          offered == Offered(seen, count)
                      IN  /\ offered = {} <=> covers = {}
                          /\ \A order \in offered :
                               LET picked == {order[n] : n \in 1..Len(order)}
                               IN  /\ picked \in covers
                                   /\ \A other \in covers :
                                        Repeats(picked, recent) <= Repeats(other, recent)
                                   /\ Neighbours(order) # {} =>
                                        \E d \in Domains :
                                          2 * Cardinality(InDomain(picked, d)) > count + 1
    BY DEF BlueprintIsBest
  <2>1. Choice(handlers[h].seen.eligible) /\ handlers[h].count \in Counts
    BY DEF ChoiceInv, Chooses, Creating
  <2>2. QED
    BY <2>1, ChoosesBest
<1>2. QED
  BY <1>1, ChoiceInvariant, PTL
===============================================================================
