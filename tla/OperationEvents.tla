---------------------------- MODULE OperationEvents ----------------------------
(***************************************************************************)
(* The live events of one operation: OperationEventBroker, the SSE route    *)
(* (streamOperationEvents) and the web client's loop (useOperationStream).   *)
(* A step ends at an await of the code, so what was read before the await   *)
(* (a stream's snapshot, its delivery check, its poll) may be stale after.   *)
(*                                                                         *)
(* The broker keeps the history of one attempt in memory.  It is lost with   *)
(* the process, with its one-minute timer, and when other operations fill    *)
(* the broker.  `ripe` is the last attempt whose completion is older than    *)
(* the publication grace period.  Timely is the assumption that period makes: *)
(* a finalization publishes and a read is used within it, and neither is the   *)
(* broker's history lost nor a failed attempt retried sooner.                  *)
(***************************************************************************)
EXTENDS Integers, Sequences, FiniteSets

CONSTANTS
  Clients,       \* browser sessions following the operation
  MaxAttempts,   \* bound: claims of the row
  HistoryLimit,  \* events the broker keeps for an operation
  MaxFaults,     \* bound: losses of history, restarts and failed refreshes
  Timely,        \* whether the grace period outlasts what it waits for
  Crowded,       \* whether other operations may fill the broker
  AccessMayEnd   \* whether the interview may be deleted, a session revoked

ASSUME AttemptsAssumption == MaxAttempts \in Nat \ {0}
ASSUME HistoryAssumption == HistoryLimit \in Nat /\ HistoryLimit >= 2
ASSUME FaultsAssumption == MaxFaults \in Nat /\ Timely \in BOOLEAN

ASSUME AccessAssumption == Crowded \in BOOLEAN /\ AccessMayEnd \in BOOLEAN

VARIABLES
  row,        \* the operation's row
  deleted,    \* the interview is deleted
  sessions,   \* clients whose session is active
  ripe,       \* last attempt past the grace period
  executor,   \* the attempt the process executes, 0 for none
  finished,   \* committed completions still to be published
  erasing,    \* the deletion is committed, the broker not yet erased
  broker,     \* the operation's event state
  closed,     \* broker.closed
  erased,     \* an interview tombstone stands in the broker
  streams,    \* the server's end of each client's stream
  views,      \* the client's end
  published,  \* ghost: events published so far
  cut,        \* ghost: events published when a client lost access
  faults

serverVars == <<executor, finished, erasing, broker, closed, erased, streams>>
ghosts == <<published, cut>>
vars == <<row, deleted, sessions, ripe, serverVars, views, ghosts, faults>>

Settled == {"succeeded", "failed"}
Rows == [status : {"processing"} \cup Settled, attempt : 1..MaxAttempts]
NoRead == [status |-> "unread", attempt |-> 0]
Denied == [status |-> "denied", attempt |-> 0]

NoState ==
  [attempt |-> 0, unknown |-> FALSE, events |-> <<>>, next |-> 1, listeners |-> {}]

Idle == [phase |-> "idle", snapshot |-> NoRead, queue |-> <<>>, check |-> "none", poll |-> NoRead]
Mounted == [phase |-> "connecting", last |-> 0, id |-> 0, attempt |-> 0]
Unmounted == [Mounted EXCEPT !.phase = "done"]

Init ==
  /\ row = [status |-> "processing", attempt |-> 1]
  /\ deleted = FALSE
  /\ sessions = Clients
  /\ ripe = 0
  /\ executor = [attempt |-> 1, begun |-> FALSE]
  /\ finished = {}
  /\ erasing = FALSE
  /\ broker = NoState
  /\ closed = FALSE
  /\ erased = FALSE
  /\ streams = [c \in Clients |-> Idle]
  /\ views = [c \in Clients |-> Unmounted]
  /\ published = 0
  /\ cut = [c \in Clients |-> 0]
  /\ faults = 0

(* findAccessible: the session is active and the row is there. *)
Accessible(c) == c \in sessions /\ ~ deleted

Read(c) == IF Accessible(c) THEN row ELSE Denied

(* Fault: only a success is rebuilt from the row. *)
FaultReady(op) == op.status = "succeeded" /\ op.attempt <= ripe

(* canonicalTerminalReady. *)
Ready(op) == op.status \in Settled /\ op.attempt <= ripe

GraceIsOver == row.status \in Settled => ripe = row.attempt

(* Nothing that was read or written before the row's last change is still    *)
(* on its way to the broker.                                                  *)
NoReadInFlight ==
  /\ finished = {}
  /\ \A c \in Clients : streams[c].phase # "reading" /\ streams[c].poll = NoRead

-------------------------------------------------------------------------------
(* The broker's own operations, on its state for the operation.            *)

(* Fault: sequences counted from zero. *)
FaultCreateFromZero(op, unknown) ==
  [NoState EXCEPT !.attempt = op.attempt, !.unknown = unknown \/ op.attempt > 1, !.next = 0]

(* Fault: a state first created for a later attempt counts as continuous. *)
FaultCreateState(op, unknown) ==
  [NoState EXCEPT !.attempt = op.attempt, !.unknown = unknown]

CreateState(op, unknown) ==
  [NoState EXCEPT !.attempt = op.attempt, !.unknown = unknown \/ op.attempt > 1]

StateOf(b, op, unknown) ==
  IF b = NoState THEN CreateState(op, unknown) ELSE [b EXCEPT !.unknown = @ \/ unknown]

(* Fault: a publication of an older attempt is not told from the current's. *)
FaultSuperseded(b, op) == FALSE

Superseded(b, op) == op.attempt < b.attempt

SyncAttempt(b, op) ==
  IF op.attempt > b.attempt THEN [b EXCEPT !.attempt = op.attempt, !.events = <<>>] ELSE b

Terminals(b) == {i \in DOMAIN b.events : b.events[i].terminal}

HasTerminal(b) == Terminals(b) # {}

TrimHistory(events) ==
  IF Len(events) > HistoryLimit
  THEN SubSeq(events, Len(events) - HistoryLimit + 1, Len(events))
  ELSE events

(* The events of a publication: the final text, if it has one, and the      *)
(* terminal status.                                                          *)
NewEvents(b, op, text) ==
  LET Event(k, terminal) ==
        [seq |-> b.next + k - 1, id |-> published + k, attempt |-> op.attempt,
         terminal |-> terminal]
  IN IF text THEN <<Event(1, FALSE), Event(2, TRUE)>> ELSE <<Event(1, TRUE)>>

(* publishTerminal and publishTextAndTerminal: the state after, and what     *)
(* its listeners are given.  Nothing once closed or erased.                  *)
Publication(op, unknown, text) ==
  LET state == StateOf(broker, op, unknown)
      synced == SyncAttempt(state, op)
      new == NewEvents(synced, op, text)
  IN IF closed \/ erased THEN [state |-> broker, new |-> <<>>]
     ELSE IF Superseded(state, op) THEN [state |-> state, new |-> <<>>]
     ELSE IF HasTerminal(synced) THEN [state |-> synced, new |-> <<>>]
     ELSE [state |-> [synced EXCEPT !.next = @ + Len(new),
                                    !.events = TrimHistory(@ \o new)],
           new |-> new]

Heard(p) ==
  [c \in Clients |->
     IF c \in p.state.listeners THEN [streams[c] EXCEPT !.queue = @ \o p.new] ELSE streams[c]]

(* subscription.unsubscribe. *)
Unsubscribed(b, c) ==
  IF c \in b.listeners /\ b.listeners = {c} /\ b.events = <<>>
  THEN NoState
  ELSE [b EXCEPT !.listeners = @ \ {c}]

(* Fault: an erasure drops the state without closing its listeners. *)
FaultErasure(b) == [state |-> NoState, closes |-> {}]

(* deleteState(..., closeListeners): what an erasure leaves open. *)
Erasure(b) == [state |-> NoState, closes |-> b.listeners]

Idled(ss, closing) == [c \in Clients |-> IF c \in closing THEN Idle ELSE ss[c]]

(* A client whose stream ended goes on to refreshCanonical. *)
Ended(closing) ==
  [c \in Clients |->
     IF c \in closing /\ views[c].phase = "connected"
     THEN [views[c] EXCEPT !.phase = "refreshing"]
     ELSE views[c]]

-------------------------------------------------------------------------------
(* The operation's life, and the publications of its executor.             *)

Claim ==
  /\ ~ deleted
  /\ row.status \in {"processing", "failed"}
  /\ row.attempt < MaxAttempts
  /\ Timely => GraceIsOver
  /\ row' = [status |-> "processing", attempt |-> row.attempt + 1]
  /\ executor' = [attempt |-> row.attempt + 1, begun |-> FALSE]
  /\ UNCHANGED <<deleted, sessions, ripe, finished, erasing, broker, closed, erased, streams,
                 views, ghosts, faults>>

BeginAttempt ==
  /\ executor.attempt # 0 /\ ~ executor.begun
  /\ executor' = [executor EXCEPT !.begun = TRUE]
  /\ broker' = IF closed \/ broker = NoState \/ Superseded(broker, executor) THEN broker
               ELSE SyncAttempt(broker, executor)
  /\ UNCHANGED <<row, deleted, sessions, ripe, finished, erasing, closed, erased, streams,
                 views, ghosts, faults>>

(* A finalization's transaction.  What it publishes afterwards depends on    *)
(* the operation and on whether a retry waits for it: text and terminal,     *)
(* the terminal alone, or nothing.                                           *)
Finalize ==
  /\ ~ deleted
  /\ row.status = "processing"
  /\ executor = [attempt |-> row.attempt, begun |-> TRUE]
  /\ \E status \in Settled : row' = [row EXCEPT !.status = status]
  /\ \/ finished' = finished
     \/ finished' = finished \cup {[op |-> row', text |-> FALSE]}
     \/ /\ row'.status = "succeeded"
        /\ finished' = finished \cup {[op |-> row', text |-> TRUE]}
  /\ UNCHANGED <<deleted, sessions, ripe, executor, erasing, broker, closed, erased, streams,
                 views, ghosts, faults>>

PublishCompletion ==
  /\ \E f \in finished :
       LET p == Publication(f.op, FALSE, f.text) IN
         /\ finished' = finished \ {f}
         /\ broker' = p.state
         /\ streams' = Heard(p)
         /\ published' = published + Len(p.new)
  /\ UNCHANGED <<row, deleted, sessions, ripe, executor, erasing, closed, erased, views, cut,
                 faults>>

GraceElapses ==
  /\ ripe < (IF row.status \in Settled THEN row.attempt ELSE row.attempt - 1)
  /\ Timely => NoReadInFlight
  /\ ripe' = ripe + 1
  /\ UNCHANGED <<row, deleted, sessions, serverVars, views, ghosts, faults>>

-------------------------------------------------------------------------------
(* streamOperationEvents.                                                  *)

(* The request, and its read of the operation. *)
Open(c) ==
  /\ views[c].phase = "connecting" /\ streams[c] = Idle
  /\ views' = [views EXCEPT ![c].phase = "connected"]
  /\ streams' = [streams EXCEPT ![c] = [Idle EXCEPT !.phase = "reading", !.snapshot = Read(c)]]
  /\ UNCHANGED <<row, deleted, sessions, ripe, executor, finished, erasing, broker, closed,
                 erased, ghosts, faults>>

(* 401 or 404. *)
TurnedAway(c) ==
  /\ streams[c].phase = "reading" /\ streams[c].snapshot = Denied
  /\ streams' = [streams EXCEPT ![c] = Idle]
  /\ views' = [views EXCEPT ![c] = Unmounted]
  /\ UNCHANGED <<row, deleted, sessions, ripe, executor, finished, erasing, broker, closed,
                 erased, ghosts, faults>>

Arriving(c) == streams[c].phase = "reading" /\ streams[c].snapshot # Denied

(* hasState and publishTerminal, before broker.subscribe. *)
Rebuilt(c) ==
  LET op == streams[c].snapshot
      asIs == [state |-> broker, new |-> <<>>]
  IN IF broker = NoState /\ views[c].last > 0 THEN asIs
     ELSE IF Ready(op) THEN Publication(op, broker = NoState, FALSE)
     ELSE asIs

Joined(c) ==
  LET b == Rebuilt(c).state
      op == streams[c].snapshot
  IN IF closed \/ erased THEN b
     ELSE IF b = NoState THEN CreateState(op, FALSE)
     ELSE IF Superseded(b, op) THEN b ELSE SyncAttempt(b, op)

(* The conditions under which subscribe refuses: no Last-Event-ID header is  *)
(* a client that accepts a truncated start.                                  *)
Unprovable(b, last) ==
  \/ b.unknown
  \/ b.events # <<>> /\ last < b.events[1].seq - 1
  \/ b.events = <<>> /\ last < b.next - 1
  \/ last > b.next - 1

Refuses(c) ==
  LET last == views[c].last IN
    \/ erased
    \/ broker = NoState /\ last > 0
    \/ Rebuilt(c).state = NoState /\ closed
    \/ Superseded(Joined(c), streams[c].snapshot)
    \/ last > 0 /\ Unprovable(Joined(c), last)

(* The history is in sequence order, so what follows an event is its tail.  *)
After(b, last) ==
  LET told == {i \in DOMAIN b.events : b.events[i].seq <= last}
  IN  SubSeq(b.events, Cardinality(told) + 1, Len(b.events))

AlreadyTold(b, last) == \E i \in Terminals(b) : b.events[i].seq <= last

(* 409: the client forgets where it stood. *)
ReplayUnavailable(c) ==
  /\ Arriving(c) /\ Refuses(c)
  /\ LET p == Rebuilt(c) IN
       /\ broker' = IF broker = NoState /\ views[c].last > 0 THEN broker ELSE Joined(c)
       /\ streams' = [Heard(p) EXCEPT ![c] = Idle]
       /\ published' = published + Len(p.new)
  /\ views' = [views EXCEPT ![c] = [Mounted EXCEPT !.phase = "refreshing",
                                                   !.attempt = views[c].attempt]]
  /\ UNCHANGED <<row, deleted, sessions, ripe, executor, finished, erasing, closed, erased,
                 cut, faults>>

(* 204: the terminal event is behind the client. *)
NothingLeft(c) ==
  /\ Arriving(c) /\ ~ Refuses(c) /\ AlreadyTold(Joined(c), views[c].last)
  /\ LET p == Rebuilt(c) IN
       /\ broker' = Unsubscribed([Joined(c) EXCEPT !.listeners = @ \cup {c}], c)
       /\ streams' = [Heard(p) EXCEPT ![c] = Idle]
       /\ published' = published + Len(p.new)
  /\ views' = [views EXCEPT ![c].phase = "refreshing"]
  /\ UNCHANGED <<row, deleted, sessions, ripe, executor, finished, erasing, closed, erased,
                 cut, faults>>

Subscribe(c) ==
  /\ Arriving(c) /\ ~ Refuses(c) /\ ~ AlreadyTold(Joined(c), views[c].last)
  /\ LET p == Rebuilt(c) IN
       /\ broker' = [Joined(c) EXCEPT !.listeners = @ \cup {c}]
       /\ streams' = [Heard(p) EXCEPT
            ![c] = [Idle EXCEPT !.phase = "open",
                                !.queue = After(Joined(c), views[c].last)]]
       /\ published' = published + Len(p.new)
  /\ UNCHANGED <<row, deleted, sessions, ripe, executor, finished, erasing, closed, erased,
                 views, cut, faults>>

(* Fault: only the opening of a stream is checked. *)
FaultCheck(c) ==
  /\ streams[c].phase = "open" /\ streams[c].queue # <<>> /\ streams[c].check = "none"
  /\ streams' = [streams EXCEPT ![c].check = "passed"]
  /\ UNCHANGED <<row, deleted, sessions, ripe, executor, finished, erasing, broker, closed,
                 erased, views, ghosts, faults>>

(* enqueue: the access is read again before each event... *)
Check(c) ==
  /\ streams[c].phase = "open" /\ streams[c].queue # <<>> /\ streams[c].check = "none"
  /\ streams' = [streams EXCEPT ![c].check = IF Accessible(c) THEN "passed" ELSE "denied"]
  /\ UNCHANGED <<row, deleted, sessions, ripe, executor, finished, erasing, broker, closed,
                 erased, views, ghosts, faults>>

(* ...and the event sent.  A terminal event closes the stream. *)
Send(c) ==
  LET event == Head(streams[c].queue) IN
    /\ streams[c].phase = "open" /\ streams[c].check = "passed"
    /\ IF event.terminal
       THEN /\ streams' = [streams EXCEPT ![c] = Idle]
            /\ broker' = Unsubscribed(broker, c)
       ELSE /\ streams' = [streams EXCEPT ![c].queue = Tail(@), ![c].check = "none"]
            /\ broker' = broker
    /\ views' = [views EXCEPT ![c] =
         [phase |-> IF event.terminal THEN "refreshing" ELSE "connected",
          last |-> event.seq, id |-> event.id, attempt |-> event.attempt]]
    /\ UNCHANGED <<row, deleted, sessions, ripe, executor, finished, erasing, closed, erased,
                   ghosts, faults>>

(* setInterval's poll, one in flight at a time. *)
PollRead(c) ==
  /\ streams[c].phase = "open" /\ streams[c].poll = NoRead
  /\ streams' = [streams EXCEPT ![c].poll = Read(c)]
  /\ UNCHANGED <<row, deleted, sessions, ripe, executor, finished, erasing, broker, closed,
                 erased, views, ghosts, faults>>

PollApply(c) ==
  /\ streams[c].phase = "open" /\ streams[c].poll \notin {NoRead, Denied}
  /\ LET op == streams[c].poll
         p == IF Ready(op) THEN Publication(op, broker = NoState, FALSE)
              ELSE [state |-> broker, new |-> <<>>]
     IN /\ broker' = p.state
        /\ streams' = [Heard(p) EXCEPT ![c].poll = NoRead]
        /\ published' = published + Len(p.new)
  /\ UNCHANGED <<row, deleted, sessions, ripe, executor, finished, erasing, closed, erased,
                 views, cut, faults>>

(* The access was gone at the check or the poll: isSessionActive tells a     *)
(* vanished operation, erased for everyone, from a revoked session.          *)
Expel(c) ==
  /\ streams[c].phase = "open"
  /\ streams[c].check = "denied" \/ streams[c].poll = Denied
  /\ LET e == IF c \in sessions THEN Erasure(broker)
              ELSE [state |-> broker, closes |-> {}]
     IN /\ erased' = (erased \/ c \in sessions)
        /\ broker' = Unsubscribed(e.state, c)
        /\ streams' = Idled(streams, e.closes \cup {c})
        /\ views' = Ended(e.closes \cup {c})
  /\ UNCHANGED <<row, deleted, sessions, ripe, executor, finished, erasing, closed, ghosts,
                 faults>>

-------------------------------------------------------------------------------
(* useOperationStream.                                                     *)

(* The page shows an operation in progress. *)
Mount(c) ==
  /\ views[c].phase = "done" /\ row.status = "processing" /\ Accessible(c)
  /\ views' = [views EXCEPT ![c] = Mounted]
  /\ UNCHANGED <<row, deleted, sessions, ripe, serverVars, ghosts, faults>>

(* The connection is lost, or the page left.  Both ends notice at once.     *)
Disconnect(c) ==
  /\ views[c].phase = "connected"
  /\ \E view \in {Unmounted, [views[c] EXCEPT !.phase = "refreshing"]} :
       views' = [views EXCEPT ![c] = view]
  /\ streams' = [streams EXCEPT ![c] = Idle]
  /\ broker' = Unsubscribed(broker, c)
  /\ UNCHANGED <<row, deleted, sessions, ripe, executor, finished, erasing, closed, erased,
                 ghosts, faults>>

(* refreshCanonical: the canonical interview decides whether to go on. *)
Refresh(c) ==
  /\ views[c].phase = "refreshing"
  /\ views' = [views EXCEPT ![c] =
       IF Accessible(c) /\ row.status # "processing" THEN Unmounted
       ELSE [@ EXCEPT !.phase = "connecting"]]
  /\ UNCHANGED <<row, deleted, sessions, ripe, serverVars, ghosts, faults>>

RefreshFails(c) ==
  /\ views[c].phase = "refreshing" /\ faults < MaxFaults
  /\ views' = [views EXCEPT ![c].phase = "connecting"]
  /\ faults' = faults + 1
  /\ UNCHANGED <<row, deleted, sessions, ripe, serverVars, ghosts>>

-------------------------------------------------------------------------------
(* Deletion, sessions, and what the broker loses.                          *)

Delete ==
  /\ AccessMayEnd /\ ~ deleted
  /\ deleted' = TRUE
  /\ erasing' = TRUE
  /\ cut' = [c \in Clients |-> IF Accessible(c) THEN published ELSE cut[c]]
  /\ UNCHANGED <<row, sessions, ripe, executor, finished, broker, closed, erased, streams,
                 views, published, faults>>

(* eraseInterview, once the deletion has committed. *)
EraseInterview ==
  /\ erasing
  /\ erasing' = FALSE
  /\ erased' = TRUE
  /\ broker' = Erasure(broker).state
  /\ streams' = Idled(streams, Erasure(broker).closes)
  /\ views' = Ended(Erasure(broker).closes)
  /\ UNCHANGED <<row, deleted, sessions, ripe, executor, finished, closed, ghosts, faults>>

Revoke(c) ==
  /\ AccessMayEnd /\ c \in sessions
  /\ sessions' = sessions \ {c}
  /\ cut' = [cut EXCEPT ![c] = IF Accessible(c) THEN published ELSE @]
  /\ UNCHANGED <<row, deleted, ripe, serverVars, views, published, faults>>

Loses == faults < MaxFaults /\ faults' = faults + 1

(* Fault: the expiry drops the state although streams listen to it. *)
FaultHistoryExpires ==
  /\ Loses
  /\ broker.events # <<>> /\ GraceIsOver /\ NoReadInFlight
  /\ broker' = NoState
  /\ UNCHANGED <<row, deleted, sessions, ripe, executor, finished, erasing, closed, erased,
                 streams, views, ghosts>>

(* A minute without a publication. *)
HistoryExpires ==
  /\ Loses
  /\ broker.events # <<>> /\ GraceIsOver /\ NoReadInFlight
  /\ broker' = IF broker.listeners = {} THEN NoState ELSE [broker EXCEPT !.events = <<>>]
  /\ UNCHANGED <<row, deleted, sessions, ripe, executor, finished, erasing, closed, erased,
                 streams, views, ghosts>>

(* trimHistoryOperations, on behalf of other operations. *)
HistoryEvicted ==
  /\ Crowded /\ Loses
  /\ broker.events # <<>> /\ broker.listeners = {}
  /\ Timely => GraceIsOver /\ NoReadInFlight
  /\ broker' = NoState
  /\ UNCHANGED <<row, deleted, sessions, ripe, executor, finished, erasing, closed, erased,
                 streams, views, ghosts>>

TombstoneExpires ==
  /\ erased /\ NoReadInFlight
  /\ erased' = FALSE
  /\ UNCHANGED <<row, deleted, sessions, ripe, executor, finished, erasing, broker, closed,
                 streams, views, ghosts, faults>>

(* preClose: every stream, then the broker. *)
Close ==
  /\ ~ closed
  /\ closed' = TRUE
  /\ broker' = NoState
  /\ erased' = FALSE
  /\ streams' = [c \in Clients |-> Idle]
  /\ views' = Ended(Clients)
  /\ UNCHANGED <<row, deleted, sessions, ripe, executor, finished, erasing, ghosts, faults>>

(* A new process, after a Close or a crash. *)
Restart ==
  /\ Loses
  /\ Timely => GraceIsOver
  /\ executor' = [attempt |-> 0, begun |-> FALSE] /\ finished' = {} /\ erasing' = FALSE
  /\ broker' = NoState /\ closed' = FALSE /\ erased' = FALSE
  /\ streams' = [c \in Clients |-> Idle]
  /\ views' = Ended(Clients)
  /\ UNCHANGED <<row, deleted, sessions, ripe, ghosts>>

-------------------------------------------------------------------------------
Next ==
  \/ Claim
  \/ BeginAttempt
  \/ Finalize
  \/ PublishCompletion
  \/ GraceElapses
  \/ Delete
  \/ EraseInterview
  \/ HistoryExpires
  \/ HistoryEvicted
  \/ TombstoneExpires
  \/ Close
  \/ Restart
  \/ \E c \in Clients :
       \/ Mount(c)
       \/ Open(c)
       \/ TurnedAway(c)
       \/ ReplayUnavailable(c)
       \/ NothingLeft(c)
       \/ Subscribe(c)
       \/ Check(c)
       \/ Send(c)
       \/ PollRead(c)
       \/ PollApply(c)
       \/ Expel(c)
       \/ Disconnect(c)
       \/ Refresh(c)
       \/ RefreshFails(c)
       \/ Revoke(c)

Spec == Init /\ [][Next]_vars

(* Every request and timer of a running process is served; a stopped one is  *)
(* not assumed to be started again.  A client asking over and over is not     *)
(* cut off before its refusal every time.                                     *)
Fairness ==
  /\ WF_vars(GraceElapses)
  /\ \A c \in Clients :
       /\ WF_vars(Open(c))
       /\ SF_vars(TurnedAway(c))
       /\ WF_vars(ReplayUnavailable(c) \/ NothingLeft(c) \/ Subscribe(c))
       /\ WF_vars(Check(c))
       /\ WF_vars(Send(c))
       /\ WF_vars(PollRead(c))
       /\ WF_vars(PollApply(c))
       /\ WF_vars(Expel(c))
       /\ WF_vars(Refresh(c))

FairSpec == Spec /\ Fairness

-------------------------------------------------------------------------------
Event == [seq : Nat \ {0}, id : Nat \ {0}, attempt : 1..MaxAttempts, terminal : BOOLEAN]

Reads == Rows \cup {NoRead, Denied}

(* Types of the state. *)
TypeOK ==
  /\ row \in Rows
  /\ deleted \in BOOLEAN /\ erasing \in BOOLEAN /\ closed \in BOOLEAN /\ erased \in BOOLEAN
  /\ sessions \subseteq Clients
  /\ ripe \in 0..MaxAttempts
  /\ executor \in [attempt : 0..MaxAttempts, begun : BOOLEAN]
  /\ finished \subseteq [op : Rows, text : BOOLEAN]
  /\ broker \in [attempt : 0..MaxAttempts, unknown : BOOLEAN, events : Seq(Event),
                 next : Nat \ {0}, listeners : SUBSET Clients]
  /\ streams \in [Clients -> [phase : {"idle", "reading", "open"}, snapshot : Reads,
                              queue : Seq(Event), check : {"none", "passed", "denied"},
                              poll : Reads]]
  /\ views \in [Clients -> [phase : {"done", "connecting", "connected", "refreshing"},
                            last : Nat, id : Nat, attempt : 0..MaxAttempts]]
  /\ published \in Nat
  /\ cut \in [Clients -> Nat]
  /\ faults \in 0..MaxFaults

(* Every open stream is a listener of the broker's current state, so no      *)
(* publication misses it: a state that still has listeners is never dropped   *)
(* (expireHistory, trimHistoryOperations), and a listener's stream is open    *)
(* until an erasure or the shutdown closes it (deleteState).                  *)
OpenStreamsAreHeard ==
  broker.listeners = {c \in Clients : streams[c].phase = "open"}

Sent(c) == views'[c].id # views[c].id /\ views'[c].last # 0

(* A client that names its last event is given the next one published,       *)
(* whatever reconnections, retries and lost histories came between           *)
(* (subscribe's continuity conditions).  Refines EventFeed.                   *)
Feed == INSTANCE EventFeed WITH
  feed <- published,
  position <- [c \in Clients |-> views[c].id]

FeedIsKept == Feed!Spec

(* The history is of one attempt, never later than the row's: a superseded    *)
(* attempt's late publication, or a poll of its row, is neither replayed as   *)
(* the retry's outcome nor keeps the retry's own from being published         *)
(* (syncAttempt).                                                             *)
OneAttemptPerHistory ==
  \A i \in DOMAIN broker.events :
    broker.events[i].attempt = broker.attempt /\ broker.attempt <= row.attempt

(* Once the broker has been erased (eraseInterview, eraseOperation) no event   *)
(* is sent, also to a stream that had already passed its access check.         *)
NothingSentAfterErasure == [][\A c \in Clients : Sent(c) => ~ erased]_vars

(* An event published after a client lost its access, by revocation or by     *)
(* deletion, never reaches it: the access is read again before each event     *)
(* (enqueue), at the poll and at the opening.                                  *)
NothingNewWithoutAccess ==
  [][\A c \in Clients : Sent(c) /\ ~ Accessible(c) => views'[c].id <= cut[c]]_vars

(* Once the operation is settled for good every page stops following it,      *)
(* also when the publication was lost or never made: the status poll rebuilds  *)
(* the terminal event.                                                         *)
ViewsSettle ==
  <>[](row.status \in Settled /\ ~ closed) => <>[](\A c \in Clients : views[c].phase = "done")
================================================================================
