------------------------- MODULE OperationEventsProofs -------------------------
(***************************************************************************)
(* Proofs about OperationEvents, for every set of clients and every value   *)
(* of the other constants: an open stream misses no publication, nothing is  *)
(* sent once the broker is erased and nothing new without access, a history  *)
(* is of one attempt and, when the grace period outlasts what it waits for    *)
(* (Timely), each client that says where it stands is given the very next    *)
(* event of one feed.                                                        *)
(*                                                                         *)
(* Three invariants, each resting on the ones before it: EventsInv (shapes,  *)
(* listeners), FeedInv (types; histories and queues are runs that end with    *)
(* the last event published) and TimelyInv (what is still on its way to the   *)
(* broker, and when sequence numbers are places in the feed).                 *)
(***************************************************************************)
EXTENDS OperationEvents, SequenceTheorems, FiniteSetTheorems, TLAPS

(* Records of the right fields, whatever their values. *)
IsState(b) ==
  b \in [attempt : {b.attempt}, unknown : {b.unknown}, events : {b.events}, next : {b.next},
         listeners : {b.listeners}]

IsStream(s) ==
  s \in [phase : {s.phase}, snapshot : {s.snapshot}, queue : {s.queue}, check : {s.check},
         poll : {s.poll}]

IsView(v) ==
  v \in [phase : {v.phase}, last : {v.last}, id : {v.id}, attempt : {v.attempt}]

AreStreams(ss) == ss = [c \in Clients |-> ss[c]] /\ \A c \in Clients : IsStream(ss[c])

AreViews(vs) == vs = [c \in Clients |-> vs[c]] /\ \A c \in Clients : IsView(vs[c])

(* The inductive invariant: the shape of the records, the property, and a    *)
(* broker without a state once it is closed or erased.                        *)
EventsInv ==
  /\ IsState(broker)
  /\ AreStreams(streams)
  /\ AreViews(views)
  /\ OpenStreamsAreHeard
  /\ closed \/ erased => broker = NoState

-------------------------------------------------------------------------------
(* The broker's operations keep the listeners they are given.              *)

LEMMA NewStateListeners ==
  ASSUME NEW op, NEW unknown
  PROVE  IsState(CreateState(op, unknown)) /\ CreateState(op, unknown).listeners = {}
BY DEF IsState, CreateState, NoState

LEMMA StateOfListeners ==
  ASSUME NEW b, IsState(b), NEW op, NEW unknown
  PROVE  IsState(StateOf(b, op, unknown)) /\ StateOf(b, op, unknown).listeners = b.listeners
<1>1. CASE b = NoState
  BY <1>1, NewStateListeners DEF StateOf, NoState
<1>2. CASE b # NoState
  BY <1>2 DEF StateOf, IsState
<1> QED BY <1>1, <1>2

LEMMA SyncListeners ==
  ASSUME NEW b, IsState(b), NEW op
  PROVE  IsState(SyncAttempt(b, op)) /\ SyncAttempt(b, op).listeners = b.listeners
BY DEF SyncAttempt, IsState

LEMMA PublicationListeners ==
  ASSUME IsState(broker), NEW op, NEW unknown, NEW text
  PROVE  /\ IsState(Publication(op, unknown, text).state)
         /\ Publication(op, unknown, text).state.listeners = broker.listeners
<1> DEFINE state == StateOf(broker, op, unknown)
           synced == SyncAttempt(state, op)
           new == NewEvents(synced, op, text)
           after == [synced EXCEPT !.next = @ + Len(new), !.events = TrimHistory(@ \o new)]
<1>1. IsState(state) /\ state.listeners = broker.listeners
  BY StateOfListeners
<1>2. IsState(synced) /\ synced.listeners = broker.listeners
  BY <1>1, SyncListeners
<1>3. IsState(after) /\ after.listeners = broker.listeners
  <2> HIDE DEF state, synced, new
  <2> QED BY <1>2 DEF IsState
<1>4. Publication(op, unknown, text).state \in {broker, state, synced, after}
  BY DEF Publication
<1> QED BY <1>1, <1>2, <1>3, <1>4

LEMMA UnsubscribedListeners ==
  ASSUME NEW b, IsState(b), NEW c
  PROVE  IsState(Unsubscribed(b, c)) /\ Unsubscribed(b, c).listeners = b.listeners \ {c}
<1>1. CASE c \in b.listeners /\ b.listeners = {c} /\ b.events = <<>>
  BY <1>1 DEF Unsubscribed, NoState, IsState
<1>2. CASE ~ (c \in b.listeners /\ b.listeners = {c} /\ b.events = <<>>)
  BY <1>2 DEF Unsubscribed, IsState
<1> QED BY <1>1, <1>2

LEMMA HeardStreams ==
  ASSUME AreStreams(streams), NEW p
  PROVE  /\ AreStreams(Heard(p))
         /\ \A c \in Clients : Heard(p)[c].phase = streams[c].phase
BY DEF AreStreams, IsStream, Heard

LEMMA OneStream ==
  ASSUME NEW ss, AreStreams(ss), NEW c \in Clients, NEW s, IsStream(s)
  PROVE  /\ AreStreams([ss EXCEPT ![c] = s])
         /\ \A d \in Clients :
              [ss EXCEPT ![c] = s][d].phase = IF d = c THEN s.phase ELSE ss[d].phase
BY DEF AreStreams

LEMMA IdleStream == IsStream(Idle) /\ Idle.phase = "idle"
BY DEF Idle, IsStream

LEMMA OneIdle ==
  ASSUME NEW ss, AreStreams(ss), NEW c \in Clients
  PROVE  /\ AreStreams([ss EXCEPT ![c] = Idle])
         /\ \A d \in Clients :
              [ss EXCEPT ![c] = Idle][d].phase = IF d = c THEN "idle" ELSE ss[d].phase
BY OneStream, IdleStream

LEMMA SamePhase ==
  ASSUME NEW ss, AreStreams(ss), NEW c \in Clients, NEW s, IsStream(s), s.phase = ss[c].phase
  PROVE  /\ AreStreams([ss EXCEPT ![c] = s])
         /\ \A d \in Clients : [ss EXCEPT ![c] = s][d].phase = ss[d].phase
BY OneStream

LEMMA OneView ==
  ASSUME AreViews(views), NEW c \in Clients, NEW v, IsView(v)
  PROVE  AreViews([views EXCEPT ![c] = v])
BY DEF AreViews

LEMMA UnmountedView == IsView(Unmounted) /\ Unmounted.last = 0 /\ IsView(Mounted) /\ Mounted.last = 0
BY DEF Unmounted, Mounted, IsView

LEMMA IdledStreams ==
  ASSUME AreStreams(streams), NEW closing
  PROVE  /\ AreStreams(Idled(streams, closing))
         /\ \A c \in Clients : Idled(streams, closing)[c].phase =
              IF c \in closing THEN "idle" ELSE streams[c].phase
BY DEF AreStreams, IsStream, Idled, Idle

LEMMA EndedViews ==
  ASSUME AreViews(views), NEW closing
  PROVE  /\ AreViews(Ended(closing))
         /\ \A c \in Clients : Ended(closing)[c].id = views[c].id
BY DEF AreViews, IsView, Ended

LEMMA RebuiltListeners ==
  ASSUME IsState(broker), NEW c
  PROVE  /\ IsState(Rebuilt(c).state)
         /\ Rebuilt(c).state.listeners = broker.listeners
<1> DEFINE op == streams[c].snapshot
           asIs == [state |-> broker, new |-> <<>>]
           p == Publication(op, broker = NoState, FALSE)
<1>1. Rebuilt(c) \in {asIs, p}
  BY DEF Rebuilt
<1>2. IsState(p.state) /\ p.state.listeners = broker.listeners
  <2>1. CASE broker = NoState
    <3>1. p = Publication(op, TRUE, FALSE)
      BY <2>1
    <3> HIDE DEF p
    <3> QED BY <3>1, PublicationListeners
  <2>2. CASE broker # NoState
    <3>1. p = Publication(op, FALSE, FALSE)
      BY <2>2
    <3> HIDE DEF p
    <3> QED BY <3>1, PublicationListeners
  <2> QED BY <2>1, <2>2
<1> HIDE DEF p
<1> QED BY <1>1, <1>2

LEMMA JoinedListeners ==
  ASSUME IsState(broker), NEW c
  PROVE  IsState(Joined(c)) /\ Joined(c).listeners = broker.listeners
<1> DEFINE b == Rebuilt(c).state
           op == streams[c].snapshot
<1>1. IsState(b) /\ b.listeners = broker.listeners
  BY RebuiltListeners
<1>2. IsState(CreateState(op, FALSE)) /\ CreateState(op, FALSE).listeners = NoState.listeners
  BY NewStateListeners DEF NoState
<1>3. IsState(SyncAttempt(b, op)) /\ SyncAttempt(b, op).listeners = b.listeners
  BY <1>1, SyncListeners
<1> HIDE DEF b, op
<1> QED BY <1>1, <1>2, <1>3 DEF Joined, b, op

(* A broker without a state has no listeners, so no stream is open. *)
LEMMA NoStateNoStreams ==
  ASSUME EventsInv, broker = NoState
  PROVE  \A c \in Clients : streams[c].phase # "open"
BY DEF EventsInv, OpenStreamsAreHeard, NoState

-------------------------------------------------------------------------------
(* The invariant holds initially and is kept by every step.                *)

LEMMA EventsInit == Init => EventsInv
<1> SUFFICES ASSUME Init PROVE EventsInv
  OBVIOUS
<1>1. IsState(broker)
  BY DEF Init, IsState, NoState
<1>2. AreStreams(streams)
  BY DEF Init, AreStreams, IsStream, Idle
<1>3. AreViews(views)
  BY DEF Init, AreViews, IsView, Unmounted, Mounted
<1>4. OpenStreamsAreHeard
  BY DEF Init, OpenStreamsAreHeard, NoState, Idle
<1>5. closed \/ erased => broker = NoState
  BY DEF Init
<1> QED BY <1>1, <1>2, <1>3, <1>4, <1>5 DEF EventsInv

(* The operation's life and its publications. *)
LEMMA OperationSteps ==
  ASSUME EventsInv,
         Claim \/ BeginAttempt \/ Finalize \/ PublishCompletion \/ GraceElapses
  PROVE  EventsInv'
<1>1. CASE Claim \/ Finalize \/ GraceElapses
  <2>1. UNCHANGED <<broker, streams, views, closed, erased>>
    BY <1>1 DEF Claim, Finalize, GraceElapses, serverVars
  <2> QED BY <2>1 DEF EventsInv, OpenStreamsAreHeard
<1>2. CASE BeginAttempt
  <2>1. UNCHANGED <<streams, views, closed, erased>>
    BY <1>2 DEF BeginAttempt
  <2>2. IsState(broker') /\ broker'.listeners = broker.listeners
    BY <1>2, SyncListeners DEF BeginAttempt, EventsInv
  <2>3. broker = NoState => broker' = NoState
    BY <1>2 DEF BeginAttempt
  <2> QED BY <2>1, <2>2, <2>3 DEF EventsInv, OpenStreamsAreHeard
<1>3. CASE PublishCompletion
  <2>1. PICK f \in finished :
          LET p == Publication(f.op, FALSE, f.text)
          IN broker' = p.state /\ streams' = Heard(p)
    BY <1>3 DEF PublishCompletion
  <2>2. UNCHANGED <<views, closed, erased>>
    BY <1>3 DEF PublishCompletion
  <2>3. IsState(broker') /\ broker'.listeners = broker.listeners
    BY <2>1, PublicationListeners DEF EventsInv
  <2>4. AreStreams(streams') /\ \A c \in Clients : streams'[c].phase = streams[c].phase
    BY <2>1, HeardStreams DEF EventsInv
  <2>5. closed \/ erased => broker' = broker
    BY <2>1 DEF Publication
  <2> QED BY <2>2, <2>3, <2>4, <2>5 DEF EventsInv, OpenStreamsAreHeard
<1> QED BY <1>1, <1>2, <1>3

(* One client's stream, the broker's listeners unchanged. *)
LEMMA StreamSteps ==
  ASSUME EventsInv, NEW c \in Clients,
         Open(c) \/ TurnedAway(c) \/ Check(c) \/ PollRead(c)
  PROVE  EventsInv'
<1> DEFINE s == streams[c]
<1>1. UNCHANGED <<broker, closed, erased>>
  BY DEF Open, TurnedAway, Check, PollRead
<1>2. IsStream(s) /\ IsView(views[c])
  BY DEF EventsInv, AreStreams, AreViews
<1>3. PICK t : /\ streams' = [streams EXCEPT ![c] = t]
               /\ IsStream(t)
               /\ t.phase = "open" <=> s.phase = "open"
  <2>1. CASE Open(c)
    <3> DEFINE t == [Idle EXCEPT !.phase = "reading", !.snapshot = Read(c)]
    <3>1. IsStream(t) /\ t.phase = "reading"
      BY DEF Idle, IsStream
    <3>2. s.phase = "idle"
      BY <2>1, IdleStream DEF Open
    <3> QED BY <2>1, <3>1, <3>2 DEF Open
  <2>2. CASE TurnedAway(c)
    BY <2>2, IdleStream DEF TurnedAway
  <2>3. CASE Check(c)
    <3> DEFINE t == [s EXCEPT !.check = IF Accessible(c) THEN "passed" ELSE "denied"]
    <3>1. IsStream(t) /\ t.phase = s.phase
      BY <1>2 DEF IsStream
    <3> QED BY <2>3, <3>1 DEF Check
  <2>4. CASE PollRead(c)
    <3> DEFINE t == [s EXCEPT !.poll = Read(c)]
    <3>1. IsStream(t) /\ t.phase = s.phase
      BY <1>2 DEF IsStream
    <3> QED BY <2>4, <3>1 DEF PollRead
  <2> QED BY <2>1, <2>2, <2>3, <2>4
<1>4. PICK v : views' = [views EXCEPT ![c] = v] /\ IsView(v)
  <2>1. CASE Open(c)
    <3> DEFINE v == [views[c] EXCEPT !.phase = "connected"]
    <3>1. IsView(v)
      BY <1>2 DEF IsView
    <3> QED BY <2>1, <3>1 DEF Open
  <2>2. CASE TurnedAway(c)
    BY <2>2, UnmountedView DEF TurnedAway
  <2>3. CASE Check(c) \/ PollRead(c)
    <3>1. views' = [views EXCEPT ![c] = views[c]]
      BY <2>3 DEF Check, PollRead, EventsInv, AreViews
    <3> QED BY <1>2, <3>1
  <2> QED BY <2>1, <2>2, <2>3
<1>5. AreStreams(streams') /\ AreViews(views')
  BY <1>3, <1>4, OneStream, OneView DEF EventsInv
<1>6. \A d \in Clients : streams'[d].phase = "open" <=> streams[d].phase = "open"
  BY <1>3, OneStream DEF EventsInv
<1> QED BY <1>1, <1>5, <1>6 DEF EventsInv, OpenStreamsAreHeard

LEMMA ClosedBrokerStays ==
  ASSUME closed \/ erased, NEW c
  PROVE  Rebuilt(c).state = broker /\ Joined(c) = broker
<1>1. Rebuilt(c).state = broker
  BY DEF Rebuilt, Publication
<1> QED BY <1>1 DEF Joined

LEMMA UnsubscribedNoState == ASSUME NEW c PROVE Unsubscribed(NoState, c) = NoState
BY DEF Unsubscribed, NoState

(* While a stream is open the broker is neither closed nor erased. *)
LEMMA OpenMeansState ==
  ASSUME EventsInv, NEW c \in Clients, streams[c].phase = "open"
  PROVE  ~ closed /\ ~ erased /\ c \in broker.listeners
BY DEF EventsInv, OpenStreamsAreHeard, NoState

(* A request's answer: refused, nothing left, or subscribed. *)
LEMMA AnswerSteps ==
  ASSUME EventsInv, NEW c \in Clients,
         ReplayUnavailable(c) \/ NothingLeft(c) \/ Subscribe(c)
  PROVE  EventsInv'
<1> DEFINE joined == Joined(c)
           heard == Heard(Rebuilt(c))
           with == [joined EXCEPT !.listeners = @ \cup {c}]
<1>1. IsState(joined) /\ joined.listeners = broker.listeners
  BY JoinedListeners DEF EventsInv
<1>2. AreStreams(heard) /\ \A d \in Clients : heard[d].phase = streams[d].phase
  BY HeardStreams DEF EventsInv
<1>3. streams[c].phase = "reading" /\ c \notin broker.listeners
  BY DEF ReplayUnavailable, NothingLeft, Subscribe, Arriving, EventsInv, OpenStreamsAreHeard
<1>4. UNCHANGED <<closed, erased>>
  BY DEF ReplayUnavailable, NothingLeft, Subscribe
<1>5. closed \/ erased => joined = broker /\ broker = NoState
  BY ClosedBrokerStays DEF EventsInv
<1>6. closed \/ erased => Refuses(c)
  BY <1>5, ClosedBrokerStays DEF Refuses
<1>7. IsState(with) /\ with.listeners = broker.listeners \cup {c}
  <2> HIDE DEF joined
  <2> QED BY <1>1 DEF IsState
<1>8. IsView(views[c])
  BY DEF EventsInv, AreViews
<1>9. CASE ReplayUnavailable(c)
  <2> DEFINE v == [Mounted EXCEPT !.phase = "refreshing", !.attempt = views[c].attempt]
  <2>1. /\ broker' \in {broker, joined}
        /\ streams' = [heard EXCEPT ![c] = Idle]
        /\ views' = [views EXCEPT ![c] = v]
    BY <1>9 DEF ReplayUnavailable
  <2>2. IsView(v)
    BY DEF Mounted, IsView
  <2>3. AreStreams(streams') /\ AreViews(views')
    <3> HIDE DEF v
    <3> QED BY <2>1, <2>2, <1>2, OneStream, OneView, IdleStream DEF EventsInv
  <2>4. IsState(broker') /\ broker'.listeners = broker.listeners
    BY <2>1, <1>1 DEF EventsInv
  <2>5. \A d \in Clients : streams'[d].phase = "open" <=> streams[d].phase = "open"
    <3> HIDE DEF heard
    <3> QED BY <2>1, <1>2, <1>3, OneStream, IdleStream
  <2>6. closed' \/ erased' => broker' = NoState
    BY <1>4, <1>5, <2>1
  <2> QED BY <2>3, <2>4, <2>5, <2>6 DEF EventsInv, OpenStreamsAreHeard
<1>10. CASE NothingLeft(c)
  <2> DEFINE v == [views[c] EXCEPT !.phase = "refreshing"]
  <2>1. /\ broker' = Unsubscribed(with, c)
        /\ streams' = [heard EXCEPT ![c] = Idle]
        /\ views' = [views EXCEPT ![c] = v]
    BY <1>10 DEF NothingLeft
  <2>2. IsView(v)
    BY <1>8 DEF IsView
  <2>3. AreStreams(streams') /\ AreViews(views')
    <3> HIDE DEF v
    <3> QED BY <2>1, <2>2, <1>2, OneStream, OneView, IdleStream DEF EventsInv
  <2>4. IsState(broker') /\ broker'.listeners = broker.listeners
    <3> HIDE DEF with
    <3>1. IsState(Unsubscribed(with, c))
          /\ Unsubscribed(with, c).listeners = with.listeners \ {c}
      BY <1>7, UnsubscribedListeners
    <3>2. with.listeners \ {c} = broker.listeners
      BY <1>3, <1>7
    <3> QED BY <2>1, <3>1, <3>2
  <2>5. \A d \in Clients : streams'[d].phase = "open" <=> streams[d].phase = "open"
    <3> HIDE DEF heard
    <3> QED BY <2>1, <1>2, <1>3, OneStream, IdleStream
  <2>6. ~ closed' /\ ~ erased'
    BY <1>10, <1>4, <1>6 DEF NothingLeft
  <2> QED BY <2>3, <2>4, <2>5, <2>6 DEF EventsInv, OpenStreamsAreHeard
<1>11. CASE Subscribe(c)
  <2> DEFINE s == [Idle EXCEPT !.phase = "open", !.queue = After(joined, views[c].last)]
  <2>1. /\ broker' = with
        /\ streams' = [heard EXCEPT ![c] = s]
        /\ views' = views
    BY <1>11 DEF Subscribe
  <2>2. IsStream(s) /\ s.phase = "open"
    BY DEF Idle, IsStream
  <2>3. AreStreams(streams')
    <3> HIDE DEF s
    <3> QED BY <2>1, <2>2, <1>2, OneStream
  <2>4. IsState(broker') /\ broker'.listeners = broker.listeners \cup {c}
    BY <2>1, <1>7
  <2>5. \A d \in Clients : streams'[d].phase = "open" <=> (streams[d].phase = "open" \/ d = c)
    <3> HIDE DEF heard, s
    <3> QED BY <2>1, <2>2, <1>2, OneStream
  <2>6. ~ closed' /\ ~ erased'
    BY <1>11, <1>4, <1>6 DEF Subscribe
  <2> QED BY <2>1, <2>3, <2>4, <2>5, <2>6 DEF EventsInv, OpenStreamsAreHeard
<1> QED BY <1>9, <1>10, <1>11

(* The stream at work: an event sent, a poll applied, access found gone, the *)
(* connection lost.                                                          *)
LEMMA DeliverySteps ==
  ASSUME EventsInv, NEW c \in Clients, Send(c)
  PROVE  EventsInv'
<1> DEFINE event == Head(streams[c].queue)
           v == [phase |-> IF event.terminal THEN "refreshing" ELSE "connected",
                 last |-> event.seq, id |-> event.id, attempt |-> event.attempt]
<1>1. /\ streams[c].phase = "open" /\ IsStream(streams[c])
      /\ views' = [views EXCEPT ![c] = v]
      /\ UNCHANGED <<closed, erased>>
  BY DEF Send, EventsInv, AreStreams
<1>2. ~ closed /\ ~ erased /\ c \in broker.listeners
  BY <1>1, OpenMeansState
<1>3. AreViews(views')
  <2>1. IsView(v)
    BY DEF IsView
  <2> HIDE DEF v
  <2> QED BY <1>1, <2>1, OneView DEF EventsInv
<1>4. CASE event.terminal
  <2>1. streams' = [streams EXCEPT ![c] = Idle] /\ broker' = Unsubscribed(broker, c)
    BY <1>4 DEF Send
  <2>2. AreStreams(streams')
        /\ \A d \in Clients : streams'[d].phase = IF d = c THEN "idle" ELSE streams[d].phase
    BY <2>1, OneIdle DEF EventsInv
  <2>3. IsState(broker') /\ broker'.listeners = broker.listeners \ {c}
    BY <2>1, UnsubscribedListeners DEF EventsInv
  <2> QED BY <1>1, <1>2, <1>3, <2>2, <2>3 DEF EventsInv, OpenStreamsAreHeard
<1>5. CASE ~ event.terminal
  <2> DEFINE s == [streams[c] EXCEPT !.queue = Tail(@), !.check = "none"]
  <2>1. streams' = [streams EXCEPT ![c] = s] /\ broker' = broker
    BY <1>5 DEF Send
  <2>2. IsStream(s) /\ s.phase = "open"
    BY <1>1 DEF IsStream
  <2>3. AreStreams(streams')
        /\ \A d \in Clients : streams'[d].phase = streams[d].phase
    <3> HIDE DEF s
    <3>1. AreStreams(streams) /\ s.phase = streams[c].phase
      BY <1>1, <2>2 DEF EventsInv
    <3>2. /\ AreStreams([streams EXCEPT ![c] = s])
          /\ \A d \in Clients : [streams EXCEPT ![c] = s][d].phase = streams[d].phase
      BY <2>2, <3>1, SamePhase
    <3> QED BY <2>1, <3>2
  <2> QED BY <1>1, <1>2, <1>3, <2>1, <2>3 DEF EventsInv, OpenStreamsAreHeard
<1> QED BY <1>4, <1>5

LEMMA PollSteps ==
  ASSUME EventsInv, NEW c \in Clients, PollApply(c)
  PROVE  EventsInv'
<1> DEFINE op == streams[c].poll
           asIs == [state |-> broker, new |-> <<>>]
<1>1. PICK p \in {asIs, Publication(op, TRUE, FALSE), Publication(op, FALSE, FALSE)} :
        broker' = p.state /\ streams' = [Heard(p) EXCEPT ![c].poll = NoRead]
  <2>1. broker = NoState => Publication(op, broker = NoState, FALSE) = Publication(op, TRUE, FALSE)
    OBVIOUS
  <2>2. broker # NoState => Publication(op, broker = NoState, FALSE) = Publication(op, FALSE, FALSE)
    OBVIOUS
  <2> QED BY <2>1, <2>2 DEF PollApply
<1>2. streams[c].phase = "open" /\ UNCHANGED <<views, closed, erased>>
  BY DEF PollApply
<1>3. ~ closed /\ ~ erased
  BY <1>2, OpenMeansState
<1>4. IsState(p.state) /\ p.state.listeners = broker.listeners
  <2>1. IsState(broker)
    BY DEF EventsInv
  <2>2. CASE p = asIs
    BY <2>1, <2>2
  <2>3. CASE p = Publication(op, TRUE, FALSE)
    BY <2>1, <2>3, PublicationListeners
  <2>4. CASE p = Publication(op, FALSE, FALSE)
    BY <2>1, <2>4, PublicationListeners
  <2> QED BY <2>2, <2>3, <2>4
<1>5. AreStreams(Heard(p)) /\ \A d \in Clients : Heard(p)[d].phase = streams[d].phase
  BY HeardStreams DEF EventsInv
<1> DEFINE t == [Heard(p)[c] EXCEPT !.poll = NoRead]
<1>6. IsStream(t) /\ t.phase = streams[c].phase
  BY <1>5 DEF AreStreams, IsStream
<1>7. streams' = [Heard(p) EXCEPT ![c] = t]
  BY <1>1
<1>8. AreStreams(streams') /\ \A d \in Clients : streams'[d].phase = streams[d].phase
  <2>1. t.phase = Heard(p)[c].phase
    BY <1>5, <1>6
  <2> HIDE DEF t
  <2>2. /\ AreStreams([Heard(p) EXCEPT ![c] = t])
        /\ \A d \in Clients : [Heard(p) EXCEPT ![c] = t][d].phase = Heard(p)[d].phase
    BY <1>5, <1>6, <2>1, SamePhase
  <2> QED BY <1>5, <1>7, <2>2
<1> QED BY <1>1, <1>2, <1>3, <1>4, <1>8 DEF EventsInv, OpenStreamsAreHeard

LEMMA ExpelSteps ==
  ASSUME EventsInv, NEW c \in Clients, Expel(c)
  PROVE  EventsInv'
<1>1. streams[c].phase = "open" /\ closed' = closed
  BY DEF Expel
<1>2. ~ closed /\ ~ erased /\ c \in broker.listeners
  BY <1>1, OpenMeansState
<1>3. CASE c \in sessions
  <2>1. /\ broker' = Unsubscribed(NoState, c)
        /\ streams' = Idled(streams, broker.listeners \cup {c})
        /\ views' = Ended(broker.listeners \cup {c})
    BY <1>3 DEF Expel, Erasure
  <2>2. broker' = NoState
    BY <2>1, UnsubscribedNoState
  <2>3. AreStreams(streams') /\ AreViews(views')
    BY <2>1, IdledStreams, EndedViews DEF EventsInv
  <2>4. \A d \in Clients : streams'[d].phase # "open"
    BY <2>1, IdledStreams DEF EventsInv, OpenStreamsAreHeard
  <2>5. IsState(NoState) /\ NoState.listeners = {}
    BY DEF IsState, NoState
  <2> QED BY <2>2, <2>3, <2>4, <2>5 DEF EventsInv, OpenStreamsAreHeard
<1>4. CASE c \notin sessions
  <2>1. /\ broker' = Unsubscribed(broker, c)
        /\ streams' = Idled(streams, {c})
        /\ views' = Ended({c})
        /\ ~ erased'
    BY <1>2, <1>4 DEF Expel
  <2>2. AreStreams(streams') /\ AreViews(views')
    BY <2>1, IdledStreams, EndedViews DEF EventsInv
  <2>3. IsState(broker') /\ broker'.listeners = broker.listeners \ {c}
    BY <2>1, UnsubscribedListeners DEF EventsInv
  <2>4. \A d \in Clients : streams'[d].phase = IF d = c THEN "idle" ELSE streams[d].phase
    BY <2>1, IdledStreams DEF EventsInv
  <2> QED BY <1>1, <1>2, <2>1, <2>2, <2>3, <2>4 DEF EventsInv, OpenStreamsAreHeard
<1> QED BY <1>3, <1>4

LEMMA DisconnectSteps ==
  ASSUME EventsInv, NEW c \in Clients, Disconnect(c)
  PROVE  EventsInv'
<1>1. PICK v \in {Unmounted, [views[c] EXCEPT !.phase = "refreshing"]} :
        views' = [views EXCEPT ![c] = v]
  BY DEF Disconnect
<1>2. /\ streams' = [streams EXCEPT ![c] = Idle]
      /\ broker' = Unsubscribed(broker, c)
      /\ UNCHANGED <<closed, erased>>
  BY DEF Disconnect
<1>3. IsView(views[c])
  BY DEF EventsInv, AreViews
<1>4. IsView(v)
  BY <1>3, UnmountedView DEF IsView
<1>5. AreViews(views')
  BY <1>1, <1>4, OneView DEF EventsInv
<1>6. AreStreams(streams')
      /\ \A d \in Clients : streams'[d].phase = IF d = c THEN "idle" ELSE streams[d].phase
  BY <1>2, OneIdle DEF EventsInv
<1>7. IsState(broker') /\ broker'.listeners = broker.listeners \ {c}
  BY <1>2, UnsubscribedListeners DEF EventsInv
<1>8. broker = NoState => broker' = NoState
  BY <1>2, UnsubscribedNoState
<1> QED BY <1>2, <1>5, <1>6, <1>7, <1>8 DEF EventsInv, OpenStreamsAreHeard

(* Only the client's own end moves. *)
LEMMA ViewSteps ==
  ASSUME EventsInv, NEW c \in Clients, Mount(c) \/ Refresh(c) \/ RefreshFails(c) \/ Revoke(c)
  PROVE  EventsInv'
<1>1. UNCHANGED <<broker, streams, closed, erased>>
  BY DEF Mount, Refresh, RefreshFails, Revoke, serverVars
<1>2. IsView(views[c]) /\ views = [views EXCEPT ![c] = views[c]]
  BY DEF EventsInv, AreViews
<1>3. PICK v \in {Mounted, Unmounted, [views[c] EXCEPT !.phase = "connecting"], views[c]} :
        views' = [views EXCEPT ![c] = v]
  BY <1>2 DEF Mount, Refresh, RefreshFails, Revoke
<1>4. IsView(v)
  BY <1>2, UnmountedView DEF IsView
<1>5. AreViews(views')
  BY <1>3, <1>4, OneView DEF EventsInv
<1> QED BY <1>1, <1>5 DEF EventsInv, OpenStreamsAreHeard

(* Deletion, lost histories and restarts. *)
LEMMA LossSteps ==
  ASSUME EventsInv,
         Delete \/ EraseInterview \/ HistoryExpires \/ HistoryEvicted \/ TombstoneExpires
         \/ Close \/ Restart
  PROVE  EventsInv'
<1>1. IsState(NoState) /\ NoState.listeners = {}
  BY DEF IsState, NoState
<1>2. CASE Delete \/ TombstoneExpires
  <2>1. UNCHANGED <<broker, streams, views, closed>> /\ (erased' => erased)
    BY <1>2 DEF Delete, TombstoneExpires
  <2> QED BY <2>1 DEF EventsInv, OpenStreamsAreHeard
<1>3. CASE EraseInterview
  <2>1. /\ broker' = NoState
        /\ streams' = Idled(streams, broker.listeners)
        /\ views' = Ended(broker.listeners)
    BY <1>3 DEF EraseInterview, Erasure
  <2>2. AreStreams(streams') /\ AreViews(views')
    BY <2>1, IdledStreams, EndedViews DEF EventsInv
  <2>3. \A d \in Clients : streams'[d].phase # "open"
    BY <2>1, IdledStreams DEF EventsInv, OpenStreamsAreHeard
  <2> QED BY <1>1, <2>1, <2>2, <2>3 DEF EventsInv, OpenStreamsAreHeard
<1>4. CASE HistoryExpires
  <2>1. UNCHANGED <<streams, views, closed, erased>> /\ broker.events # <<>>
    BY <1>4 DEF HistoryExpires
  <2>2. ~ closed /\ ~ erased
    BY <2>1 DEF EventsInv, NoState
  <2>3. IsState(broker') /\ broker'.listeners = broker.listeners
    BY <1>1, <1>4 DEF HistoryExpires, EventsInv, IsState
  <2> QED BY <2>1, <2>2, <2>3 DEF EventsInv, OpenStreamsAreHeard
<1>5. CASE HistoryEvicted
  <2>1. /\ UNCHANGED <<streams, views, closed, erased>>
        /\ broker' = NoState /\ broker.listeners = {}
    BY <1>5 DEF HistoryEvicted
  <2> QED BY <1>1, <2>1 DEF EventsInv, OpenStreamsAreHeard
<1>6. CASE Close \/ Restart
  <2>1. /\ broker' = NoState
        /\ streams' = [c \in Clients |-> Idle]
        /\ views' = Ended(Clients)
    BY <1>6 DEF Close, Restart
  <2>2. AreStreams(streams') /\ \A d \in Clients : streams'[d].phase # "open"
    BY <2>1, IdleStream DEF AreStreams
  <2>3. AreViews(views')
    BY <2>1, EndedViews DEF EventsInv
  <2> QED BY <1>1, <2>1, <2>2, <2>3 DEF EventsInv, OpenStreamsAreHeard
<1> QED BY <1>2, <1>3, <1>4, <1>5, <1>6

LEMMA EventsNext == EventsInv /\ [Next]_vars => EventsInv'
<1> SUFFICES ASSUME EventsInv, [Next]_vars PROVE EventsInv'
  OBVIOUS
<1>1. CASE UNCHANGED vars
  <2>1. UNCHANGED <<broker, streams, views, closed, erased>>
    BY <1>1 DEF vars, serverVars
  <2> QED BY <2>1 DEF EventsInv, OpenStreamsAreHeard
<1>2. CASE Next
  BY <1>2, OperationSteps, StreamSteps, AnswerSteps, DeliverySteps, PollSteps, ExpelSteps,
     DisconnectSteps, ViewSteps, LossSteps
     DEF Next
<1> QED BY <1>1, <1>2

LEMMA EventsInvariant == Spec => []EventsInv
<1> QED BY EventsInit, EventsNext, PTL DEF Spec

(* Every open stream is a listener of the broker's current state and every   *)
(* listener an open stream, whatever was lost, erased, retried or restarted.  *)
THEOREM OpenStreamsHeard == Spec => []OpenStreamsAreHeard
<1>1. EventsInv => OpenStreamsAreHeard
  BY DEF EventsInv
<1> QED BY <1>1, EventsInvariant, PTL

-------------------------------------------------------------------------------
(* Erasure.  Only an open stream's Send gives a client an event.            *)

LEMMA OneViewSends ==
  ASSUME AreViews(views), NEW c \in Clients, NEW v, views' = [views EXCEPT ![c] = v],
         v.last = 0 \/ v.id = views[c].id
  PROVE  \A d \in Clients : ~ Sent(d)
BY DEF AreViews, Sent

LEMMA EndingSendsNothing ==
  ASSUME AreViews(views), NEW closing, views' = Ended(closing)
  PROVE  \A d \in Clients : ~ Sent(d)
BY EndedViews DEF Sent

LEMMA ClientSends ==
  ASSUME EventsInv, NEW c \in Clients, NEW d \in Clients, Sent(d),
         \/ Mount(c) \/ Open(c) \/ TurnedAway(c) \/ ReplayUnavailable(c) \/ NothingLeft(c)
         \/ Subscribe(c) \/ Check(c) \/ Send(c) \/ PollRead(c) \/ PollApply(c) \/ Expel(c)
         \/ Disconnect(c) \/ Refresh(c) \/ RefreshFails(c) \/ Revoke(c)
  PROVE  Send(c)
<1> SUFFICES ASSUME ~ Send(c) PROVE FALSE
  OBVIOUS
<1>1. AreViews(views) /\ IsView(views[c]) /\ views = [views EXCEPT ![c] = views[c]]
  BY DEF EventsInv, AreViews
<1>2. CASE Expel(c)
  BY <1>1, <1>2, EndingSendsNothing DEF Expel
<1>3. CASE ~ Expel(c)
  <2>1. PICK v : /\ views' = [views EXCEPT ![c] = v]
                 /\ v.last = 0 \/ v.id = views[c].id
    <3>1. CASE Mount(c) \/ TurnedAway(c)
      BY <3>1, UnmountedView DEF Mount, TurnedAway
    <3>2. CASE Subscribe(c) \/ Check(c) \/ PollRead(c) \/ PollApply(c) \/ Revoke(c)
      BY <1>1, <3>2 DEF Subscribe, Check, PollRead, PollApply, Revoke
    <3>3. CASE ReplayUnavailable(c)
      <4> DEFINE v == [Mounted EXCEPT !.phase = "refreshing", !.attempt = views[c].attempt]
      <4>1. v.last = 0
        BY DEF Mounted
      <4> QED BY <3>3, <4>1 DEF ReplayUnavailable
    <3>4. \A phase : [views[c] EXCEPT !.phase = phase].id = views[c].id
      BY <1>1 DEF IsView
    <3>5. CASE Open(c) \/ NothingLeft(c) \/ RefreshFails(c)
      BY <3>4, <3>5 DEF Open, NothingLeft, RefreshFails
    <3>6. CASE Refresh(c)
      <4>1. PICK v \in {Unmounted, [views[c] EXCEPT !.phase = "connecting"]} :
              views' = [views EXCEPT ![c] = v]
        BY <3>6 DEF Refresh
      <4> QED BY <3>4, <4>1, UnmountedView
    <3>7. CASE Disconnect(c)
      <4>1. PICK v \in {Unmounted, [views[c] EXCEPT !.phase = "refreshing"]} :
              views' = [views EXCEPT ![c] = v]
        BY <3>7 DEF Disconnect
      <4> QED BY <3>4, <4>1, UnmountedView
    <3> QED BY <1>3, <3>1, <3>2, <3>3, <3>5, <3>6, <3>7
  <2> QED BY <1>1, <2>1, OneViewSends
<1> QED BY <1>2, <1>3

LEMMA ServerSends ==
  ASSUME EventsInv, NEW d \in Clients, Sent(d),
         \/ Claim \/ BeginAttempt \/ Finalize \/ PublishCompletion \/ GraceElapses \/ Delete
         \/ EraseInterview \/ HistoryExpires \/ HistoryEvicted \/ TombstoneExpires \/ Close
         \/ Restart
  PROVE  FALSE
<1>1. CASE EraseInterview \/ Close \/ Restart
  BY <1>1, EndingSendsNothing DEF EraseInterview, Close, Restart, EventsInv
<1>2. CASE ~ (EraseInterview \/ Close \/ Restart)
  BY <1>2 DEF Claim, BeginAttempt, Finalize, PublishCompletion, GraceElapses, Delete,
              HistoryExpires, HistoryEvicted, TombstoneExpires, Sent
<1> QED BY <1>1, <1>2

LEMMA ErasureStep ==
  EventsInv /\ [Next]_vars => [\A c \in Clients : Sent(c) => ~ erased]_vars
<1> SUFFICES ASSUME EventsInv, Next, NEW d \in Clients, Sent(d) PROVE ~ erased
  OBVIOUS
<1>1. PICK c \in Clients : Send(c)
  BY ServerSends, ClientSends DEF Next
<1>2. streams[c].phase = "open"
  BY <1>1 DEF Send
<1> QED BY <1>2, OpenMeansState

(* Once the broker has been erased no event is sent to anyone, also not to a *)
(* stream that had passed its access check before.                            *)
THEOREM ErasureIsFinal == Spec => NothingSentAfterErasure
BY EventsInvariant, ErasureStep, PTL DEF Spec, NothingSentAfterErasure

-------------------------------------------------------------------------------
(* Histories and queues: runs of events numbered without a gap.            *)

SeqsUpTo(events, n) == \A i \in 1..Len(events) : events[i].seq = n - Len(events) + i

IdsUpTo(events, n) == \A i \in 1..Len(events) : events[i].id = n - Len(events) + i

OfAttempt(events, a) == \A i \in 1..Len(events) : events[i].attempt = a

LEMMA NoneUpTo ==
  ASSUME NEW n, NEW a
  PROVE  /\ <<>> \in Seq(Event)
         /\ SeqsUpTo(<<>>, n) /\ IdsUpTo(<<>>, n) /\ OfAttempt(<<>>, a)
BY EmptySeq DEF SeqsUpTo, IdsUpTo, OfAttempt

LEMMA SuffixIs ==
  ASSUME NEW events \in Seq(Event), NEW m \in 1..Len(events) + 1
  PROVE  LET tail == SubSeq(events, m, Len(events))
         IN  /\ tail \in Seq(Event)
             /\ Len(tail) = Len(events) - m + 1
             /\ \A i \in 1..Len(tail) : tail[i] = events[m - 1 + i]
<1>1. Len(events) \in Nat
  BY LenProperties
<1>2. \A i \in m..Len(events) : events[i] \in Event
  BY <1>1, ElementOfSeq
<1> DEFINE tail == SubSeq(events, m, Len(events))
<1>3. /\ tail \in Seq(Event)
      /\ Len(tail) = IF m <= Len(events) THEN Len(events) - m + 1 ELSE 0
  BY <1>1, <1>2, SubSeqProperties
<1>4. \A i \in 1..Len(tail) : tail[i] = events[m - 1 + i]
  <2> SUFFICES ASSUME NEW i \in 1..Len(tail) PROVE tail[i] = events[m - 1 + i]
    OBVIOUS
  <2>1. Len(tail) = Len(events) - m + 1 /\ m <= Len(events)
    BY <1>1, <1>3
  <2>2. \A j \in 1..(Len(events) - m + 1) : tail[j] = events[m + j - 1]
    <3> HIDE DEF tail
    <3>1. \A j \in 1..(Len(events) - m + 1) : SubSeq(events, m, Len(events))[j] = events[m + j - 1]
      BY <1>1, <1>2, <2>1, SubSeqProperties
    <3> QED BY <3>1 DEF tail
  <2> HIDE DEF tail
  <2>3. i \in 1..(Len(events) - m + 1) /\ m + i - 1 = m - 1 + i
    BY <2>1, <1>1
  <2> QED BY <2>2, <2>3
<1>5. Len(tail) = Len(events) - m + 1
  BY <1>1, <1>3
<1> QED BY <1>3, <1>4, <1>5

LEMMA SuffixUpTo ==
  ASSUME NEW events \in Seq(Event), NEW m \in 1..Len(events) + 1, NEW n \in Nat, NEW a
  PROVE  LET tail == SubSeq(events, m, Len(events))
         IN  /\ SeqsUpTo(events, n) => SeqsUpTo(tail, n)
             /\ IdsUpTo(events, n) => IdsUpTo(tail, n)
             /\ OfAttempt(events, a) => OfAttempt(tail, a)
<1> DEFINE tail == SubSeq(events, m, Len(events))
<1>1. Len(events) \in Nat
  BY LenProperties
<1>2. /\ Len(tail) = Len(events) - m + 1
      /\ \A i \in 1..Len(tail) : tail[i] = events[m - 1 + i]
  BY SuffixIs
<1> HIDE DEF tail
<1>3. \A i \in 1..Len(tail) : m - 1 + i \in 1..Len(events)
                              /\ n - Len(events) + (m - 1 + i) = n - Len(tail) + i
  BY <1>1, <1>2
<1>4. SeqsUpTo(events, n) => SeqsUpTo(tail, n)
  BY <1>2, <1>3 DEF SeqsUpTo
<1>5. IdsUpTo(events, n) => IdsUpTo(tail, n)
  BY <1>2, <1>3 DEF IdsUpTo
<1>6. OfAttempt(events, a) => OfAttempt(tail, a)
  BY <1>2, <1>3 DEF OfAttempt
<1> QED BY <1>4, <1>5, <1>6 DEF tail

LEMMA JoinedUpTo ==
  ASSUME NEW events \in Seq(Event), NEW new \in Seq(Event), NEW n \in Nat, NEW a
  PROVE  /\ events \o new \in Seq(Event)
         /\ Len(events \o new) = Len(events) + Len(new)
         /\ SeqsUpTo(events, n) /\ SeqsUpTo(new, n + Len(new)) => SeqsUpTo(events \o new, n + Len(new))
         /\ IdsUpTo(events, n) /\ IdsUpTo(new, n + Len(new)) => IdsUpTo(events \o new, n + Len(new))
         /\ OfAttempt(events, a) /\ OfAttempt(new, a) => OfAttempt(events \o new, a)
<1> DEFINE both == events \o new
<1>1. Len(events) \in Nat /\ Len(new) \in Nat
  BY LenProperties
<1>2. /\ both \in Seq(Event)
      /\ Len(both) = Len(events) + Len(new)
      /\ \A i \in 1..Len(events) + Len(new) :
           both[i] = IF i <= Len(events) THEN events[i] ELSE new[i - Len(events)]
  BY ConcatProperties
<1> HIDE DEF both
<1>3. ASSUME NEW i \in 1..Len(both)
      PROVE  \/ i \in 1..Len(events) /\ both[i] = events[i]
                /\ (n + Len(new)) - Len(both) + i = n - Len(events) + i
             \/ i - Len(events) \in 1..Len(new) /\ both[i] = new[i - Len(events)]
                /\ (n + Len(new)) - Len(both) + i = (n + Len(new)) - Len(new) + (i - Len(events))
  BY <1>1, <1>2
<1>4. SeqsUpTo(events, n) /\ SeqsUpTo(new, n + Len(new)) => SeqsUpTo(both, n + Len(new))
  BY <1>3 DEF SeqsUpTo
<1>5. IdsUpTo(events, n) /\ IdsUpTo(new, n + Len(new)) => IdsUpTo(both, n + Len(new))
  BY <1>3 DEF IdsUpTo
<1>6. OfAttempt(events, a) /\ OfAttempt(new, a) => OfAttempt(both, a)
  BY <1>3 DEF OfAttempt
<1> QED BY <1>2, <1>4, <1>5, <1>6 DEF both

LEMMA TrimmedUpTo ==
  ASSUME NEW events \in Seq(Event), NEW n \in Nat, NEW a
  PROVE  LET kept == TrimHistory(events)
         IN  /\ kept \in Seq(Event)
             /\ events # <<>> => kept # <<>>
             /\ SeqsUpTo(events, n) => SeqsUpTo(kept, n)
             /\ IdsUpTo(events, n) => IdsUpTo(kept, n)
             /\ OfAttempt(events, a) => OfAttempt(kept, a)
<1> DEFINE kept == TrimHistory(events)
           m == Len(events) - HistoryLimit + 1
<1>1. CASE Len(events) > HistoryLimit
  <2>1. kept = SubSeq(events, m, Len(events))
    BY <1>1 DEF TrimHistory
  <2>2. m \in 1..Len(events) + 1 /\ Len(events) - m + 1 > 0
    BY <1>1, HistoryAssumption, LenProperties
  <2> HIDE DEF kept, m
  <2>3. kept \in Seq(Event) /\ Len(kept) = Len(events) - m + 1
    BY <2>1, <2>2, SuffixIs
  <2>4. kept # <<>>
    BY <2>2, <2>3, EmptySeq
  <2>5. /\ SeqsUpTo(events, n) => SeqsUpTo(kept, n)
        /\ IdsUpTo(events, n) => IdsUpTo(kept, n)
        /\ OfAttempt(events, a) => OfAttempt(kept, a)
    BY <2>1, <2>2, SuffixUpTo
  <2> QED BY <2>3, <2>4, <2>5 DEF kept
<1>2. CASE ~ (Len(events) > HistoryLimit)
  BY <1>2 DEF TrimHistory
<1> QED BY <1>1, <1>2

-------------------------------------------------------------------------------
(* The broker's operations: types, and how their histories are numbered.    *)

BrokerState ==
  [attempt : 0..MaxAttempts, unknown : BOOLEAN, events : Seq(Event), next : Nat \ {0},
   listeners : SUBSET Clients]

Stream ==
  [phase : {"idle", "reading", "open"}, snapshot : Reads, queue : Seq(Event),
   check : {"none", "passed", "denied"}, poll : Reads]

View ==
  [phase : {"done", "connecting", "connected", "refreshing"}, last : Nat, id : Nat,
   attempt : 0..MaxAttempts]

(* One attempt's events, ending with the last one published. *)
Numbered(b, n) ==
  /\ SeqsUpTo(b.events, b.next - 1)
  /\ IdsUpTo(b.events, n)
  /\ OfAttempt(b.events, b.attempt)

LEMMA NoStateIs == NoState \in BrokerState /\ \A n \in Nat : Numbered(NoState, n)
<1>1. NoState \in BrokerState
  BY AttemptsAssumption, EmptySeq DEF NoState, BrokerState
<1>2. NoState.events = <<>>
  BY DEF NoState
<1> QED BY <1>1, <1>2, NoneUpTo DEF Numbered

LEMMA CreateIs ==
  ASSUME NEW op, op.attempt \in 0..MaxAttempts, NEW unknown \in BOOLEAN
  PROVE  LET b == CreateState(op, unknown)
         IN  /\ b \in BrokerState
             /\ b.attempt = op.attempt /\ b.events = <<>> /\ b.next = 1 /\ b.listeners = {}
             /\ b.unknown <=> unknown \/ op.attempt > 1
             /\ \A n \in Nat : Numbered(b, n)
<1> DEFINE b == CreateState(op, unknown)
<1>1. b = [NoState EXCEPT !.attempt = op.attempt, !.unknown = unknown \/ op.attempt > 1]
  BY DEF CreateState
<1>2. b \in BrokerState
  <2>1. NoState \in BrokerState /\ (unknown \/ op.attempt > 1) \in BOOLEAN
    BY NoStateIs
  <2> HIDE DEF b
  <2> QED BY <1>1, <2>1 DEF BrokerState
<1>3. b.attempt = op.attempt /\ b.events = <<>> /\ b.next = 1 /\ b.listeners = {}
  BY <1>1 DEF NoState
<1>4. b.unknown <=> unknown \/ op.attempt > 1
  BY <1>1 DEF NoState
<1> HIDE DEF b
<1>5. \A n \in Nat : Numbered(b, n)
  BY <1>3, NoneUpTo DEF Numbered
<1> QED BY <1>2, <1>3, <1>4, <1>5 DEF b

LEMMA StateOfIs ==
  ASSUME NEW b \in BrokerState, NEW op, op.attempt \in 0..MaxAttempts, NEW unknown \in BOOLEAN
  PROVE  LET s == StateOf(b, op, unknown)
         IN  /\ s \in BrokerState
             /\ b = NoState => s = CreateState(op, unknown)
             /\ b # NoState => /\ s.attempt = b.attempt /\ s.events = b.events
                               /\ s.unknown <=> b.unknown \/ unknown
             /\ s.next = b.next /\ s.listeners = b.listeners
             /\ \A n \in Nat : Numbered(b, n) => Numbered(s, n)
<1> DEFINE s == StateOf(b, op, unknown)
<1>1. CASE b = NoState
  <2>1. s = CreateState(op, unknown)
    BY <1>1 DEF StateOf
  <2>2. b.next = 1 /\ b.listeners = {}
    BY <1>1 DEF NoState
  <2> QED BY <1>1, <2>1, <2>2, CreateIs
<1>2. CASE b # NoState
  <2>1. s = [b EXCEPT !.unknown = @ \/ unknown]
    BY <1>2 DEF StateOf
  <2>2. /\ s.attempt = b.attempt /\ s.events = b.events /\ s.next = b.next
        /\ s.listeners = b.listeners /\ s.unknown = (b.unknown \/ unknown)
        /\ s = [attempt |-> s.attempt, unknown |-> s.unknown, events |-> s.events,
                next |-> s.next, listeners |-> s.listeners]
    BY <2>1 DEF BrokerState
  <2> HIDE DEF s
  <2>3. s \in BrokerState
    BY <2>2 DEF BrokerState
  <2>4. \A n \in Nat : Numbered(b, n) => Numbered(s, n)
    BY <2>2 DEF Numbered
  <2> QED BY <1>2, <2>2, <2>3, <2>4 DEF s
<1> QED BY <1>1, <1>2

LEMMA SyncIs ==
  ASSUME NEW b \in BrokerState, NEW op, op.attempt \in 0..MaxAttempts
  PROVE  LET s == SyncAttempt(b, op)
         IN  /\ s \in BrokerState
             /\ s.attempt = IF op.attempt > b.attempt THEN op.attempt ELSE b.attempt
             /\ op.attempt <= b.attempt => s = b
             /\ s.next = b.next /\ s.listeners = b.listeners /\ s.unknown = b.unknown
             /\ \A n \in Nat : Numbered(b, n) => Numbered(s, n)
<1> DEFINE s == SyncAttempt(b, op)
<1>1. CASE op.attempt > b.attempt
  <2>1. s = [b EXCEPT !.attempt = op.attempt, !.events = <<>>]
    BY <1>1 DEF SyncAttempt
  <2>2. /\ s.attempt = op.attempt /\ s.events = <<>> /\ s.next = b.next
        /\ s.listeners = b.listeners /\ s.unknown = b.unknown
        /\ s = [attempt |-> s.attempt, unknown |-> s.unknown, events |-> s.events,
                next |-> s.next, listeners |-> s.listeners]
    BY <2>1 DEF BrokerState
  <2>3. ~ (op.attempt <= b.attempt)
    BY <1>1 DEF BrokerState
  <2> HIDE DEF s
  <2>4. s \in BrokerState
    BY <2>2, EmptySeq DEF BrokerState
  <2>5. \A n \in Nat : Numbered(s, n)
    BY <2>2, NoneUpTo DEF Numbered
  <2> QED BY <1>1, <2>2, <2>3, <2>4, <2>5 DEF s
<1>2. CASE ~ (op.attempt > b.attempt)
  <2>1. s = b
    BY <1>2 DEF SyncAttempt
  <2> QED BY <1>2, <2>1
<1> QED BY <1>1, <1>2

LEMMA OneOrTwo ==
  ASSUME NEW x \in Event
  PROVE  /\ <<x>> \in Seq(Event) /\ Len(<<x>>) = 1 /\ <<x>>[1] = x
         /\ \A y \in Event :
              <<x, y>> \in Seq(Event) /\ Len(<<x, y>>) = 2 /\ <<x, y>>[1] = x /\ <<x, y>>[2] = y
OBVIOUS

LEMMA OneOrTwoSeqs ==
  ASSUME NEW new, NEW n \in Nat
  PROVE  /\ Len(new) = 1 /\ new[1].seq = n + 1 => SeqsUpTo(new, n + Len(new))
         /\ Len(new) = 2 /\ new[1].seq = n + 1 /\ new[2].seq = n + 2 => SeqsUpTo(new, n + Len(new))
BY DEF SeqsUpTo

LEMMA NewEventsAre ==
  ASSUME NEW b \in BrokerState, NEW op \in Rows, NEW text \in BOOLEAN, published \in Nat
  PROVE  LET new == NewEvents(b, op, text)
         IN  /\ new \in Seq(Event) /\ new # <<>> /\ Len(new) \in {1, 2}
             /\ SeqsUpTo(new, b.next - 1 + Len(new))
             /\ IdsUpTo(new, published + Len(new))
             /\ OfAttempt(new, op.attempt)
<1> DEFINE new == NewEvents(b, op, text)
           first(terminal) ==
             [seq |-> b.next + 1 - 1, id |-> published + 1, attempt |-> op.attempt,
              terminal |-> terminal]
           second ==
             [seq |-> b.next + 2 - 1, id |-> published + 2, attempt |-> op.attempt,
              terminal |-> TRUE]
<1>0. b.next \in Nat \ {0} /\ op.attempt \in 1..MaxAttempts
  BY DEF BrokerState, Rows
<1>1. CASE text
  <2>1. new = <<first(FALSE), second>>
    BY <1>1 DEF NewEvents
  <2>2. first(FALSE) \in Event /\ second \in Event
    BY <1>0 DEF Event
  <2>3. Len(new) = 2 /\ new \in Seq(Event) /\ new[1] = first(FALSE) /\ new[2] = second
    <3> DEFINE x == first(FALSE)
    <3>1. x \in Event /\ new = <<x, second>>
      BY <2>1, <2>2
    <3> HIDE DEF new, second, x
    <3>2. Len(new) = 2 /\ new \in Seq(Event) /\ new[1] = x /\ new[2] = second
      BY <2>2, <3>1, OneOrTwo
    <3> QED BY <3>2 DEF x
  <2>4. /\ new[1].seq = b.next /\ new[1].id = published + 1 /\ new[1].attempt = op.attempt
        /\ new[2].seq = b.next + 1 /\ new[2].id = published + 2 /\ new[2].attempt = op.attempt
    <3> HIDE DEF new
    <3> QED BY <1>0, <2>3
  <2> HIDE DEF new, second, first
  <2>5. \A i \in 1..Len(new) : i = 1 \/ i = 2
    BY <2>3
  <2>10. /\ published + Len(new) - Len(new) + 1 = published + 1
        /\ published + Len(new) - Len(new) + 2 = published + 2
    BY <2>3
  <2>6. SeqsUpTo(new, b.next - 1 + Len(new))
    <3>1. b.next - 1 \in Nat /\ b.next = (b.next - 1) + 1 /\ b.next + 1 = (b.next - 1) + 2
      BY <1>0
    <3> QED BY <2>3, <2>4, <3>1, OneOrTwoSeqs
  <2>7. IdsUpTo(new, published + Len(new))
    BY <2>10, <2>4, <2>5 DEF IdsUpTo
  <2>8. OfAttempt(new, op.attempt)
    BY <2>3, <2>4, <2>5 DEF OfAttempt
  <2>9. new # <<>>
    BY <2>3, EmptySeq
  <2> QED BY <2>3, <2>6, <2>7, <2>8, <2>9 DEF new
<1>2. CASE ~ text
  <2>1. new = <<first(TRUE)>>
    BY <1>2 DEF NewEvents
  <2>2. first(TRUE) \in Event
    BY <1>0 DEF Event
  <2>3. Len(new) = 1 /\ new \in Seq(Event) /\ new[1] = first(TRUE)
    <3> DEFINE x == first(TRUE)
    <3>1. x \in Event /\ new = <<x>>
      BY <2>1, <2>2
    <3> HIDE DEF new, x
    <3>2. Len(new) = 1 /\ new \in Seq(Event) /\ new[1] = x
      BY <3>1, OneOrTwo
    <3> QED BY <3>2 DEF x
  <2>4. new[1].seq = b.next /\ new[1].id = published + 1 /\ new[1].attempt = op.attempt
    <3> HIDE DEF new
    <3> QED BY <1>0, <2>3
  <2> HIDE DEF new, first
  <2>5. \A i \in 1..Len(new) : i = 1
    BY <2>3
  <2>10. published + Len(new) - Len(new) + 1 = published + 1
    BY <2>3
  <2>6. SeqsUpTo(new, b.next - 1 + Len(new))
    <3>1. b.next - 1 \in Nat /\ b.next = (b.next - 1) + 1 /\ b.next + 1 = (b.next - 1) + 2
      BY <1>0
    <3> QED BY <2>3, <2>4, <3>1, OneOrTwoSeqs
  <2>7. IdsUpTo(new, published + Len(new))
    BY <2>10, <2>4, <2>5 DEF IdsUpTo
  <2>8. OfAttempt(new, op.attempt)
    BY <2>3, <2>4, <2>5 DEF OfAttempt
  <2>9. new # <<>>
    BY <2>3, EmptySeq
  <2> QED BY <2>3, <2>6, <2>7, <2>8, <2>9 DEF new
<1> QED BY <1>1, <1>2

LEMMA TypesAre ==
  ASSUME TypeOK
  PROVE  /\ row \in Rows /\ broker \in BrokerState /\ published \in Nat
         /\ streams \in [Clients -> Stream] /\ views \in [Clients -> View]
         /\ cut \in [Clients -> Nat] /\ finished \subseteq [op : Rows, text : BOOLEAN]
         /\ broker.attempt \in 0..MaxAttempts /\ broker.next \in Nat \ {0}
         /\ broker.events \in Seq(Event)
BY DEF TypeOK, BrokerState, Stream, View

(* A history with new events at its end. *)
Extended(b, new) == [b EXCEPT !.next = @ + Len(new), !.events = TrimHistory(@ \o new)]

LEMMA ExtendedIs ==
  ASSUME NEW b \in BrokerState, NEW new \in Seq(Event), NEW n \in Nat
  PROVE  LET e == Extended(b, new)
         IN  /\ e \in BrokerState
             /\ e.attempt = b.attempt /\ e.unknown = b.unknown /\ e.listeners = b.listeners
             /\ e.next = b.next + Len(new)
             /\ new # <<>> => e.events # <<>>
             /\ /\ Numbered(b, n)
                /\ SeqsUpTo(new, b.next - 1 + Len(new)) /\ IdsUpTo(new, n + Len(new))
                /\ OfAttempt(new, b.attempt)
                => Numbered(e, n + Len(new))
<1> DEFINE e == Extended(b, new)
           both == b.events \o new
<1>1. b.events \in Seq(Event) /\ b.next \in Nat \ {0} /\ Len(new) \in Nat /\ Len(b.events) \in Nat
  BY LenProperties DEF BrokerState
<1>2. both \in Seq(Event) /\ Len(both) = Len(b.events) + Len(new)
  BY <1>1, ConcatProperties
<1>3. TrimHistory(both) \in Seq(Event) /\ (both # <<>> => TrimHistory(both) # <<>>)
  <2> HIDE DEF both
  <2> QED BY <1>2, TrimmedUpTo
<1>4. /\ e.attempt = b.attempt /\ e.unknown = b.unknown /\ e.listeners = b.listeners
      /\ e.next = b.next + Len(new) /\ e.events = TrimHistory(both)
  BY DEF Extended, BrokerState
<1>5. e \in BrokerState
  <2>1. b.next + Len(new) \in Nat \ {0}
    BY <1>1
  <2> QED BY <1>3, <2>1 DEF Extended, BrokerState
<1>6. new # <<>> => both # <<>>
  BY <1>1, <1>2, EmptySeq
<1>7. ASSUME Numbered(b, n), SeqsUpTo(new, b.next - 1 + Len(new)), IdsUpTo(new, n + Len(new)),
             OfAttempt(new, b.attempt)
      PROVE  Numbered(e, n + Len(new))
  <2>1. b.next - 1 \in Nat /\ e.next - 1 = b.next - 1 + Len(new) /\ b.next - 1 + Len(new) \in Nat
        /\ n + Len(new) \in Nat
    BY <1>1, <1>4
  <2>2. /\ SeqsUpTo(both, b.next - 1 + Len(new)) /\ IdsUpTo(both, n + Len(new))
        /\ OfAttempt(both, b.attempt)
    BY <1>1, <1>7, <2>1, JoinedUpTo DEF Numbered
  <2> HIDE DEF both, e
  <2>3. /\ SeqsUpTo(e.events, b.next - 1 + Len(new)) /\ IdsUpTo(e.events, n + Len(new))
        /\ OfAttempt(e.events, b.attempt)
    BY <1>2, <1>4, <2>1, <2>2, TrimmedUpTo
  <2> QED BY <1>4, <2>1, <2>3 DEF Numbered
<1> HIDE DEF e
<1> QED BY <1>3, <1>4, <1>5, <1>6, <1>7 DEF e

(* What a publication leaves, and what it gives the listeners. *)
IsPublication(p, op, unknown) ==
  /\ p.state \in BrokerState /\ p.new \in Seq(Event)
  /\ p.state.listeners = broker.listeners
  /\ p.state.next = broker.next + Len(p.new)
  /\ p.state.attempt \in {broker.attempt, op.attempt} /\ p.state.attempt >= broker.attempt
  /\ p.new # <<>> => p.state.attempt = op.attempt /\ p.state.events # <<>>
  /\ p.new = <<>> /\ broker # NoState /\ op.attempt <= broker.attempt =>
       p.state.events = broker.events
  /\ IdsUpTo(p.new, published + Len(p.new))
  /\ SeqsUpTo(p.new, broker.next - 1 + Len(p.new))
  /\ Numbered(broker, published) => Numbered(p.state, published + Len(p.new))
  /\ closed \/ erased => p.state = broker /\ p.new = <<>>
  /\ ~ (closed \/ erased) =>
       /\ p.state.attempt # 0
       /\ p.state.unknown <=> IF broker = NoState THEN unknown \/ op.attempt > 1
                              ELSE broker.unknown \/ unknown

LEMMA QuietPublication ==
  ASSUME TypeOK, NEW s \in BrokerState, s.next = broker.next
  PROVE  LET p == [state |-> s, new |-> <<>>]
         IN  /\ p.state = s /\ p.new = <<>> /\ p.new \in Seq(Event) /\ Len(p.new) = 0
             /\ p.state.next = broker.next + Len(p.new)
             /\ published + Len(p.new) = published
             /\ IdsUpTo(p.new, published + Len(p.new))
             /\ SeqsUpTo(p.new, broker.next - 1 + Len(p.new))
<1>1. broker.next \in Nat /\ published \in Nat
  BY TypesAre
<1>2. Len(<<>>) = 0
  BY EmptySeq
<1> DEFINE p == [state |-> s, new |-> <<>>]
<1>3. p.state = s /\ p.new = <<>>
  OBVIOUS
<1> HIDE DEF p
<1>4. p.new \in Seq(Event) /\ Len(p.new) = 0
  BY <1>2, <1>3, NoneUpTo
<1>5. p.state.next = broker.next + Len(p.new) /\ published + Len(p.new) = published
  BY <1>1, <1>3, <1>4
<1>6. IdsUpTo(p.new, published + Len(p.new)) /\ SeqsUpTo(p.new, broker.next - 1 + Len(p.new))
  BY <1>3, NoneUpTo
<1> QED BY <1>3, <1>4, <1>5, <1>6 DEF p

LEMMA PublicationIs ==
  ASSUME TypeOK, broker.attempt = 0 => broker = NoState, NEW op \in Rows, NEW unknown \in BOOLEAN, NEW text \in BOOLEAN
  PROVE  IsPublication(Publication(op, unknown, text), op, unknown)
<1> DEFINE state == StateOf(broker, op, unknown)
           synced == SyncAttempt(state, op)
           new == NewEvents(synced, op, text)
           p == Publication(op, unknown, text)
<1>0. /\ broker \in BrokerState /\ published \in Nat /\ broker.attempt \in Nat
      /\ op.attempt \in 1..MaxAttempts /\ op.attempt \in 0..MaxAttempts
      /\ NoState.attempt = 0 /\ NoState.events = <<>>
  BY TypesAre DEF Rows, NoState
<1>1. /\ state \in BrokerState
      /\ broker = NoState => /\ state.attempt = op.attempt
                             /\ state.unknown <=> unknown \/ op.attempt > 1
      /\ broker # NoState => /\ state.attempt = broker.attempt /\ state.events = broker.events
                             /\ state.unknown <=> broker.unknown \/ unknown
      /\ state.next = broker.next /\ state.listeners = broker.listeners
      /\ Numbered(broker, published) => Numbered(state, published)
  BY <1>0, StateOfIs, CreateIs
<1> HIDE DEF state
<1>2. /\ synced \in BrokerState
      /\ synced.attempt = IF op.attempt > state.attempt THEN op.attempt ELSE state.attempt
      /\ op.attempt <= state.attempt => synced = state
      /\ synced.next = state.next /\ synced.listeners = state.listeners
      /\ synced.unknown = state.unknown
      /\ Numbered(state, published) => Numbered(synced, published)
  BY <1>0, <1>1, SyncIs
<1> HIDE DEF synced
<1>3. /\ new \in Seq(Event) /\ new # <<>>
      /\ SeqsUpTo(new, synced.next - 1 + Len(new))
      /\ IdsUpTo(new, published + Len(new))
      /\ OfAttempt(new, op.attempt)
  BY <1>0, <1>2, NewEventsAre
<1> HIDE DEF new
<1>4. CASE closed \/ erased
  <2>1. p = [state |-> broker, new |-> <<>>]
    BY <1>4 DEF Publication
  <2> HIDE DEF p
  <2>2. p.state = broker /\ p.new = <<>>
    BY <2>1
  <2>3. /\ p.new \in Seq(Event) /\ Len(p.new) = 0
        /\ p.state.next = broker.next + Len(p.new)
        /\ published + Len(p.new) = published
        /\ IdsUpTo(p.new, published + Len(p.new))
        /\ SeqsUpTo(p.new, broker.next - 1 + Len(p.new))
    BY <1>0, <2>1, QuietPublication
  <2>4. Numbered(broker, published) => Numbered(p.state, published + Len(p.new))
    BY <2>2, <2>3
  <2>5. p.state \in BrokerState /\ p.state.attempt \in {broker.attempt, op.attempt}
        /\ p.state.attempt >= broker.attempt /\ p.state.listeners = broker.listeners
        /\ p.state.events = broker.events
    BY <1>0, <2>2
  <2>6. IsPublication(p, op, unknown)
    BY <1>4, <2>2, <2>3, <2>4, <2>5 DEF IsPublication
  <2> QED BY <2>6 DEF p
<1>5. CASE ~ (closed \/ erased) /\ Superseded(state, op)
  <2>1. p = [state |-> state, new |-> <<>>]
    BY <1>5 DEF Publication, state
  <2>2. op.attempt < state.attempt
    BY <1>5 DEF Superseded
  <2>3. broker # NoState /\ state.attempt = broker.attempt /\ broker.attempt # 0
    BY <1>0, <1>1, <2>2
  <2> HIDE DEF p
  <2>4. p.state = state /\ p.new = <<>>
    BY <2>1
  <2> QED BY <1>0, <1>1, <1>5, <2>1, <2>3, <2>4, QuietPublication DEF IsPublication, p
<1>6. ASSUME ~ (closed \/ erased), ~ Superseded(state, op)
      PROVE  /\ synced.attempt = op.attempt /\ synced.attempt >= broker.attempt
             /\ broker # NoState /\ op.attempt <= broker.attempt => synced.events = broker.events
  <2>1. op.attempt >= state.attempt
    BY <1>0, <1>1, <1>6 DEF Superseded, BrokerState
  <2>2. synced.attempt = op.attempt
    BY <1>0, <1>1, <1>2, <2>1 DEF BrokerState
  <2>3. synced.attempt >= broker.attempt
    BY <1>0, <1>1, <2>1, <2>2
  <2> QED BY <1>1, <1>2, <2>2, <2>3
<1>7. CASE ~ (closed \/ erased) /\ ~ Superseded(state, op) /\ HasTerminal(synced)
  <2>1. p = [state |-> synced, new |-> <<>>]
    BY <1>7 DEF Publication, state, synced
  <2> HIDE DEF p
  <2>2. p.state = synced /\ p.new = <<>>
    BY <2>1
  <2> QED BY <1>0, <1>1, <1>2, <1>6, <1>7, <2>1, <2>2, QuietPublication DEF IsPublication, p
<1>8. CASE ~ (closed \/ erased) /\ ~ Superseded(state, op) /\ ~ HasTerminal(synced)
  <2> DEFINE e == Extended(synced, new)
  <2>1. p = [state |-> e, new |-> new]
    BY <1>8 DEF Publication, state, synced, new, Extended
  <2> HIDE DEF p
  <2>2. p.state = e /\ p.new = new
    BY <2>1
  <2>3. /\ e \in BrokerState
        /\ e.attempt = synced.attempt /\ e.unknown = synced.unknown
        /\ e.listeners = synced.listeners /\ e.next = synced.next + Len(new)
        /\ e.events # <<>>
        /\ Numbered(synced, published) => Numbered(e, published + Len(new))
    BY <1>0, <1>2, <1>3, <1>6, <1>8, ExtendedIs
  <2> HIDE DEF e
  <2> QED BY <1>0, <1>1, <1>2, <1>3, <1>6, <1>8, <2>2, <2>3 DEF IsPublication, p
<1> QED BY <1>4, <1>5, <1>7, <1>8

LEMMA UnsubscribedIs ==
  ASSUME NEW b \in BrokerState, NEW c
  PROVE  LET u == Unsubscribed(b, c)
         IN  /\ u \in BrokerState
             /\ \/ u = NoState /\ b.events = <<>>
                \/ /\ u.attempt = b.attempt /\ u.events = b.events /\ u.next = b.next
                   /\ u.unknown = b.unknown
             /\ u.next <= b.next
             /\ \A n \in Nat : Numbered(b, n) => Numbered(u, n)
<1> DEFINE u == Unsubscribed(b, c)
<1>0. b.next \in Nat \ {0} /\ NoState.next = 1
  BY DEF BrokerState, NoState
<1>1. CASE c \in b.listeners /\ b.listeners = {c} /\ b.events = <<>>
  <2>1. u = NoState
    BY <1>1 DEF Unsubscribed
  <2> HIDE DEF u
  <2> QED BY <1>0, <1>1, <2>1, NoStateIs DEF u
<1>2. CASE ~ (c \in b.listeners /\ b.listeners = {c} /\ b.events = <<>>)
  <2>1. u = [b EXCEPT !.listeners = @ \ {c}]
    BY <1>2 DEF Unsubscribed
  <2>2. u \in BrokerState /\ u.attempt = b.attempt /\ u.events = b.events /\ u.next = b.next
        /\ u.unknown = b.unknown
    BY <2>1 DEF BrokerState
  <2> HIDE DEF u
  <2>3. \A n \in Nat : Numbered(b, n) => Numbered(u, n)
    BY <2>2 DEF Numbered
  <2> QED BY <1>0, <2>2, <2>3 DEF u
<1> QED BY <1>1, <1>2

(* Only a broker without a state is of no attempt. *)
Attempted == broker.attempt = 0 => broker = NoState

(* What a broker's operation leaves, seen without its reason. *)
Speaks(p, a) ==
  /\ p.state \in BrokerState /\ p.new \in Seq(Event)
  /\ p.state.listeners = broker.listeners
  /\ p.state.attempt \in {broker.attempt, a}
  /\ IdsUpTo(p.new, published + Len(p.new))
  /\ SeqsUpTo(p.new, broker.next - 1 + Len(p.new))
  /\ Numbered(broker, published) => Numbered(p.state, published + Len(p.new))
  /\ closed \/ erased => p.state = broker /\ p.new = <<>>
  /\ Attempted /\ p.state.attempt = 0 => p.state = NoState

LEMMA PublicationSpeaks ==
  ASSUME NEW p, NEW op, NEW unknown, IsPublication(p, op, unknown)
  PROVE  Speaks(p, op.attempt)
BY DEF IsPublication, Speaks, Attempted

AsIs(p) == p.state = broker /\ p.new = <<>>

LEMMA AsIsSpeaks ==
  ASSUME TypeOK, NEW p, AsIs(p), NEW a
  PROVE  Speaks(p, a)
<1>1. broker \in BrokerState /\ published \in Nat /\ Len(<<>>) = 0
  BY TypesAre, EmptySeq
<1>2. published + Len(p.new) = published
  BY <1>1 DEF AsIs
<1>3. IdsUpTo(p.new, published + Len(p.new)) /\ SeqsUpTo(p.new, broker.next - 1 + Len(p.new))
      /\ p.new \in Seq(Event)
  BY NoneUpTo DEF AsIs
<1> QED BY <1>1, <1>2, <1>3 DEF Speaks, AsIs, Attempted

(* A terminal event rebuilt from a row that was read. *)
IsRebuild(p, op) ==
  /\ op \in Rows /\ Ready(op)
  /\ \/ broker = NoState /\ IsPublication(p, op, TRUE)
     \/ broker # NoState /\ IsPublication(p, op, FALSE)

LEMMA RebuildIs ==
  ASSUME TypeOK, Attempted, NEW op \in Reads, Ready(op)
  PROVE  IsRebuild(Publication(op, broker = NoState, FALSE), op)
<1> DEFINE p == Publication(op, broker = NoState, FALSE)
<1>1. op \in Rows
  BY DEF Ready, Reads, NoRead, Denied, Settled
<1>2. CASE broker = NoState
  <2>1. p = Publication(op, TRUE, FALSE)
    BY <1>2
  <2> HIDE DEF p
  <2>2. IsPublication(p, op, TRUE)
    BY <1>1, <2>1, PublicationIs DEF Attempted
  <2> QED BY <1>1, <1>2, <2>2 DEF p, IsRebuild
<1>3. CASE broker # NoState
  <2>1. p = Publication(op, FALSE, FALSE)
    BY <1>3
  <2> HIDE DEF p
  <2>2. IsPublication(p, op, FALSE)
    BY <1>1, <2>1, PublicationIs DEF Attempted
  <2> QED BY <1>1, <1>3, <2>2 DEF p, IsRebuild
<1> QED BY <1>2, <1>3

LEMMA RebuildSpeaks ==
  ASSUME TypeOK, NEW op, NEW p, AsIs(p) \/ IsRebuild(p, op)
  PROVE  Speaks(p, op.attempt)
BY AsIsSpeaks, PublicationSpeaks DEF IsRebuild

LEMMA RebuiltIs ==
  ASSUME TypeOK, Attempted, NEW c \in Clients
  PROVE  \/ AsIs(Rebuilt(c)) /\ ~ (Ready(streams[c].snapshot) /\ ~ (broker = NoState /\ views[c].last > 0))
         \/ IsRebuild(Rebuilt(c), streams[c].snapshot)
<1> DEFINE op == streams[c].snapshot
<1>1. op \in Reads
  BY TypesAre DEF Stream
<1>2. CASE Ready(op) /\ ~ (broker = NoState /\ views[c].last > 0)
  <2>1. Rebuilt(c) = Publication(op, broker = NoState, FALSE)
    BY <1>2 DEF Rebuilt
  <2> QED BY <1>1, <1>2, <2>1, RebuildIs
<1>3. CASE ~ (Ready(op) /\ ~ (broker = NoState /\ views[c].last > 0))
  <2>1. Rebuilt(c) = [state |-> broker, new |-> <<>>]
    BY <1>3 DEF Rebuilt
  <2> QED BY <1>3, <2>1 DEF AsIs
<1> QED BY <1>2, <1>3

(* The state a subscription joins: as it was found, of a later attempt, new. *)
IsJoin(j, b, op) ==
  /\ j \in BrokerState
  /\ j.listeners = broker.listeners
  /\ j.attempt \in {broker.attempt, op.attempt} /\ j.attempt >= b.attempt
  /\ j.next = b.next
  /\ j.events = b.events \/ (j.events = <<>> /\ op.attempt > b.attempt)
  /\ b # NoState => j.unknown = b.unknown
  /\ b = NoState => j = b \/ j = CreateState(op, FALSE)
  /\ \A n \in Nat : Numbered(b, n) => Numbered(j, n)
  /\ closed \/ erased => j = b

LEMMA ReadAttempt ==
  ASSUME NEW op \in Reads
  PROVE  op.attempt \in 0..MaxAttempts
<1>1. op \in Rows => op.attempt \in 1..MaxAttempts
  BY DEF Rows
<1>2. NoRead.attempt = 0 /\ Denied.attempt = 0
  BY DEF NoRead, Denied
<1> QED BY <1>1, <1>2, AttemptsAssumption DEF Reads

LEMMA JoinedIs ==
  ASSUME TypeOK, Attempted, NEW c \in Clients, Arriving(c)
  PROVE  IsJoin(Joined(c), Rebuilt(c).state, streams[c].snapshot)
<1> DEFINE b == Rebuilt(c).state
           op == streams[c].snapshot
           j == Joined(c)
<1>1. Speaks(Rebuilt(c), op.attempt)
  BY RebuiltIs, RebuildSpeaks
<1>2. op.attempt \in 0..MaxAttempts
  BY TypesAre, ReadAttempt DEF Stream
<1>3. b \in BrokerState /\ b.listeners = broker.listeners /\ b.attempt \in {broker.attempt, op.attempt}
      /\ b.attempt \in Nat
  BY <1>1 DEF Speaks, BrokerState
<1> HIDE DEF b
<1>4. CASE closed \/ erased \/ (b # NoState /\ Superseded(b, op))
  <2>1. j = b
    BY <1>4 DEF Joined, b
  <2> HIDE DEF j
  <2>2. closed \/ erased \/ b # NoState \/ b = NoState
    OBVIOUS
  <2>3. IsJoin(j, b, op)
    BY <1>3, <1>4, <2>1 DEF IsJoin
  <2> QED BY <2>3 DEF j, b
<1>5. CASE ~ (closed \/ erased) /\ b = NoState
  <2>1. j = CreateState(op, FALSE)
    BY <1>5 DEF Joined, b
  <2>2. b.attempt = 0 /\ b.events = <<>> /\ b.next = 1 /\ b.listeners = {}
    BY <1>5 DEF NoState
  <2> HIDE DEF j
  <2>3. /\ j \in BrokerState /\ j.attempt = op.attempt /\ j.events = <<>> /\ j.next = 1
        /\ j.listeners = {} /\ \A n \in Nat : Numbered(j, n)
    BY <1>2, <2>1, CreateIs
  <2>4. IsJoin(j, b, op)
    <3>1. j.attempt \in {broker.attempt, op.attempt} /\ j.attempt >= b.attempt
      BY <1>2, <2>2, <2>3
    <3>2. j.listeners = broker.listeners /\ j.next = b.next /\ j.events = b.events
      BY <1>3, <2>2, <2>3
    <3> HIDE DEF op
    <3> QED BY <1>5, <2>1, <2>3, <3>1, <3>2 DEF IsJoin
  <2> QED BY <2>4 DEF j, b
<1>6. CASE ~ (closed \/ erased) /\ b # NoState /\ ~ Superseded(b, op)
  <2>1. j = SyncAttempt(b, op)
    BY <1>6 DEF Joined, b
  <2> HIDE DEF j
  <2>2. /\ j \in BrokerState
        /\ j.attempt = IF op.attempt > b.attempt THEN op.attempt ELSE b.attempt
        /\ op.attempt <= b.attempt => j = b
        /\ j.next = b.next /\ j.listeners = b.listeners /\ j.unknown = b.unknown
        /\ \A n \in Nat : Numbered(b, n) => Numbered(j, n)
    BY <1>2, <1>3, <2>1, SyncIs
  <2>3. op.attempt > b.attempt => j.events = <<>>
    BY <2>1, <1>3 DEF SyncAttempt, BrokerState
  <2>4. op.attempt > b.attempt \/ op.attempt <= b.attempt
    BY <1>2, <1>3
  <2>5. IsJoin(j, b, op)
    <3>1. j.attempt \in {broker.attempt, op.attempt} /\ j.attempt >= b.attempt
      BY <1>2, <1>3, <2>2
    <3>2. j.listeners = broker.listeners /\ j.next = b.next
      BY <1>3, <2>2
    <3>3. j.events = b.events \/ (j.events = <<>> /\ op.attempt > b.attempt)
      BY <2>2, <2>3, <2>4
    <3> HIDE DEF op
    <3> QED BY <1>6, <2>2, <3>1, <3>2, <3>3 DEF IsJoin
  <2> QED BY <2>5 DEF j, b
<1> QED BY <1>4, <1>5, <1>6

LEMMA HeardIs ==
  ASSUME TypeOK, NEW p, p.new \in Seq(Event)
  PROVE  /\ Heard(p) \in [Clients -> Stream]
         /\ \A c \in Clients :
              LET s == streams[c]
                  h == Heard(p)[c]
              IN  /\ h.phase = s.phase /\ h.snapshot = s.snapshot /\ h.check = s.check
                  /\ h.poll = s.poll
                  /\ h.queue = IF c \in p.state.listeners THEN s.queue \o p.new ELSE s.queue
<1>1. \A c \in Clients : streams[c] \in Stream
  BY TypesAre
<1>2. ASSUME NEW c \in Clients
      PROVE  LET s == streams[c]
                 h == Heard(p)[c]
             IN  /\ h \in Stream
                 /\ h.phase = s.phase /\ h.snapshot = s.snapshot /\ h.check = s.check
                 /\ h.poll = s.poll
                 /\ h.queue = IF c \in p.state.listeners THEN s.queue \o p.new ELSE s.queue
  <2> DEFINE s == streams[c]
  <2>1. s.queue \o p.new \in Seq(Event)
    BY <1>1, ConcatProperties DEF Stream
  <2>2. CASE c \in p.state.listeners
    <3>1. Heard(p)[c] = [s EXCEPT !.queue = @ \o p.new]
      BY <2>2 DEF Heard
    <3> QED BY <1>1, <2>1, <2>2, <3>1 DEF Stream
  <2>3. CASE c \notin p.state.listeners
    <3>1. Heard(p)[c] = s
      BY <2>3 DEF Heard
    <3> QED BY <1>1, <2>3, <3>1
  <2> QED BY <2>2, <2>3
<1>3. Heard(p) = [c \in Clients |-> Heard(p)[c]]
  BY DEF Heard
<1> QED BY <1>2, <1>3

(* What a subscriber is given: a tail of the history, and all that follows   *)
(* its last event if the history reaches back to it.                         *)
LEMMA AfterIs ==
  ASSUME NEW b \in BrokerState, NEW n \in Nat, Numbered(b, n), NEW last \in Nat
  PROVE  LET after == After(b, last)
         IN  /\ after \in Seq(Event) /\ IdsUpTo(after, n) /\ OfAttempt(after, b.attempt)
             /\ SeqsUpTo(after, b.next - 1)
             /\ /\ last \in (b.next - 1 - Len(b.events))..(b.next - 1)
                => Len(after) = b.next - 1 - last
<1> DEFINE events == b.events
           told == {i \in DOMAIN events : events[i].seq <= last}
           after == After(b, last)
<1>1. /\ events \in Seq(Event) /\ b.next - 1 \in Nat /\ Len(events) \in Nat
      /\ DOMAIN events = 1..Len(events)
  BY LenProperties DEF BrokerState
<1>2. Cardinality(told) \in 0..Len(events)
  <2>1. told \subseteq 1..Len(events)
    BY <1>1
  <2>2. IsFiniteSet(1..Len(events)) /\ Cardinality(1..Len(events)) = Len(events)
    BY <1>1, FS_Interval
  <2> HIDE DEF told
  <2>3. IsFiniteSet(told) /\ Cardinality(told) <= Len(events)
    BY <2>1, <2>2, FS_Subset
  <2> QED BY <1>1, <2>3, FS_CardinalityType
<1>3. after = SubSeq(events, Cardinality(told) + 1, Len(events))
  BY DEF After
<1>4. ASSUME last \in (b.next - 1 - Len(events))..(b.next - 1)
      PROVE  Cardinality(told) = last - (b.next - 1 - Len(events))
  <2> DEFINE k == last - (b.next - 1 - Len(events))
  <2>1. k \in 0..Len(events)
    BY <1>1, <1>4
  <2>2. \A i \in 1..Len(events) : events[i].seq = b.next - 1 - Len(events) + i
    BY DEF Numbered, SeqsUpTo
  <2>3. \A i \in 1..Len(events) : events[i].seq <= last <=> i <= k
    <3>1. \A i \in 1..Len(events) : b.next - 1 - Len(events) + i <= last <=> i <= k
      BY <1>1
    <3> QED BY <2>2, <3>1
  <2>4. told = 1..k
    BY <1>1, <2>1, <2>3
  <2> HIDE DEF told, k
  <2>5. Cardinality(1..k) = k
    BY <2>1, FS_Interval
  <2> QED BY <2>4, <2>5 DEF k
<1> HIDE DEF told, after
<1>5. /\ after \in Seq(Event) /\ Len(after) = Len(events) - (Cardinality(told) + 1) + 1
      /\ IdsUpTo(after, n) /\ SeqsUpTo(after, b.next - 1) /\ OfAttempt(after, b.attempt)
  <2>1. Cardinality(told) + 1 \in 1..Len(events) + 1
    BY <1>1, <1>2
  <2>2. SeqsUpTo(events, b.next - 1) /\ IdsUpTo(events, n) /\ OfAttempt(events, b.attempt)
    BY DEF Numbered
  <2> QED BY <1>1, <1>3, <2>1, <2>2, SuffixIs, SuffixUpTo
<1>6. last \in (b.next - 1 - Len(events))..(b.next - 1) => Len(after) = b.next - 1 - last
  <2> SUFFICES ASSUME last \in (b.next - 1 - Len(events))..(b.next - 1)
               PROVE  Len(after) = b.next - 1 - last
    OBVIOUS
  <2>1. Cardinality(told) = last - (b.next - 1 - Len(events))
    BY <1>4
  <2> QED BY <1>1, <1>5, <2>1
<1> QED BY <1>5, <1>6 DEF after

(* A queue whose first event is sent. *)
LEMMA TailUpTo ==
  ASSUME NEW queue \in Seq(Event), queue # <<>>, NEW n \in Nat, IdsUpTo(queue, n)
  PROVE  /\ Head(queue) \in Event /\ Head(queue) = queue[1]
         /\ Tail(queue) \in Seq(Event)
         /\ Len(queue) \in Nat \ {0} /\ Len(Tail(queue)) = Len(queue) - 1
         /\ IdsUpTo(Tail(queue), n)
         /\ Head(queue).id = n - Len(queue) + 1
<1>1. Len(queue) \in Nat \ {0}
  BY EmptySeq, LenProperties
<1>2. Head(queue) \in Event /\ Tail(queue) \in Seq(Event) /\ Tail(queue) = SubSeq(queue, 2, Len(queue))
  BY HeadTailProperties, TailIsSubSeq
<1>3. Head(queue) = queue[1]
  OBVIOUS
<1>4. 2 \in 1..Len(queue) + 1
  BY <1>1
<1>5. Len(Tail(queue)) = Len(queue) - 2 + 1 /\ IdsUpTo(Tail(queue), n)
  BY <1>2, <1>4, SuffixIs, SuffixUpTo
<1>6. queue[1].id = n - Len(queue) + 1
  BY <1>1 DEF IdsUpTo
<1> QED BY <1>1, <1>2, <1>3, <1>5, <1>6

-------------------------------------------------------------------------------
(* The inductive invariant, part by part: types, attempts never later than   *)
(* the row's, and histories and queues that end with the last event          *)
(* published.                                                                *)
BrokerInv(b, n, a) ==
  /\ b \in BrokerState
  /\ b.attempt = 0 => b = NoState
  /\ Numbered(b, n)
  /\ b.attempt <= a

StreamInv(s, n, a) ==
  /\ s \in Stream
  /\ s.phase = "reading" <=> s.snapshot # NoRead
  /\ s.phase # "open" => s.queue = <<>> /\ s.check = "none" /\ s.poll = NoRead
  /\ s.check # "none" => s.queue # <<>>
  /\ IdsUpTo(s.queue, n)
  /\ s.snapshot.attempt <= a /\ s.poll.attempt <= a

StreamsInv(ss, n, a) ==
  /\ ss \in [Clients -> Stream]
  /\ \A c \in Clients : StreamInv(ss[c], n, a)

ViewInv(v, n) == v \in View /\ v.id <= n /\ (v.last = 0 <=> v.id = 0)

ViewsInv(vs, n) ==
  /\ vs \in [Clients -> View]
  /\ \A c \in Clients : ViewInv(vs[c], n)

ServerInv ==
  /\ row \in Rows
  /\ deleted \in BOOLEAN /\ erasing \in BOOLEAN /\ closed \in BOOLEAN /\ erased \in BOOLEAN
  /\ sessions \subseteq Clients
  /\ ripe \in 0..MaxAttempts
  /\ executor \in [attempt : 0..MaxAttempts, begun : BOOLEAN]
  /\ executor.attempt <= row.attempt
  /\ finished \subseteq [op : Rows, text : BOOLEAN]
  /\ \A f \in finished : f.op.attempt <= row.attempt
  /\ cut \in [Clients -> Nat]
  /\ faults \in 0..MaxFaults
  /\ published \in Nat

FeedInv ==
  /\ ServerInv
  /\ BrokerInv(broker, published, row.attempt)
  /\ StreamsInv(streams, published, row.attempt)
  /\ ViewsInv(views, published)

LEMMA FeedTypes == FeedInv => TypeOK /\ Attempted
BY DEF FeedInv, ServerInv, BrokerInv, StreamsInv, ViewsInv, TypeOK, BrokerState, Stream, View, Attempted

LEMMA IdleInv == \A n, a \in Nat : StreamInv(Idle, n, a)
<1>1. Idle \in Stream
  BY EmptySeq DEF Idle, Stream, Reads
<1>2. Idle.queue = <<>> /\ Idle.phase = "idle" /\ Idle.snapshot = NoRead /\ Idle.poll = NoRead
      /\ Idle.check = "none" /\ NoRead.attempt = 0
  BY DEF Idle, NoRead
<1> QED BY <1>1, <1>2, NoneUpTo DEF StreamInv

LEMMA NoStateInv == \A n, a \in Nat : BrokerInv(NoState, n, a)
<1>1. NoState.attempt = 0
  BY DEF NoState
<1> QED BY <1>1, NoStateIs DEF BrokerInv

LEMMA MountedInv == \A n \in Nat : ViewInv(Mounted, n) /\ ViewInv(Unmounted, n)
BY AttemptsAssumption DEF ViewInv, View, Mounted, Unmounted

LEMMA OneStreamInv ==
  ASSUME NEW ss, NEW n, NEW a, StreamsInv(ss, n, a), NEW c \in Clients, NEW s, StreamInv(s, n, a)
  PROVE  StreamsInv([ss EXCEPT ![c] = s], n, a)
BY DEF StreamsInv, StreamInv

LEMMA OneViewInv ==
  ASSUME NEW vs, NEW n, ViewsInv(vs, n), NEW c \in Clients, NEW v, ViewInv(v, n)
  PROVE  ViewsInv([vs EXCEPT ![c] = v], n)
BY DEF ViewsInv, ViewInv

LEMMA LaterInv ==
  ASSUME NEW n \in Nat, NEW a \in Nat, NEW d \in Nat, a <= d
  PROVE  /\ \A b : BrokerInv(b, n, a) => BrokerInv(b, n, d)
         /\ \A ss : StreamsInv(ss, n, a) => StreamsInv(ss, n, d)
<1>1. \A b : BrokerInv(b, n, a) => BrokerInv(b, n, d)
  BY DEF BrokerInv, BrokerState
<1>2. ASSUME NEW s, StreamInv(s, n, a) PROVE StreamInv(s, n, d)
  <2>1. s.snapshot.attempt \in Nat /\ s.poll.attempt \in Nat
    BY <1>2, ReadAttempt DEF StreamInv, Stream
  <2> QED BY <1>2, <2>1 DEF StreamInv
<1> QED BY <1>1, <1>2 DEF StreamsInv

LEMMA IdledInv ==
  ASSUME NEW n \in Nat, NEW a \in Nat, StreamsInv(streams, n, a), NEW closing
  PROVE  StreamsInv(Idled(streams, closing), n, a)
BY IdleInv DEF StreamsInv, StreamInv, Idled

LEMMA EndedInv ==
  ASSUME NEW n \in Nat, ViewsInv(views, n), NEW closing
  PROVE  ViewsInv(Ended(closing), n)
<1>1. \A c \in Clients : views[c] \in View /\ ViewInv(views[c], n)
  BY DEF ViewsInv
<1>2. \A c \in Clients : ViewInv([views[c] EXCEPT !.phase = "refreshing"], n)
  BY <1>1 DEF ViewInv, View
<1>3. \A c \in Clients : ViewInv(Ended(closing)[c], n)
  BY <1>1, <1>2 DEF Ended
<1>4. \A c \in Clients : Ended(closing)[c] \in View
  BY <1>3 DEF ViewInv
<1> QED BY <1>3, <1>4 DEF ViewsInv, Ended

LEMMA PhaseInv ==
  ASSUME NEW n \in Nat, NEW v, ViewInv(v, n),
         NEW phase \in {"done", "connecting", "connected", "refreshing"}
  PROVE  ViewInv([v EXCEPT !.phase = phase], n)
BY DEF ViewInv, View

LEMMA UnsubscribedInv ==
  ASSUME NEW n \in Nat, NEW a \in Nat, NEW b, BrokerInv(b, n, a), NEW c
  PROVE  BrokerInv(Unsubscribed(b, c), n, a)
<1> DEFINE u == Unsubscribed(b, c)
<1>1. b \in BrokerState /\ Numbered(b, n)
  BY DEF BrokerInv
<1>2. /\ u \in BrokerState /\ Numbered(u, n)
      /\ u = NoState \/ (u.attempt = b.attempt /\ u.next = b.next)
  BY <1>1, UnsubscribedIs
<1>3. CASE u = NoState
  BY <1>3, NoStateInv
<1>4. CASE u # NoState
  <2>1. u.attempt = b.attempt
    BY <1>2, <1>4
  <2>2. b.attempt # 0
    <3>1. SUFFICES ASSUME b = NoState PROVE FALSE
      BY DEF BrokerInv
    <3> QED BY <1>4, <3>1, UnsubscribedNoState
  <2> HIDE DEF u
  <2>3. BrokerInv(u, n, a)
    BY <1>2, <2>1, <2>2 DEF BrokerInv
  <2> QED BY <2>3 DEF u
<1> QED BY <1>3, <1>4

LEMMA SpeaksInv ==
  ASSUME FeedInv, EventsInv, NEW p, NEW a \in Nat, Speaks(p, a), a <= row.attempt
  PROVE  /\ published + Len(p.new) \in Nat /\ published <= published + Len(p.new)
         /\ BrokerInv(p.state, published + Len(p.new), row.attempt)
         /\ StreamsInv(Heard(p), published + Len(p.new), row.attempt)
         /\ ViewsInv(views, published + Len(p.new))
<1> DEFINE m == published + Len(p.new)
<1>1. TypeOK /\ Attempted
  BY FeedTypes
<1>2. published \in Nat /\ Len(p.new) \in Nat /\ p.new \in Seq(Event)
  BY LenProperties DEF FeedInv, ServerInv, Speaks
<1>3. m \in Nat /\ published <= m
  BY <1>2
<1>4. BrokerInv(p.state, m, row.attempt)
  <2>1. Numbered(broker, published) /\ broker.attempt <= row.attempt
    BY DEF FeedInv, BrokerInv
  <2> HIDE DEF m
  <2>2. Numbered(p.state, m)
    BY <2>1 DEF Speaks, m
  <2> QED BY <1>1, <2>1, <2>2 DEF Speaks, BrokerInv
<1>5. StreamsInv(Heard(p), m, row.attempt)
  <2>1. Heard(p) \in [Clients -> Stream]
    BY <1>1, <1>2, HeardIs
  <2>2. ASSUME NEW c \in Clients PROVE StreamInv(Heard(p)[c], m, row.attempt)
    <3> DEFINE s == streams[c]
               h == Heard(p)[c]
    <3>1. /\ h \in Stream
          /\ h.phase = s.phase /\ h.snapshot = s.snapshot /\ h.check = s.check
          /\ h.poll = s.poll
          /\ h.queue = IF c \in p.state.listeners THEN s.queue \o p.new ELSE s.queue
      BY <1>1, <1>2, HeardIs, <2>1
    <3>2. StreamInv(s, published, row.attempt) /\ s.queue \in Seq(Event)
      BY DEF FeedInv, StreamsInv, StreamInv, Stream
    <3>3. c \in p.state.listeners <=> s.phase = "open"
      BY DEF Speaks, EventsInv, OpenStreamsAreHeard
    <3> HIDE DEF h, s, m
    <3>4. CASE s.phase = "open"
      <4>1. h.queue = s.queue \o p.new
        BY <3>1, <3>3, <3>4
      <4>2. IdsUpTo(h.queue, m)
        <5>1. IdsUpTo(s.queue, published) /\ IdsUpTo(p.new, published + Len(p.new))
          BY <3>2 DEF StreamInv, Speaks
        <5>2. IdsUpTo(s.queue \o p.new, published + Len(p.new))
          BY <1>2, <3>2, <5>1, JoinedUpTo
        <5> QED BY <4>1, <5>2 DEF m
      <4>3. s.queue # <<>> => h.queue # <<>>
        BY <1>2, <3>2, <4>1, ConcatEqualIffEmpty
      <4> QED BY <3>1, <3>2, <3>4, <4>2, <4>3 DEF StreamInv, h
    <3>5. CASE s.phase # "open"
      <4>1. h.queue = <<>>
        BY <3>1, <3>2, <3>3, <3>5 DEF StreamInv
      <4> QED BY <3>1, <3>2, <3>5, <4>1, NoneUpTo DEF StreamInv, h
    <3> QED BY <3>4, <3>5
  <2> QED BY <2>1, <2>2 DEF StreamsInv
<1>6. ViewsInv(views, m)
  <2>1. \A c \in Clients : views[c].id \in Nat
    BY DEF FeedInv, ViewsInv, View
  <2> HIDE DEF m
  <2> QED BY <1>2, <1>3, <2>1 DEF FeedInv, ViewsInv, ViewInv
<1> QED BY <1>3, <1>4, <1>5, <1>6

-------------------------------------------------------------------------------
LEMMA FeedInit == Init => FeedInv
<1> SUFFICES ASSUME Init PROVE FeedInv
  OBVIOUS
<1>1. ServerInv
  <2>1. row \in Rows /\ row.attempt = 1
    BY AttemptsAssumption DEF Init, Rows
  <2>2. executor \in [attempt : 0..MaxAttempts, begun : BOOLEAN] /\ executor.attempt = 1
    BY AttemptsAssumption DEF Init
  <2>3. ripe \in 0..MaxAttempts /\ faults \in 0..MaxFaults /\ finished = {} /\ sessions = Clients
        /\ published \in Nat /\ cut \in [Clients -> Nat]
    BY AttemptsAssumption, FaultsAssumption DEF Init
  <2>4. /\ deleted = FALSE /\ erasing = FALSE /\ closed = FALSE /\ erased = FALSE
    BY DEF Init
  <2>5. /\ finished \subseteq [op : Rows, text : BOOLEAN] /\ sessions \subseteq Clients
        /\ \A f \in finished : f.op.attempt <= row.attempt
        /\ executor.attempt <= row.attempt
    BY <2>1, <2>2, <2>3
  <2> QED BY <2>1, <2>2, <2>3, <2>4, <2>5 DEF ServerInv
<1>2. row.attempt \in Nat /\ published = 0
  BY DEF Init
<1>3. BrokerInv(broker, published, row.attempt)
  BY <1>2, NoStateInv DEF Init
<1>4. StreamsInv(streams, published, row.attempt)
  BY <1>2, IdleInv DEF Init, StreamsInv, StreamInv
<1>5. ViewsInv(views, published)
  BY <1>2, MountedInv DEF Init, ViewsInv, ViewInv
<1> QED BY <1>1, <1>3, <1>4, <1>5 DEF FeedInv

(* The row, the executor and the flags. *)
LEMMA ServerSteps ==
  ASSUME FeedInv, Next, published' \in Nat
  PROVE  ServerInv' /\ row'.attempt \in Nat /\ row.attempt <= row'.attempt
<1>0. /\ row \in Rows /\ row.attempt \in 1..MaxAttempts /\ row.attempt \in Nat
      /\ MaxAttempts \in Nat /\ MaxFaults \in Nat
  BY AttemptsAssumption, FaultsAssumption DEF FeedInv, ServerInv, Rows
<1> USE <1>0
<1>1. CASE Claim
  <2>1. /\ row' = [status |-> "processing", attempt |-> row.attempt + 1]
        /\ executor' = [attempt |-> row.attempt + 1, begun |-> FALSE]
        /\ row.attempt < MaxAttempts
        /\ UNCHANGED <<deleted, sessions, ripe, finished, erasing, closed, erased, cut, faults>>
    BY <1>1 DEF Claim, ghosts
  <2>2. row' \in Rows /\ row'.attempt = row.attempt + 1 /\ executor'.attempt = row.attempt + 1
        /\ executor' \in [attempt : 0..MaxAttempts, begun : BOOLEAN]
    BY <2>1 DEF Rows
  <2>3. \A f \in finished : f.op.attempt <= row'.attempt
    BY <2>2 DEF FeedInv, ServerInv, Rows
  <2> QED BY <2>1, <2>2, <2>3 DEF FeedInv, ServerInv
<1>2. CASE BeginAttempt
  <2>1. /\ executor' = [executor EXCEPT !.begun = TRUE]
        /\ UNCHANGED <<row, deleted, sessions, ripe, finished, erasing, closed, erased, cut, faults>>
    BY <1>2 DEF BeginAttempt, ghosts
  <2>2. executor' \in [attempt : 0..MaxAttempts, begun : BOOLEAN] /\ executor'.attempt = executor.attempt
    BY <2>1 DEF FeedInv, ServerInv
  <2> QED BY <2>1, <2>2 DEF FeedInv, ServerInv
<1>3. CASE Finalize
  <2>1. PICK status \in Settled : row' = [row EXCEPT !.status = status]
    BY <1>3 DEF Finalize
  <2>2. row' \in Rows /\ row'.attempt = row.attempt
    BY <2>1 DEF Rows
  <2>3. /\ finished' \subseteq finished \cup {[op |-> row', text |-> FALSE], [op |-> row', text |-> TRUE]}
        /\ UNCHANGED <<deleted, sessions, ripe, executor, erasing, closed, erased, cut, faults>>
    <3>1. \/ finished' = finished
          \/ finished' = finished \cup {[op |-> row', text |-> FALSE]}
          \/ finished' = finished \cup {[op |-> row', text |-> TRUE]}
      BY <1>3 DEF Finalize
    <3>2. UNCHANGED <<deleted, sessions, ripe, executor, erasing, closed, erased, cut, faults>>
      BY <1>3 DEF Finalize, ghosts
    <3> QED BY <3>1, <3>2
  <2>4. finished' \subseteq [op : Rows, text : BOOLEAN]
    <3>1. \A text \in BOOLEAN : [op |-> row', text |-> text] \in [op : Rows, text : BOOLEAN]
      BY <2>2
    <3>2. finished \subseteq [op : Rows, text : BOOLEAN]
      BY DEF FeedInv, ServerInv
    <3> QED BY <2>3, <3>1, <3>2
  <2>5. \A f \in finished' : f.op.attempt <= row'.attempt
    BY <2>2, <2>3 DEF FeedInv, ServerInv
  <2> QED BY <2>2, <2>3, <2>4, <2>5 DEF FeedInv, ServerInv
<1>4. CASE PublishCompletion
  <2>1. /\ finished' \subseteq finished
        /\ UNCHANGED <<row, deleted, sessions, ripe, executor, erasing, closed, erased, cut, faults>>
    BY <1>4 DEF PublishCompletion
  <2> QED BY <2>1 DEF FeedInv, ServerInv
<1>5. CASE GraceElapses
  <2>1. /\ ripe' = ripe + 1 /\ ripe < row.attempt
        /\ UNCHANGED <<row, deleted, sessions, executor, finished, erasing, closed, erased, cut, faults>>
    <3>1. ripe < (IF row.status \in Settled THEN row.attempt ELSE row.attempt - 1)
          /\ ripe \in 0..MaxAttempts
      BY <1>5 DEF GraceElapses, FeedInv, ServerInv
    <3>2. ripe < row.attempt
      BY <3>1
    <3> QED BY <1>5, <3>2 DEF GraceElapses, serverVars, ghosts
  <2>2. ripe' \in 0..MaxAttempts
    BY <2>1 DEF FeedInv, ServerInv
  <2> QED BY <2>1, <2>2 DEF FeedInv, ServerInv
<1>6. CASE Delete \/ \E c \in Clients : Revoke(c)
  <2>1. /\ UNCHANGED <<row, ripe, executor, finished, closed, erased, faults>>
        /\ deleted' \in BOOLEAN /\ erasing' \in BOOLEAN /\ sessions' \subseteq Clients
    BY <1>6 DEF Delete, Revoke, serverVars, FeedInv, ServerInv
  <2>2. cut' \in [Clients -> Nat]
    BY <1>6 DEF Delete, Revoke, FeedInv, ServerInv
  <2> QED BY <2>1, <2>2 DEF FeedInv, ServerInv
<1>7. CASE EraseInterview \/ TombstoneExpires \/ Close \/ \E c \in Clients : Expel(c)
  <2>1. /\ UNCHANGED <<row, deleted, sessions, ripe, executor, finished, cut, faults>>
        /\ erasing' \in BOOLEAN /\ closed' \in BOOLEAN /\ erased' \in BOOLEAN
    BY <1>7 DEF EraseInterview, TombstoneExpires, Close, Expel, ghosts, FeedInv, ServerInv
  <2> QED BY <2>1 DEF FeedInv, ServerInv
<1>8. CASE HistoryExpires \/ HistoryEvicted \/ Restart \/ \E c \in Clients : RefreshFails(c)
  <2>1. /\ UNCHANGED <<row, deleted, sessions, ripe, cut>>
        /\ finished' \subseteq finished
        /\ executor' = executor \/ executor' = [attempt |-> 0, begun |-> FALSE]
        /\ erasing' \in BOOLEAN /\ closed' \in BOOLEAN /\ erased' \in BOOLEAN
        /\ faults < MaxFaults /\ faults' = faults + 1
    BY <1>8 DEF HistoryExpires, HistoryEvicted, Restart, RefreshFails, Loses, ghosts, serverVars,
                FeedInv, ServerInv
  <2>2. faults' \in 0..MaxFaults
    BY <2>1 DEF FeedInv, ServerInv
  <2>3. executor' \in [attempt : 0..MaxAttempts, begun : BOOLEAN] /\ executor'.attempt <= row.attempt
    <3>1. CASE executor' = executor
      BY <3>1 DEF FeedInv, ServerInv
    <3>2. CASE executor' = [attempt |-> 0, begun |-> FALSE]
      <4>1. executor'.attempt = 0 /\ executor'.begun = FALSE
        BY <3>2
      <4>2. executor' \in [attempt : 0..MaxAttempts, begun : BOOLEAN]
        BY <3>2
      <4> QED BY <4>1, <4>2
    <3> QED BY <2>1, <3>1, <3>2
  <2> QED BY <2>1, <2>2, <2>3 DEF FeedInv, ServerInv
<1>9. ASSUME NEW c \in Clients,
             \/ Mount(c) \/ Open(c) \/ TurnedAway(c) \/ ReplayUnavailable(c) \/ NothingLeft(c)
             \/ Subscribe(c) \/ Check(c) \/ Send(c) \/ PollRead(c) \/ PollApply(c)
             \/ Disconnect(c) \/ Refresh(c)
      PROVE  ServerInv' /\ row' = row
  <2>1. UNCHANGED <<row, deleted, sessions, ripe, executor, finished, erasing, closed, erased, cut, faults>>
    BY <1>9 DEF Mount, Open, TurnedAway, ReplayUnavailable, NothingLeft, Subscribe, Check, Send,
                PollRead, PollApply, Disconnect, Refresh, serverVars, ghosts
  <2> QED BY <2>1 DEF FeedInv, ServerInv
<1> QED BY <1>1, <1>2, <1>3, <1>4, <1>5, <1>6, <1>7, <1>8, <1>9 DEF Next

-------------------------------------------------------------------------------
(* The broker, the streams and the views.                                  *)
PartsInv(b, ss, vs, n, a) ==
  /\ n \in Nat /\ a \in Nat
  /\ BrokerInv(b, n, a)
  /\ StreamsInv(ss, n, a)
  /\ ViewsInv(vs, n)

PartsNext == PartsInv(broker', streams', views', published', row.attempt)

LEMMA PartsNow == FeedInv => PartsInv(broker, streams, views, published, row.attempt)
BY AttemptsAssumption DEF FeedInv, ServerInv, PartsInv, Rows

LEMMA ReadIs ==
  ASSUME FeedInv, NEW c
  PROVE  Read(c) \in Reads /\ Read(c).attempt <= row.attempt /\ Read(c) # NoRead
<1>1. row \in Rows /\ row.attempt \in Nat /\ row # NoRead
  BY DEF FeedInv, ServerInv, Rows, NoRead, Settled
<1>2. Denied # NoRead /\ Denied.attempt = 0
  BY DEF Denied, NoRead
<1> QED BY <1>1, <1>2 DEF Read, Reads

LEMMA OperationParts ==
  ASSUME FeedInv, EventsInv,
         \/ Claim \/ Finalize \/ GraceElapses \/ Delete \/ TombstoneExpires
         \/ \E c \in Clients : Revoke(c)
         \/ BeginAttempt \/ PublishCompletion
  PROVE  PartsNext
<1>0. PartsInv(broker, streams, views, published, row.attempt) /\ TypeOK /\ Attempted
  BY PartsNow, FeedTypes
<1>1. CASE Claim \/ Finalize \/ GraceElapses \/ Delete \/ TombstoneExpires \/ \E c \in Clients : Revoke(c)
  <2>1. UNCHANGED <<broker, streams, views, published>>
    BY <1>1 DEF Claim, Finalize, GraceElapses, Delete, TombstoneExpires, Revoke, serverVars, ghosts
  <2> QED BY <1>0, <2>1 DEF PartsNext
<1>2. CASE BeginAttempt
  <2>1. UNCHANGED <<streams, views, published>>
    BY <1>2 DEF BeginAttempt, ghosts
  <2>2. CASE closed \/ broker = NoState \/ Superseded(broker, executor)
    <3>1. broker' = broker
      BY <1>2, <2>2 DEF BeginAttempt
    <3> QED BY <1>0, <2>1, <3>1 DEF PartsNext
  <2>3. CASE ~ (closed \/ broker = NoState \/ Superseded(broker, executor))
    <3>1. broker' = SyncAttempt(broker, executor)
      BY <1>2, <2>3 DEF BeginAttempt
    <3>2. /\ executor.attempt \in 0..MaxAttempts /\ executor.attempt <= row.attempt
          /\ broker \in BrokerState /\ broker.attempt # 0 /\ broker.attempt \in Nat
          /\ Numbered(broker, published) /\ broker.attempt <= row.attempt /\ published \in Nat
      BY <2>3, <1>0 DEF FeedInv, ServerInv, BrokerInv, BrokerState
    <3>3. /\ broker' \in BrokerState /\ Numbered(broker', published)
          /\ broker'.attempt = IF executor.attempt > broker.attempt THEN executor.attempt ELSE broker.attempt
      BY <3>1, <3>2, SyncIs
    <3>4. broker'.attempt # 0 /\ broker'.attempt <= row.attempt
      BY <3>2, <3>3
    <3>5. BrokerInv(broker', published, row.attempt)
      BY <3>3, <3>4 DEF BrokerInv
    <3> QED BY <1>0, <2>1, <3>5 DEF PartsNext, PartsInv
  <2> QED BY <2>2, <2>3
<1>3. CASE PublishCompletion
  <2>1. PICK f \in finished :
          /\ broker' = Publication(f.op, FALSE, f.text).state
          /\ streams' = Heard(Publication(f.op, FALSE, f.text))
          /\ published' = published + Len(Publication(f.op, FALSE, f.text).new)
    BY <1>3 DEF PublishCompletion
  <2>2. f.op \in Rows /\ f.text \in BOOLEAN /\ f.op.attempt <= row.attempt /\ f.op.attempt \in Nat
    BY DEF FeedInv, ServerInv, Rows
  <2> DEFINE p == Publication(f.op, FALSE, f.text)
  <2>3. Speaks(p, f.op.attempt)
    BY <1>0, <2>2, PublicationIs, PublicationSpeaks DEF Attempted
  <2>4. views' = views
    BY <1>3 DEF PublishCompletion
  <2> HIDE DEF p
  <2>5. /\ published + Len(p.new) \in Nat
        /\ BrokerInv(p.state, published + Len(p.new), row.attempt)
        /\ StreamsInv(Heard(p), published + Len(p.new), row.attempt)
        /\ ViewsInv(views, published + Len(p.new))
    BY <2>2, <2>3, SpeaksInv
  <2>6. broker' = p.state /\ streams' = Heard(p) /\ published' = published + Len(p.new)
    BY <2>1 DEF p
  <2> QED BY <1>0, <2>4, <2>5, <2>6 DEF PartsNext, PartsInv
<1> QED BY <1>1, <1>2, <1>3

LEMMA StreamParts ==
  ASSUME FeedInv, NEW c \in Clients,
         \/ Mount(c) \/ Refresh(c) \/ RefreshFails(c)
         \/ Open(c) \/ TurnedAway(c) \/ Check(c) \/ PollRead(c)
  PROVE  PartsNext
<1>0. PartsInv(broker, streams, views, published, row.attempt) /\ TypeOK /\ published \in Nat
      /\ row.attempt \in Nat
  BY PartsNow, FeedTypes DEF PartsInv
<1>1. UNCHANGED <<broker, published>>
  BY DEF Mount, Refresh, RefreshFails, Open, TurnedAway, Check, PollRead, serverVars, ghosts
<1>2. ViewInv(views[c], published) /\ StreamInv(streams[c], published, row.attempt)
      /\ streams = [streams EXCEPT ![c] = streams[c]] /\ views = [views EXCEPT ![c] = views[c]]
  BY <1>0 DEF PartsInv, ViewsInv, StreamsInv
<1>3. \A phase \in {"done", "connecting", "connected", "refreshing"} :
        ViewInv([views[c] EXCEPT !.phase = phase], published)
  BY <1>0, <1>2, PhaseInv
<1>4. PICK v : views' = [views EXCEPT ![c] = v] /\ ViewInv(v, published)
  <2>1. CASE Mount(c) \/ TurnedAway(c)
    BY <1>0, <2>1, MountedInv DEF Mount, TurnedAway
  <2>2. CASE Refresh(c)
    BY <1>0, <1>3, <2>2, MountedInv DEF Refresh
  <2>3. CASE RefreshFails(c) \/ Open(c)
    BY <1>3, <2>3 DEF RefreshFails, Open
  <2>4. CASE Check(c) \/ PollRead(c)
    BY <1>2, <2>4 DEF Check, PollRead
  <2> QED BY <2>1, <2>2, <2>3, <2>4
<1>5. PICK s : streams' = [streams EXCEPT ![c] = s] /\ StreamInv(s, published, row.attempt)
  <2>1. CASE Mount(c) \/ Refresh(c) \/ RefreshFails(c)
    BY <1>2, <2>1 DEF Mount, Refresh, RefreshFails, serverVars
  <2>2. CASE TurnedAway(c)
    BY <1>0, <2>2, IdleInv DEF TurnedAway
  <2>3. CASE Open(c)
    <3> DEFINE s == [Idle EXCEPT !.phase = "reading", !.snapshot = Read(c)]
    <3>1. Read(c) \in Reads /\ Read(c).attempt <= row.attempt /\ Read(c) # NoRead
      BY ReadIs
    <3>2. /\ s.phase = "reading" /\ s.snapshot = Read(c) /\ s.queue = <<>> /\ s.check = "none"
          /\ s.poll = NoRead
      BY DEF Idle
    <3>3. s \in Stream
      <4>1. Idle \in Stream
        BY <1>0, IdleInv DEF StreamInv
      <4> QED BY <3>1, <4>1 DEF Stream
    <3>4. NoRead.attempt <= row.attempt
      BY <1>0 DEF NoRead
    <3> HIDE DEF s
    <3>5. StreamInv(s, published, row.attempt)
      BY <3>1, <3>2, <3>3, <3>4, NoneUpTo DEF StreamInv
    <3> QED BY <2>3, <3>5 DEF Open, s
  <2>4. CASE Check(c)
    <3> DEFINE s == [streams[c] EXCEPT !.check = IF Accessible(c) THEN "passed" ELSE "denied"]
    <3>1. StreamInv(s, published, row.attempt)
      BY <1>2, <2>4 DEF Check, StreamInv, Stream
    <3> QED BY <2>4, <3>1 DEF Check
  <2>5. CASE PollRead(c)
    <3> DEFINE s == [streams[c] EXCEPT !.poll = Read(c)]
    <3>1. StreamInv(s, published, row.attempt)
      BY <1>2, <2>5, ReadIs DEF PollRead, StreamInv, Stream
    <3> QED BY <2>5, <3>1 DEF PollRead
  <2> QED BY <2>1, <2>2, <2>3, <2>4, <2>5
<1>6. StreamsInv(streams', published, row.attempt) /\ ViewsInv(views', published)
  BY <1>0, <1>4, <1>5, OneStreamInv, OneViewInv DEF PartsInv
<1> QED BY <1>0, <1>1, <1>6 DEF PartsNext, PartsInv

(* The state a request leaves, subscribed or not. *)
LEMMA JoinParts ==
  ASSUME FeedInv, EventsInv, NEW c \in Clients, Arriving(c)
  PROVE  LET p == Rebuilt(c)
             m == published + Len(p.new)
         IN  /\ m \in Nat /\ Len(p.new) \in Nat
             /\ StreamsInv(Heard(p), m, row.attempt)
             /\ ViewsInv(views, m)
             /\ BrokerInv(Joined(c), m, row.attempt)
             /\ broker = NoState /\ views[c].last > 0 => BrokerInv(broker, m, row.attempt)
<1> DEFINE p == Rebuilt(c)
           m == published + Len(p.new)
           op == streams[c].snapshot
           j == Joined(c)
<1>1. TypeOK /\ Attempted
  BY FeedTypes
<1>2. op \in Rows /\ op.attempt \in Nat \ {0} /\ op.attempt <= row.attempt
  <2>1. StreamInv(streams[c], published, row.attempt)
    BY DEF FeedInv, StreamsInv
  <2>2. op \in Rows
    BY <2>1 DEF StreamInv, Arriving, Stream, Reads
  <2> QED BY <2>1, <2>2 DEF StreamInv, Rows
<1>3. Speaks(p, op.attempt)
  BY <1>1, RebuiltIs, RebuildSpeaks
<1>4. /\ m \in Nat /\ BrokerInv(p.state, m, row.attempt)
      /\ StreamsInv(Heard(p), m, row.attempt) /\ ViewsInv(views, m)
  <2> HIDE DEF p
  <2> QED BY <1>2, <1>3, SpeaksInv
<1>5. IsJoin(j, p.state, op)
  BY <1>1, JoinedIs
<1>6. Len(p.new) \in Nat
  BY <1>3, LenProperties DEF Speaks
<1>7. BrokerInv(j, m, row.attempt)
  <2>1. broker.attempt <= row.attempt
    BY DEF FeedInv, BrokerInv
  <2> HIDE DEF j, p, op, m
  <2>2. j.attempt = 0 => j = NoState
    <3>1. CASE p.state # NoState
      <4>1. p.state.attempt # 0 /\ p.state.attempt \in Nat /\ j.attempt \in Nat
        BY <1>4, <1>5, <3>1 DEF BrokerInv, BrokerState, IsJoin
      <4> QED BY <1>5, <4>1 DEF IsJoin
    <3>2. CASE p.state = NoState /\ j # p.state
      <4>1. j = CreateState(op, FALSE)
        BY <1>5, <3>2 DEF IsJoin
      <4>2. j.attempt = op.attempt
        BY <4>1 DEF CreateState, NoState
      <4> QED BY <1>2, <4>2
    <3> QED BY <3>1, <3>2
  <2> QED BY <1>2, <1>4, <1>5, <2>1, <2>2 DEF BrokerInv, IsJoin
<1>8. broker = NoState => BrokerInv(broker, m, row.attempt)
  <2> HIDE DEF m
  <2>1. row.attempt \in Nat
    BY DEF FeedInv, ServerInv, Rows
  <2> QED BY <1>4, <2>1, NoStateInv
<1> QED BY <1>4, <1>6, <1>7, <1>8

LEMMA SubscribedInv ==
  ASSUME NEW b, NEW n \in Nat, NEW a \in Nat, BrokerInv(b, n, a), b.attempt # 0, NEW c \in Clients
  PROVE  BrokerInv([b EXCEPT !.listeners = @ \cup {c}], n, a)
<1> DEFINE w == [b EXCEPT !.listeners = @ \cup {c}]
<1>1. /\ w \in BrokerState /\ w.attempt = b.attempt /\ w.events = b.events /\ w.next = b.next
  BY DEF BrokerInv, BrokerState
<1> HIDE DEF w
<1>2. BrokerInv(w, n, a)
  BY <1>1 DEF BrokerInv, Numbered
<1> QED BY <1>2 DEF w

(* A subscription is accepted in a broker that has a state. *)
LEMMA AcceptedHasState ==
  ASSUME FeedInv, EventsInv, NEW c \in Clients, Arriving(c), ~ Refuses(c)
  PROVE  Joined(c).attempt # 0 /\ ~ closed /\ ~ erased
<1> DEFINE p == Rebuilt(c)
           op == streams[c].snapshot
           j == Joined(c)
<1>1. TypeOK /\ Attempted
  BY FeedTypes
<1>2. op \in Rows /\ op.attempt \in Nat \ {0}
  <2>1. StreamInv(streams[c], published, row.attempt)
    BY DEF FeedInv, StreamsInv
  <2>2. op \in Rows
    BY <2>1 DEF StreamInv, Arriving, Stream, Reads
  <2> QED BY <2>2 DEF Rows
<1>3. ~ closed /\ ~ erased
  <2>1. closed => broker = NoState
    BY DEF EventsInv
  <2>2. closed => Rebuilt(c).state = broker
    BY ClosedBrokerStays
  <2> QED BY <2>1, <2>2 DEF Refuses
<1>4. IsJoin(j, p.state, op)
  BY <1>1, JoinedIs
<1>5. BrokerInv(j, published + Len(p.new), row.attempt)
  BY JoinParts
<1>6. CASE p.state = NoState
  <2>1. j = CreateState(op, FALSE)
    BY <1>3, <1>6 DEF Joined
  <2> HIDE DEF j
  <2>2. j.attempt = op.attempt
    BY <2>1 DEF CreateState, NoState
  <2> QED BY <1>2, <1>3, <2>2 DEF j
<1>7. CASE p.state # NoState
  <2>1. Speaks(p, op.attempt)
    BY <1>1, RebuiltIs, RebuildSpeaks
  <2> HIDE DEF j, p
  <2>2. p.state.attempt # 0 /\ p.state.attempt \in Nat
    BY <1>1, <1>7, <2>1 DEF Speaks, BrokerState
  <2>3. j.attempt \in Nat /\ j.attempt >= p.state.attempt
    BY <1>4 DEF IsJoin, BrokerState
  <2> QED BY <1>3, <2>2, <2>3 DEF j
<1> QED BY <1>6, <1>7

LEMMA AnswerParts ==
  ASSUME FeedInv, EventsInv, NEW c \in Clients,
         ReplayUnavailable(c) \/ NothingLeft(c) \/ Subscribe(c)
  PROVE  PartsNext
<1> DEFINE p == Rebuilt(c)
           m == published + Len(p.new)
           j == Joined(c)
           w == [j EXCEPT !.listeners = @ \cup {c}]
           a == row.attempt
<1>0. Arriving(c) /\ a \in Nat
  BY DEF ReplayUnavailable, NothingLeft, Subscribe, FeedInv, ServerInv, Rows
<1>1. /\ m \in Nat /\ StreamsInv(Heard(p), m, a) /\ ViewsInv(views, m)
      /\ BrokerInv(j, m, a)
      /\ broker = NoState /\ views[c].last > 0 => BrokerInv(broker, m, a)
  BY <1>0, JoinParts
<1>2. published' = m
  BY DEF ReplayUnavailable, NothingLeft, Subscribe
<1>3. CASE ReplayUnavailable(c)
  <2> DEFINE v == [Mounted EXCEPT !.phase = "refreshing", !.attempt = views[c].attempt]
  <2>1. /\ broker' = IF broker = NoState /\ views[c].last > 0 THEN broker ELSE j
        /\ streams' = [Heard(p) EXCEPT ![c] = Idle]
        /\ views' = [views EXCEPT ![c] = v]
    BY <1>3 DEF ReplayUnavailable
  <2>2. ViewInv(v, m)
    <3>1. views[c].attempt \in 0..MaxAttempts
      BY DEF FeedInv, ViewsInv, View
    <3>2. v.last = 0 /\ v.id = 0 /\ v \in View
      BY <3>1 DEF Mounted, View
    <3> HIDE DEF v, m
    <3> QED BY <1>1, <3>2 DEF ViewInv
  <2> HIDE DEF p, m, j, v, w, a
  <2>3. BrokerInv(broker', m, a)
    BY <1>1, <2>1
  <2>4. StreamsInv(streams', m, a) /\ ViewsInv(views', m)
    BY <1>0, <1>1, <2>1, <2>2, OneStreamInv, OneViewInv, IdleInv
  <2> QED BY <1>0, <1>1, <1>2, <2>3, <2>4 DEF PartsNext, PartsInv, a
<1>4. CASE NothingLeft(c)
  <2> DEFINE v == [views[c] EXCEPT !.phase = "refreshing"]
  <2>1. /\ broker' = Unsubscribed(w, c)
        /\ streams' = [Heard(p) EXCEPT ![c] = Idle]
        /\ views' = [views EXCEPT ![c] = v]
    BY <1>4 DEF NothingLeft
  <2>2. ViewInv(v, m)
    BY <1>1, PhaseInv DEF ViewsInv
  <2>3. j.attempt # 0
    BY <1>0, <1>4, AcceptedHasState DEF NothingLeft
  <2> HIDE DEF p, m, j, v, a
  <2>4. BrokerInv(w, m, a)
    BY <1>0, <1>1, <2>3, SubscribedInv
  <2> HIDE DEF w
  <2>5. BrokerInv(broker', m, a)
    BY <1>0, <1>1, <2>1, <2>4, UnsubscribedInv
  <2>6. StreamsInv(streams', m, a) /\ ViewsInv(views', m)
    BY <1>0, <1>1, <2>1, <2>2, OneStreamInv, OneViewInv, IdleInv
  <2> QED BY <1>0, <1>1, <1>2, <2>5, <2>6 DEF PartsNext, PartsInv, a
<1>5. CASE Subscribe(c)
  <2> DEFINE s == [Idle EXCEPT !.phase = "open", !.queue = After(j, views[c].last)]
  <2>1. /\ broker' = w
        /\ streams' = [Heard(p) EXCEPT ![c] = s]
        /\ views' = views
    BY <1>5 DEF Subscribe
  <2>2. j.attempt # 0
    BY <1>0, <1>5, AcceptedHasState DEF Subscribe
  <2>3. views[c].last \in Nat
    BY <1>1 DEF ViewsInv, View
  <2>4. StreamInv(s, m, a)
    <3> DEFINE after == After(j, views[c].last)
    <3> HIDE DEF j, m
    <3>1. after \in Seq(Event) /\ IdsUpTo(after, m)
      BY <1>1, <2>3, AfterIs DEF BrokerInv
    <3> HIDE DEF after
    <3>2. Idle \in Stream
      BY EmptySeq DEF Idle, Stream, Reads
    <3>3. /\ s \in Stream /\ s.phase = "open" /\ s.snapshot = NoRead /\ s.poll = NoRead
          /\ s.check = "none" /\ s.queue = after
      <4>1. s = [Idle EXCEPT !.phase = "open", !.queue = after]
        BY DEF after
      <4> HIDE DEF s
      <4>2. s \in Stream
        BY <3>1, <3>2, <4>1 DEF Stream
      <4> QED BY <4>1, <4>2 DEF Idle
    <3>4. NoRead.attempt <= a
      BY <1>0 DEF NoRead
    <3> HIDE DEF s, a
    <3> QED BY <3>1, <3>3, <3>4 DEF StreamInv
  <2> HIDE DEF p, m, j, s, a
  <2>5. BrokerInv(w, m, a)
    BY <1>0, <1>1, <2>2, SubscribedInv
  <2>6. StreamsInv(streams', m, a) /\ ViewsInv(views', m)
    BY <1>1, <2>1, <2>4, OneStreamInv
  <2> QED BY <1>0, <1>1, <1>2, <2>1, <2>5, <2>6 DEF PartsNext, PartsInv, a
<1> QED BY <1>3, <1>4, <1>5

LEMMA SendParts ==
  ASSUME FeedInv, NEW c \in Clients, Send(c)
  PROVE  PartsNext
<1> DEFINE event == Head(streams[c].queue)
           v == [phase |-> IF event.terminal THEN "refreshing" ELSE "connected",
                 last |-> event.seq, id |-> event.id, attempt |-> event.attempt]
           q == streams[c].queue
           s == [streams[c] EXCEPT !.queue = Tail(@), !.check = "none"]
           a == row.attempt
<1>0. PartsInv(broker, streams, views, published, a) /\ published \in Nat /\ a \in Nat
  BY PartsNow DEF PartsInv
<1>1. /\ StreamInv(streams[c], published, a)
      /\ streams[c].check = "passed" /\ streams[c].phase = "open"
  BY DEF Send, FeedInv, StreamsInv
<1>2. q \in Seq(Event) /\ q # <<>> /\ IdsUpTo(q, published)
  BY <1>1 DEF StreamInv, Stream
<1>3. /\ event \in Event /\ Tail(q) \in Seq(Event) /\ IdsUpTo(Tail(q), published)
      /\ Len(q) \in Nat \ {0} /\ event.id = published - Len(q) + 1
  BY <1>0, <1>2, TailUpTo
<1>4. /\ views' = [views EXCEPT ![c] = v] /\ published' = published
      /\ broker' = broker \/ broker' = Unsubscribed(broker, c)
      /\ streams' = [streams EXCEPT ![c] = Idle] \/ streams' = [streams EXCEPT ![c] = s]
  BY DEF Send, ghosts
<1>5. ViewInv(v, published)
  <2> HIDE DEF event, q
  <2>1. event.id \in Nat \ {0} /\ event.seq \in Nat \ {0} /\ event.attempt \in 0..MaxAttempts
    <3>1. event \in Event
      BY <1>3
    <3> QED BY <3>1, AttemptsAssumption DEF Event
  <2>2. event.id <= published
    <3>1. Len(q) \in Nat \ {0} /\ event.id = published - Len(q) + 1 /\ published \in Nat
      BY <1>0, <1>3
    <3> QED BY <3>1
  <2> QED BY <2>1, <2>2 DEF ViewInv, View
<1>6. StreamInv(s, published, a)
  <2> HIDE DEF a
  <2>1. /\ s \in Stream /\ s.phase = "open" /\ s.queue = Tail(q) /\ s.check = "none"
        /\ s.snapshot = streams[c].snapshot /\ s.poll = streams[c].poll
    BY <1>1, <1>3 DEF StreamInv, Stream
  <2> HIDE DEF s
  <2> QED BY <1>1, <1>3, <2>1 DEF StreamInv
<1> HIDE DEF v, s, a
<1>7. BrokerInv(broker', published, a)
  BY <1>0, <1>4, UnsubscribedInv DEF PartsInv
<1>8. StreamsInv(streams', published, a) /\ ViewsInv(views', published)
  <2>1. StreamsInv(streams, published, a) /\ ViewsInv(views, published)
        /\ published \in Nat /\ a \in Nat
    BY <1>0 DEF PartsInv
  <2>2. ViewsInv(views', published)
    BY <1>4, <1>5, <2>1, OneViewInv
  <2>3. StreamInv(Idle, published, a)
    BY <2>1, IdleInv
  <2>4. \A t : StreamInv(t, published, a) => StreamsInv([streams EXCEPT ![c] = t], published, a)
    BY <2>1, OneStreamInv
  <2>5. StreamsInv(streams', published, a)
    BY <1>4, <1>6, <2>3, <2>4
  <2> QED BY <2>2, <2>5
<1> QED BY <1>0, <1>4, <1>7, <1>8 DEF PartsNext, PartsInv, a

LEMMA PollParts ==
  ASSUME FeedInv, EventsInv, NEW c \in Clients, PollApply(c)
  PROVE  PartsNext
<1> DEFINE op == streams[c].poll
           asIs == [state |-> broker, new |-> <<>>]
           p == IF Ready(op) THEN Publication(op, broker = NoState, FALSE) ELSE asIs
           m == published + Len(p.new)
           a == row.attempt
<1>0. PartsInv(broker, streams, views, published, a) /\ a \in Nat /\ TypeOK /\ Attempted
  BY PartsNow, FeedTypes DEF PartsInv
<1>1. /\ broker' = p.state /\ streams' = [Heard(p) EXCEPT ![c].poll = NoRead]
      /\ published' = m /\ views' = views /\ streams[c].phase = "open"
  BY DEF PollApply
<1>2. op \in Reads /\ op.attempt \in Nat /\ op.attempt <= a
  <2>1. StreamInv(streams[c], published, a)
    BY <1>0 DEF PartsInv, StreamsInv
  <2>2. op \in Reads
    BY <2>1 DEF StreamInv, Stream
  <2> QED BY <2>1, <2>2, ReadAttempt DEF StreamInv
<1>3. Speaks(p, op.attempt)
  <2>1. AsIs(p) \/ IsRebuild(p, op)
    BY <1>0, <1>2, RebuildIs DEF AsIs
  <2> HIDE DEF p
  <2> QED BY <1>0, <2>1, RebuildSpeaks
<1> HIDE DEF p
<1>4. /\ m \in Nat /\ BrokerInv(p.state, m, a)
      /\ StreamsInv(Heard(p), m, a) /\ ViewsInv(views, m)
  BY <1>2, <1>3, SpeaksInv
<1> DEFINE t == [Heard(p)[c] EXCEPT !.poll = NoRead]
<1>5. StreamInv(t, m, a)
  <2> HIDE DEF m, a
  <2>1. StreamInv(Heard(p)[c], m, a)
    BY <1>4 DEF StreamsInv
  <2>2. NoRead \in Reads /\ NoRead.attempt <= a
    BY <1>0 DEF Reads, NoRead
  <2> DEFINE h == Heard(p)[c]
  <2> HIDE DEF h
  <2>3. LET u == [h EXCEPT !.poll = NoRead]
        IN StreamInv(h, m, a) => StreamInv(u, m, a)
    BY <2>2 DEF StreamInv, Stream
  <2> QED BY <2>1, <2>3 DEF h
<1>6. streams' = [Heard(p) EXCEPT ![c] = t]
  BY <1>1
<1> HIDE DEF t, m
<1>7. StreamsInv(streams', m, a)
  BY <1>4, <1>5, <1>6, OneStreamInv
<1> QED BY <1>0, <1>1, <1>4, <1>7 DEF PartsNext, PartsInv

LEMMA LossParts ==
  ASSUME FeedInv,
         \/ EraseInterview \/ HistoryExpires \/ HistoryEvicted \/ Close \/ Restart
         \/ \E c \in Clients : Expel(c) \/ Disconnect(c)
  PROVE  PartsNext
<1> DEFINE a == row.attempt
<1>0. PartsInv(broker, streams, views, published, a) /\ a \in Nat /\ published \in Nat
  BY PartsNow DEF PartsInv
<1>1. published' = published
  BY DEF EraseInterview, HistoryExpires, HistoryEvicted, Close, Restart, Expel, Disconnect, ghosts
<1>2. BrokerInv(NoState, published, a)
  BY <1>0, NoStateInv
<1>3. CASE HistoryExpires \/ HistoryEvicted
  <2>1. UNCHANGED <<streams, views>>
    BY <1>3 DEF HistoryExpires, HistoryEvicted
  <2>2. broker' = NoState \/ broker' = [broker EXCEPT !.events = <<>>]
    BY <1>3 DEF HistoryExpires, HistoryEvicted
  <2>3. broker.events # <<>> => BrokerInv([broker EXCEPT !.events = <<>>], published, a)
    <3> SUFFICES ASSUME broker.events # <<>>
                 PROVE  BrokerInv([broker EXCEPT !.events = <<>>], published, a)
      OBVIOUS
    <3> DEFINE b == [broker EXCEPT !.events = <<>>]
    <3>1. broker # NoState /\ BrokerInv(broker, published, a)
      BY <1>0 DEF NoState, PartsInv
    <3>2. b \in BrokerState /\ b.attempt = broker.attempt /\ b.events = <<>>
      BY <3>1, EmptySeq DEF BrokerInv, BrokerState
    <3> HIDE DEF b
    <3>3. BrokerInv(b, published, a)
      BY <3>1, <3>2, NoneUpTo DEF BrokerInv, Numbered
    <3> QED BY <3>3 DEF b
  <2>4. broker.events # <<>>
    BY <1>3 DEF HistoryExpires, HistoryEvicted
  <2> QED BY <1>0, <1>1, <1>2, <2>1, <2>2, <2>3, <2>4 DEF PartsNext, PartsInv
<1>4. CASE Close \/ Restart
  <2>1. /\ broker' = NoState /\ streams' = [c \in Clients |-> Idle] /\ views' = Ended(Clients)
    BY <1>4 DEF Close, Restart
  <2>2. StreamsInv(streams', published, a)
    BY <1>0, <2>1, IdleInv DEF StreamsInv, StreamInv
  <2>3. ViewsInv(views', published)
    BY <1>0, <2>1, EndedInv DEF PartsInv
  <2> QED BY <1>0, <1>1, <1>2, <2>1, <2>2, <2>3 DEF PartsNext, PartsInv
<1>5. ASSUME NEW closing, NEW b, BrokerInv(b, published, a),
             broker' = b, streams' = Idled(streams, closing), views' = Ended(closing)
      PROVE  PartsNext
  <2>1. StreamsInv(streams', published, a) /\ ViewsInv(views', published)
    BY <1>0, <1>5, IdledInv, EndedInv DEF PartsInv
  <2> QED BY <1>0, <1>1, <1>5, <2>1 DEF PartsNext, PartsInv
<1>6. CASE EraseInterview
  BY <1>2, <1>5, <1>6 DEF EraseInterview, Erasure
<1>7. ASSUME NEW c \in Clients, Expel(c)
      PROVE  PartsNext
  <2>1. CASE c \in sessions
    <3>1. broker' = Unsubscribed(NoState, c) /\ streams' = Idled(streams, broker.listeners \cup {c})
          /\ views' = Ended(broker.listeners \cup {c})
      BY <1>7, <2>1 DEF Expel, Erasure
    <3> QED BY <1>2, <1>5, <3>1, UnsubscribedNoState
  <2>2. CASE c \notin sessions
    <3>1. broker' = Unsubscribed(broker, c) /\ streams' = Idled(streams, {} \cup {c})
          /\ views' = Ended({} \cup {c})
      BY <1>7, <2>2 DEF Expel
    <3>2. BrokerInv(Unsubscribed(broker, c), published, a)
      BY <1>0, UnsubscribedInv DEF PartsInv
    <3> QED BY <1>5, <3>1, <3>2
  <2> QED BY <2>1, <2>2
<1>8. ASSUME NEW c \in Clients, Disconnect(c)
      PROVE  PartsNext
  <2>1. PICK v : /\ v \in {Unmounted, [views[c] EXCEPT !.phase = "refreshing"]}
                 /\ views' = [views EXCEPT ![c] = v]
    BY <1>8 DEF Disconnect
  <2>2. streams' = [streams EXCEPT ![c] = Idle] /\ broker' = Unsubscribed(broker, c)
    BY <1>8 DEF Disconnect
  <2>3. ViewInv(v, published)
    BY <1>0, <2>1, MountedInv, PhaseInv DEF PartsInv, ViewsInv
  <2>4. BrokerInv(broker', published, a)
    BY <1>0, <2>2, UnsubscribedInv DEF PartsInv
  <2>5. StreamsInv(streams', published, a) /\ ViewsInv(views', published)
    BY <1>0, <2>1, <2>2, <2>3, OneStreamInv, OneViewInv, IdleInv DEF PartsInv
  <2> QED BY <1>0, <1>1, <2>4, <2>5 DEF PartsNext, PartsInv
<1> QED BY <1>3, <1>4, <1>6, <1>7, <1>8

LEMMA FeedNext == FeedInv /\ EventsInv /\ [Next]_vars => FeedInv'
<1> SUFFICES ASSUME FeedInv, EventsInv, [Next]_vars PROVE FeedInv'
  OBVIOUS
<1>1. CASE UNCHANGED vars
  BY <1>1 DEF vars, serverVars, ghosts, FeedInv, ServerInv
<1>2. CASE Next
  <2>1. PartsNext
    BY <1>2, OperationParts, StreamParts, AnswerParts, SendParts, PollParts, LossParts DEF Next
  <2>2. ServerInv' /\ row'.attempt \in Nat /\ row.attempt <= row'.attempt
    BY <1>2, <2>1, ServerSteps DEF PartsNext, PartsInv
  <2>3. /\ BrokerInv(broker', published', row'.attempt)
        /\ StreamsInv(streams', published', row'.attempt)
        /\ ViewsInv(views', published')
    BY <2>1, <2>2, LaterInv DEF PartsNext, PartsInv
  <2> QED BY <2>2, <2>3 DEF FeedInv
<1> QED BY <1>1, <1>2

LEMMA FeedInvariant == Spec => []FeedInv
<1> QED BY FeedInit, FeedNext, EventsInvariant, PTL DEF Spec

(* Types of the state. *)
THEOREM TypeCorrect == Spec => []TypeOK
<1> QED BY FeedTypes, FeedInvariant, PTL

(* The history is of one attempt, never later than the row's, whatever the    *)
(* order of claims, late publications, polls of old rows and lost histories.  *)
THEOREM HistoryOfOneAttempt == Spec => []OneAttemptPerHistory
<1>1. FeedInv => OneAttemptPerHistory
  <2> SUFFICES ASSUME FeedInv PROVE OneAttemptPerHistory
    OBVIOUS
  <2>1. DOMAIN broker.events = 1..Len(broker.events) /\ broker.attempt <= row.attempt
    BY LenProperties DEF FeedInv, BrokerInv, BrokerState
  <2> QED BY <2>1 DEF FeedInv, BrokerInv, Numbered, OfAttempt, OneAttemptPerHistory
<1> QED BY <1>1, FeedInvariant, PTL

-------------------------------------------------------------------------------
(* Access.  An event that was checked for a client and not yet sent is the   *)
(* first of its queue, and what is first in a queue stays first.              *)

Checked(c) ==
  streams[c].check = "passed" /\ ~ Accessible(c) => streams[c].queue[1].id <= cut[c]

AccessInv == \A c \in Clients : Checked(c)

(* A stream's step that neither reads the row nor checks the access. *)
Keeps(s, t) ==
  /\ t.check = "passed" => s.check = "passed" /\ t.queue[1] = s.queue[1]
  /\ t.check = "denied" => s.check = "denied"
  /\ t.snapshot \in {s.snapshot, NoRead}
  /\ t.poll \in {s.poll, NoRead}

LEMMA HeadOfJoined ==
  ASSUME NEW queue \in Seq(Event), queue # <<>>, NEW new \in Seq(Event)
  PROVE  (queue \o new)[1] = queue[1]
<1>1. Len(queue) \in Nat \ {0} /\ Len(new) \in Nat
  BY EmptySeq, LenProperties
<1>2. 1 \in 1..Len(queue) + Len(new) /\ 1 <= Len(queue)
  BY <1>1
<1>3. (queue \o new)[1] = IF 1 <= Len(queue) THEN queue[1] ELSE new[1 - Len(queue)]
  BY <1>2, ConcatProperties
<1> QED BY <1>2, <1>3

LEMMA HeardKeeps ==
  ASSUME FeedInv, NEW p, p.new \in Seq(Event)
  PROVE  \A c \in Clients : Keeps(streams[c], Heard(p)[c])
<1> SUFFICES ASSUME NEW c \in Clients PROVE Keeps(streams[c], Heard(p)[c])
  OBVIOUS
<1> DEFINE s == streams[c]
           h == Heard(p)[c]
<1>1. /\ h.check = s.check /\ h.snapshot = s.snapshot /\ h.poll = s.poll
      /\ h.queue = IF c \in p.state.listeners THEN s.queue \o p.new ELSE s.queue
  BY FeedTypes, HeardIs
<1>2. s.queue \in Seq(Event) /\ (s.check # "none" => s.queue # <<>>)
  BY DEF FeedInv, StreamsInv, StreamInv, Stream
<1> HIDE DEF s, h
<1>3. s.queue # <<>> => (s.queue \o p.new)[1] = s.queue[1]
  BY <1>2, HeadOfJoined
<1>4. Keeps(s, h)
  BY <1>1, <1>2, <1>3 DEF Keeps
<1> QED BY <1>4 DEF s, h

LEMMA OneStreamKeeps ==
  ASSUME NEW ss, ss \in [Clients -> Stream], NEW c \in Clients, NEW t, Keeps(streams[c], t),
         \A d \in Clients : Keeps(streams[d], ss[d])
  PROVE  \A d \in Clients : Keeps(streams[d], [ss EXCEPT ![c] = t][d])
OBVIOUS

LEMMA StreamsKeep ==
  ASSUME FeedInv, EventsInv, Next, NEW d \in Clients, ~ Check(d), ~ Open(d), ~ PollRead(d)
  PROVE  Keeps(streams[d], streams'[d])
<1>0. /\ TypeOK /\ Attempted /\ streams \in [Clients -> Stream]
      /\ \A c \in Clients : Keeps(streams[c], streams[c])
  BY FeedTypes DEF FeedInv, StreamsInv, Keeps
<1>1. \A s : Keeps(s, Idle)
  BY DEF Keeps, Idle
<1>2. CASE streams' = streams
  BY <1>0, <1>2
<1>3. CASE PublishCompletion
  <2>1. PICK f \in finished : streams' = Heard(Publication(f.op, FALSE, f.text))
    BY <1>3 DEF PublishCompletion
  <2>2. f.op \in Rows /\ f.text \in BOOLEAN
    BY DEF FeedInv, ServerInv
  <2>3. Publication(f.op, FALSE, f.text).new \in Seq(Event)
    BY <1>0, <2>2, PublicationIs DEF IsPublication, Attempted
  <2> QED BY <2>1, <2>3, HeardKeeps
<1>4. CASE EraseInterview \/ Close \/ Restart \/ \E c \in Clients : Expel(c)
  <2>1. streams'[d] = Idle \/ streams'[d] = streams[d]
    BY <1>4 DEF EraseInterview, Close, Restart, Expel, Idled
  <2> QED BY <1>0, <1>1, <2>1
<1>5. ASSUME NEW c \in Clients,
             ReplayUnavailable(c) \/ NothingLeft(c) \/ Subscribe(c) \/ PollApply(c)
      PROVE  Keeps(streams[d], streams'[d])
  <2>1. PICK p, t : /\ p.new \in Seq(Event) /\ streams' = [Heard(p) EXCEPT ![c] = t]
                    /\ Keeps(streams[c], t)
    <3>1. CASE PollApply(c)
      <4> DEFINE op == streams[c].poll
                 asIs == [state |-> broker, new |-> <<>>]
                 p == IF Ready(op) THEN Publication(op, broker = NoState, FALSE) ELSE asIs
                 t == [Heard(p)[c] EXCEPT !.poll = NoRead]
      <4>1. streams' = [Heard(p) EXCEPT ![c] = t]
        BY <3>1 DEF PollApply
      <4>2. op \in Reads
        BY <1>0 DEF Stream
      <4>3. AsIs(p) \/ IsRebuild(p, op)
        BY <1>0, <4>2, RebuildIs DEF AsIs
      <4> HIDE DEF p
      <4>4. p.new \in Seq(Event)
        BY <1>0, <4>3, RebuildSpeaks DEF Speaks
      <4>5. Keeps(streams[c], Heard(p)[c]) /\ Heard(p)[c] \in Stream
        BY <1>0, <4>4, HeardKeeps, HeardIs
      <4> DEFINE h == Heard(p)[c]
      <4>6. /\ t.check = h.check /\ t.queue = h.queue /\ t.snapshot = h.snapshot
            /\ t.poll = NoRead
        BY <4>5 DEF Stream, h
      <4> HIDE DEF t
      <4>7. Keeps(streams[c], t)
        BY <4>5, <4>6 DEF Keeps, h
      <4> QED BY <4>1, <4>4, <4>7
    <3>2. CASE ReplayUnavailable(c) \/ NothingLeft(c) \/ Subscribe(c)
      <4> DEFINE s == [Idle EXCEPT !.phase = "open", !.queue = After(Joined(c), views[c].last)]
      <4>1. Rebuilt(c).new \in Seq(Event)
        BY <1>0, RebuiltIs, RebuildSpeaks DEF Speaks
      <4>2. Keeps(streams[c], s)
        BY DEF Keeps, Idle
      <4>3. \/ streams' = [Heard(Rebuilt(c)) EXCEPT ![c] = Idle]
            \/ streams' = [Heard(Rebuilt(c)) EXCEPT ![c] = s]
        BY <3>2 DEF ReplayUnavailable, NothingLeft, Subscribe
      <4> HIDE DEF s
      <4> QED BY <1>1, <4>1, <4>2, <4>3
    <3> QED BY <1>5, <3>1, <3>2
  <2>2. Heard(p) \in [Clients -> Stream] /\ \A e \in Clients : Keeps(streams[e], Heard(p)[e])
    BY <1>0, <2>1, HeardIs, HeardKeeps
  <2> QED BY <2>1, <2>2, OneStreamKeeps
<1>6. ASSUME NEW c \in Clients,
             \/ Open(c) \/ TurnedAway(c) \/ Send(c) \/ PollRead(c) \/ Disconnect(c) \/ Check(c)
      PROVE  Keeps(streams[d], streams'[d])
  <2>1. CASE c # d
    <3>1. streams'[d] = streams[d]
      BY <1>0, <1>6, <2>1 DEF Open, TurnedAway, Send, PollRead, Disconnect, Check
    <3> QED BY <1>0, <3>1
  <2>2. CASE c = d
    <3>1. CASE TurnedAway(c) \/ Disconnect(c)
      BY <1>0, <1>1, <2>2, <3>1 DEF TurnedAway, Disconnect
    <3>2. CASE Send(c)
      <4>1. streams'[c] = Idle \/ streams'[c] = [streams[c] EXCEPT !.queue = Tail(@), !.check = "none"]
        BY <1>0, <3>2 DEF Send
      <4>2. streams[c] \in Stream
        BY <1>0
      <4> DEFINE t == [streams[c] EXCEPT !.queue = Tail(@), !.check = "none"]
      <4>3. t.check = "none" /\ t.snapshot = streams[c].snapshot /\ t.poll = streams[c].poll
        BY <4>2 DEF Stream
      <4> HIDE DEF t
      <4>4. Keeps(streams[c], t)
        BY <4>3 DEF Keeps
      <4> QED BY <1>1, <2>2, <4>1, <4>4 DEF t
    <3> QED BY <1>6, <2>2, <3>1, <3>2
  <2> QED BY <2>1, <2>2
<1>7. Next => \/ streams' = streams
              \/ PublishCompletion \/ EraseInterview \/ Close \/ Restart
              \/ \E c \in Clients :
                   \/ Expel(c) \/ ReplayUnavailable(c) \/ NothingLeft(c) \/ Subscribe(c)
                   \/ PollApply(c) \/ Open(c) \/ TurnedAway(c) \/ Send(c) \/ PollRead(c)
                   \/ Disconnect(c) \/ Check(c)
  BY DEF Next, Claim, BeginAttempt, Finalize, GraceElapses, Delete, HistoryExpires, HistoryEvicted,
         TombstoneExpires, Mount, Refresh, RefreshFails, Revoke, serverVars
<1> QED BY <1>2, <1>3, <1>4, <1>5, <1>6, <1>7

(* Access that has ended does not come back. *)
LEMMA AccessEnds ==
  ASSUME FeedInv, Next, NEW d \in Clients
  PROVE  \/ Accessible(d)' = Accessible(d) /\ cut'[d] = cut[d]
         \/ streams' = streams /\ ~ Accessible(d)' /\ ~ Accessible(d) /\ cut'[d] = cut[d]
         \/ streams' = streams /\ ~ Accessible(d)' /\ cut'[d] = published
<1>0. cut \in [Clients -> Nat]
  BY DEF FeedInv, ServerInv
<1>1. CASE Delete
  BY <1>0, <1>1 DEF Delete, Accessible
<1>2. ASSUME NEW c \in Clients, Revoke(c)
      PROVE  \/ Accessible(d)' = Accessible(d) /\ cut'[d] = cut[d]
             \/ streams' = streams /\ ~ Accessible(d)' /\ ~ Accessible(d) /\ cut'[d] = cut[d]
             \/ streams' = streams /\ ~ Accessible(d)' /\ cut'[d] = published
  <2>1. CASE c # d
    BY <1>0, <1>2, <2>1 DEF Revoke, Accessible, serverVars
  <2>2. CASE c = d
    BY <1>0, <1>2, <2>2 DEF Revoke, Accessible, serverVars
  <2> QED BY <2>1, <2>2
<1>3. CASE ~ Delete /\ \A c \in Clients : ~ Revoke(c)
  <2>1. deleted' = deleted /\ sessions' = sessions /\ cut' = cut
    BY <1>3 DEF Next, Claim, BeginAttempt, Finalize, PublishCompletion, GraceElapses, EraseInterview,
                HistoryExpires, HistoryEvicted, TombstoneExpires, Close, Restart, Mount, Open,
                TurnedAway, ReplayUnavailable, NothingLeft, Subscribe, Check, Send, PollRead,
                PollApply, Expel, Disconnect, Refresh, RefreshFails, serverVars, ghosts
  <2> QED BY <2>1 DEF Accessible
<1> QED BY <1>1, <1>2, <1>3

LEMMA AccessNext == FeedInv /\ EventsInv /\ AccessInv /\ [Next]_vars => AccessInv'
<1> SUFFICES ASSUME FeedInv, EventsInv, AccessInv, [Next]_vars PROVE AccessInv'
  OBVIOUS
<1>1. CASE UNCHANGED vars
  BY <1>1 DEF vars, serverVars, ghosts, AccessInv, Checked, Accessible
<1>2. CASE Next
  <2>1. SUFFICES ASSUME NEW d \in Clients, streams'[d].check = "passed", ~ Accessible(d)'
                 PROVE  streams'[d].queue[1].id <= cut'[d]
    BY DEF AccessInv, Checked
  <2>2. ~ Check(d)
    BY <2>1 DEF Check, Accessible, FeedInv, StreamsInv, Stream
  <2>3. streams[d].check = "passed" /\ streams'[d].queue[1] = streams[d].queue[1]
    <3>1. streams \in [Clients -> Stream]
      BY DEF FeedInv, StreamsInv
    <3>2. CASE Open(d)
      BY <2>1, <3>1, <3>2 DEF Open, Idle
    <3>3. CASE PollRead(d)
      <4>1. streams'[d] = [streams[d] EXCEPT !.poll = Read(d)]
        BY <3>1, <3>3 DEF PollRead
      <4> QED BY <2>1, <3>1, <4>1 DEF Stream
    <3>4. CASE ~ Open(d) /\ ~ PollRead(d)
      BY <1>2, <2>1, <2>2, <3>4, StreamsKeep DEF Keeps
    <3> QED BY <3>2, <3>3, <3>4
  <2>4. streams[d].queue[1].id <= published
    <3>1. StreamInv(streams[d], published, row.attempt) /\ published \in Nat
      BY DEF FeedInv, ServerInv, StreamsInv
    <3>2. streams[d].queue \in Seq(Event) /\ streams[d].queue # <<>>
          /\ IdsUpTo(streams[d].queue, published)
      BY <2>3, <3>1 DEF StreamInv, Stream
    <3>3. Len(streams[d].queue) \in Nat \ {0}
      BY <3>2, EmptySeq, LenProperties
    <3>4. streams[d].queue[1].id = published - Len(streams[d].queue) + 1
      BY <3>2, <3>3 DEF IdsUpTo
    <3> QED BY <3>1, <3>3, <3>4
  <2>5. CASE Accessible(d)' = Accessible(d) /\ cut'[d] = cut[d]
    BY <2>1, <2>3, <2>5 DEF AccessInv, Checked
  <2>6. CASE ~ Accessible(d) /\ cut'[d] = cut[d]
    BY <2>3, <2>6 DEF AccessInv, Checked
  <2>7. CASE cut'[d] = published
    BY <2>3, <2>4, <2>7
  <2> QED BY <1>2, <2>5, <2>6, <2>7, AccessEnds
<1> QED BY <1>1, <1>2

LEMMA AccessInvariant == Spec => []AccessInv
<1>1. Init => AccessInv
  BY DEF Init, AccessInv, Checked, Idle
<1> QED BY <1>1, AccessNext, FeedInvariant, EventsInvariant, PTL DEF Spec

LEMMA AccessStep ==
  EventsInv /\ FeedInv /\ AccessInv /\ [Next]_vars =>
    [\A c \in Clients : Sent(c) /\ ~ Accessible(c) => views'[c].id <= cut[c]]_vars
<1> SUFFICES ASSUME EventsInv, FeedInv, AccessInv, Next, NEW d \in Clients, Sent(d), ~ Accessible(d)
             PROVE  views'[d].id <= cut[d]
  OBVIOUS
<1>1. PICK c \in Clients : Send(c)
  BY ServerSends, ClientSends DEF Next
<1>2. views \in [Clients -> View] /\ streams[c] \in Stream
  BY DEF FeedInv, ViewsInv, StreamsInv
<1>3. c = d
  BY <1>1, <1>2 DEF Send, Sent
<1>4. views'[d].id = Head(streams[d].queue).id /\ streams[d].check = "passed"
  BY <1>1, <1>2, <1>3 DEF Send
<1>5. streams[d].queue \in Seq(Event) /\ streams[d].queue # <<>>
  BY <1>4 DEF FeedInv, StreamsInv, StreamInv, Stream
<1>6. Head(streams[d].queue) = streams[d].queue[1]
  OBVIOUS
<1> QED BY <1>4, <1>6 DEF AccessInv, Checked

(* An event published after a client lost its access never reaches it: the    *)
(* one its stream may still have passed was published before.                  *)
THEOREM NoNewsWithoutAccess == Spec => NothingNewWithoutAccess
BY EventsInvariant, FeedInvariant, AccessInvariant, AccessStep, PTL
   DEF Spec, NothingNewWithoutAccess

-------------------------------------------------------------------------------
(* What is on its way to the broker when the grace period outlasts it: the   *)
(* completions to be published and the rows that streams have read.           *)

Held ==
  {f.op : f \in finished} \cup {streams[c].snapshot : c \in Clients}
    \cup {streams[c].poll : c \in Clients}

(* A row in progress is never ripe.  Of the current attempt nothing settled   *)
(* is held before the row is settled; once an attempt was ripe nothing of the  *)
(* first one is held but its outcome, and no completion of it; until then no  *)
(* other attempt's outcome is held.                                            *)
HeldInv ==
  /\ ripe <= row.attempt
  /\ row.status = "processing" => ripe < row.attempt
  /\ \A op \in Held :
       /\ op.attempt = row.attempt /\ op.status \in Settled => row.status \in Settled
       /\ ripe >= 1 /\ op.attempt = 1 => op.status \in Settled
       /\ ripe = 0 /\ op.status \in Settled => op.attempt = row.attempt
  /\ \A f \in finished : f.op.status \in Settled /\ (f.op.attempt = 1 => ripe = 0)

(* Only a deletion erases, and only lost access is denied. *)
DenialInv ==
  /\ erased \/ erasing => deleted
  /\ \A c \in Clients :
       streams[c].check = "denied" \/ streams[c].poll = Denied => ~ Accessible(c)

LEMMA HeldIs ==
  ASSUME FeedInv, NEW op \in Held
  PROVE  op \in Reads /\ op.attempt \in 0..MaxAttempts /\ op.attempt <= row.attempt
<1>1. CASE \E f \in finished : op = f.op
  <2>1. op \in Rows /\ op.attempt <= row.attempt
    BY <1>1 DEF FeedInv, ServerInv
  <2> QED BY <2>1, ReadAttempt DEF Reads
<1>2. CASE \E c \in Clients : op = streams[c].snapshot \/ op = streams[c].poll
  <2>1. op \in Reads /\ op.attempt <= row.attempt
    BY <1>2 DEF FeedInv, StreamsInv, StreamInv, Stream
  <2> QED BY <2>1, ReadAttempt
<1> QED BY <1>1, <1>2 DEF Held

LEMMA NoReadIs ==
  /\ NoRead.attempt = 0 /\ Denied.attempt = 0 /\ NoRead # Denied
  /\ NoRead.status \notin Settled /\ Denied.status \notin Settled
  /\ \A op \in Rows : op # NoRead /\ op # Denied
BY DEF NoRead, Denied, Settled, Rows

LEMMA FinishedNext ==
  ASSUME Next, ~ Finalize
  PROVE  finished' \subseteq finished
BY DEF Next, Claim, BeginAttempt, PublishCompletion, GraceElapses, EraseInterview,
       HistoryExpires, HistoryEvicted, TombstoneExpires, Close, Restart, Mount, Open,
       TurnedAway, ReplayUnavailable, NothingLeft, Subscribe, Check, Send, PollRead,
       PollApply, Expel, Disconnect, Refresh, RefreshFails, Delete, Revoke,
       serverVars, ghosts

(* What a step adds to what is held. *)
LEMMA HeldNext ==
  ASSUME FeedInv, EventsInv, Next, NEW op, op \in Held'
  PROVE  \/ op \in Held \/ op = NoRead
         \/ Finalize /\ op = row'
         \/ op = Denied /\ UNCHANGED <<row, ripe, deleted, published, broker, closed, erased>>
         \/ /\ op = row /\ ~ deleted
            /\ UNCHANGED <<row, ripe, deleted, published, broker, closed, erased>>
<1>1. CASE \E f \in finished' : op = f.op
  <2>1. PICK f \in finished' : op = f.op
    BY <1>1
  <2>2. CASE Finalize
    <3>1. f \in finished \/ f.op = row'
      BY <2>1, <2>2 DEF Finalize
    <3> QED BY <2>1, <2>2, <3>1 DEF Held
  <2>3. CASE ~ Finalize
    <3>1. finished' \subseteq finished
      BY <2>3, FinishedNext
    <3> QED BY <2>1, <3>1 DEF Held
  <2> QED BY <2>2, <2>3
<1>2. ASSUME NEW c \in Clients, op = streams'[c].snapshot \/ op = streams'[c].poll
      PROVE  \/ op \in Held \/ op = NoRead
             \/ op = Denied /\ UNCHANGED <<row, ripe, deleted, published, broker, closed, erased>>
             \/ /\ op = row /\ ~ deleted
                /\ UNCHANGED <<row, ripe, deleted, published, broker, closed, erased>>
  <2>0. streams \in [Clients -> Stream]
    BY DEF FeedInv, StreamsInv
  <2>1. CASE Open(c) \/ PollRead(c)
    <3>1. UNCHANGED <<row, ripe, deleted, published, broker, closed, erased>>
      BY <2>1 DEF Open, PollRead, ghosts
    <3>2. op \in {streams[c].snapshot, streams[c].poll, NoRead, Read(c)}
      <4>1. CASE Open(c)
        BY <1>2, <2>0, <4>1 DEF Open, Idle
      <4>2. CASE PollRead(c)
        <5>1. streams'[c] = [streams[c] EXCEPT !.poll = Read(c)]
          BY <2>0, <4>2 DEF PollRead
        <5> QED BY <1>2, <2>0, <5>1 DEF Stream
      <4> QED BY <2>1, <4>1, <4>2
    <3> QED BY <3>1, <3>2 DEF Held, Read, Accessible
  <2>2. CASE Check(c)
    <3>1. streams'[c] = [streams[c] EXCEPT !.check = IF Accessible(c) THEN "passed" ELSE "denied"]
      BY <2>0, <2>2 DEF Check
    <3>2. streams'[c].snapshot = streams[c].snapshot /\ streams'[c].poll = streams[c].poll
      BY <2>0, <3>1 DEF Stream
    <3> QED BY <1>2, <3>2 DEF Held
  <2>3. CASE ~ Open(c) /\ ~ PollRead(c) /\ ~ Check(c)
    BY <1>2, <2>3, StreamsKeep DEF Keeps, Held
  <2> QED BY <2>1, <2>2, <2>3
<1> QED BY <1>1, <1>2 DEF Held

LEMMA RowNext ==
  ASSUME Next, ~ Claim, ~ Finalize, ~ GraceElapses
  PROVE  row' = row /\ ripe' = ripe
BY DEF Next, BeginAttempt, PublishCompletion, EraseInterview,
       HistoryExpires, HistoryEvicted, TombstoneExpires, Close, Restart, Mount, Open,
       TurnedAway, ReplayUnavailable, NothingLeft, Subscribe, Check, Send, PollRead,
       PollApply, Expel, Disconnect, Refresh, RefreshFails, Delete, Revoke,
       serverVars, ghosts

LEMMA HeldStep ==
  ASSUME Timely, FeedInv, EventsInv, HeldInv, Next
  PROVE  HeldInv'
<1>0. /\ row \in Rows /\ row.attempt \in Nat \ {0} /\ ripe \in Nat
      /\ row.status = "processing" \/ row.status \in Settled
      /\ "processing" \notin Settled
  BY DEF FeedInv, ServerInv, Rows, Settled
<1>1. CASE Claim
  <2>1. /\ row'.status = "processing" /\ row'.attempt = row.attempt + 1 /\ ripe' = ripe
        /\ row.status \in Settled => ripe = row.attempt
    BY <1>1 DEF Claim, GraceIsOver
  <2>2. ASSUME NEW op \in Held'
        PROVE  /\ op.attempt # row'.attempt
               /\ ripe >= 1 /\ op.attempt = 1 => op.status \in Settled
               /\ ripe = 0 => op.status \notin Settled
    <3>1. op \in Held \/ op = NoRead
      <4>1. row # row'
        BY <1>0, <2>1
      <4>2. ~ Finalize
        <5> SUFFICES ASSUME Finalize PROVE FALSE
          OBVIOUS
        <5>1. PICK status \in Settled : row' = [row EXCEPT !.status = status]
          BY DEF Finalize
        <5> QED BY <1>0, <2>1, <5>1 DEF Rows
      <4> QED BY <2>2, <4>1, <4>2, HeldNext
    <3>2. CASE op = NoRead
      BY <1>0, <2>1, <3>2, NoReadIs
    <3>3. CASE op \in Held
      <4>1. op.attempt \in Nat /\ op.attempt <= row.attempt
        BY <3>3, HeldIs
      <4>2. ripe = 0 => op.status \notin Settled
        BY <1>0, <2>1, <3>3 DEF HeldInv
      <4> QED BY <1>0, <2>1, <3>3, <4>1, <4>2 DEF HeldInv
    <3> QED BY <3>1, <3>2, <3>3
  <2>3. finished' = finished
    BY <1>1 DEF Claim
  <2> QED BY <1>0, <2>1, <2>2, <2>3 DEF HeldInv
<1>2. CASE Finalize
  <2>1. PICK status \in Settled : row' = [row EXCEPT !.status = status]
    BY <1>2 DEF Finalize
  <2>2. /\ row'.attempt = row.attempt /\ row'.status \in Settled /\ ripe' = ripe
        /\ row.status = "processing" /\ ripe < row.attempt
    BY <1>2, <2>1 DEF Finalize, HeldInv, FeedInv, ServerInv, Rows
  <2>3. ASSUME NEW op \in Held'
        PROVE  /\ ripe >= 1 /\ op.attempt = 1 => op.status \in Settled
               /\ ripe = 0 /\ op.status \in Settled => op.attempt = row.attempt
    <3>1. op \in Held \/ op = NoRead \/ op = row'
      <4>1. row # row'
        BY <1>0, <2>2
      <4> QED BY <2>3, <4>1, HeldNext
    <3> QED BY <2>2, <3>1, NoReadIs DEF HeldInv
  <2>4. \A f \in finished' : f.op.status \in Settled /\ (f.op.attempt = 1 => ripe = 0)
    <3>1. \A f \in finished' : f \in finished \/ f.op = row'
      BY <1>2 DEF Finalize
    <3>2. row'.attempt = 1 => ripe = 0
      BY <1>0, <2>2
    <3> QED BY <2>2, <3>1, <3>2 DEF HeldInv
  <2> QED BY <1>0, <2>2, <2>3, <2>4 DEF HeldInv
<1>3. CASE GraceElapses
  <2>1. /\ row' = row /\ ripe' = ripe + 1 /\ finished' = finished /\ streams' = streams
        /\ ripe < (IF row.status \in Settled THEN row.attempt ELSE row.attempt - 1)
        /\ NoReadInFlight
    BY <1>3 DEF GraceElapses, serverVars
  <2>2. ASSUME NEW op \in Held' PROVE op.attempt = 0 /\ op.status \notin Settled
    <3>1. op \in Held
      BY <2>1, <2>2 DEF Held
    <3>2. op = NoRead
      BY <2>1, <3>1 DEF Held, NoReadInFlight, FeedInv, StreamsInv, StreamInv
    <3> QED BY <3>2, NoReadIs
  <2>3. finished' = {}
    BY <2>1 DEF NoReadInFlight
  <2>4. ripe' <= row'.attempt /\ (row'.status = "processing" => ripe' < row'.attempt)
    BY <1>0, <2>1
  <2> QED BY <2>2, <2>3, <2>4 DEF HeldInv
<1>4. CASE ~ Claim /\ ~ Finalize /\ ~ GraceElapses
  <2>1. row' = row /\ ripe' = ripe /\ finished' \subseteq finished
    BY <1>4, RowNext, FinishedNext
  <2>2. ASSUME NEW op \in Held'
        PROVE  /\ op.attempt = row.attempt /\ op.status \in Settled => row.status \in Settled
               /\ ripe >= 1 /\ op.attempt = 1 => op.status \in Settled
               /\ ripe = 0 /\ op.status \in Settled => op.attempt = row.attempt
    <3>1. op \in Held \/ op = NoRead \/ op = Denied \/ op = row
      BY <1>4, <2>2, HeldNext
    <3>2. CASE op = NoRead \/ op = Denied
      BY <1>0, <3>2, NoReadIs
    <3>3. CASE op = row
      BY <1>0, <3>3 DEF HeldInv
    <3> QED BY <3>1, <3>2, <3>3 DEF HeldInv
  <2> QED BY <2>1, <2>2 DEF HeldInv
<1> QED BY <1>1, <1>2, <1>3, <1>4

LEMMA DenialStep ==
  ASSUME FeedInv, EventsInv, DenialInv, Next
  PROVE  DenialInv'
<1>0. streams \in [Clients -> Stream] /\ row \in Rows
  BY DEF FeedInv, StreamsInv, ServerInv
<1>1. \A c \in Clients : ~ Accessible(c) => ~ Accessible(c)'
  BY AccessEnds
<1>2. ASSUME NEW c \in Clients, streams'[c].check = "denied" \/ streams'[c].poll = Denied
      PROVE  ~ Accessible(c)'
  <2>1. CASE Open(c)
    BY <1>0, <1>2, <2>1, NoReadIs DEF Open, Idle
  <2>2. CASE PollRead(c)
    <3>1. streams'[c] = [streams[c] EXCEPT !.poll = Read(c)]
      BY <1>0, <2>2 DEF PollRead
    <3>2. streams'[c].check = streams[c].check /\ streams'[c].poll = Read(c)
      BY <1>0, <3>1 DEF Stream
    <3>3. streams[c].check = "denied" \/ Read(c) = Denied
      BY <1>2, <3>2
    <3> QED BY <1>0, <1>1, <3>3, NoReadIs DEF Read, DenialInv
  <2>3. CASE Check(c)
    <3>1. streams'[c] = [streams[c] EXCEPT !.check = IF Accessible(c) THEN "passed" ELSE "denied"]
      BY <1>0, <2>3 DEF Check
    <3>2. /\ streams'[c].check = (IF Accessible(c) THEN "passed" ELSE "denied")
          /\ streams'[c].poll = streams[c].poll
      BY <1>0, <3>1 DEF Stream
    <3> QED BY <1>1, <1>2, <3>2 DEF DenialInv
  <2>4. CASE ~ Open(c) /\ ~ PollRead(c) /\ ~ Check(c)
    BY <1>1, <1>2, <2>4, StreamsKeep, NoReadIs DEF Keeps, DenialInv
  <2> QED BY <2>1, <2>2, <2>3, <2>4
<1>3. erased' \/ erasing' => deleted'
  <2>1. CASE Delete \/ EraseInterview \/ TombstoneExpires \/ Close \/ Restart
    BY <2>1 DEF Delete, EraseInterview, TombstoneExpires, Close, Restart, DenialInv
  <2>2. ASSUME NEW c \in Clients, Expel(c)
        PROVE  erased' \/ erasing' => deleted'
    <3>1. deleted' = deleted /\ erasing' = erasing /\ erased' = (erased \/ c \in sessions)
      BY <2>2 DEF Expel
    <3>2. ~ Accessible(c)
      BY <2>2 DEF Expel, DenialInv
    <3> QED BY <3>1, <3>2 DEF DenialInv, Accessible
  <2>3. CASE /\ ~ Delete /\ ~ EraseInterview /\ ~ TombstoneExpires /\ ~ Close /\ ~ Restart
             /\ \A c \in Clients : ~ Expel(c)
    <3>1. UNCHANGED <<deleted, erased, erasing>>
      BY <2>3 DEF Next, Claim, BeginAttempt, Finalize, PublishCompletion, GraceElapses,
                  HistoryExpires, HistoryEvicted, Mount, Open,
                  TurnedAway, ReplayUnavailable, NothingLeft, Subscribe, Check, Send, PollRead,
                  PollApply, Disconnect, Refresh, RefreshFails, Revoke, serverVars, ghosts
    <3> QED BY <3>1 DEF DenialInv
  <2> QED BY <2>1, <2>2, <2>3
<1> QED BY <1>2, <1>3 DEF DenialInv

(* Until the first attempt is ripe: if anything was published the row is       *)
(* settled and the broker still has the history of its attempt, unless it is    *)
(* closed or erased, or nothing that could speak to it again is on its way.     *)
Told == broker.attempt = row.attempt /\ broker.events # <<>>

FirstNews ==
  ripe = 0 /\ published > 0 =>
    /\ row.status \in Settled
    /\ closed \/ erased \/ (deleted /\ Held \subseteq {NoRead, Denied}) \/ Told

LEMMA NothingReady ==
  ASSUME FeedInv, ripe = 0, NEW op \in Reads
  PROVE  ~ Ready(op)
<1>1. op \in Rows => op.attempt \in 1..MaxAttempts
  BY DEF Rows
<1> QED BY <1>1, NoReadIs DEF Ready, Reads

LEMMA ToldUnsubscribed ==
  ASSUME NEW b \in BrokerState, b.events # <<>>, NEW c
  PROVE  Unsubscribed(b, c).attempt = b.attempt /\ Unsubscribed(b, c).events = b.events
BY UnsubscribedIs

LEMMA ToldStep ==
  ASSUME FeedInv, EventsInv, ripe = 0, Told, Next,
         ~ Claim, ~ Finalize, ~ GraceElapses, ~ PublishCompletion, ~ HistoryExpires,
         ~ HistoryEvicted, ~ Restart
  PROVE  published' = published /\ (closed' \/ erased' \/ Told')
<1>0. /\ broker \in BrokerState /\ row' = row /\ TypeOK /\ Attempted
      /\ broker.attempt = row.attempt /\ broker.events # <<>> /\ published \in Nat
      /\ row.attempt \in Nat
  BY RowNext, FeedTypes DEF FeedInv, BrokerInv, ServerInv, Rows, Told
<1>1. CASE BeginAttempt
  <2>1. executor.attempt \in 0..MaxAttempts /\ executor.attempt <= row.attempt
    BY DEF FeedInv, ServerInv
  <2>2. SyncAttempt(broker, executor) = broker
    BY <1>0, <2>1, SyncIs
  <2> QED BY <1>0, <1>1, <2>2 DEF BeginAttempt, Told, ghosts
<1>2. CASE EraseInterview \/ Close
  BY <1>2 DEF EraseInterview, Close, ghosts
<1>3. CASE \E c \in Clients : Send(c) \/ Disconnect(c) \/ Expel(c)
  <2>1. PICK c \in Clients : Send(c) \/ Disconnect(c) \/ Expel(c)
    BY <1>3
  <2>2. published' = published /\ (erased' \/ broker' = broker \/ broker' = Unsubscribed(broker, c))
    BY <2>1 DEF Send, Disconnect, Expel, ghosts
  <2> QED BY <1>0, <2>2, ToldUnsubscribed DEF Told
<1>4. CASE \E c \in Clients : PollApply(c)
  <2>1. PICK c \in Clients : PollApply(c)
    BY <1>4
  <2>2. streams[c].poll \in Reads
    BY DEF FeedInv, StreamsInv, Stream
  <2>3. broker' = broker /\ published' = published + Len(<<>>)
    BY <2>1, <2>2, NothingReady DEF PollApply
  <2>4. Len(<<>>) = 0
    BY EmptySeq
  <2> QED BY <1>0, <2>3, <2>4 DEF Told
<1>5. CASE \E c \in Clients : ReplayUnavailable(c) \/ NothingLeft(c) \/ Subscribe(c)
  <2>1. PICK c \in Clients : ReplayUnavailable(c) \/ NothingLeft(c) \/ Subscribe(c)
    BY <1>5
  <2> DEFINE op == streams[c].snapshot
             j == Joined(c)
             w == [j EXCEPT !.listeners = @ \cup {c}]
  <2>2. Arriving(c)
    BY <2>1 DEF ReplayUnavailable, NothingLeft, Subscribe
  <2>3. op \in Reads /\ op.attempt \in 0..MaxAttempts /\ op.attempt <= row.attempt
    <3>1. op \in Reads /\ op.attempt <= row.attempt
      BY DEF FeedInv, StreamsInv, StreamInv, Stream
    <3> QED BY <3>1, ReadAttempt
  <2>4. Rebuilt(c) = [state |-> broker, new |-> <<>>]
    BY <2>3, NothingReady DEF Rebuilt
  <2>5. Rebuilt(c).state = broker /\ Rebuilt(c).new = <<>>
    BY <2>4
  <2>6. IsJoin(j, broker, op)
    BY <1>0, <2>2, <2>5, JoinedIs
  <2> HIDE DEF op, j
  <2>7. j \in BrokerState /\ j.attempt = broker.attempt /\ j.events = broker.events
    BY <1>0, <2>3, <2>6 DEF IsJoin
  <2>8. w \in BrokerState /\ w.attempt = j.attempt /\ w.events = j.events
    BY <2>7 DEF BrokerState
  <2> HIDE DEF w
  <2>9. broker' \in {broker, j, w, Unsubscribed(w, c)}
    BY <2>1 DEF ReplayUnavailable, NothingLeft, Subscribe, w, j
  <2>10. published' = published
    <3>1. published' = published + Len(<<>>)
      BY <2>1, <2>5 DEF ReplayUnavailable, NothingLeft, Subscribe
    <3> QED BY <1>0, <3>1, EmptySeq
  <2>11. broker'.attempt = broker.attempt /\ broker'.events = broker.events
    BY <1>0, <2>7, <2>8, <2>9, ToldUnsubscribed
  <2> QED BY <1>0, <2>10, <2>11 DEF Told
<1>6. CASE \/ Delete \/ TombstoneExpires
           \/ \E c \in Clients : \/ Mount(c) \/ Open(c) \/ TurnedAway(c) \/ Check(c) \/ PollRead(c)
                                 \/ Refresh(c) \/ RefreshFails(c) \/ Revoke(c)
  <2>1. broker' = broker /\ published' = published
    BY <1>6 DEF Delete, TombstoneExpires, Mount, Open, TurnedAway, Check, PollRead, Refresh,
                RefreshFails, Revoke, serverVars, ghosts
  <2> QED BY <1>0, <2>1 DEF Told
<1> QED BY <1>1, <1>2, <1>3, <1>4, <1>5, <1>6 DEF Next

(* Without a publication due, only a completion is published. *)
LEMMA QuietStep ==
  ASSUME FeedInv, ripe = 0, Next, ~ PublishCompletion
  PROVE  published' = published
<1>0. published + Len(<<>>) = published
  BY EmptySeq DEF FeedInv, ServerInv
<1>1. ASSUME NEW c \in Clients, ReplayUnavailable(c) \/ NothingLeft(c) \/ Subscribe(c)
      PROVE  published' = published
  <2>1. ~ Ready(streams[c].snapshot)
    BY NothingReady DEF FeedInv, StreamsInv, Stream
  <2>2. Rebuilt(c) = [state |-> broker, new |-> <<>>]
    BY <2>1 DEF Rebuilt
  <2>3. Rebuilt(c).new = <<>>
    BY <2>2
  <2> QED BY <1>0, <1>1, <2>3 DEF ReplayUnavailable, NothingLeft, Subscribe
<1>2. ASSUME NEW c \in Clients, PollApply(c)
      PROVE  published' = published
  <2>1. ~ Ready(streams[c].poll)
    BY NothingReady DEF FeedInv, StreamsInv, Stream
  <2> QED BY <1>0, <1>2, <2>1 DEF PollApply
<1>3. ASSUME \A c \in Clients : /\ ~ ReplayUnavailable(c) /\ ~ NothingLeft(c) /\ ~ Subscribe(c)
                                /\ ~ PollApply(c)
      PROVE  published' = published
  BY <1>3 DEF Next, Claim, BeginAttempt, Finalize, GraceElapses, EraseInterview,
              HistoryExpires, HistoryEvicted, TombstoneExpires, Close, Restart, Mount, Open,
              TurnedAway, Check, Send, PollRead, Expel, Disconnect, Refresh, RefreshFails, Delete,
              Revoke, ghosts
<1> QED BY <1>1, <1>2, <1>3

LEMMA FirstNewsStep ==
  ASSUME Timely, FeedInv, EventsInv, HeldInv, DenialInv, FirstNews, Next
  PROVE  FirstNews'
<1>0. /\ row \in Rows /\ row.attempt \in Nat \ {0} /\ ripe \in Nat /\ published \in Nat
      /\ "processing" \notin Settled
  BY DEF FeedInv, ServerInv, Rows, Settled
<1> SUFFICES ASSUME ripe' = 0, published' > 0
             PROVE  /\ row'.status \in Settled
                    /\ closed' \/ erased' \/ (deleted' /\ Held' \subseteq {NoRead, Denied}) \/ Told'
  BY DEF FirstNews
<1>1. ~ GraceElapses /\ ripe = 0
  <2>1. ~ GraceElapses
    BY <1>0 DEF GraceElapses
  <2>2. CASE Claim
    <3>1. ripe' = ripe
      BY <2>2 DEF Claim
    <3> QED BY <2>1, <3>1
  <2>3. CASE Finalize
    <3>1. ripe' = ripe
      BY <2>3 DEF Finalize
    <3> QED BY <2>1, <3>1
  <2>4. CASE ~ Claim /\ ~ Finalize
    BY <2>1, <2>4, RowNext
  <2> QED BY <2>2, <2>3, <2>4
<1>2. CASE PublishCompletion
  <2>1. PICK f \in finished :
          /\ broker' = Publication(f.op, FALSE, f.text).state
          /\ published' = published + Len(Publication(f.op, FALSE, f.text).new)
    BY <1>2 DEF PublishCompletion
  <2> DEFINE p == Publication(f.op, FALSE, f.text)
  <2>2. /\ UNCHANGED <<row, deleted, closed, erased>>
        /\ f.op \in Rows /\ f.text \in BOOLEAN /\ f.op \in Held /\ f.op.status \in Settled
    BY <1>2 DEF PublishCompletion, FeedInv, ServerInv, Held, HeldInv
  <2>3. f.op.attempt = row.attempt /\ row.status \in Settled
    BY <1>1, <2>2 DEF HeldInv
  <2>4. IsPublication(p, f.op, FALSE)
    BY <2>2, PublicationIs, FeedTypes DEF Attempted
  <2> HIDE DEF p
  <2>5. CASE closed \/ erased
    BY <2>2, <2>3, <2>5
  <2>6. CASE ~ (closed \/ erased) /\ p.new # <<>>
    <3>1. p.state.attempt = f.op.attempt /\ p.state.events # <<>>
      BY <2>4, <2>6 DEF IsPublication
    <3> QED BY <2>1, <2>2, <2>3, <3>1 DEF Told, p
  <2>7. CASE ~ (closed \/ erased) /\ p.new = <<>>
    <3>1. published > 0
      <4>1. published' = published + Len(p.new)
        BY <2>1 DEF p
      <4>2. Len(p.new) = 0
        BY <2>7, EmptySeq
      <4> QED BY <1>0, <4>1, <4>2
    <3>2. broker.attempt = row.attempt /\ broker.events # <<>>
      BY <1>1, <2>2, <2>7, <3>1, NoReadIs DEF FirstNews, Told
    <3>3. broker # NoState
      BY <3>2 DEF NoState
    <3>4. p.state.events = broker.events /\ p.state.attempt \in {broker.attempt, f.op.attempt}
      BY <1>0, <2>3, <2>4, <2>7, <3>2, <3>3 DEF IsPublication
    <3> QED BY <2>1, <2>2, <2>3, <3>2, <3>4 DEF Told, p
  <2> QED BY <2>5, <2>6, <2>7
<1>3. CASE ~ PublishCompletion
  <2>1. published' = published
    BY <1>1, <1>3, QuietStep
  <2>2. /\ row.status \in Settled
        /\ closed \/ erased \/ (deleted /\ Held \subseteq {NoRead, Denied}) \/ Told
    BY <1>1, <2>1 DEF FirstNews
  <2>3. ~ GraceIsOver
    BY <1>0, <1>1, <2>2 DEF GraceIsOver
  <2>4. ~ Claim /\ ~ Finalize /\ ~ HistoryExpires /\ ~ HistoryEvicted /\ ~ Restart
    BY <1>0, <2>2, <2>3 DEF Claim, Finalize, HistoryExpires, HistoryEvicted, Restart
  <2>5. row' = row
    BY <1>1, <2>4, RowNext
  <2>6. deleted => deleted'
    BY DEF Next, Claim, BeginAttempt, Finalize, PublishCompletion, GraceElapses, EraseInterview,
                HistoryExpires, HistoryEvicted, TombstoneExpires, Close, Restart, Mount, Open,
                TurnedAway, ReplayUnavailable, NothingLeft, Subscribe, Check, Send, PollRead,
                PollApply, Expel, Disconnect, Refresh, RefreshFails, Delete, Revoke, serverVars, ghosts
  <2>7. closed => closed'
    BY <2>4 DEF Next, Claim, BeginAttempt, Finalize, PublishCompletion, GraceElapses, EraseInterview,
                HistoryExpires, HistoryEvicted, TombstoneExpires, Close, Restart, Mount, Open,
                TurnedAway, ReplayUnavailable, NothingLeft, Subscribe, Check, Send, PollRead,
                PollApply, Expel, Disconnect, Refresh, RefreshFails, Delete, Revoke, serverVars, ghosts
  <2>8. erased => erased' \/ closed' \/ TombstoneExpires
    BY <2>4 DEF Next, Claim, BeginAttempt, Finalize, PublishCompletion, GraceElapses, EraseInterview,
                HistoryExpires, HistoryEvicted, TombstoneExpires, Close, Restart, Mount, Open,
                TurnedAway, ReplayUnavailable, NothingLeft, Subscribe, Check, Send, PollRead,
                PollApply, Expel, Disconnect, Refresh, RefreshFails, Delete, Revoke, serverVars, ghosts
  <2>9. CASE TombstoneExpires
    <3>1. /\ finished' = {} /\ streams' = streams /\ deleted' = deleted /\ deleted
          /\ \A c \in Clients : streams[c].phase # "reading" /\ streams[c].poll = NoRead
      BY <2>9 DEF TombstoneExpires, NoReadInFlight, DenialInv
    <3>2. \A c \in Clients : streams[c].snapshot = NoRead
      BY <3>1 DEF FeedInv, StreamsInv, StreamInv
    <3> QED BY <2>2, <2>5, <3>1, <3>2 DEF Held
  <2>10. CASE deleted /\ Held \subseteq {NoRead, Denied}
    <3>1. Held' \subseteq {NoRead, Denied}
      BY <2>4, <2>10, HeldNext
    <3> QED BY <2>2, <2>5, <2>6, <2>10, <3>1
  <2>11. CASE Told
    BY <1>1, <1>3, <2>2, <2>4, <2>5, <2>11, ToldStep
  <2> QED BY <2>2, <2>5, <2>7, <2>8, <2>9, <2>10, <2>11
<1> QED BY <1>2, <1>3

-------------------------------------------------------------------------------
(* Continuity.  As long as the broker knows its history to be whole, its       *)
(* sequence numbers are the feed's; an open stream holds exactly what follows  *)
(* its client's place in the feed.                                             *)

Known(b) == b # NoState /\ ~ b.unknown

ContinuityInv(b, ss, vs, n) ==
  Known(b) => /\ b.next - 1 = n
              /\ \A c \in Clients : /\ SeqsUpTo(ss[c].queue, n)
                                    /\ vs[c].last # 0 => vs[c].id = vs[c].last

PlaceInv(ss, vs, n) ==
  \A c \in Clients : ss[c].phase = "open" /\ vs[c].id # 0 => vs[c].id = n - Len(ss[c].queue)

InPlace(b, ss, vs, n) == ContinuityInv(b, ss, vs, n) /\ PlaceInv(ss, vs, n)

(* A broker's operation that counts on and hides no gap. *)
Continues(p) ==
  /\ p.state.next = broker.next + Len(p.new)
  /\ Known(p.state) /\ broker # NoState => Known(broker)
  /\ Known(p.state) /\ broker = NoState => published = 0

LEMMA LessKnown ==
  ASSUME NEW b, NEW d, NEW ss, NEW vs, NEW n, InPlace(b, ss, vs, n),
         Known(d) => Known(b) /\ d.next = b.next
  PROVE  InPlace(d, ss, vs, n)
BY DEF InPlace, ContinuityInv

LEMMA UnknownInPlace ==
  ASSUME NEW b, NEW d, NEW ss, NEW vs, NEW n, InPlace(b, ss, vs, n), ~ Known(d)
  PROVE  InPlace(d, ss, vs, n)
BY DEF InPlace, ContinuityInv

LEMMA OneStreamInPlace ==
  ASSUME NEW b, NEW ss \in [Clients -> Stream], NEW vs, NEW n, InPlace(b, ss, vs, n),
         NEW c \in Clients, NEW t,
         Known(b) => SeqsUpTo(t.queue, n),
         t.phase = "open" /\ vs[c].id # 0 => vs[c].id = n - Len(t.queue)
  PROVE  InPlace(b, [ss EXCEPT ![c] = t], vs, n)
BY DEF InPlace, ContinuityInv, PlaceInv

LEMMA OneIdleInPlace ==
  ASSUME NEW b, NEW ss \in [Clients -> Stream], NEW vs, NEW n, InPlace(b, ss, vs, n),
         NEW c \in Clients
  PROVE  InPlace(b, [ss EXCEPT ![c] = Idle], vs, n)
<1>1. SeqsUpTo(Idle.queue, n) /\ Idle.phase # "open"
  BY NoneUpTo DEF Idle
<1> QED BY <1>1, OneStreamInPlace

LEMMA OneViewInPlace ==
  ASSUME NEW b, NEW ss, NEW vs \in [Clients -> View], NEW n, InPlace(b, ss, vs, n),
         NEW c \in Clients, NEW v,
         Known(b) /\ v.last # 0 => v.id = v.last,
         ss[c].phase = "open" /\ v.id # 0 => v.id = n - Len(ss[c].queue)
  PROVE  InPlace(b, ss, [vs EXCEPT ![c] = v], n)
BY DEF InPlace, ContinuityInv, PlaceInv

(* A client starting afresh, and one that only moves on. *)
LEMMA AfreshInPlace ==
  ASSUME NEW b, NEW ss, NEW vs \in [Clients -> View], NEW n, InPlace(b, ss, vs, n),
         NEW c \in Clients, NEW v, v.last = 0, v.id = 0
  PROVE  InPlace(b, ss, [vs EXCEPT ![c] = v], n)
BY OneViewInPlace

LEMMA SameInPlace ==
  ASSUME NEW b, NEW ss, NEW vs \in [Clients -> View], NEW n, InPlace(b, ss, vs, n),
         NEW c \in Clients, NEW v, v.last = vs[c].last, v.id = vs[c].id
  PROVE  InPlace(b, ss, [vs EXCEPT ![c] = v], n)
BY OneViewInPlace DEF InPlace, ContinuityInv, PlaceInv

LEMMA MountedAfresh == Mounted.last = 0 /\ Mounted.id = 0 /\ Unmounted.last = 0 /\ Unmounted.id = 0
BY DEF Mounted, Unmounted

LEMMA PhaseSame ==
  ASSUME NEW v \in View, NEW phase
  PROVE  [v EXCEPT !.phase = phase].last = v.last /\ [v EXCEPT !.phase = phase].id = v.id
BY DEF View

LEMMA EndedInPlace ==
  ASSUME NEW b, NEW n, streams \in [Clients -> Stream], views \in [Clients -> View],
         InPlace(b, streams, views, n), NEW closing
  PROVE  InPlace(b, Idled(streams, closing), Ended(closing), n)
<1>1. ASSUME NEW c \in Clients
      PROVE  Ended(closing)[c].last = views[c].last /\ Ended(closing)[c].id = views[c].id
  BY PhaseSame DEF Ended
<1>2. SeqsUpTo(Idle.queue, n) /\ Idle.phase # "open"
  BY NoneUpTo DEF Idle
<1>3. ASSUME NEW c \in Clients
      PROVE  \/ Idled(streams, closing)[c] = Idle
             \/ Idled(streams, closing)[c] = streams[c]
  BY DEF Idled
<1>4. ContinuityInv(b, Idled(streams, closing), Ended(closing), n)
  BY <1>1, <1>2, <1>3 DEF InPlace, ContinuityInv
<1>5. PlaceInv(Idled(streams, closing), Ended(closing), n)
  BY <1>1, <1>2, <1>3 DEF InPlace, PlaceInv
<1> QED BY <1>4, <1>5 DEF InPlace

LEMMA UnsubscribedKnown ==
  ASSUME NEW b \in BrokerState, NEW c, Known(Unsubscribed(b, c))
  PROVE  Known(b) /\ Unsubscribed(b, c).next = b.next
BY UnsubscribedIs, UnsubscribedNoState DEF Known

(* Nothing was published before a broker's state that nothing preceded. *)
LEMMA NothingBefore ==
  ASSUME FeedInv, HeldInv, FirstNews, broker = NoState, ~ closed, ~ erased,
         NEW op \in Held, op \in Rows, op.attempt <= 1,
         ~ Ready(op) \/ \E f \in finished : op = f.op
  PROVE  published = 0
<1>1. published \in Nat /\ ripe \in Nat /\ op.attempt = 1
  BY DEF FeedInv, ServerInv, Rows
<1>2. ripe = 0
  <2> SUFFICES ASSUME ripe >= 1 PROVE FALSE
    BY <1>1
  <2>1. op.status \in Settled
    BY <1>1 DEF HeldInv
  <2>2. Ready(op)
    BY <1>1, <2>1 DEF Ready
  <2>3. PICK f \in finished : op = f.op
    BY <2>2
  <2> QED BY <1>1, <2>3 DEF HeldInv
<1>3. ~ (deleted /\ Held \subseteq {NoRead, Denied})
  BY NoReadIs
<1>4. ~ Told
  BY DEF Told, NoState
<1> QED BY <1>1, <1>2, <1>3, <1>4 DEF FirstNews

LEMMA PublicationContinues ==
  ASSUME FeedInv, NEW p, NEW op, NEW unknown, IsPublication(p, op, unknown),
         broker = NoState /\ ~ closed /\ ~ erased /\ ~ unknown /\ ~ (op.attempt > 1) => published = 0
  PROVE  Continues(p)
BY DEF IsPublication, Continues, Known

LEMMA RebuildContinues ==
  ASSUME FeedInv, NEW p, NEW op, AsIs(p) \/ IsRebuild(p, op)
  PROVE  Continues(p)
<1>1. broker.next + Len(<<>>) = broker.next
  BY FeedTypes, TypesAre, EmptySeq
<1>2. CASE AsIs(p)
  BY <1>1, <1>2 DEF AsIs, Continues, Known
<1>3. CASE IsRebuild(p, op)
  BY <1>3, PublicationContinues DEF IsRebuild
<1> QED BY <1>2, <1>3

LEMMA SpeaksInPlace ==
  ASSUME FeedInv, EventsInv, InPlace(broker, streams, views, published),
         NEW p, NEW a, Speaks(p, a), Continues(p)
  PROVE  InPlace(p.state, Heard(p), views, published + Len(p.new))
<1> DEFINE m == published + Len(p.new)
<1>0. /\ published \in Nat /\ p.new \in Seq(Event) /\ Len(p.new) \in Nat
      /\ broker.next \in Nat \ {0}
      /\ NoState.next = 1
  BY LenProperties, FeedTypes, TypesAre DEF Speaks, NoState
<1>1. ASSUME NEW c \in Clients
      PROVE  /\ streams[c].queue \in Seq(Event)
             /\ Heard(p)[c].phase = streams[c].phase
             /\ streams[c].phase = "open" =>
                  /\ Heard(p)[c].queue = streams[c].queue \o p.new
                  /\ Len(Heard(p)[c].queue) = Len(streams[c].queue) + Len(p.new)
             /\ streams[c].phase # "open" =>
                  Heard(p)[c].queue = <<>> /\ streams[c].queue = <<>>
  <2>1. streams[c].queue \in Seq(Event)
        /\ (streams[c].phase # "open" => streams[c].queue = <<>>)
    BY DEF FeedInv, StreamsInv, StreamInv, Stream
  <2>2. c \in p.state.listeners <=> streams[c].phase = "open"
    BY DEF Speaks, EventsInv, OpenStreamsAreHeard
  <2>3. /\ Heard(p)[c].phase = streams[c].phase
        /\ Heard(p)[c].queue = IF c \in p.state.listeners THEN streams[c].queue \o p.new
                               ELSE streams[c].queue
    BY <1>0, FeedTypes, HeardIs
  <2>4. Len(streams[c].queue \o p.new) = Len(streams[c].queue) + Len(p.new)
    BY <1>0, <2>1, ConcatProperties
  <2> QED BY <2>1, <2>2, <2>3, <2>4
<1>2. ContinuityInv(p.state, Heard(p), views, m)
  <2> SUFFICES ASSUME Known(p.state)
               PROVE  /\ p.state.next - 1 = m
                      /\ \A c \in Clients : /\ SeqsUpTo(Heard(p)[c].queue, m)
                                            /\ views[c].last # 0 => views[c].id = views[c].last
    BY DEF ContinuityInv
  <2>1. p.state.next = broker.next + Len(p.new)
    BY DEF Continues
  <2>2. CASE broker = NoState
    <3>1. published = 0 /\ broker.next = 1
      BY <1>0, <2>2 DEF Continues
    <3>2. \A c \in Clients : Heard(p)[c].queue = <<>>
      BY <1>1, <2>2, NoStateNoStreams
    <3>3. \A c \in Clients : views[c].last = 0
      BY <3>1 DEF FeedInv, ViewsInv, ViewInv, View
    <3> QED BY <1>0, <2>1, <3>1, <3>2, <3>3, NoneUpTo
  <2>3. CASE broker # NoState
    <3>1. /\ broker.next - 1 = published
          /\ \A c \in Clients : /\ SeqsUpTo(streams[c].queue, published)
                                /\ views[c].last # 0 => views[c].id = views[c].last
      BY <2>3 DEF Continues, InPlace, ContinuityInv
    <3>2. SeqsUpTo(p.new, m)
      BY <3>1 DEF Speaks
    <3>3. ASSUME NEW c \in Clients PROVE SeqsUpTo(Heard(p)[c].queue, m)
      <4>1. CASE streams[c].phase = "open"
        <5>1. SeqsUpTo(streams[c].queue \o p.new, m)
          BY <1>0, <1>1, <3>1, <3>2, JoinedUpTo
        <5> QED BY <1>1, <4>1, <5>1
      <4>2. CASE streams[c].phase # "open"
        BY <1>1, <4>2, NoneUpTo
      <4> QED BY <4>1, <4>2
    <3>4. p.state.next - 1 = m
      BY <1>0, <2>1, <3>1
    <3> QED BY <3>1, <3>3, <3>4
  <2> QED BY <2>2, <2>3
<1>3. PlaceInv(Heard(p), views, m)
  <2> SUFFICES ASSUME NEW c \in Clients, Heard(p)[c].phase = "open", views[c].id # 0
               PROVE  views[c].id = m - Len(Heard(p)[c].queue)
    BY DEF PlaceInv
  <2>1. /\ streams[c].queue \in Seq(Event) /\ streams[c].phase = "open"
        /\ Len(Heard(p)[c].queue) = Len(streams[c].queue) + Len(p.new)
    BY <1>1
  <2>2. views[c].id = published - Len(streams[c].queue)
    BY <2>1 DEF InPlace, PlaceInv
  <2>3. Len(streams[c].queue) \in Nat
    BY <2>1, LenProperties
  <2> QED BY <1>0, <2>1, <2>2, <2>3
<1> QED BY <1>2, <1>3 DEF InPlace

(* The state a request joins. *)
LEMMA JoinedInPlace ==
  ASSUME FeedInv, EventsInv, HeldInv, FirstNews, InPlace(broker, streams, views, published),
         NEW c \in Clients, Arriving(c), ~ (broker = NoState /\ views[c].last > 0)
  PROVE  InPlace(Joined(c), Heard(Rebuilt(c)), views, published + Len(Rebuilt(c).new))
<1> DEFINE p == Rebuilt(c)
           op == streams[c].snapshot
           j == Joined(c)
           m == published + Len(p.new)
<1>1. TypeOK /\ Attempted /\ streams[c] \in Stream /\ published \in Nat
  BY FeedTypes DEF FeedInv, StreamsInv, ServerInv
<1>2. op \in Rows /\ op \in Held
  BY <1>1 DEF Arriving, FeedInv, StreamsInv, StreamInv, Stream, Reads, Held
<1>3. (AsIs(p) /\ ~ Ready(op)) \/ IsRebuild(p, op)
  BY <1>1, RebuiltIs
<1>4. Speaks(p, op.attempt) /\ Continues(p)
  BY <1>1, <1>3, RebuildSpeaks, RebuildContinues
<1>5. InPlace(p.state, Heard(p), views, m)
  <2> HIDE DEF p
  <2> QED BY <1>4, SpeaksInPlace
<1>6. IsJoin(j, p.state, op)
  BY <1>1, JoinedIs
<1> HIDE DEF p, j, op
<1>7. CASE p.state # NoState
  <2>1. Known(j) => Known(p.state) /\ j.next = p.state.next
    BY <1>6, <1>7 DEF IsJoin, Known
  <2> QED BY <1>5, <2>1, LessKnown DEF p, j
<1>8. CASE p.state = NoState /\ ~ Known(j)
  BY <1>5, <1>8, UnknownInPlace DEF p, j
<1>9. CASE p.state = NoState /\ Known(j)
  <2>1. j = CreateState(op, FALSE)
    BY <1>6, <1>9 DEF IsJoin, Known
  <2>2. op.attempt <= 1
    <3>1. op.attempt \in 0..MaxAttempts
      BY <1>2 DEF Rows
    <3>2. ~ (op.attempt > 1)
      BY <1>9, <2>1, <3>1, CreateIs DEF Known
    <3> QED BY <3>1, <3>2
  <2>3. ~ closed /\ ~ erased
    BY <1>6, <1>9 DEF IsJoin, Known
  <2>4. AsIs(p) /\ ~ Ready(op) /\ broker = NoState
    <3>1. ~ IsRebuild(p, op)
      <4>1. p.state.attempt = 0
        BY <1>9 DEF NoState
      <4> QED BY <2>3, <4>1 DEF IsRebuild, IsPublication
    <3> QED BY <1>3, <1>9, <3>1 DEF AsIs
  <2>5. published = 0
    BY <1>2, <2>2, <2>3, <2>4, NothingBefore
  <2>6. m = 0
    BY <2>4, <2>5, EmptySeq DEF AsIs
  <2>7. j.next = 1
    BY <2>1 DEF CreateState, NoState
  <2>8. \A d \in Clients : Heard(p)[d].queue = <<>> /\ views[d].last = 0
    <3>1. ASSUME NEW d \in Clients PROVE Heard(p)[d].queue = <<>>
      <4>1. d \notin p.state.listeners
        BY <1>9 DEF NoState
      <4>2. Heard(p)[d].queue = streams[d].queue
        <5>1. p.new \in Seq(Event)
          BY <1>4 DEF Speaks
        <5> QED BY <1>1, <4>1, <5>1, HeardIs
      <4> QED BY <2>4, <4>2, NoStateNoStreams DEF FeedInv, StreamsInv, StreamInv
    <3>2. \A d \in Clients : views[d].last = 0
      BY <2>5 DEF FeedInv, ViewsInv, ViewInv, View
    <3> QED BY <3>1, <3>2
  <2>9. ContinuityInv(j, Heard(p), views, m)
    BY <2>6, <2>7, <2>8, NoneUpTo DEF ContinuityInv
  <2> QED BY <1>5, <2>9 DEF InPlace, p, j
<1> QED BY <1>7, <1>8, <1>9

(* What an accepted client is given begins right after its last event. *)
LEMMA AcceptedInPlace ==
  ASSUME FeedInv, EventsInv, NEW c \in Clients, Arriving(c), ~ Refuses(c), NEW n,
         n = published + Len(Rebuilt(c).new),
         InPlace(Joined(c), Heard(Rebuilt(c)), views, n)
  PROVE  LET after == After(Joined(c), views[c].last)
         IN  /\ Known(Joined(c)) => SeqsUpTo(after, n)
             /\ views[c].id # 0 => views[c].id = n - Len(after)
<1> DEFINE j == Joined(c)
           last == views[c].last
           after == After(j, last)
<1>0. n \in Nat /\ BrokerInv(j, n, row.attempt) /\ last \in Nat
      /\ (last = 0 <=> views[c].id = 0)
  BY JoinParts DEF FeedInv, ViewsInv, ViewInv, View
<1>1. j \in BrokerState /\ Numbered(j, n) /\ j.next - 1 \in Nat /\ j.events \in Seq(Event)
      /\ Len(j.events) \in Nat /\ j.attempt # 0
  BY <1>0, AcceptedHasState, LenProperties DEF BrokerInv, BrokerState
<1>2. Known(j) => j.next - 1 = n /\ (last # 0 => views[c].id = last)
  BY DEF InPlace, ContinuityInv
<1> HIDE DEF j, last
<1>3. SeqsUpTo(after, j.next - 1)
  BY <1>0, <1>1, AfterIs
<1>4. ASSUME views[c].id # 0
      PROVE  views[c].id = n - Len(after)
  <2>1. last > 0 /\ ~ Unprovable(j, last)
    BY <1>0, <1>4 DEF Refuses, j, last
  <2>2. Known(j)
    <3>1. j # NoState
      BY <1>1 DEF NoState
    <3> QED BY <2>1, <3>1 DEF Unprovable, Known
  <2>3. last \in (j.next - 1 - Len(j.events))..(j.next - 1)
    <3>1. last <= j.next - 1
      BY <1>0, <1>1, <2>1 DEF Unprovable
    <3>2. CASE j.events = <<>>
      <4>1. last >= j.next - 1 /\ Len(j.events) = 0
        BY <1>0, <1>1, <2>1, <3>2, EmptySeq DEF Unprovable
      <4> QED BY <1>0, <1>1, <3>1, <4>1
    <3>3. CASE j.events # <<>>
      <4>1. Len(j.events) \in Nat \ {0}
        BY <1>1, <3>3, EmptySeq
      <4>2. j.events[1].seq = j.next - 1 - Len(j.events) + 1
        BY <1>1, <4>1 DEF Numbered, SeqsUpTo
      <4>3. ~ (last < j.events[1].seq - 1)
        BY <2>1, <3>3 DEF Unprovable
      <4> QED BY <1>0, <1>1, <3>1, <4>1, <4>2, <4>3
    <3> QED BY <3>2, <3>3
  <2>4. Len(after) = j.next - 1 - last
    BY <1>0, <1>1, <2>3, AfterIs
  <2> QED BY <1>0, <1>1, <1>2, <2>1, <2>2, <2>4
<1> QED BY <1>2, <1>3, <1>4 DEF j, last

InPlaceNext == InPlace(broker', streams', views', published')

LEMMA AnswerInPlace ==
  ASSUME FeedInv, EventsInv, HeldInv, FirstNews, InPlace(broker, streams, views, published),
         NEW c \in Clients, ReplayUnavailable(c) \/ NothingLeft(c) \/ Subscribe(c)
  PROVE  InPlaceNext
<1> DEFINE p == Rebuilt(c)
           j == Joined(c)
           h == Heard(p)
           m == published + Len(p.new)
           w == [j EXCEPT !.listeners = @ \cup {c}]
<1>1. Arriving(c)
  BY DEF ReplayUnavailable, NothingLeft, Subscribe
<1>2. /\ m \in Nat /\ BrokerInv(j, m, row.attempt) /\ StreamsInv(h, m, row.attempt)
      /\ views \in [Clients -> View] /\ h \in [Clients -> Stream] /\ j \in BrokerState
  BY <1>1, JoinParts DEF FeedInv, ViewsInv, StreamsInv, BrokerInv
<1>3. ~ (broker = NoState /\ views[c].last > 0) => InPlace(j, h, views, m)
  BY <1>1, JoinedInPlace
<1>4. published' = m
  BY DEF ReplayUnavailable, NothingLeft, Subscribe
<1>5. CASE ReplayUnavailable(c)
  <2> DEFINE v == [Mounted EXCEPT !.phase = "refreshing", !.attempt = views[c].attempt]
  <2>1. /\ broker' = IF broker = NoState /\ views[c].last > 0 THEN broker ELSE j
        /\ streams' = [h EXCEPT ![c] = Idle]
        /\ views' = [views EXCEPT ![c] = v]
    BY <1>5 DEF ReplayUnavailable
  <2>2. v.last = 0 /\ v.id = 0
    BY DEF Mounted
  <2>3. InPlace(broker', h, views, m)
    <3>1. CASE broker = NoState /\ views[c].last > 0
      <4>1. Rebuilt(c) = [state |-> broker, new |-> <<>>]
        BY <3>1 DEF Rebuilt
      <4>2. AsIs(p)
        BY <4>1 DEF AsIs
      <4>3. InPlace(p.state, h, views, m)
        <5> HIDE DEF p
        <5>1. Speaks(p, 0) /\ Continues(p)
          BY <4>2, FeedTypes, AsIsSpeaks, RebuildContinues
        <5> QED BY <5>1, SpeaksInPlace
      <4> QED BY <2>1, <3>1, <4>2, <4>3 DEF AsIs
    <3>2. CASE ~ (broker = NoState /\ views[c].last > 0)
      BY <1>3, <2>1, <3>2
    <3> QED BY <3>1, <3>2
  <2> HIDE DEF v, h, m
  <2>4. InPlace(broker', streams', views, m)
    BY <1>2, <2>1, <2>3, OneIdleInPlace
  <2>5. InPlace(broker', streams', views', m)
    BY <1>2, <2>1, <2>2, <2>4, AfreshInPlace
  <2> QED BY <1>4, <2>5 DEF InPlaceNext
<1>6. CASE NothingLeft(c) \/ Subscribe(c)
  <2>1. ~ Refuses(c) /\ ~ (broker = NoState /\ views[c].last > 0)
    BY <1>6 DEF NothingLeft, Subscribe, Refuses
  <2>2. InPlace(j, h, views, m)
    BY <1>3, <2>1
  <2>3. j # NoState
    BY <1>1, <2>1, AcceptedHasState DEF NoState
  <2>4. w \in BrokerState /\ w.next = j.next /\ w.unknown = j.unknown
    <3> HIDE DEF j
    <3> QED BY <1>2 DEF BrokerState
  <2> HIDE DEF j, h, m, w
  <2>5. InPlace(w, h, views, m)
    BY <2>2, <2>3, <2>4, LessKnown DEF Known
  <2>6. CASE NothingLeft(c)
    <3> DEFINE v == [views[c] EXCEPT !.phase = "refreshing"]
    <3>1. /\ broker' = Unsubscribed(w, c)
          /\ streams' = [h EXCEPT ![c] = Idle]
          /\ views' = [views EXCEPT ![c] = v]
      BY <2>6 DEF NothingLeft, h, w, j
    <3>2. v.last = views[c].last /\ v.id = views[c].id
      BY <1>2, PhaseSame
    <3> HIDE DEF v
    <3>3. InPlace(broker', h, views, m)
      <4>1. Known(broker') => Known(w) /\ broker'.next = w.next
        BY <2>4, <3>1, UnsubscribedKnown
      <4> QED BY <2>5, <4>1, LessKnown
    <3>4. InPlace(broker', streams', views, m)
      BY <1>2, <3>1, <3>3, OneIdleInPlace
    <3>5. InPlace(broker', streams', views', m)
      BY <1>2, <3>1, <3>2, <3>4, SameInPlace
    <3> QED BY <1>4, <3>5 DEF InPlaceNext
  <2>7. CASE Subscribe(c)
    <3> DEFINE after == After(j, views[c].last)
               s == [Idle EXCEPT !.phase = "open", !.queue = after]
    <3>1. broker' = w /\ streams' = [h EXCEPT ![c] = s] /\ views' = views
      BY <2>7 DEF Subscribe, h, w, j
    <3>2. s.queue = after
      BY DEF Idle
    <3>3. /\ Known(j) => SeqsUpTo(after, m)
          /\ views[c].id # 0 => views[c].id = m - Len(after)
      BY <1>1, <2>1, <2>2, AcceptedInPlace DEF j, h, m
    <3>4. Known(w) => Known(j)
      BY <2>3, <2>4 DEF Known
    <3> HIDE DEF s, after
    <3>5. InPlace(broker', streams', views, m)
      BY <1>2, <2>5, <3>1, <3>2, <3>3, <3>4, OneStreamInPlace
    <3> QED BY <1>4, <3>1, <3>5 DEF InPlaceNext
  <2> QED BY <1>6, <2>6, <2>7
<1> QED BY <1>5, <1>6

LEMMA OperationInPlace ==
  ASSUME FeedInv, EventsInv, HeldInv, FirstNews, InPlace(broker, streams, views, published),
         \/ Claim \/ BeginAttempt \/ Finalize \/ PublishCompletion \/ GraceElapses \/ Delete
         \/ TombstoneExpires \/ HistoryExpires \/ HistoryEvicted
  PROVE  InPlaceNext
<1>0. broker \in BrokerState /\ TypeOK /\ Attempted
  BY FeedTypes DEF FeedInv, BrokerInv
<1>1. CASE PublishCompletion
  <2>1. PICK f \in finished :
          /\ broker' = Publication(f.op, FALSE, f.text).state
          /\ streams' = Heard(Publication(f.op, FALSE, f.text))
          /\ published' = published + Len(Publication(f.op, FALSE, f.text).new)
    BY <1>1 DEF PublishCompletion
  <2> DEFINE p == Publication(f.op, FALSE, f.text)
  <2>2. views' = views /\ f.op \in Rows /\ f.text \in BOOLEAN /\ f.op \in Held
        /\ f.op.attempt \in Nat
    BY <1>1 DEF PublishCompletion, FeedInv, ServerInv, Held, Rows
  <2>3. IsPublication(p, f.op, FALSE)
    BY <1>0, <2>2, PublicationIs DEF Attempted
  <2>4. broker = NoState /\ ~ closed /\ ~ erased /\ ~ (f.op.attempt > 1) => published = 0
    BY <2>2, NothingBefore
  <2> HIDE DEF p
  <2>5. Speaks(p, f.op.attempt) /\ Continues(p)
    BY <2>3, <2>4, PublicationSpeaks, PublicationContinues
  <2>6. InPlace(p.state, Heard(p), views, published + Len(p.new))
    BY <2>5, SpeaksInPlace
  <2> QED BY <2>1, <2>2, <2>6 DEF InPlaceNext, p
<1>2. CASE BeginAttempt \/ HistoryExpires \/ HistoryEvicted
  <2>1. UNCHANGED <<streams, views, published>>
    BY <1>2 DEF BeginAttempt, HistoryExpires, HistoryEvicted, ghosts
  <2>2. Known(broker') => Known(broker) /\ broker'.next = broker.next
    <3>1. CASE HistoryExpires \/ HistoryEvicted
      <4>1. broker.events # <<>>
            /\ (broker' = NoState \/ broker' = [broker EXCEPT !.events = <<>>])
        BY <3>1 DEF HistoryExpires, HistoryEvicted
      <4> QED BY <1>0, <4>1 DEF Known, BrokerState, NoState
    <3>2. CASE BeginAttempt
      <4>1. broker' = broker \/ (broker # NoState /\ broker' = SyncAttempt(broker, executor))
        BY <3>2 DEF BeginAttempt
      <4>2. executor.attempt \in 0..MaxAttempts
        BY DEF FeedInv, ServerInv
      <4>3. SyncAttempt(broker, executor).next = broker.next
            /\ SyncAttempt(broker, executor).unknown = broker.unknown
        BY <1>0, <4>2, SyncIs
      <4> QED BY <4>1, <4>3 DEF Known
    <3> QED BY <1>2, <3>1, <3>2
  <2> QED BY <2>1, <2>2, LessKnown DEF InPlaceNext
<1>3. CASE Claim \/ Finalize \/ GraceElapses \/ Delete \/ TombstoneExpires
  <2>1. UNCHANGED <<broker, streams, views, published>>
    BY <1>3 DEF Claim, Finalize, GraceElapses, Delete, TombstoneExpires, serverVars, ghosts
  <2> QED BY <2>1 DEF InPlaceNext
<1> QED BY <1>1, <1>2, <1>3

LEMMA StreamInPlace ==
  ASSUME FeedInv, EventsInv, InPlace(broker, streams, views, published), NEW c \in Clients,
         \/ Mount(c) \/ Refresh(c) \/ RefreshFails(c) \/ Revoke(c)
         \/ Open(c) \/ TurnedAway(c) \/ Check(c) \/ PollRead(c)
  PROVE  InPlaceNext
<1>0. /\ broker' = broker /\ published' = published
      /\ streams \in [Clients -> Stream] /\ views \in [Clients -> View]
  BY DEF Mount, Refresh, RefreshFails, Revoke, Open, TurnedAway, Check, PollRead, serverVars,
         ghosts, FeedInv, StreamsInv, ViewsInv
<1>1. InPlace(broker, streams', views, published)
  <2>1. CASE Mount(c) \/ Refresh(c) \/ RefreshFails(c) \/ Revoke(c)
    BY <2>1 DEF Mount, Refresh, RefreshFails, Revoke, serverVars
  <2>2. CASE TurnedAway(c)
    BY <1>0, <2>2, OneIdleInPlace DEF TurnedAway
  <2>3. CASE Open(c)
    <3> DEFINE s == [Idle EXCEPT !.phase = "reading", !.snapshot = Read(c)]
    <3>1. s.phase # "open" /\ s.queue = <<>> /\ streams' = [streams EXCEPT ![c] = s]
      BY <2>3 DEF Open, Idle
    <3> HIDE DEF s
    <3>2. SeqsUpTo(s.queue, published)
      BY <3>1, NoneUpTo
    <3> QED BY <1>0, <3>1, <3>2, OneStreamInPlace
  <2>4. CASE Check(c) \/ PollRead(c)
    <3>1. PICK t : /\ streams' = [streams EXCEPT ![c] = t]
                   /\ t.phase = streams[c].phase /\ t.queue = streams[c].queue
      <4>1. CASE Check(c)
        <5> DEFINE t == [streams[c] EXCEPT !.check = IF Accessible(c) THEN "passed" ELSE "denied"]
        <5>1. streams' = [streams EXCEPT ![c] = t]
          BY <4>1 DEF Check
        <5>2. t.phase = streams[c].phase /\ t.queue = streams[c].queue
          BY <1>0 DEF Stream
        <5> QED BY <5>1, <5>2
      <4>2. CASE PollRead(c)
        <5> DEFINE t == [streams[c] EXCEPT !.poll = Read(c)]
        <5>1. streams' = [streams EXCEPT ![c] = t]
          BY <4>2 DEF PollRead
        <5>2. t.phase = streams[c].phase /\ t.queue = streams[c].queue
          BY <1>0 DEF Stream
        <5> QED BY <5>1, <5>2
      <4> QED BY <2>4, <4>1, <4>2
    <3>2. /\ Known(broker) => SeqsUpTo(t.queue, published)
          /\ t.phase = "open" /\ views[c].id # 0 => views[c].id = published - Len(t.queue)
      BY <3>1 DEF InPlace, ContinuityInv, PlaceInv
    <3> QED BY <1>0, <3>1, <3>2, OneStreamInPlace
  <2> QED BY <2>1, <2>2, <2>3, <2>4
<1>2. CASE Check(c) \/ PollRead(c) \/ Revoke(c)
  BY <1>0, <1>1, <1>2 DEF Check, PollRead, Revoke, InPlaceNext
<1>3. CASE Mount(c) \/ Refresh(c) \/ RefreshFails(c) \/ Open(c) \/ TurnedAway(c)
  <2>1. PICK v : /\ views' = [views EXCEPT ![c] = v]
                 /\ (v.last = 0 /\ v.id = 0) \/ (v.last = views[c].last /\ v.id = views[c].id)
    <3>1. \A phase : [views[c] EXCEPT !.phase = phase].last = views[c].last
                     /\ [views[c] EXCEPT !.phase = phase].id = views[c].id
      BY <1>0, PhaseSame
    <3>2. CASE Mount(c) \/ TurnedAway(c)
      BY <3>2, MountedAfresh DEF Mount, TurnedAway
    <3>3. CASE Refresh(c)
      BY <3>1, <3>3, MountedAfresh DEF Refresh
    <3>4. CASE RefreshFails(c)
      <4>1. views' = [views EXCEPT ![c] = [views[c] EXCEPT !.phase = "connecting"]]
        BY <3>4 DEF RefreshFails
      <4> QED BY <3>1, <4>1
    <3>5. CASE Open(c)
      <4>1. views' = [views EXCEPT ![c] = [views[c] EXCEPT !.phase = "connected"]]
        BY <3>5 DEF Open
      <4> QED BY <3>1, <4>1
    <3> QED BY <1>3, <3>2, <3>3, <3>4, <3>5
  <2> QED BY <1>0, <1>1, <2>1, AfreshInPlace, SameInPlace DEF InPlaceNext
<1> QED BY <1>2, <1>3

LEMMA SendInPlace ==
  ASSUME FeedInv, EventsInv, InPlace(broker, streams, views, published), NEW c \in Clients, Send(c)
  PROVE  /\ InPlaceNext
         /\ views'[c].id \in 1..published
         /\ views[c].id # 0 => views'[c].id = views[c].id + 1
<1> DEFINE q == streams[c].queue
           event == Head(q)
           v == [phase |-> IF event.terminal THEN "refreshing" ELSE "connected",
                 last |-> event.seq, id |-> event.id, attempt |-> event.attempt]
           s == [streams[c] EXCEPT !.queue = Tail(@), !.check = "none"]
<1>0. /\ streams \in [Clients -> Stream] /\ views \in [Clients -> View]
      /\ broker \in BrokerState /\ published \in Nat
      /\ StreamInv(streams[c], published, row.attempt)
  BY DEF FeedInv, StreamsInv, ViewsInv, BrokerInv, ServerInv
<1>1. streams[c].check = "passed" /\ streams[c].phase = "open"
  BY DEF Send
<1>2. q \in Seq(Event) /\ q # <<>> /\ IdsUpTo(q, published)
  BY <1>0, <1>1 DEF StreamInv, Stream
<1>3. /\ event \in Event /\ event = q[1] /\ Tail(q) \in Seq(Event)
      /\ Len(q) \in Nat \ {0} /\ Len(Tail(q)) = Len(q) - 1
      /\ event.id = published - Len(q) + 1
  BY <1>0, <1>2, TailUpTo
<1>4. event.id \in 1..published
  <2>1. event.id \in Nat \ {0}
    BY <1>3 DEF Event
  <2> HIDE DEF event, q
  <2> QED BY <1>0, <1>3, <2>1
<1>5. views[c].id # 0 => event.id = views[c].id + 1
  <2>1. views[c].id # 0 => views[c].id = published - Len(q)
    BY <1>1 DEF InPlace, PlaceInv
  <2> HIDE DEF event, q
  <2> QED BY <1>0, <1>3, <2>1
<1>6. Known(broker) => event.seq = event.id /\ SeqsUpTo(Tail(q), published)
  <2> SUFFICES ASSUME Known(broker) PROVE event.seq = event.id /\ SeqsUpTo(Tail(q), published)
    OBVIOUS
  <2>1. SeqsUpTo(q, published)
    BY DEF InPlace, ContinuityInv
  <2> HIDE DEF event, q
  <2>2. q[1].seq = published - Len(q) + 1
    BY <1>3, <2>1 DEF SeqsUpTo
  <2>3. Tail(q) = SubSeq(q, 2, Len(q)) /\ 2 \in 1..Len(q) + 1
    BY <1>2, <1>3, TailIsSubSeq
  <2> QED BY <1>0, <1>2, <1>3, <2>1, <2>2, <2>3, SuffixUpTo
<1>7. /\ views' = [views EXCEPT ![c] = v] /\ published' = published
      /\ broker' = broker \/ broker' = Unsubscribed(broker, c)
      /\ streams' = [streams EXCEPT ![c] = Idle] \/ streams' = [streams EXCEPT ![c] = s]
  BY DEF Send, ghosts
<1>8. v.last = event.seq /\ v.id = event.id
  OBVIOUS
<1>9. s.queue = Tail(q)
  BY <1>0 DEF Stream
<1> HIDE DEF v, s, event, q
<1>10. /\ Known(broker) /\ v.last # 0 => v.id = v.last
       /\ v.id = published - Len(Tail(q))
  BY <1>0, <1>3, <1>6, <1>8
<1>11. InPlace(broker, streams', views', published)
  <2>1. CASE streams' = [streams EXCEPT ![c] = s]
    <3>1. ContinuityInv(broker, streams', views', published)
      BY <1>0, <1>6, <1>7, <1>9, <1>10, <2>1 DEF InPlace, ContinuityInv
    <3>2. PlaceInv(streams', views', published)
      BY <1>0, <1>7, <1>9, <1>10, <2>1 DEF InPlace, PlaceInv
    <3> QED BY <3>1, <3>2 DEF InPlace
  <2>2. CASE streams' = [streams EXCEPT ![c] = Idle]
    <3>1. InPlace(broker, streams', views, published)
      BY <1>0, <2>2, OneIdleInPlace
    <3>2. streams'[c].phase # "open"
      BY <1>0, <2>2 DEF Idle
    <3> QED BY <1>0, <1>7, <1>10, <3>1, <3>2, OneViewInPlace
  <2> QED BY <1>7, <2>1, <2>2
<1>12. Known(broker') => Known(broker) /\ broker'.next = broker.next
  BY <1>0, <1>7, UnsubscribedKnown
<1>13. InPlaceNext
  BY <1>7, <1>11, <1>12, LessKnown DEF InPlaceNext
<1>14. views'[c].id = event.id
  BY <1>0, <1>7, <1>8
<1> QED BY <1>4, <1>5, <1>13, <1>14

LEMMA PollInPlace ==
  ASSUME FeedInv, EventsInv, InPlace(broker, streams, views, published), NEW c \in Clients,
         PollApply(c)
  PROVE  InPlaceNext
<1> DEFINE op == streams[c].poll
           asIs == [state |-> broker, new |-> <<>>]
           p == IF Ready(op) THEN Publication(op, broker = NoState, FALSE) ELSE asIs
           h == Heard(p)[c]
           t == [h EXCEPT !.poll = NoRead]
           m == published + Len(p.new)
<1>0. TypeOK /\ Attempted /\ op \in Reads /\ views \in [Clients -> View]
  BY FeedTypes DEF FeedInv, StreamsInv, Stream, ViewsInv
<1>1. /\ broker' = p.state /\ streams' = [Heard(p) EXCEPT ![c] = t]
      /\ published' = m /\ views' = views
  BY DEF PollApply
<1>2. AsIs(p) \/ IsRebuild(p, op)
  BY <1>0, RebuildIs DEF AsIs
<1> HIDE DEF p
<1>3. Speaks(p, op.attempt) /\ Continues(p)
  BY <1>0, <1>2, RebuildSpeaks, RebuildContinues
<1>4. InPlace(p.state, Heard(p), views, m)
  BY <1>3, SpeaksInPlace
<1>5. Heard(p) \in [Clients -> Stream]
  BY <1>0, <1>3, HeardIs DEF Speaks
<1>6. t.phase = h.phase /\ t.queue = h.queue
  BY <1>5 DEF Stream
<1>7. /\ Known(p.state) => SeqsUpTo(h.queue, m)
      /\ h.phase = "open" /\ views[c].id # 0 => views[c].id = m - Len(h.queue)
  BY <1>4 DEF InPlace, ContinuityInv, PlaceInv
<1> HIDE DEF t, h, m
<1>8. InPlace(p.state, [Heard(p) EXCEPT ![c] = t], views, m)
  BY <1>4, <1>5, <1>6, <1>7, OneStreamInPlace
<1> QED BY <1>1, <1>8 DEF InPlaceNext

LEMMA LossInPlace ==
  ASSUME FeedInv, EventsInv, InPlace(broker, streams, views, published),
         \/ EraseInterview \/ Close \/ Restart
         \/ \E c \in Clients : Expel(c) \/ Disconnect(c)
  PROVE  InPlaceNext
<1>0. /\ streams \in [Clients -> Stream] /\ views \in [Clients -> View]
      /\ broker \in BrokerState /\ published' = published
  BY DEF FeedInv, StreamsInv, ViewsInv, BrokerInv, EraseInterview, Close, Restart, Expel,
         Disconnect, ghosts
<1>1. ASSUME NEW closing, streams' = Idled(streams, closing), views' = Ended(closing),
             Known(broker') => Known(broker) /\ broker'.next = broker.next
      PROVE  InPlaceNext
  <2>1. InPlace(broker, streams', views', published)
    BY <1>0, <1>1, EndedInPlace
  <2> QED BY <1>0, <1>1, <2>1, LessKnown DEF InPlaceNext
<1>2. ~ Known(NoState)
  BY DEF Known
<1>3. CASE EraseInterview
  BY <1>1, <1>2, <1>3 DEF EraseInterview, Erasure
<1>4. CASE Close \/ Restart
  <2>1. /\ broker' = NoState /\ streams' = [c \in Clients |-> Idle] /\ views' = Ended(Clients)
    BY <1>4 DEF Close, Restart
  <2>2. streams' = Idled(streams, Clients)
    BY <2>1 DEF Idled
  <2> QED BY <1>1, <1>2, <2>1, <2>2
<1>5. ASSUME NEW c \in Clients, Expel(c)
      PROVE  InPlaceNext
  <2>1. CASE c \in sessions
    <3>1. broker' = Unsubscribed(NoState, c) /\ streams' = Idled(streams, broker.listeners \cup {c})
          /\ views' = Ended(broker.listeners \cup {c})
      BY <1>5, <2>1 DEF Expel, Erasure
    <3> QED BY <1>1, <1>2, <3>1, UnsubscribedNoState
  <2>2. CASE c \notin sessions
    <3>1. broker' = Unsubscribed(broker, c) /\ streams' = Idled(streams, {} \cup {c})
          /\ views' = Ended({} \cup {c})
      BY <1>5, <2>2 DEF Expel
    <3> QED BY <1>0, <1>1, <3>1, UnsubscribedKnown
  <2> QED BY <2>1, <2>2
<1>6. ASSUME NEW c \in Clients, Disconnect(c)
      PROVE  InPlaceNext
  <2>1. PICK v : /\ v \in {Unmounted, [views[c] EXCEPT !.phase = "refreshing"]}
                 /\ views' = [views EXCEPT ![c] = v]
    BY <1>6 DEF Disconnect
  <2>2. streams' = [streams EXCEPT ![c] = Idle] /\ broker' = Unsubscribed(broker, c)
    BY <1>6 DEF Disconnect
  <2>3. (v.last = 0 /\ v.id = 0) \/ (v.last = views[c].last /\ v.id = views[c].id)
    <3>1. [views[c] EXCEPT !.phase = "refreshing"].last = views[c].last
          /\ [views[c] EXCEPT !.phase = "refreshing"].id = views[c].id
      BY <1>0, PhaseSame
    <3> QED BY <2>1, <3>1, MountedAfresh
  <2>4. InPlace(broker, streams', views, published)
    BY <1>0, <2>2, OneIdleInPlace
  <2>5. InPlace(broker, streams', views', published)
    BY <1>0, <2>1, <2>3, <2>4, AfreshInPlace, SameInPlace
  <2>6. Known(broker') => Known(broker) /\ broker'.next = broker.next
    BY <1>0, <2>2, UnsubscribedKnown
  <2> QED BY <1>0, <2>5, <2>6, LessKnown DEF InPlaceNext
<1> QED BY <1>3, <1>4, <1>5, <1>6

(* The feed only grows. *)
LEMMA PublishedGrows ==
  ASSUME FeedInv, EventsInv, Next
  PROVE  published' >= published
<1>0. TypeOK /\ Attempted /\ published \in Nat
  BY FeedTypes DEF FeedInv, ServerInv
<1>1. ASSUME NEW p, p.new \in Seq(Event), published' = published + Len(p.new)
      PROVE  published' >= published
  BY <1>0, <1>1, LenProperties
<1>2. CASE PublishCompletion
  <2>1. PICK f \in finished : published' = published + Len(Publication(f.op, FALSE, f.text).new)
    BY <1>2 DEF PublishCompletion
  <2>2. Publication(f.op, FALSE, f.text).new \in Seq(Event)
    <3>1. f.op \in Rows /\ f.text \in BOOLEAN
      BY DEF FeedInv, ServerInv
    <3> QED BY <1>0, <3>1, PublicationIs DEF IsPublication, Attempted
  <2> QED BY <1>1, <2>1, <2>2
<1>3. ASSUME NEW c \in Clients, ReplayUnavailable(c) \/ NothingLeft(c) \/ Subscribe(c)
      PROVE  published' >= published
  <2>1. published' = published + Len(Rebuilt(c).new)
    BY <1>3 DEF ReplayUnavailable, NothingLeft, Subscribe
  <2>2. Rebuilt(c).new \in Seq(Event)
    BY <1>0, RebuiltIs, RebuildSpeaks DEF Speaks
  <2> QED BY <1>1, <2>1, <2>2
<1>4. ASSUME NEW c \in Clients, PollApply(c)
      PROVE  published' >= published
  <2> DEFINE op == streams[c].poll
             asIs == [state |-> broker, new |-> <<>>]
             p == IF Ready(op) THEN Publication(op, broker = NoState, FALSE) ELSE asIs
  <2>1. published' = published + Len(p.new)
    BY <1>4 DEF PollApply
  <2>2. op \in Reads
    BY DEF FeedInv, StreamsInv, Stream
  <2>3. AsIs(p) \/ IsRebuild(p, op)
    BY <1>0, <2>2, RebuildIs DEF AsIs
  <2> HIDE DEF p
  <2>4. p.new \in Seq(Event)
    BY <1>0, <2>3, RebuildSpeaks DEF Speaks
  <2> QED BY <1>1, <2>1, <2>4
<1>5. ASSUME ~ PublishCompletion,
             \A c \in Clients : /\ ~ ReplayUnavailable(c) /\ ~ NothingLeft(c) /\ ~ Subscribe(c)
                                /\ ~ PollApply(c)
      PROVE  published' >= published
  <2>1. published' = published
    BY <1>5 DEF Next, Claim, BeginAttempt, Finalize, GraceElapses, EraseInterview,
                HistoryExpires, HistoryEvicted, TombstoneExpires, Close, Restart, Mount, Open,
                TurnedAway, Check, Send, PollRead, Expel, Disconnect, Refresh, RefreshFails,
                Delete, Revoke, serverVars, ghosts
  <2> QED BY <1>0, <2>1
<1> QED BY <1>2, <1>3, <1>4, <1>5

(* The inductive invariant of a broker whose grace period holds. *)
TimelyInv ==
  /\ HeldInv
  /\ DenialInv
  /\ FirstNews
  /\ InPlace(broker, streams, views, published)

LEMMA TimelyInit == Init => TimelyInv
<1> SUFFICES ASSUME Init PROVE TimelyInv
  OBVIOUS
<1>1. \A op \in Held : op = NoRead
  BY DEF Init, Held, Idle
<1>2. HeldInv
  BY <1>1, NoReadIs DEF Init, HeldInv, Settled
<1>3. DenialInv
  BY NoReadIs DEF Init, DenialInv, Idle
<1>4. FirstNews
  BY DEF Init, FirstNews
<1>5. InPlace(broker, streams, views, published)
  BY MountedAfresh DEF Init, InPlace, ContinuityInv, PlaceInv, Known
<1> QED BY <1>2, <1>3, <1>4, <1>5 DEF TimelyInv

LEMMA TimelyNext ==
  ASSUME Timely
  PROVE  EventsInv /\ FeedInv /\ TimelyInv /\ [Next]_vars => TimelyInv'
<1> SUFFICES ASSUME EventsInv, FeedInv, TimelyInv, [Next]_vars PROVE TimelyInv'
  OBVIOUS
<1>1. CASE UNCHANGED vars
  <2>1. UNCHANGED <<row, deleted, sessions, ripe, finished, erasing, broker, closed, erased,
                    streams, views, published>>
    BY <1>1 DEF vars, serverVars, ghosts
  <2>2. HeldInv' /\ DenialInv'
    BY <2>1 DEF TimelyInv, HeldInv, DenialInv, Held, Accessible
  <2>3. FirstNews' /\ InPlaceNext
    BY <2>1 DEF TimelyInv, FirstNews, Told, Held, InPlaceNext
  <2> QED BY <2>2, <2>3 DEF TimelyInv, InPlaceNext
<1>2. CASE Next
  <2>1. HeldInv' /\ DenialInv' /\ FirstNews'
    BY <1>2, HeldStep, DenialStep, FirstNewsStep DEF TimelyInv
  <2>2. InPlaceNext
    BY <1>2, OperationInPlace, StreamInPlace, AnswerInPlace, SendInPlace, PollInPlace, LossInPlace
       DEF TimelyInv, Next
  <2> QED BY <2>1, <2>2 DEF TimelyInv, InPlaceNext
<1> QED BY <1>1, <1>2

LEMMA FeedStep ==
  EventsInv /\ FeedInv /\ FeedInv' /\ TimelyInv /\ [Next]_vars => [Feed!Next]_(Feed!vars)
<1> DEFINE position == [c \in Clients |-> views[c].id]
<1> SUFFICES ASSUME EventsInv, FeedInv, FeedInv', TimelyInv, [Next]_vars
             PROVE  [Feed!Next]_(Feed!vars)
  OBVIOUS
<1>1. CASE UNCHANGED vars
  BY <1>1 DEF vars, ghosts, Feed!vars
<1>2. CASE Next
  <2>1. /\ published \in Nat /\ published' \in Nat
        /\ \A c \in Clients : views[c].id \in Nat /\ views'[c].id \in Nat
        /\ \A c \in Clients : views'[c].last = 0 => views'[c].id = 0
    BY DEF FeedInv, ServerInv, ViewsInv, ViewInv, View
  <2>2. published' >= published
    BY <1>2, PublishedGrows
  <2>3. ASSUME NEW d \in Clients
        PROVE  \/ views'[d].id = views[d].id
               \/ views'[d].id \in 1..published
                  /\ (views[d].id # 0 => views'[d].id = views[d].id + 1)
               \/ views'[d].id = 0
    <3> SUFFICES ASSUME Sent(d)
                 PROVE  /\ views'[d].id \in 1..published
                        /\ views[d].id # 0 => views'[d].id = views[d].id + 1
      BY <2>1 DEF Sent
    <3>1. PICK c \in Clients : Send(c)
      BY <1>2, ServerSends, ClientSends DEF Next
    <3>2. c = d
      BY <3>1 DEF Send, Sent, FeedInv, ViewsInv
    <3> QED BY <3>1, <3>2, SendInPlace DEF TimelyInv
  <2>4. position' \in [Clients -> Nat]
    BY <2>1
  <2>5. \A c \in Clients : position[c] = views[c].id /\ position'[c] = views'[c].id
    OBVIOUS
  <2> HIDE DEF position
  <2>6. /\ published' \in Nat /\ published' >= published
        /\ position' \in [Clients -> Nat]
        /\ \A c \in Clients :
             \/ position'[c] = position[c]
             \/ position'[c] \in 1..published /\ (position[c] # 0 => position'[c] = position[c] + 1)
             \/ position'[c] = 0
    BY <2>1, <2>2, <2>3, <2>4, <2>5
  <2>7. Feed!Next
    BY <2>6 DEF Feed!Next, Feed!Hears, Feed!StartsAfresh, position
  <2> QED BY <2>7
<1> QED BY <1>1, <1>2

(* With a grace period that outlasts what it waits for, a client that names   *)
(* its last event is given the next one published and nothing else, through    *)
(* every reconnection, retry, lost history, erasure and restart.              *)
THEOREM FeedKept ==
  ASSUME Timely
  PROVE  Spec => FeedIsKept
<1>1. Init => Feed!Init
  BY MountedAfresh DEF Init, Feed!Init
<1>2. Spec => []TimelyInv
  BY TimelyInit, TimelyNext, EventsInvariant, FeedInvariant, PTL DEF Spec
<1> QED BY <1>1, <1>2, FeedStep, EventsInvariant, FeedInvariant, PTL DEF Spec, FeedIsKept, Feed!Spec
================================================================================
