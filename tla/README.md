# interview-agent: a TLA+ development

The repository is a monorepo for mock interviews: a user answers the questions
of an interview, models evaluate the answers and phrase follow-ups, and a report
closes it. Everything a user can see is kept in PostgreSQL; model work runs in
the server process and is lost with it. What is hard is what lies between: an
interview row, an operation row per command with a lease on it, and executions
in memory that outlive both leases and interviews.

This directory holds the specification of that part, its model-checking
configurations and machine-checked proofs. Paths below are relative to the
repository root.

## 1. Inventory

| Part (code) | State | Operations | Interacts with | What makes it correct |
| --- | --- | --- | --- | --- |
| Interview engine (`packages/domain/src/engine.ts`) | none; functions on an `Interview` aggregate: version, status, phase, questions, pending operation, report request | commands, completions, cancel, retry, refresh, expiry | called inside transactions of the server | phase, outcome, evaluation and pending operation agree; questions settle in order; stale completions are refused |
| Save validation (`packages/db/src/repositories/transition-validation.ts`) | none | accepts or refuses a diff of two aggregates | called by `InterviewRepository.save` | knows every transition the engine makes |
| Interview repository (`interview-repository.ts`) | interview, question, message, event, evaluation rows | create, load, save under version, history | operation rows (pending reference) | a save or load never meets a pending operation without its row |
| Operation repository (`operation-repository.ts`) | operation rows: status, attempt, lease, retryable | create or load, claim, retry, reclaim, complete, fail | locks user and interview rows | one holder per lease, final rows are final |
| Acceptance, retry, execution, finalization (`apps/server/src/operation-*.ts`, `model-operation-*.ts`, `report-operation-*.ts`) | accepted executions in memory | accept a command, retry, run models, complete, fail | all of the above, event broker, supervisor; row locks of PostgreSQL | effect and row agree whatever crashes, lapses or races; transactions commit as if one at a time |
| Supervisor and shutdown (`operation-execution-supervisor.ts`, `shutdown.ts`) | map of active executions, shutting-down flag | start, drain | routes, runner | drains; starts nothing after shutdown |
| Expiry and deletion (`interview-expiry-handling.ts`, `lifecycle-repository.ts`) | status, deletion requests | expire on access, sweep, mark deleting | interview and operation rows | a closed interview has no open work |
| Purge and maintenance (`lifecycle-repository.ts`, `lifecycle-service.ts`) | deletion requests with lease, attempt, deadline | claim due, purge, record failure | user, interview rows | purged once, by the holder, before the deadline |
| Event broker and stream (`operation-events.ts`) | per-operation sequence, attempt, history, listeners, tombstones | begin attempt, publish, subscribe, erase, expire history | finalization, SSE routes, deletion | gap-free order per attempt, one terminal, nothing after erasure |
| Creation and blueprint selection (`interview-creation-service.ts`, `blueprint-selection.ts`, `blueprint-coverage.ts`) | interview and its questions | serializable creation, selection | question bank, operations | one open interview per account; the blueprint meets its coverage |
| Scoring and reports (`scoring.ts`, `reports.ts`, `operation-report-builder.ts`, `report-repository.ts`) | report rows | aggregate scores, build and store a report | engine, report model | score bounds, ineligible questions left out |
| Model adapters (`*-model.ts`, `model-runtime.ts`) | one call at a time | call, repair, time out | executions | bounded attempts, classified failures |
| Account access (`account-access-repository.ts`, `auth.ts`) | user, session rows | sign in, refresh, delete | deletion | no access after deletion |
| Question bank (`question-bank-*.ts`) | versions | validate, import, publish | selection | a published version never changes |
| HTTP, contracts, web (`*-routes.ts`, `packages/contracts`, `apps/web`) | client view of an operation | decode, map, stream | handlers, broker | every operation reaches a terminal in the view |

`PROJECT.json` lists the same parts with their status, and under "hazards" the
places where a test hardly reaches what can go wrong.

## 2. Modules

```
InterviewTypes
  |-- SaveTransitions              which diffs the persistence layer accepts
  |     `-- CanonicalInterview     what it lets happen to one interview
  `-- InterviewEngine              engine.ts as operators
        |-- InterviewEngineProofs  (also extends SaveTransitions)
        |-- InterviewSession       one aggregate, any order of calls
        |     |-- MCInterviewSession
        |     `-- InterviewStore   the rows the aggregate is kept in
        |           |-- InterviewSessionProofs   about both (also extends InterviewEngineProofs)
        |           `-- MCInterviewStore
        |-- OperationRepository    operation rows and their updates
        |     `-- OperationRunner  transactions, executions, crashes, clocks
        |           |-- OperationRunnerProofs  (also extends InterviewEngineProofs)
        |           `-- MCOperationRunner
        `-- Assessment             model calls, from answers to a report
              |-- AssessmentProofs (also extends InterviewEngineProofs)
              `-- MCAssessment     (also extends ReportBuilder, below)

RowLocks                           the same transactions, statement by statement
  |-- RowLocksProofs
  `-- MCRowLocks

Scoring                            scoring.ts
  `-- AnswerEvaluation             what the evaluation adapter accepts
        `-- ReportAnalysis         what the report adapter accepts
              `-- ReportBuilder    what the report's parser and the store accept

QuestionBank                       immutable versions, synchronised from files
  `-- BlueprintSelection           what any selection seed may choose
        `-- InterviewIntake        importers and creations beside each other
              |-- InterviewIntakeProofs
              `-- MCInterviewIntake

ErasureContract                    what deletion promises
  `-- AccountDeletion              marking, and the maintenance cycles
        |-- AccountDeletionProofs
        `-- MCAccountDeletion

EventFeed                          what the event stream promises its clients
  `-- OperationEvents              broker, SSE streams and browser loops
        |-- OperationEventsProofs
        `-- MCOperationEvents
```

### Interview and operations

**InterviewTypes** declares the aggregate. Texts, rubrics, goals and message ids
are gone; answer material is named by the operation that submitted it (the code
derives the one id from the other), an evaluation is the set of material it
judged, time is a tick. A null operation id is the model value `NoOp`.

**InterviewEngine** has, for each function of `engine.ts`, a predicate `Can...`
(the conjunction of its guards; a thrown `InterviewDomainError` is FALSE) and an
operator for the aggregate it returns. Operators named `Fault...`, here and in
the other modules, are the same operations with a plausible bug; they are used
only to show that each property can fail.

**SaveTransitions** is written from `transition-validation.ts` alone: one
predicate per accepted diff of two aggregates, plus the two updates the
lifecycle repository makes itself (expiry, marking for deletion); `SaveAccepts`
is their disjunction. It compares aggregates only: what that file also asks of
the times and the `operationId` of the transition's events is left out.
**CanonicalInterview** is the abstract specification made
of it: a fresh interview of which every change is accepted.
`validateInterviewSave` codes the state machine a second time, so that the
engine implements it is a statement about the code and not about the model.

**InterviewSession** drives one aggregate with every command, every completion
(with any plan ever returned, stale ones included), cancellation, retry,
takeover, report storage and expiry, at instants chosen freely.

**InterviewStore** adds the rows of `interview-repository.ts` to it. An
aggregate is never stored as such: `save` overwrites the session's columns from
it and turns the events of the transition into inserts, updates and deletes of
snapshots, messages, evaluations and the report (`Saves`, with the events each
engine function returns); `Loaded` builds an aggregate from the rows and `Loads`
is the conjunction of everything the load throws on. `TranscriptQuestionCount`
and `QuestionRevealedAt` are what the detail view discloses.

**OperationRepository** is a row and the WHERE and SET clauses on it. A claim
draws a new owner, token and attempt together; the attempt stands for the three.

**OperationRunner** composes them as the server does. One action is one database
transaction; `executions` and `rejected` live in memory and are lost in `Crash`.
Acceptance (`AcceptPlanned`, `HandleImmediate`, `HandleReportRequest`,
`HandleExpired`, `RejectCommand`), retry (`RequestRetry`, `AcceptRetry`,
`RejectRetry`, `FailRetry`: three transactions), finalization (`Finalize...`,
`FailModel`, `CompleteReport`, `FailReport`), abandonment of an execution,
expiry, deletion, crash and the passing of time are separate actions. Expiry on
access rolls the access back and commits on its own, so it is a step of its own.

**RowLocks** is what justifies taking a transaction as one step. It runs the
statements of acceptance, retry, finalization, interview and account deletion,
session refresh and the expiry sweep as PostgreSQL does at READ COMMITTED: a
SELECT sees what is committed, an UPDATE or SELECT FOR UPDATE waits for the
row's holder and then evaluates its WHERE clause again, locks last until the
transaction ends, and of transactions in a cycle of waits one is aborted. Each
transaction is a record (`tx`) of its next statement, its uncommitted writes and
what it read; `RowOf` and `Matches` are the lock and the WHERE clause of a
statement. An INSERT also locks the rows its foreign keys name; the only one of
these that its transaction has not locked itself is the owner of a report
(`InsertReport`: `interview-repository.ts:1787`, under the foreign key of
`schema/interview.ts:582`), which waits for whoever holds that user. The
interview is the scene in which all these transactions meet: the operation in
question (`target`) is a supplement to the first question of an active interview,
from which a user may continue, or the report of an interview that waits for it,
and it runs or has failed. `Casts` says which transactions appear together; behaviours with all of them at once
would be out of TLC's reach, and each cast holds the ones that share rows.

### From answers to a report

**Scoring** has the sums and roundings of `scoring.ts`; **AnswerEvaluation** and
**ReportAnalysis** say which requests and outputs the two adapters accept;
**ReportBuilder** builds the request and the snapshot, and has the rules of the
snapshot's parser (`reports.ts`) and of the repository that compares it with the
rows beside it. These rule sets are independent in the code and are kept apart
here. A text is reduced to its length, to the questions whose private content it
exposes, and to a tone: which outcomes it would contradict.

**Assessment** composes them with the engine: an execution evaluates, has a
follow-up phrased, completes; a report execution asks for an analysis and stores
the report. `call` holds the stage, the transient retries used and whether the
repair has been asked for. One operation runs at a time; leases, crashes and
clocks are OperationRunner's subject.

### Question bank and creation

**QuestionBank** has the import's comparison of a release with the rows it read
(`Synchronizes`, `Synchronize`) and which versions are offered. A version's text
is one value, and so is its hash.

**BlueprintSelection** has the selection for every seed at once: `Preferred`,
`Quotas`, `Required`, `Filled` and `Interleavings` are the greedy steps of
`blueprint-selection.ts`, each as the set of what it may return, and `Covers` is
the coverage rule that is checked independently of them.

**InterviewIntake** runs importers (which hold an advisory lock) beside creation
requests: a serializable transaction with its retries, and a second transaction
that settles the creation's operation; the handler may stop between the two. It
also has whatever ends an interview, since that decides what may be created and
which questions count as recent.

### Deletion

**AccountDeletion** has the marking transactions, the triggers that keep
sessions and interviews away from a marked account, and the maintenance cycles:
claim under a lease that is cut short by the deadline (`LeaseAt`), purge, record
a failure, abort. Times are what the queries compare (a request's age, the rest
of its lease and of its back-off), so the clock needs no bound; the order of
last attempts is the relation `before`. A command's guard is only what its own
transaction checks: it may have been authenticated long before.

**ErasureContract** is the abstract specification: hidden at once, erased as a
whole, once, not before its time.

### Events

**OperationEvents** is the live side of one operation: `OperationEventBroker`
(`broker`, `closed`, and `erased` for the interview's tombstone), the server's
end of each stream (`streams`, from `streamOperationEvents`) and the browser's
loop (`views`, from `useOperationStream`). A step ends where the code awaits.
`Open` reads the operation, and only later do `ReplayUnavailable` (409),
`NothingLeft` (204) or `Subscribe` use that snapshot; `Check` reads the access
and `Send` sends; `PollRead` reads the row and `PollApply` publishes from it.
What lies between may have made the read stale. The row is reduced to its status
and attempt: `Claim` and `Finalize` stand for OperationRunner's transactions, and
a finalization's publication (text and terminal, terminal alone or none) is a
later step that a crash can lose. Losses of the history are
`HistoryExpires`, `HistoryEvicted` and `Restart`; `Close` is `preClose`.
Abstractions:

* Sequence numbers are the code's; `id` numbers the events across restarts, is
  not in the code, and lets properties tell events apart. `published` and `cut`
  are ghosts of the same kind.
* `ripe` stands for the comparison of a completion time with the 5 second
  publication grace. A minute without a publication (`HistoryExpires`,
  `TombstoneExpires`) is taken to outlast every read in flight.
* Both ends of a lost connection notice at once (`Disconnect`).
* `publishTextDelta` has no caller outside tests and is left out, so the history
  of an operation never passes two events and `TrimHistory` never bites. The cap
  on the number of operations appears as `HistoryEvicted`.

**EventFeed** is the abstract specification of that: one feed, and a client that
says where it stands is given the very next event or is sent back to the start.

## 3. Runs

| Run | Question | Bounds and why they suffice |
| --- | --- | --- |
| session | is the aggregate coherent under any order of calls? | 2 questions (a last one and one before it), 3 operations (main answer, follow-up answer and a third that retries, supplements or comes late), times 0 and 2 with limit 1 (before and after expiry). Operation ids are interchangeable: symmetry. |
| store | does the store accept every step, and give back what was saved? | 2 questions, 2 operations, 3 instants so that a time can lie strictly between. Of plans, only those of the current version and the use of ids matter (`LiveView`). |
| runner | do rows, leases, executions and interview agree? | 1 question, 3 operations (one answer and two retries, or two answers and a retry), instants 0..3, lease 1 tick and limit 2, so that a lease lapses, is taken over and lapses again before and at expiry; clocks up to 1 tick apart, so that a command may see expiry before the database does and after. States are identified up to the columns that no guard and no invariant reads: most of a final row, the stamp of a retry command (`LiveView`). |
| locks | may transactions be taken as single steps, and which deadlock? | four casts: two deliveries of one continue beside a retry and a finalization; two deliveries of one retry, a finalization and an interview deletion; a retry and a finalization under an account deletion and a session refresh; two retries under different keys, a finalization and a sweep. In each, the target is a supplement or a report, running or failed, leases may lapse and the interview grow stale between any two statements. |
| events | does every stream hear its broker, and every client a feed without gaps? | 2 clients (one keeps the state alive while the other comes and goes), 2 attempts (a retry), history of 2 events (what one completion publishes), 2 faults (a loss, and another after the recovery), `Timely`, `Crowded`. |
| events_settle | does a page stop following a settled operation, and does anything reach a client that should get nothing? | the fair specification, 1 client (clients share only the broker, whose state the faults already make arbitrary), 2 attempts, 2 faults, not `Timely`: reads and publications may be as late as they like; access may end. |
| lifecycle | does what is marked go dark, and get erased? | 2 accounts, one with an interview and one whose purge always fails; 2 maintenance workers and 1 crash, so that a claim lapses and is taken over; one request per cycle, so that the failing one can stand in the way; due at age 1, deadline at 4. |
| assessment | does what one layer accepts fit the next? | 2 questions of one domain, 2 rubric items, 2 materials each, answers of 1 or 20 (thousand) characters against bounds of 30 per question and 32 per report; outputs that depart from a good one in one respect each; 1 transient retry. |
| bank | do imports and creations keep their rules side by side? | 5 questions in 3 domains, a short count of 2 and a longer one of 4; 2 importers over three releases that contradict or outdate each other, 2 requests over 2 keys, 2 tries of the serializable transaction, 1 recent interview. |
| one_advance | is at most one of the commands with one expected version successful? | 3 operations at one instant; violated, see section 5. |
| repeat_answered | is a repeated command always answered with its original? | the casts of `locks`; violated, see section 5. |
| report_arrives | does every requested report arrive? | the instance of `assessment`; violated, see section 5. |

Deadlock checking is off except in `lifecycle`: elsewhere an interview ends,
operation ids run out, transactions are done, or time stops at the last instant.

`session`, `store`, `runner`, `events` and `bank` use symmetry, which their
properties allow: all quantify over the permuted sets alike. The runs with
liveness properties (`events_settle`, `lifecycle`, `assessment`) use none.

Fairness is assumed in three runs.

* `events_settle`: `FairSpec` asks weak fairness of each request's continuation,
  each delivery, each poll and each refresh, and of the grace period: promises
  and timers of a running process, none of which waits for another client.
  `TurnedAway` alone is strongly fair, since a client that asks, is disconnected
  before the refusal and asks again for ever would otherwise be a
  counterexample; the answer to a refused request is not lost every single time.
  Nothing is asked of `Claim`, `Finalize`, `PublishCompletion`, `BeginAttempt`,
  `Mount`, `Delete`, `EraseInterview` or `Restart`: the property must hold
  although the publication is never made. Its premise is that the row stays
  settled and the broker open (a closed process is not assumed to be started
  again). `MaxFaults` bounds losses of history, restarts and failed refreshes:
  the loop of a client whose every refresh fails does not end, in the code either.
* `lifecycle`: time passes; each worker process is started again and takes its
  steps (the maintenance timer); and a purge that could be made again and again
  is made at last, since a purge transaction is not slower than its lease every
  single time. Nothing is asked of clients.
* `assessment`: an execution goes on (its process lives, every provider call
  ends or times out); a user whose report failed asks again; and a model that is
  asked again and again at last gives an analysis that cites every answer and
  claims nothing. `CallsEnd` needs only the first.

For OperationRunner no liveness is stated: nothing in the code re-starts an
execution that was lost, so without a client's retry nothing need happen.

### What the properties say

*Aggregate* (session). `OutcomeMatchesPhase`: what the user is asked for agrees
with the outcome of the current question, seen through a pending operation too.
`EvaluationCoversMaterial`: a stored score has judged all material; an answer
added later never stands beside an old score.
`QuestionsSettleInOrder`: frozen behind, untouched ahead, reports only over what
they need. `RetrySeesWhatWasSubmitted`: a retried or taken-over operation is
evaluated on the questions its first acceptance saw. `MaterialOnPlannedQuestion`:
late completions cannot put an answer on another question. `SettledQuestionsStay`:
what a report reads outside any transaction does not change under it.

*Rows of an interview* (store). `LoadsWhatWasSaved`: the rows the events leave
behind pass every check of the load and give back the aggregate that was saved;
its failure would lose data or make an interview unreadable. `RevealsUpToCurrent`
and `TranscriptOnlyGrows`: a client sees what it has reached, and never loses
sight of it. `RepositoryAcceptsEveryStep` (here and in runner): every step is a
step of CanonicalInterview or leaves the interview alone. It speaks of the
aggregates only, so a save refused for the times of its events (where clocks
disagree, say) is not excluded by it.

*Rows and interview* (runner). `PendingHasItsRow`: the check every load makes.
`EffectIffSucceeded`: an answer is in the interview exactly when its row
succeeded; only a command stamped past the limit succeeds by expiring the
interview instead (see section 5). `ReportStaysReachable`: an
interview waiting for its report, which never expires, always has a row being
worked on or open to a retry. `ClosedInterviewsAreQuiet`, `LeasesAreExclusive`,
`SettledRowsStay`: nothing survives closing, two attempts never both settle, a
repeated request finds the same answer.

*Statements* (locks). `CommittedRowsAgree`: at every moment the committed rows
agree as if each transaction had run at once, which is what OperationRunner and
AccountDeletion assume. `DeadlocksAreKnown`: all transactions lock the rows they
share from the user's down, with two exceptions, and every deadlock involves one
of them. Whatever closes an interview locks its operations after it
(`cancelOpenOperations`), a finalization the other way round. And a report that is
inserted locks its owner's row when the interview is locked already, while an
acceptance, a retry or a deletion may hold that user and wait for the interview. Such
an abort, and a load that finds a pending operation already settled because its two SELECTs straddle a commit (`unreadable`), are errors a
client can meet and repeat; neither leaves a trace in the rows.

*Assessment*. `CompletionIsAccepted`, `PendingReportIsAskable`,
`AnalysisIsStorable`: what one layer accepted is never refused for its content by the next
(the evaluation adapter, the engine, the report request, the report adapter,
the parser, the store). `ReportIsCoherent`: separately rounded scores stay
between each other's bounds, and no text contradicts its outcome. `CallsEnd`
and `FittingReportArrives`: executions end whatever is answered, and a report
within its bounds is stored at last.

*Bank*. `NewestVersionDecides`: overlapping imports never leave an older version
or a buried one on offer. `OneInterviewPerKey`: neither concurrency, repetition
nor a crash between the transactions makes a second interview.
`BlueprintIsBest`: the greedy selection refuses only what no choice could cover,
repeats as few recent questions as possible, and puts a domain's questions side
by side only when it must (against a definition over all subsets).

*Deletion* (lifecycle). `MarkedIsDark`: what is marked keeps no session and no
readable interview and has the request that will purge it. `LiveLeaseIsHeld`:
a cycle whose lease was taken over cannot touch its successor's claim.
`HealthyIsErased`: a request whose purge can succeed is erased at last, although
others fail before it for ever. `KeepsThePromise`: AccountDeletion implements
ErasureContract.

*Events* (events, events_settle). `OpenStreamsAreHeard`: a stream
that is open is a listener of the broker's present state; a state dropped and
made anew under a stream would leave it deaf to the retry's outcome.
`FeedIsKept`: OperationEvents implements EventFeed; the continuity rules of
`subscribe` never let a client skip an event it could not know of. It holds under
`Timely`, and the assumption is needed: when a row is read, retried and settled
again before the read is used, or a completion is published only after its grace
period, the poll publishes a bare terminal in the place of text and
terminal, and a client resumes after a text it never had.
`NothingSentAfterErasure`, `NothingNewWithoutAccess`: neither a stream past its
access check nor a late publication gives anything to a client after the
erasure, or anything newer than its loss of access. `OneAttemptPerHistory`: a
late publication of a superseded attempt is neither replayed as the retry's
outcome nor keeps the retry's own from being published. `ViewsSettle`: every page
stops following an operation that has settled, though the publication is lost.

## 4. Proofs

TLC checks small instances; the theorems below hold for every value of the
constants that satisfies the named assumptions of the modules. Each follows from
an inductive invariant of its component, and each proof has one step per action,
or one lemma per group of actions.

| Module | Theorems | Invariant | Assumptions |
| --- | --- | --- | --- |
| InterviewSessionProofs | `TypeCorrect`, `AlwaysSound`, `PhaseIsHonest`, `EvaluationsAreComplete`, `SettledInOrder`, `SessionInvariant`, `RetriesSeeTheSame`, `MaterialStaysInPlace`, `SettledForGood`, `EngineIsCanonical`; of the rows `StoreIsTheSession`, `StoreInvariant`, `SavedLoads`, `NothingShownAhead`, `NothingTakenBack` | `Inv`, `StoreInv` | `InterviewAssumption` |
| OperationRunnerProofs | `RunnerInvariant`, `TypeCorrect`, `PendingRows`, `ReportsStayReachable`, `ClosedQuietly`, `EffectsMatchRows`, `ExclusiveLeases`, `SettledForGood`, `RunnerIsCanonical` | `Inv == Ledger /\ Story` | `InterviewAssumption`, `OperationAssumption`, `SkewAssumption` |
| RowLocksProofs | `RowsInvariant`, `RowsAgree`, `DeadlocksAreAlwaysKnown` | `Inv` | `LocksAssumption` |
| AssessmentProofs | `AssessmentInvariant`, `AcceptedCompletes`, `PendingIsAskable`, `AnalysisStores`, `ReportsCohere` | `AssessmentInv` | `InterviewAssumption`, `RubricAssumption`, `LimitsAssumption`, `BlueprintAssumption`, `AssessmentAssumption` |
| InterviewIntakeProofs | `NewestVersion`, `OneInterview`, `BestBlueprint` | `BankInv`, `IntakeInv`, `ChoiceInv` | `BankAssumption`, `SelectionAssumption`, `IntakeAssumption` |
| AccountDeletionProofs | `TypeCorrect`, `Dark`, `LeasesHeld`, `PromiseKept` | `Safe` | `DeletionAssumption` |
| OperationEventsProofs | `OpenStreamsHeard`, `ErasureIsFinal`, `TypeCorrect`, `HistoryOfOneAttempt`, `NoNewsWithoutAccess`, `FeedKept` | `EventsInv`, `FeedInv`, `AccessInv`, `TimelyInv` | `AttemptsAssumption` and the three beside it; `FeedKept` also assumes `Timely` |

The assumptions say what kind of value a constant is (times are numbers, ids of
different kinds differ, limits are positive) and what start-up or creation
validates (the weights of a rubric add up to the full score, a blueprint covers
the domains its length asks for); none bounds how many there are of anything.
`Timely` is the one assumption about behaviour; section 3 says why it is needed.

### The engine and the aggregate

**InterviewEngineProofs** states, once and for all callers, what each operator of
InterviewEngine does under its guard: it returns an `Interview`, it keeps
`Sound`, and its result is one of the diffs `SaveAccepts` takes. `Sound` is the
part of the invariant that concerns a single aggregate: `Phased`, `Ordered`,
`Requested`, `Judged`. The checked properties are not inductive alone. Whether a
completion keeps the evaluation complete depends on the current question not
being frozen; whether a report is over enough questions depends on when it was
asked for. `Requested` adds both: a report is asked for exactly while it is
pending, and an active interview's current question is not frozen. `Tallied` is
why engine and save, which tell the kind of an answer differently, agree on it:
never more follow-ups answered than asked, and a question that waits for a
response after a follow-up has one unanswered.

**InterviewSessionProofs** adds the plans, which outlive the transactions that
made them. `PlanMade`: a plan was made from the version its command named, on the
question that was current. `PlanKept`: while its operation is pending, or
has failed with nothing accepted since, the interview still has the questions,
the position and the version the plan saw. With it

* `RetriesSeeTheSame`, `MaterialStaysInPlace`: the two properties about late and
  repeated completions. Plans of different operations have different versions, so
  a stale plan is refused by its version, and the plan that is not stale fits.
* `SettledForGood` (`Spec => SettledQuestionsStay`): no step writes to a question
  behind the current one, or to any once a report is pending.
* `EngineIsCanonical` (`Spec => RepositoryAcceptsEveryStep`): the refinement of
  CanonicalInterview. The engine's lemmas say which accepted diff each step is.

### The server around the interview

**OperationRunnerProofs** has an invariant in two halves. `Ledger` is about the
operations table and the work in memory alone: rows are of the kind their id
stands for (`RowKinds`), an execution has an attempt its row has reached
(`Executing`) that no other execution has (`Unique`), and while it holds its lease
so does the retry that started it, until the same instant (`Paired`). `Story`
ties the table to the interview: `Sound`, no report row before there is a report
to write and no open creation after the end (`NotYet`), and the three checked
invariants that turn out to need each other: `PendingHasItsRow`,
`ReportStaysReachable`, `ClosedInterviewsAreQuiet`. `EffectsAccounted` is
`EffectIffSucceeded` with what it needs to be inductive: an effect belongs to a row of a
planned command that succeeded, and one that succeeded without an effect has
closed the interview, so its stamp stays too late. `LeasesAreExclusive` and
`SettledRowsStay` need the Ledger only; a claim always draws a new attempt.
`RunnerIsCanonical` is the same refinement as `EngineIsCanonical`, for the
transactions of a server in any order, with crashes and lapsed leases.

### Statements and locks

**RowLocksProofs** proves for any number of transactions of each kind, in any
casts, what OperationRunner and AccountDeletion take for granted. The invariant
speaks of one transaction at a time: `Fits(t, x, h, d, l)` says of a transaction
in state `x` that holds the rows `h`, with committed rows `d` and lapsed leases `l`,

* `Owned`: what it has written it holds, and it holds only what the statements
  before this one lock (`MayHold`);
* `Staged`: what it relies on at this statement is true of `d`: a retry that has
  claimed its target is right that nobody works on it, a finalization that has
  settled its attempt is right that it was the newest, one that inserts a report has
  settled the target and completed the interview, and at commit the writes
  are of one of seven kinds (`Committable`).

Beside it `Leased` says that only the newest attempt can have a leased command,
and `Agree` is `CommittedRowsAgree`. There is one lemma per statement for the
transaction that takes it. `OthersStillFit` says that a commit leaves alone what
every other transaction relies on, since it writes rows the others do not hold or
do not rely on. `CommitKeeps` goes through the kinds of commit. For
`DeadlocksAreAlwaysKnown`, take a cycle of waits in which nobody cancels. A
finalization that settles a retry's command does not wait for that row: it waits
for a leased one, and who holds it claimed it pending or lapsed
(`CommandIsFree`). If a report is being inserted, it holds the interview and the
target, so that who holds the user, and waits in the cycle, can only wait for the
interview: this is the known cycle (`ReportBlocks`). If none is
(`OrderedOtherwise`), whoever holds the interview could only wait for the target
or a command whose committed row matches its WHERE clause; but who holds that row
relies on the opposite (a claim needs a row that failed or lapsed, a settlement
one in progress). So nobody in the cycle waits for the interview, and then,
one after the other, not for the user, the session, the target or a command, and
nothing is left to wait for.

### The stored rows

The second half of **InterviewSessionProofs** is about InterviewStore.
`StoreIsTheSession` is the refinement that carries everything above over to the
rows: the aggregate in the store behaves as InterviewSession's, so its saves are
accepted too (`EngineIsCanonical`). That the rows load back as what was saved
(`LoadsWhatWasSaved`) is not inductive: the load also throws on times out of
order and on leftovers, which only the history of saves rules out. `RowsInv`
says, table by table, what stands for each part of the interview: `ColumnsKept`;
`QuestionsKept`, with which snapshot has which times (`FreezesTimed`,
`PlansTimed`); `MessagesKept`, in which every message is settled and stands apart
from what a plan in circulation would still insert, so that a late completion
never meets its own message; `ReportKept`; and `LeftWell` for what a closed
interview leaves. `Saves` runs over a list of at most three events;
`SavedNothing` to `SavedThree` turn each list into the columns it writes, and
one lemma per command or completion re-establishes `RowsInv` from them.
`SavedLoads` and `NothingShownAhead` follow from the invariant (`RowsLoad`,
`RowsReveal`), `NothingTakenBack` from what each step writes (`TranscriptGrows`).

### Deletion, creation, assessment

**AccountDeletionProofs**: `TypeCorrect` includes that leases never exceed the
configured duration, also where the deadline or the fence cuts them. `Dark` is
inductive with the types (`Safe == TypeOK /\ MarkedIsDark`): filing a request
hides in the same transaction, only a purge removes a request, and it removes
what is hidden. `LeasesHeld` has one lemma for each kind of step that writes a
request (`LeaseKept(s)`). `PromiseKept` is the refinement of ErasureContract:
client steps map to hiding and creating, `Tick` to ripening, `Purge` to erasing,
every other step of a cycle to a stutter; `Safe` is needed where a purge erases.

**InterviewIntakeProofs**: `OneInterview` is `Spec => []OneInterviewPerKey`.
`Single` says that open interviews and keys are unique and that every
interview has its operation; `Covering` is about the snapshot of a creation under
way: it is behind the tables by whole interviews, and if it is behind by none, what it
shows as free is free. The serializable commit is refused in the other case.

`NewestVersion` is `Spec => []NewestVersionDecides`, for releases of any size.
`BankInv` says that of a question's rows those of the newest version are active,
if their file asked for it, and no other; and that an importer past the advisory
lock is alone and knows the table as it is. `Synchronized` enters a release's
versions in ascending order as a recursive function; unfolded by well-founded
induction, every state on the way keeps the invariant (`Follows`). Without
the lock the rows an importer knows may be old, and the newest version is then
no longer the one it compares with.

`BestBlueprint` is `Spec => []BlueprintIsBest`, for any seed and any number of
questions, domains and recent interviews. The only invariant it needs is that a
request chooses among finitely many candidates (`ChoiceInv`: an import brings no
more than its release); the rest is about the operators of BlueprintSelection,
where a greedy choice is compared with every other one (`SelectedIsBest`).

* A long interview (`LongIsBest`): if a flexible slot repeats a recent question,
  no unseen one was left in any domain, and another selection of the same size
  has at least as many repeats. If none does, all repeats were claimed by quotas,
  and a domain's quota repeats no more than whatever else meets it
  (`FewestSeen`); `ByDomain` adds this up.
* A short interview (`ShortIsBest`): a selection with one question per domain
  leaves out one domain (`CoverOmits`), so the others have candidates, and it repeats a
  question in each of them that has only recent ones. The domain `select` leaves
  out has the fewest of those (`OmittedLeast`).
* No refusal without need (`CoverSelects`): any selection with the coverage shows
  that some quota suffices and that its claims fit into the count.
* The order (`BalanceKept`): if at the start no domain has more than half of
  the questions (rounded up), taking each from the fullest domain other than the
  previous one keeps it so of those left, and leaves the previous domain at most
  half rounded down. Hence two of a domain never meet. `Interleavings` is a recursive function, unfolded
  like `Synchronized`; that it uses every question once is counted
  (`AllLaid`: an injection between sets of one size).

**AssessmentProofs** has one invariant for the whole way from an answer to a
report. `AssessmentInv` says that the interview is `Sound`; that an operation is
pending exactly while an answer is worked on, and that it is the one a plan
rebuilt from the interview completes (`StagesFit`); that what an adapter checked,
once, still fits when it is used, however many failures, repairs and calls follow
(`ChecksHold`); and that a question with an outcome has an evaluation of the
material it still has, from which the outcome was derived, or a reason for zero
points (`FactsOf`). From it

* `AcceptedCompletes`: the engine asks again, after the phrasing call, what the
  adapter asked before it, and nothing between the two changes the answer.
* `PendingIsAskable`: the questions with an outcome are the first ones
  (`FirstOnesEnded`), so a request is about a prefix of the interview (`RequestIs`), and a
  complete one about every domain of the blueprint (`AllDomainsAssessed`).
* `AnalysisStores`: `FeedbackFits` for the parser and `FeedbackStored` for the
  comparison with the rows, question by question; `SnapshotFits` for the whole.
  That the parser adds up the matched points of a question, a set, while the
  outcome was the sum over a list of awards, makes no difference because every
  award has an item of its own.
* `ReportsCohere`: with M the highest rounded domain score, the points S of a
  domain with n questions satisfy 2S < n(2M + 1); adding this up over the domains
  gives the same for the whole, so the overall score is at most M (and likewise
  at least the lowest). Halves round up, so the inequality is strict above and
  not below.

The sums are folds over finite sets with no given order. That they can be taken
in any order, one element or one domain at a time, is proved from well-founded
induction on the size of sets: the library's induction theorems take an operator
as a parameter, but a set of sets closed under adding an element
(`FiniteSteps`, `OneByOne`) says the same in first-order terms.

### Events

**OperationEventsProofs** has four invariants, each on top of the one before.

* `EventsInv`: the listeners are the open streams, and a closed or erased broker
  has no state. This is what makes an erasure final: no state, hence no
  listeners, hence no open stream, hence no `Send`. It holds because every way to
  make a state looks at `closed` and the tombstone first. It gives
  `OpenStreamsHeard` and `ErasureIsFinal`.
* `FeedInv`: the types, and that a history, and what is queued for a
  stream, is a run of consecutive events that ends with the last one published
  to it. It gives `TypeCorrect` and `HistoryOfOneAttempt`.
* `AccessInv`: an event that passed its access check, and is still to be sent when the
  access is lost, was published before that. It gives `NoNewsWithoutAccess`.
* `TimelyInv`: what the reads and publications under way can still say
  (`HeldInv`), that nothing is denied or erased without cause (`DenialInv`), that
  the first attempt's outcome is in the broker's history while it is still to be
  published again by nobody (`FirstNews`), and where each client stands relative
  to its queue (`InPlace`). It gives `FeedKept`, the refinement of EventFeed,
  under `Timely`; the first three invariants do not need it.

### Only model-checked

Liveness under fairness: `HealthyIsErased`, `ViewsSettle`, `CallsEnd`,
`FittingReportArrives`. ENABLED is out of the prover's reach; RECURSIVE operators
are too, and none is used. Every invariant, action property and refinement of a
passing run has its theorem.

## 5. Where the code and its documents differ

`openspec/changes/build-interview-mvp/specs/interview-session/spec.md:101-102`
promises that of two commands with the same expected version at most one advances
the interview. An accepted retry keeps the version (`operation-retry-acceptance.ts`
checks it and saves the re-accepted operation under it; the engine bumps it only
on first acceptance). Run `one_advance` shows the consequence: an answer of
version 1 fails, a retry with expected version 2 completes it, and another
command with expected version 2, sent by a client that saw the state before the
retry, is accepted after it.

Lines 97-98 of the same file promise that a repeated command is answered with
its original operation and result. `acceptProgress`
(`apps/server/src/operation-acceptance.ts:136-147`) looks the key up and reads
the interview's position before any lock, and the position is part of what is
compared with the stored command. Run `repeat_answered` shows two deliveries of
one `continue_interview`: the second looks the key up before the first commits,
reads the interview after it has moved, and is told that its key belongs to
another command. Nothing is duplicated by it.

`openspec/changes/build-interview-mvp/specs/assessment-report/spec.md:56`
promises a complete report once every question is settled. A report request is
refused when the answers of the whole interview exceed 32,000 characters
(`apps/server/src/report-analysis-model.ts:88`), while a command accepts up to 20,000 for
each. Run `report_arrives` shows two long answers evaluated, the report
requested and its operation failing, however often it is retried. Within the
bounds the report does arrive: `FittingReportArrives`, in `assessment`.

Two observations without a run. After a restart a client of the old process may
hold an event ID that falls into the new history's range, since `createState`
(`apps/server/src/operation-events.ts:404`) counts from one again; it is then
told 204, nothing left, where `openspec/changes/build-interview-mvp/design.md:561-564` says replay-unavailable, and
nothing is lost, since the page reads the canonical interview after both. And
with clocks apart a `submit_answer` stamped past the limit, while the database is
not, succeeds by expiring the interview (`HandleExpired`), so its row says
succeeded without an answer stored; the code does this on purpose (the engine
returns the expiry as the command's transition), and `EffectIffSucceeded` names
the exception.

## 6. What is not modelled, and the plan

Simplifications inside modelled parts: SaveTransitions leaves out the
times and the operation of events, which the validation of a save compares too.
RowLocks leaves out the foreign-key locks that fall on a row the same transaction
already holds (all but a report's on its owner), purges, and the
caller that records a failure after a finalization was aborted. Assessment
leaves out the wording of first questions and of clarifications, and reduces prompts,
token estimates, schemas and the scanning of texts to the attributes named in
section 2. InterviewStore leaves out the history list and its cursor paging.
AccountDeletion leaves out the other rows an account owns, which its purge
deletes in the same transaction. Of the events, the accounting over several
operations (which history is trimmed first) is one nondeterministic eviction.

Not modelled: HTTP routes, contracts, pages of the web application, OAuth and
cookies (a library's), migrations, configuration and telemetry: decoding,
mapping, rendering and start-up checks without protocol state of their own.

To come: `ExecutionSupervisor`: start, drain, shutdown; composed with
OperationRunner for the retry whose work is dropped and for the retry command
nobody claims.
