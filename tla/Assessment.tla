------------------------------- MODULE Assessment -------------------------------
(***************************************************************************)
(* From answers to a report: the model calls of one interview and what the *)
(* interview keeps of them.  apps/server/src/model-operation-execution.ts   *)
(* evaluates an answer and, when a follow-up is recommended, has it         *)
(* phrased; report-operation-execution.ts has the report analyzed over what *)
(* earlier evaluations left.  Calls fail, are repaired once, retried a      *)
(* bounded number of times, and whole operations are retried by the user.   *)
(* Leases, crashes and clocks are OperationRunner's; here one operation      *)
(* runs at a time, versions and times stay put, and the aggregate moves by  *)
(* the engine's own operators.                                              *)
(***************************************************************************)
EXTENDS InterviewEngine, ReportBuilder

CONSTANTS
  MaxMaterial,             \* bound: answer materials of one question
  AnswerLengths,           \* lengths an answer may have, within the contract's limit
  EvaluationOutputs,       \* evaluations a model may give of the question at each position
  AnalysisOutputs(_),      \* analyses a model may give of a request
  MaxPhrasedItems,         \* MAX_INTERVIEWER_ANSWER_MATERIAL_ITEMS
  MaxPhrasedLength,        \* MAX_INTERVIEWER_ANSWER_MATERIAL_CHARACTERS
  MaxTransientRetries      \* MAX_TRANSIENT_RETRIES

ASSUME AssessmentAssumption ==
  /\ MaxMaterial \in Nat /\ Positions \X (1..MaxMaterial) \subseteq Ops
  /\ \A k \in Positions : \A output \in EvaluationOutputs[k] : IsOutput(output)

VARIABLES
  interview,   \* the aggregate
  texts,       \* the characters of each answer material
  facts,       \* the evaluation and outcome stored with each question
  call,        \* the operation being executed, or failed and retryable
  report       \* the stored report

vars == <<interview, texts, facts, call, report>>

NoOutput == [none |-> TRUE]

NoCall ==
  [stage |-> "none", type |-> "none", length |-> 0, prepared |-> FALSE,
   repairing |-> FALSE, retries |-> 0, output |-> NoOutput]

AnswerStages == {"evaluating", "phrasing", "completing"}
ReportStages == {"analyzing", "storing"}

(* Ids name a question and a place in it; the next one submitted. *)
NextOp(i) == <<i.position, Cardinality(CurrentQuestion(i).material) + 1>>

CommandOf(type) ==
  [type |-> type, op |-> NextOp(interview), expectedVersion |-> interview.version, occurredAt |-> 0]

(* The plan rebuilt from the accepted interview. *)
CurrentPlan == PlanOf(interview, CommandOf(call.type), interview, 0)

Unversioned(i) == [i EXCEPT !.version = 1]

(* The texts with the answer being worked on. *)
Submitted == [texts EXCEPT ![NextOp(interview)] = call.length]

EvaluationRequest ==
  [position |-> interview.position,
   material |-> [id \in MaterialIds(CurrentQuestion(interview)) \cup {NextOp(interview)} |->
                   Submitted[id]],
   usedKinds |-> CurrentQuestion(interview).followUps]

Request == ReportRequest(interview, texts, facts)

CanAnalyze ==
  /\ CanRequestReport(interview, facts)
  /\ \E request \in {Request} : RequestNormalizes(request) /\ WithinReportBounds(request)

(* boundedAnswerMaterial *)
PhrasingRequestFits ==
  /\ Cardinality(DOMAIN EvaluationRequest.material) \in 1..MaxPhrasedItems
  /\ CharactersOf(EvaluationRequest.material) <= MaxPhrasedLength

Begun(stage) == [NoCall EXCEPT !.stage = stage]

Idle == call.stage \in {"none", "failed"}

Init ==
  /\ interview = FreshInterview
  /\ texts = [op \in Ops |-> 0]
  /\ facts = [k \in Positions |-> NoFacts]
  /\ call = NoCall
  /\ report = NoReport
-------------------------------------------------------------------------------
(* Commands.  A failed operation is given up by any of them but its retry. *)
Submit(type, length) ==
  /\ Idle
  /\ Cardinality(CurrentQuestion(interview).material) < MaxMaterial
  /\ CanPlan(interview, CommandOf(type))
  /\ interview' = Unversioned(AcceptOperation(interview, CommandOf(type), 0))
  /\ call' = [Begun("evaluating") EXCEPT !.type = type, !.length = length]
  /\ UNCHANGED <<texts, facts, report>>

RecordOutcome(outcome) ==
  /\ Idle /\ CanRecordUnevaluated(interview)
  /\ interview' = Unversioned(RecordUnevaluated(interview, outcome, 0))
  /\ facts' = [facts EXCEPT ![interview.position] = [NoFacts EXCEPT !.outcome = ZeroOutcome(outcome)]]
  /\ call' = NoCall
  /\ UNCHANGED <<texts, report>>

Requesting(next) ==
  /\ interview' = Unversioned(next)
  /\ call' = IF next.status = "report_pending" THEN Begun("analyzing") ELSE NoCall
  /\ UNCHANGED <<texts, facts, report>>

ContinueInterview ==
  Idle /\ CanContinue(interview) /\ Requesting(Continue(interview, 0))

EndInterviewEarly ==
  Idle /\ CanEndEarly(interview) /\ Requesting(EndEarly(interview, 0))

(* retry_operation, by a user whose operation failed. *)
RetryAnswer ==
  /\ call.stage = "failed" /\ interview.status = "active"
  /\ interview' = AcceptRetriedOperation(interview, CommandOf(call.type), 0)
  /\ call' = [Begun("evaluating") EXCEPT !.type = call.type, !.length = call.length]
  /\ UNCHANGED <<texts, facts, report>>

RetryReport ==
  /\ call.stage = "failed" /\ interview.status = "report_pending"
  /\ call' = Begun("analyzing")
  /\ UNCHANGED <<interview, texts, facts, report>>
-------------------------------------------------------------------------------
(* Execution.  A failed answer gives the interview back; a report that      *)
(* failed waits for its retry whatever the reason.                          *)
Fails(retryable) ==
  /\ interview' = IF interview.status = "active" THEN CancelOperation(interview) ELSE interview
  /\ call' = IF retryable \/ interview.status = "report_pending"
             THEN [NoCall EXCEPT !.stage = "failed", !.type = call.type, !.length = call.length]
             ELSE NoCall
  /\ UNCHANGED <<texts, facts, report>>

(* The request is checked once, before the first input is sent.            *)
RequestFits ==
  CASE call.stage = "evaluating" -> EvaluationRequestFits(EvaluationRequest)
    [] call.stage = "phrasing"   -> PhrasingRequestFits
    [] call.stage = "analyzing"  -> CanAnalyze

Preparing == call.stage \in {"evaluating", "phrasing", "analyzing"} /\ ~ call.prepared

Prepare ==
  /\ Preparing /\ RequestFits
  /\ call' = [call EXCEPT !.prepared = TRUE]
  /\ UNCHANGED <<interview, texts, facts, report>>

RefuseRequest == Preparing /\ ~ RequestFits /\ Fails(FALSE)

(* The retries of the first input and of its repair come out of one budget. *)
TransientFailure ==
  /\ call.prepared /\ call.stage # "phrasing"
  /\ call.retries < MaxTransientRetries
  /\ call' = [call EXCEPT !.retries = @ + 1]
  /\ UNCHANGED <<interview, texts, facts, report>>

(* The provider refuses or gives up, or a repair asks for more than fits. *)
ProviderFailure == call.prepared /\ Fails(TRUE)

(* Fault: the repair is not remembered and brings a budget of its own.     *)
FaultRepair(c) == [c EXCEPT !.retries = 0]

Repair(c) == [c EXCEPT !.repairing = TRUE]

UnusableReply ==
  /\ call.prepared
  /\ IF call.repairing \/ call.stage = "phrasing" THEN Fails(TRUE)
     ELSE /\ call' = Repair(call)
          /\ UNCHANGED <<interview, texts, facts, report>>

Accepting(stage, output) ==
  /\ call' = [Begun(stage) EXCEPT !.type = call.type, !.length = call.length, !.output = output]
  /\ UNCHANGED <<interview, texts, facts, report>>

EvaluationReply ==
  /\ call.stage = "evaluating" /\ call.prepared
  /\ \E output \in EvaluationOutputs[interview.position] :
       /\ Accepting(IF output.recommendation = NoRecommendation THEN "completing" ELSE "phrasing",
                    output)
       /\ EvaluationAccepted(EvaluationRequest, output)

FollowUpPhrased ==
  call.stage = "phrasing" /\ call.prepared /\ Accepting("completing", call.output)

AnalysisReply(output) ==
  /\ call.stage = "analyzing" /\ call.prepared
  /\ Accepting("storing", output)
  /\ \E request \in {Request} : AnalysisAccepted(request, output)
-------------------------------------------------------------------------------
(* What a completed evaluation becomes: createResult, and the outcome       *)
(* ModelOperationFinalizationService derives again from its awards.         *)
EvaluatedOutcome == DerivedOutcome(call.output.classification, call.output.awards)

EngineOutcome == IF EvaluatedOutcome.kind = "irrelevant" THEN "irrelevant" ELSE "scored"

FollowsUp == call.output.recommendation # NoRecommendation

CanFinish ==
  IF FollowsUp THEN CanFollowUp(interview, call.output.recommendation.kind)
  ELSE CanEvaluate(interview, EngineOutcome)

FinishAnswer ==
  /\ call.stage = "completing" /\ CanFinish
  /\ texts' = Submitted
  /\ IF FollowsUp
     THEN /\ interview' = CompleteWithFollowUp(interview, CurrentPlan, call.output.recommendation.kind)
          /\ facts' = [facts EXCEPT ![interview.position] = NoFacts]
     ELSE /\ interview' = CompleteWithEvaluation(interview, CurrentPlan, EngineOutcome)
          /\ facts' = [facts EXCEPT ![interview.position] =
                         [evaluation |-> [classification |-> call.output.classification,
                                          awards |-> call.output.awards],
                          outcome |-> EvaluatedOutcome]]
  /\ call' = NoCall
  /\ UNCHANGED report

WithholdReport == call.stage = "storing" /\ ExposesPrivateContent(Request) /\ Fails(TRUE)

StoreReport ==
  /\ call.stage = "storing"
  /\ CanRecordReport(interview, interview.reportKind, 0)
  /\ \E request \in {Request} :
       /\ ~ ExposesPrivateContent(request)
       /\ \E made \in {Snapshot(request, call.output)} :
            /\ SnapshotParses(made) /\ StoreAcceptsReport(made, interview, facts)
            /\ report' = made
  /\ interview' = Unversioned(RecordReport(interview))
  /\ call' = NoCall
  /\ UNCHANGED <<texts, facts>>

Execute ==
  \/ Prepare
  \/ RefuseRequest
  \/ TransientFailure
  \/ ProviderFailure
  \/ UnusableReply
  \/ EvaluationReply
  \/ FollowUpPhrased
  \/ call.stage = "analyzing" /\ \E output \in AnalysisOutputs(Request) : AnalysisReply(output)
  \/ FinishAnswer
  \/ WithholdReport
  \/ StoreReport

Next ==
  \/ \E type \in {"submit_answer", "submit_supplement"}, length \in AnswerLengths : Submit(type, length)
  \/ \E outcome \in {"unknown", "skipped"} : RecordOutcome(outcome)
  \/ ContinueInterview
  \/ EndInterviewEarly
  \/ RetryAnswer
  \/ RetryReport
  \/ Execute

Spec == Init /\ [][Next]_vars

(* An execution goes on while its process lives and every provider call     *)
(* ends; the user asks for the report again; and a model that is asked for  *)
(* an analysis again and again at last cites all answers and claims nothing. *)
SoundAnalysis ==
  LET questions == Request.questions
  IN  [tone |-> "neutral",
       perQuestion |-> [n \in DOMAIN questions |->
                          [position |-> questions[n].position, tone |-> "neutral",
                           evidence |-> DOMAIN questions[n].material]]]

FairSpec ==
  /\ Spec
  /\ WF_vars(Execute)
  /\ WF_vars(RetryReport)
  /\ SF_vars(\E output \in {SoundAnalysis} : AnalysisReply(output))
-------------------------------------------------------------------------------
(* What the evaluation adapter accepted, the engine accepts too: a checked  *)
(* evaluation never ends in an error no failure is recorded for.            *)
CompletionIsAccepted == call.stage = "completing" => CanFinish

(* Whatever was answered, supplemented, skipped or ended early: when a      *)
(* report is waited for, the rules its request is rebuilt and checked by,    *)
(* size apart, fit what the evaluations left in the interview.              *)
PendingReportIsAskable ==
  interview.status = "report_pending" =>
    CanRequestReport(interview, facts) /\ RequestNormalizes(Request)

(* An analysis the adapter accepted makes a report that its own parser and   *)
(* the repository's comparison with the stored rows accept, or one withheld  *)
(* for what it exposes: none of the three rule sets asks more than the one   *)
(* before it gives.                                                         *)
AnalysisIsStorable ==
  call.stage = "storing" /\ ~ ExposesPrivateContent(Request) =>
    LET made == Snapshot(Request, call.output)
    IN  SnapshotParses(made) /\ StoreAcceptsReport(made, interview, facts)

(* A stored report is coherent: the overall score lies between the lowest    *)
(* and the highest domain score although each was rounded by itself, and no  *)
(* text contradicts the outcomes it is printed with.                        *)
ReportIsCoherent ==
  report # NoReport =>
    LET scores == {report.domains[d].score : d \in {e \in Domains : report.domains[e].count > 0}}
    IN  /\ report.kind = "complete" => report.overall \in Min(scores)..Max(scores)
        /\ GlobalToneFits(report.questions, report.tone)
        /\ \A n \in DOMAIN report.questions :
             ToneFits(report.questions[n].outcome, report.questions[n].tone)

(* Every execution ends, whatever the provider and the model answer.        *)
CallsEnd == call.stage \in AnswerStages \cup ReportStages ~> Idle

FittingReportWaits ==
  /\ interview.status = "report_pending"
  /\ WithinReportBounds(Request) /\ ~ ExposesPrivateContent(Request)

(* A report that is waited for is stored at last, when the interview is      *)
(* within the report's bounds and its evaluations expose nothing private.    *)
FittingReportArrives == FittingReportWaits ~> report # NoReport

(* "The system SHALL produce a complete report with an overall score"        *)
(* (openspec/changes/build-interview-mvp/specs/assessment-report/spec.md).   *)
RequestedReportArrives == interview.status = "report_pending" ~> report # NoReport
===============================================================================
