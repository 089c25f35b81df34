----------------------------- MODULE MitigationRun -----------------------------
(***************************************************************************)
(* The mitigation task of GraphRCAAgent (_run and                          *)
(* _run_with_validation_retry): an attempt runs the pipeline, executes the *)
(* planned remedies with kubectl, and validates the pods; a failed         *)
(* validation starts another attempt on the same traces.                   *)
(***************************************************************************)
EXTENDS Pipeline

CONSTANT MaxRetryAttempts

ASSUME RetryAssumption == MaxRetryAttempts \in Nat \ {0}

VARIABLES
    phase,       \* where the loop stands
    attempt,     \* the number of the attempt, from 1
    executed,    \* the remedies this attempt has executed
    validated,   \* validation["success"] of the last attempt
    aborted,     \* run_pipeline raised: _submit_default
    reachable,   \* external: kubectl can talk to the cluster
    cluster      \* external: the pods, against the state the fault left them in

loopVars == <<phase, attempt, executed, validated, aborted>>
vars == <<pipelineVars, loopVars, reachable, cluster>>

Phases == {"start", "pipeline", "execute", "validate", "done"}
Clusters == {"healthy", "faulty", "worse"}

Init == /\ evidence \in Evidence
        /\ node = "END"
        /\ s = InitialState
        /\ incidents = 0
        /\ phase = "start"
        /\ attempt = 0
        /\ executed = {}
        /\ validated = FALSE
        /\ aborted = FALSE
        /\ reachable \in BOOLEAN
        /\ cluster = "faulty"
-------------------------------------------------------------------------------
\* _run_pipeline: every attempt starts from a new initial state.
InvokePipeline ==
    /\ phase = "start"
    /\ phase' = "pipeline"
    /\ attempt' = attempt + 1
    /\ node' = "trace_ingest"
    /\ s' = InitialState
    /\ executed' = {}
    /\ UNCHANGED <<evidence, incidents, validated, aborted, reachable, cluster>>

\* An output directory that cannot be made: _run submits the default answer.
PipelineRaises ==
    /\ phase = "start"
    /\ phase' = "done"
    /\ aborted' = TRUE
    /\ UNCHANGED <<pipelineVars, attempt, executed, validated, reachable, cluster>>

RunNode ==
    /\ phase = "pipeline"
    /\ PipelineStep
    /\ phase' = IF node' = "END" THEN "execute" ELSE "pipeline"
    /\ UNCHANGED <<attempt, executed, validated, aborted, reachable, cluster>>

\* _execute_mitigation_plan: all remedies, or some of them and then an exception,
\* which is logged.  Without any, a command that only looks.
ExecutePlan ==
    /\ phase = "execute"
    /\ executed' \in SUBSET s.actions
    /\ IF reachable /\ executed' # {}
       THEN cluster' \in Clusters
       ELSE UNCHANGED cluster
    /\ phase' = "validate"
    /\ UNCHANGED <<pipelineVars, attempt, validated, aborted, reachable>>

\* _validate_mitigation: a kubectl that fails answers with a line that says
\* "Error", which counts as a pod that is not healthy; an exception counts as
\* success.
Validations == {reachable /\ cluster = "healthy", TRUE}

\* Mutated: one attempt too many, no check of the validation, no bound at all.
AfterValidationOnceMore(ok) == IF ok \/ attempt > MaxRetryAttempts THEN "done" ELSE "start"
AfterValidationUnchecked(ok) == "done"
AfterValidationUnbounded(ok) == IF ok THEN "done" ELSE "execute"

AfterValidation(ok) == IF ok \/ attempt = MaxRetryAttempts THEN "done" ELSE "start"

Validate ==
    /\ phase = "validate"
    /\ validated' \in Validations
    /\ phase' = AfterValidation(validated')
    /\ UNCHANGED <<pipelineVars, attempt, executed, aborted, reachable, cluster>>

\* The report has been submitted.
Submitted == /\ phase = "done"
             /\ UNCHANGED vars

Work == InvokePipeline \/ PipelineRaises \/ RunNode \/ ExecutePlan \/ Validate

Next == Work \/ Submitted

Spec == Init /\ [][Next]_vars

\* The agent's thread is scheduled, and each of its steps ends.
FairSpec == Spec /\ WF_vars(Work)
-------------------------------------------------------------------------------
TypeOK ==
    /\ evidence \in Evidence
    /\ node \in NodeNames
    /\ s \in State
    /\ incidents \in 0..MaxRetryAttempts
    /\ phase \in Phases
    /\ attempt \in 0..MaxRetryAttempts
    /\ executed \subseteq Remedies
    /\ validated \in BOOLEAN
    /\ aborted \in BOOLEAN
    /\ reachable \in BOOLEAN
    /\ cluster \in Clusters

\* The safety check never sees a regression, whichever nodes failed before it: it
\* scores the alerts of the detection against themselves.  The rollback loop of
\* the graph is never entered.
NoRegressionSeen == ~s.triggered /\ s.rollbacks = 0 /\ ~Regressed(s.before, After)

\* A remedy is executed only on the plan of a pipeline that in this very attempt
\* ingested, built, ranked and planned, and ended without a crash; a failed
\* detection does not stop it.
RemediesNeedDiagnosis ==
    executed # {} => /\ s.failures \subseteq {"detection"}
                     /\ s.spans /\ s.graph /\ s.ranked
                     /\ phase \in {"start", "validate", "done"} => s.status = "complete"

\* The report is submitted once the pods were found healthy, or after the last
\* attempt, unless run_pipeline raised.
SubmitEarned == phase = "done" => validated \/ attempt = MaxRetryAttempts \/ aborted

\* The status of a pipeline whose nodes failed ends as "complete", but the error
\* of the failure reaches the report.
ErrorSurvives == node = "END" /\ s.failures # {} => s.error

\* The agent submits in the end, whatever fails.
MitigationEnds == <>(phase = "done")
-------------------------------------------------------------------------------
(* Why: what the nodes passed so far have left.                            *)

BeforeDetection == {"trace_ingest", "graph_builder", "detection"}
BeforeRca == BeforeDetection \cup {"memory_search", "rca"}
BeforeMitigation == BeforeRca \cup {"causal_ranker", "log_analysis", "mitigation"}
BeforeStore == BeforeMitigation \cup {"safety_check", "memory_store"}

\* The score recorded is the score of the alerts recorded with it.
HealthInv ==
    /\ s.before = Health(s.alerts, 0, 0)
    /\ node \in BeforeDetection => s.alerts = 0
    /\ ~s.triggered /\ s.rollbacks = 0

\* A node that failed has left nothing, and what builds on it has nothing either.
FailureInv ==
    /\ s.failures \subseteq {"trace_ingest", "graph_builder", "detection", "rca", "mitigation"}
    /\ s.failures # {} => s.error
    /\ "trace_ingest" \in s.failures => ~s.spans
    /\ "graph_builder" \in s.failures => ~s.graph
    /\ "rca" \in s.failures => ~s.ranked
    /\ "mitigation" \in s.failures => s.actions = {}
    /\ s.ranked => s.graph /\ s.spans
    /\ s.actions # {} => s.ranked
    /\ node = "trace_ingest" => s.failures = {} /\ ~s.spans
    /\ node \in {"trace_ingest", "graph_builder"} => "graph_builder" \notin s.failures /\ ~s.graph
    /\ node \in BeforeRca => "rca" \notin s.failures /\ ~s.ranked
    /\ node \in BeforeMitigation => "mitigation" \notin s.failures /\ s.actions = {}
    /\ node = "END" /\ s.actions # {} => s.status = "complete"

LoopInv ==
    /\ phase = "pipeline" <=> node # "END"
    /\ phase = "start" => attempt < MaxRetryAttempts
    /\ incidents <= attempt
    /\ node \in BeforeStore => incidents < attempt
    /\ executed # {} => phase \in {"start", "validate", "done"}
    /\ executed \subseteq s.actions
    /\ SubmitEarned

MitigationInv == TypeOK /\ HealthInv /\ FailureInv /\ LoopInv
-------------------------------------------------------------------------------
(* What the documentation says, and the code does not do.                  *)

\* "Every mitigation is a transaction": a mitigation that left the cluster worse
\* than it found it was rolled back when the report is submitted.
RegressionIsRolledBack == phase = "done" /\ cluster = "worse" => s.rollbacks > 0
===============================================================================
