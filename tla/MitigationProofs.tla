---------------------------- MODULE MitigationProofs ----------------------------
(***************************************************************************)
(* The mitigation run of MitigationRun, for every set of remedies, number  *)
(* of alerts and number of attempts: MitigationInv is inductive, and the   *)
(* safety properties follow from it.                                       *)
(***************************************************************************)
EXTENDS MitigationRun, TLAPS

\* The state an attempt starts from is well typed.
LEMMA InitialStateType == InitialState \in State
  BY PipelineAssumption DEF InitialState, State, MaxHealth, MaxRollbackCycles

\* The first attempt starts from a state that satisfies the invariant.
LEMMA InitInv == Init => MitigationInv
  <1> SUFFICES ASSUME Init PROVE MitigationInv
    OBVIOUS
  <1> USE PipelineAssumption, RetryAssumption DEF Init
  <1>2. TypeOK
    <2>1. evidence \in Evidence /\ s \in State /\ node \in NodeNames
      BY InitialStateType DEF NodeNames
    <2>2. /\ incidents \in 0..MaxRetryAttempts /\ attempt \in 0..MaxRetryAttempts
          /\ phase \in Phases /\ executed \subseteq Remedies
      BY DEF Phases
    <2>3. validated \in BOOLEAN /\ aborted \in BOOLEAN
      OBVIOUS
    <2>4. reachable \in BOOLEAN /\ cluster \in Clusters
      BY DEF Clusters
    <2>5. QED
      BY <2>1, <2>2, <2>3, <2>4 DEF TypeOK
  <1>3. HealthInv
    BY DEF HealthInv, InitialState, Health
  <1>4. FailureInv
    BY DEF FailureInv, InitialState, BeforeMitigation, BeforeRca, BeforeDetection
  <1>5. LoopInv
    BY DEF LoopInv, SubmitEarned, BeforeStore, BeforeMitigation, BeforeRca, BeforeDetection,
           InitialState
  <1>6. QED
    BY <1>2, <1>3, <1>4, <1>5 DEF MitigationInv

\* A score fits the type: it is one of at most MaxAlerts alerts.
LEMMA HealthType ==
    \A a \in 0..MaxAlerts : Health(a, 0, 0) = 40 * a /\ Health(a, 0, 0) \in 0..MaxHealth
  BY PipelineAssumption DEF Health, MaxHealth

\* Under the invariant the safety check lets everything pass.
LEMMA CheckPasses == MitigationInv => Judgements = {Passed}
  <1> SUFFICES ASSUME MitigationInv PROVE Judgements = {Passed}
    OBVIOUS
  <1>1. s.before = After /\ After \in Nat
    BY HealthType, PipelineAssumption DEF MitigationInv, HealthInv, TypeOK, State, After, MaxHealth
  <1>2. ~Regressed(s.before, After)
    BY <1>1 DEF Regressed
  <1>3. QED
    BY <1>2 DEF Judgements

\* A node that leaves a well-typed state behind keeps the types and the loop.
LEMMA StepKeepsRest ==
    ASSUME TypeOK, LoopInv, RunNode, s' \in State, node' \in NodeNames,
           UNCHANGED <<evidence, incidents>>,
           node' \in BeforeStore => node \in BeforeStore
    PROVE  TypeOK' /\ LoopInv'
  <1>1. executed = {} /\ phase = "pipeline" /\ phase' \in {"pipeline", "execute"}
    BY DEF RunNode, LoopInv
  <1>2. TypeOK'
    BY <1>1 DEF TypeOK, RunNode, Phases
  <1>3. LoopInv'
    BY <1>1 DEF LoopInv, RunNode, SubmitEarned, TypeOK
  <1>4. QED
    BY <1>2, <1>3

\* A failed node changes its status, its error and the set of failures only.
LEMMA FailedFields ==
    ASSUME s \in State, NEW n \in NodeNames
    PROVE  /\ Failed(n) \in State
           /\ Failed(n).error = TRUE /\ Failed(n).failures = s.failures \cup {n}
           /\ Failed(n).spans = s.spans /\ Failed(n).graph = s.graph
           /\ Failed(n).ranked = s.ranked /\ Failed(n).actions = s.actions
           /\ Failed(n).alerts = s.alerts /\ Failed(n).before = s.before
           /\ Failed(n).triggered = s.triggered /\ Failed(n).rollbacks = s.rollbacks
  BY DEF Failed, State

\* A step that leaves the alerts and the scores alone keeps HealthInv, unless it
\* returns to a node before the detection.
SameHealth == /\ s'.alerts = s.alerts /\ s'.before = s.before
              /\ s'.triggered = s.triggered /\ s'.rollbacks = s.rollbacks

LEMMA SameHealthKeepsInv ==
    ASSUME HealthInv, SameHealth, node' \in BeforeDetection => node \in BeforeDetection
    PROVE  HealthInv'
  BY DEF HealthInv, SameHealth, Health, BeforeDetection

\* The nodes up to the ranking keep the invariant.
LEMMA DiagnosisKeepsInv ==
    MitigationInv /\ RunNode
        /\ (TraceIngest \/ GraphBuilder \/ Detection \/ MemorySearch \/ Rca)
        => MitigationInv'
  <1> SUFFICES ASSUME MitigationInv, RunNode,
                      TraceIngest \/ GraphBuilder \/ Detection \/ MemorySearch \/ Rca
               PROVE  MitigationInv'
    OBVIOUS
  <1>0. /\ TypeOK /\ HealthInv /\ FailureInv /\ LoopInv /\ s \in State
        /\ s.spans \in BOOLEAN /\ s.graph \in BOOLEAN /\ s.ranked \in BOOLEAN /\ s.error \in BOOLEAN
    BY DEF MitigationInv, TypeOK, State
  <1> USE <1>0, PipelineAssumption
  <1>1. CASE TraceIngest
    <2>1. node = "trace_ingest" /\ node' = "graph_builder" /\ UNCHANGED <<evidence, incidents>>
      BY <1>1 DEF TraceIngest, Step
    <2>2. s' \in State /\ HealthInv' /\ FailureInv'
      <3>1. CASE s' = Failed("trace_ingest")
        <4>1. /\ s' \in State /\ s'.error = TRUE
              /\ s'.failures = s.failures \cup {"trace_ingest"} /\ SameHealth
              /\ s'.spans = s.spans /\ s'.graph = s.graph /\ s'.ranked = s.ranked
              /\ s'.actions = s.actions
          BY <3>1, FailedFields DEF NodeNames, SameHealth
        <4>2. HealthInv'
          BY <2>1, <4>1, SameHealthKeepsInv DEF BeforeDetection
        <4>3. FailureInv'
          BY <2>1, <3>1, <4>1
             DEF FailureInv, BeforeMitigation, BeforeRca, BeforeDetection
        <4>4. QED
          BY <4>1, <4>2, <4>3
      <3>2. CASE s' = Running([s EXCEPT !.spans = TRUE])
        <4>1. /\ s' \in State /\ s'.spans = TRUE /\ SameHealth /\ s'.error = s.error
              /\ s'.failures = s.failures /\ s'.graph = s.graph /\ s'.ranked = s.ranked
              /\ s'.actions = s.actions
          BY <3>2 DEF Running, State, SameHealth
        <4>2. HealthInv'
          BY <2>1, <4>1, SameHealthKeepsInv DEF BeforeDetection
        <4>3. FailureInv'
          BY <2>1, <3>2, <4>1
             DEF FailureInv, BeforeMitigation, BeforeRca, BeforeDetection
        <4>4. QED
          BY <4>1, <4>2, <4>3
      <3>3. QED
        BY <1>1, <3>1, <3>2 DEF TraceIngest, Step
    <2>3. QED
      BY <2>1, <2>2, StepKeepsRest
         DEF NodeNames, BeforeStore, BeforeMitigation, BeforeRca, BeforeDetection, MitigationInv
  <1>2. CASE GraphBuilder
    <2>1. node = "graph_builder" /\ node' = "detection" /\ UNCHANGED <<evidence, incidents>>
      BY <1>2 DEF GraphBuilder, Step
    <2>2. s' \in State /\ HealthInv' /\ FailureInv'
      <3>1. CASE s' = Failed("graph_builder")
        <4>1. /\ s' \in State /\ s'.error = TRUE
              /\ s'.failures = s.failures \cup {"graph_builder"} /\ SameHealth
              /\ s'.spans = s.spans /\ s'.graph = s.graph /\ s'.ranked = s.ranked
              /\ s'.actions = s.actions
          BY <3>1, FailedFields DEF NodeNames, SameHealth
        <4>2. HealthInv'
          BY <2>1, <4>1, SameHealthKeepsInv DEF BeforeDetection
        <4>3. FailureInv'
          BY <2>1, <3>1, <4>1
             DEF FailureInv, BeforeMitigation, BeforeRca, BeforeDetection
        <4>4. QED
          BY <4>1, <4>2, <4>3
      <3>2. CASE s' = Running([s EXCEPT !.graph = TRUE])
        <4>1. /\ s' \in State /\ s'.graph = TRUE /\ SameHealth /\ s'.error = s.error
              /\ s'.failures = s.failures /\ s'.spans = s.spans /\ s'.ranked = s.ranked
              /\ s'.actions = s.actions
          BY <3>2 DEF Running, State, SameHealth
        <4>2. HealthInv'
          BY <2>1, <4>1, SameHealthKeepsInv DEF BeforeDetection
        <4>3. FailureInv'
          BY <2>1, <3>2, <4>1
             DEF FailureInv, BeforeMitigation, BeforeRca, BeforeDetection
        <4>4. QED
          BY <4>1, <4>2, <4>3
      <3>3. QED
        BY <1>2, <3>1, <3>2 DEF GraphBuilder, Step
    <2>3. QED
      BY <2>1, <2>2, StepKeepsRest
         DEF NodeNames, BeforeStore, BeforeMitigation, BeforeRca, BeforeDetection, MitigationInv
  <1>3. CASE Detection
    <2>1. node = "detection" /\ node' = "memory_search" /\ UNCHANGED <<evidence, incidents>>
      BY <1>3 DEF Detection, Step
    <2>2. evidence.alerts \in 0..MaxAlerts /\ Health(evidence.alerts, 0, 0) \in 0..MaxHealth
      BY HealthType DEF TypeOK, Evidence
    <2>3. s' \in State /\ HealthInv' /\ FailureInv'
      <3>1. CASE s' = Detected
        <4>1. /\ s' \in State /\ s'.alerts = evidence.alerts
              /\ s'.before = Health(evidence.alerts, 0, 0) /\ s'.triggered = s.triggered
              /\ s'.rollbacks = s.rollbacks /\ s'.error = s.error /\ s'.failures = s.failures
              /\ s'.spans = s.spans /\ s'.graph = s.graph /\ s'.ranked = s.ranked
              /\ s'.actions = s.actions
          BY <3>1, <2>2 DEF Detected, Running, State
        <4>2. HealthInv'
          BY <2>1, <2>2, <4>1 DEF HealthInv, BeforeDetection
        <4>3. FailureInv'
          BY <2>1, <3>1, <4>1
             DEF FailureInv, BeforeMitigation, BeforeRca, BeforeDetection
        <4>4. QED
          BY <4>1, <4>2, <4>3
      <3>2. CASE s' = [Failed("detection") EXCEPT !.alerts = 0]
        <4>1. /\ s' \in State /\ s'.error = TRUE /\ s'.failures = s.failures \cup {"detection"}
              /\ s'.alerts = 0 /\ s'.before = s.before /\ s'.triggered = s.triggered
              /\ s'.rollbacks = s.rollbacks /\ s'.spans = s.spans /\ s'.graph = s.graph
              /\ s'.ranked = s.ranked /\ s'.actions = s.actions
          <5>1. Failed("detection") \in State /\ 0 \in 0..MaxAlerts
            BY FailedFields DEF NodeNames
          <5>2. QED
            BY <3>2, <5>1, FailedFields DEF NodeNames, State
        <4>2. HealthInv'
          BY <2>1, <2>2, <4>1 DEF HealthInv, BeforeDetection
        <4>3. FailureInv'
          BY <2>1, <3>2, <4>1
             DEF FailureInv, BeforeMitigation, BeforeRca, BeforeDetection
        <4>4. QED
          BY <4>1, <4>2, <4>3
      <3>3. CASE s' = [s EXCEPT !.alerts = 0]
        <4>1. /\ s' \in State /\ s'.alerts = 0 /\ s'.before = s.before
              /\ s'.triggered = s.triggered /\ s'.rollbacks = s.rollbacks /\ s'.error = s.error
              /\ s'.failures = s.failures /\ s'.spans = s.spans /\ s'.graph = s.graph
              /\ s'.ranked = s.ranked /\ s'.actions = s.actions
          BY <3>3, <2>2 DEF State
        <4>2. HealthInv'
          BY <2>1, <2>2, <4>1 DEF HealthInv, BeforeDetection
        <4>3. FailureInv'
          BY <2>1, <3>3, <4>1
             DEF FailureInv, BeforeMitigation, BeforeRca, BeforeDetection
        <4>4. QED
          BY <4>1, <4>2, <4>3
      <3>4. QED
        BY <1>3, <3>1, <3>2, <3>3 DEF Detection, Step
    <2>4. QED
      BY <2>1, <2>3, StepKeepsRest
         DEF NodeNames, BeforeStore, BeforeMitigation, BeforeRca, BeforeDetection, MitigationInv
  <1>4. CASE MemorySearch
    <2>1. node = "memory_search" /\ node' = "rca" /\ UNCHANGED <<evidence, incidents>>
      BY <1>4 DEF MemorySearch, Step
    <2>2. s' \in State /\ HealthInv' /\ FailureInv'
      <3>1. CASE s' = Running(s)
        <4>1. /\ s' \in State /\ SameHealth /\ s'.error = s.error /\ s'.failures = s.failures
              /\ s'.spans = s.spans /\ s'.graph = s.graph /\ s'.ranked = s.ranked
              /\ s'.actions = s.actions
          BY <3>1 DEF Running, State, SameHealth
        <4>2. HealthInv'
          BY <2>1, <4>1, SameHealthKeepsInv DEF BeforeDetection
        <4>3. FailureInv'
          BY <2>1, <3>1, <4>1
             DEF FailureInv, BeforeMitigation, BeforeRca, BeforeDetection
        <4>4. QED
          BY <4>1, <4>2, <4>3
      <3>2. CASE s' = s
        <4>1. /\ s' \in State /\ SameHealth /\ s'.error = s.error /\ s'.failures = s.failures
              /\ s'.spans = s.spans /\ s'.graph = s.graph /\ s'.ranked = s.ranked
              /\ s'.actions = s.actions
          BY <3>2 DEF SameHealth
        <4>2. HealthInv'
          BY <2>1, <4>1, SameHealthKeepsInv DEF BeforeDetection
        <4>3. FailureInv'
          BY <2>1, <3>2, <4>1
             DEF FailureInv, BeforeMitigation, BeforeRca, BeforeDetection
        <4>4. QED
          BY <4>1, <4>2, <4>3
      <3>3. QED
        BY <1>4, <3>1, <3>2 DEF MemorySearch, Step
    <2>3. QED
      BY <2>1, <2>2, StepKeepsRest
         DEF NodeNames, BeforeStore, BeforeMitigation, BeforeRca, BeforeDetection, MitigationInv
  <1>5. CASE Rca
    <2>1. node = "rca" /\ node' = "causal_ranker" /\ UNCHANGED <<evidence, incidents>>
      BY <1>5 DEF Rca, Step
    <2>2. s' \in State /\ HealthInv' /\ FailureInv'
      <3>1. CASE s' = Failed("rca")
        <4>1. /\ s' \in State /\ s'.error = TRUE /\ s'.failures = s.failures \cup {"rca"}
              /\ SameHealth /\ s'.spans = s.spans /\ s'.graph = s.graph /\ s'.ranked = s.ranked
              /\ s'.actions = s.actions
          BY <3>1, FailedFields DEF NodeNames, SameHealth
        <4>2. HealthInv'
          BY <2>1, <4>1, SameHealthKeepsInv DEF BeforeDetection
        <4>3. FailureInv'
          BY <2>1, <3>1, <4>1
             DEF FailureInv, BeforeMitigation, BeforeRca, BeforeDetection
        <4>4. QED
          BY <4>1, <4>2, <4>3
      <3>2. CASE s.graph /\ s.spans /\ s' = Running([s EXCEPT !.ranked = TRUE])
        <4>1. /\ s' \in State /\ s'.ranked = TRUE /\ SameHealth /\ s'.error = s.error
              /\ s'.failures = s.failures /\ s'.spans = s.spans /\ s'.graph = s.graph
              /\ s'.actions = s.actions
          BY <3>2 DEF Running, State, SameHealth
        <4>2. HealthInv'
          BY <2>1, <4>1, SameHealthKeepsInv DEF BeforeDetection
        <4>3. FailureInv'
          BY <2>1, <3>2, <4>1
             DEF FailureInv, BeforeMitigation, BeforeRca, BeforeDetection
        <4>4. QED
          BY <4>1, <4>2, <4>3
      <3>3. QED
        BY <1>5, <3>1, <3>2 DEF Rca, Step
    <2>3. QED
      BY <2>1, <2>2, StepKeepsRest
         DEF NodeNames, BeforeStore, BeforeMitigation, BeforeRca, BeforeDetection, MitigationInv
  <1>6. QED
    BY <1>1, <1>2, <1>3, <1>4, <1>5

\* The nodes from the re-ranking to the report keep the invariant.
LEMMA ActionKeepsInv ==
    MitigationInv /\ RunNode
        /\ (CausalRanker \/ LogAnalysis \/ Mitigation \/ SafetyCheck \/ MemoryStore
              \/ ReportGeneration \/ ReportCrashes)
        => MitigationInv'
  <1> SUFFICES ASSUME MitigationInv, RunNode,
                      CausalRanker \/ LogAnalysis \/ Mitigation \/ SafetyCheck \/ MemoryStore
                        \/ ReportGeneration \/ ReportCrashes
               PROVE  MitigationInv'
    OBVIOUS
  <1>0. /\ TypeOK /\ HealthInv /\ FailureInv /\ LoopInv /\ s \in State
        /\ s.spans \in BOOLEAN /\ s.graph \in BOOLEAN /\ s.ranked \in BOOLEAN /\ s.error \in BOOLEAN
    BY DEF MitigationInv, TypeOK, State
  <1> USE <1>0, PipelineAssumption
  <1>1. CASE CausalRanker
    <2>1. node = "causal_ranker" /\ node' = "log_analysis" /\ UNCHANGED <<evidence, incidents>>
      BY <1>1 DEF CausalRanker, Step
    <2>2. s' \in State /\ HealthInv' /\ FailureInv'
      <3>1. CASE s' = Running(s)
        <4>1. /\ s' \in State /\ SameHealth /\ s'.error = s.error /\ s'.failures = s.failures
              /\ s'.spans = s.spans /\ s'.graph = s.graph /\ s'.ranked = s.ranked
              /\ s'.actions = s.actions
          BY <3>1 DEF Running, State, SameHealth
        <4>2. HealthInv'
          BY <2>1, <4>1, SameHealthKeepsInv DEF BeforeDetection
        <4>3. FailureInv'
          BY <2>1, <3>1, <4>1
             DEF FailureInv, BeforeMitigation, BeforeRca, BeforeDetection
        <4>4. QED
          BY <4>1, <4>2, <4>3
      <3>2. CASE s' = s
        <4>1. /\ s' \in State /\ SameHealth /\ s'.error = s.error /\ s'.failures = s.failures
              /\ s'.spans = s.spans /\ s'.graph = s.graph /\ s'.ranked = s.ranked
              /\ s'.actions = s.actions
          BY <3>2 DEF SameHealth
        <4>2. HealthInv'
          BY <2>1, <4>1, SameHealthKeepsInv DEF BeforeDetection
        <4>3. FailureInv'
          BY <2>1, <3>2, <4>1
             DEF FailureInv, BeforeMitigation, BeforeRca, BeforeDetection
        <4>4. QED
          BY <4>1, <4>2, <4>3
      <3>3. QED
        BY <1>1, <3>1, <3>2 DEF CausalRanker, Step
    <2>3. QED
      BY <2>1, <2>2, StepKeepsRest
         DEF NodeNames, BeforeStore, BeforeMitigation, BeforeRca, BeforeDetection, MitigationInv
  <1>2. CASE LogAnalysis
    <2>1. node = "log_analysis" /\ node' = "mitigation" /\ UNCHANGED <<evidence, incidents>>
      BY <1>2 DEF LogAnalysis, Step
    <2>2. s' \in State /\ HealthInv' /\ FailureInv'
      <3>1. CASE s' = Running(s)
        <4>1. /\ s' \in State /\ SameHealth /\ s'.error = s.error /\ s'.failures = s.failures
              /\ s'.spans = s.spans /\ s'.graph = s.graph /\ s'.ranked = s.ranked
              /\ s'.actions = s.actions
          BY <3>1 DEF Running, State, SameHealth
        <4>2. HealthInv'
          BY <2>1, <4>1, SameHealthKeepsInv DEF BeforeDetection
        <4>3. FailureInv'
          BY <2>1, <3>1, <4>1
             DEF FailureInv, BeforeMitigation, BeforeRca, BeforeDetection
        <4>4. QED
          BY <4>1, <4>2, <4>3
      <3>2. CASE s' = s
        <4>1. /\ s' \in State /\ SameHealth /\ s'.error = s.error /\ s'.failures = s.failures
              /\ s'.spans = s.spans /\ s'.graph = s.graph /\ s'.ranked = s.ranked
              /\ s'.actions = s.actions
          BY <3>2 DEF SameHealth
        <4>2. HealthInv'
          BY <2>1, <4>1, SameHealthKeepsInv DEF BeforeDetection
        <4>3. FailureInv'
          BY <2>1, <3>2, <4>1
             DEF FailureInv, BeforeMitigation, BeforeRca, BeforeDetection
        <4>4. QED
          BY <4>1, <4>2, <4>3
      <3>3. QED
        BY <1>2, <3>1, <3>2 DEF LogAnalysis, Step
    <2>3. QED
      BY <2>1, <2>2, StepKeepsRest
         DEF NodeNames, BeforeStore, BeforeMitigation, BeforeRca, BeforeDetection, MitigationInv
  <1>3. CASE Mitigation
    <2>1. node = "mitigation" /\ node' = "safety_check" /\ UNCHANGED <<evidence, incidents>>
      BY <1>3 DEF Mitigation, Step
    <2>2. evidence.remedies \subseteq Remedies
      BY DEF TypeOK, Evidence
    <2>3. s' \in State /\ HealthInv' /\ FailureInv'
      <3>1. CASE s' = [s EXCEPT !.actions = {}, !.undo = {}]
        <4>1. /\ s' \in State /\ s'.actions = {} /\ SameHealth /\ s'.error = s.error
              /\ s'.failures = s.failures /\ s'.spans = s.spans /\ s'.graph = s.graph
              /\ s'.ranked = s.ranked
          BY <3>1, <2>2 DEF State, SameHealth
        <4>2. HealthInv'
          BY <2>1, <4>1, SameHealthKeepsInv DEF BeforeDetection
        <4>3. FailureInv'
          BY <2>1, <3>1, <4>1
             DEF FailureInv, BeforeMitigation, BeforeRca, BeforeDetection
        <4>4. QED
          BY <4>1, <4>2, <4>3
      <3>2. CASE s' = [Failed("mitigation") EXCEPT !.actions = {}, !.undo = {}]
        <4>1. /\ s' \in State /\ s'.error = TRUE
              /\ s'.failures = s.failures \cup {"mitigation"} /\ s'.actions = {} /\ SameHealth
              /\ s'.spans = s.spans /\ s'.graph = s.graph /\ s'.ranked = s.ranked
          BY <3>2, <2>2, FailedFields DEF NodeNames, State, SameHealth
        <4>2. HealthInv'
          BY <2>1, <4>1, SameHealthKeepsInv DEF BeforeDetection
        <4>3. FailureInv'
          BY <2>1, <3>2, <4>1
             DEF FailureInv, BeforeMitigation, BeforeRca, BeforeDetection
        <4>4. QED
          BY <4>1, <4>2, <4>3
      <3>3. CASE s.ranked /\ s' = Running([s EXCEPT !.actions = evidence.remedies, !.undo = evidence.remedies])
        <4>1. /\ s' \in State /\ s'.actions = evidence.remedies /\ SameHealth
              /\ s'.error = s.error /\ s'.failures = s.failures /\ s'.spans = s.spans
              /\ s'.graph = s.graph /\ s'.ranked = s.ranked
          BY <3>3, <2>2 DEF Running, State, SameHealth
        <4>2. HealthInv'
          BY <2>1, <4>1, SameHealthKeepsInv DEF BeforeDetection
        <4>3. FailureInv'
          BY <2>1, <3>3, <4>1
             DEF FailureInv, BeforeMitigation, BeforeRca, BeforeDetection
        <4>4. QED
          BY <4>1, <4>2, <4>3
      <3>4. QED
        BY <1>3, <3>1, <3>2, <3>3 DEF Mitigation, Step
    <2>4. QED
      BY <2>1, <2>3, StepKeepsRest
         DEF NodeNames, BeforeStore, BeforeMitigation, BeforeRca, BeforeDetection, MitigationInv
  <1>4. CASE SafetyCheck
    <2>0. s' = Passed /\ After \in 0..MaxHealth
      BY <1>4, CheckPasses, HealthType DEF SafetyCheck, MitigationInv, State, After
    <2>1. s' \in State /\ node' = "memory_store"
      BY <1>4, <2>0 DEF SafetyCheck, Passed, Running, State
    <2>2. HealthInv'
      BY <1>4, <2>0, <2>1 DEF Passed, Running, State, HealthInv, BeforeDetection
    <2>3. FailureInv'
      BY <1>4, <2>0, <2>1
         DEF SafetyCheck, Passed, Running, State, FailureInv, BeforeMitigation, BeforeRca,
             BeforeDetection
    <2>4. QED
      BY <1>4, <2>1, <2>2, <2>3, StepKeepsRest
         DEF SafetyCheck, MitigationInv, NodeNames, BeforeStore
  <1>5. CASE MemoryStore
    <2>1. s' \in State
      BY <1>5 DEF MemoryStore, State
    <2>2. HealthInv'
      BY <1>5, <2>1 DEF MemoryStore, State, HealthInv, BeforeDetection
    <2>3. FailureInv'
      BY <1>5, <2>1 DEF MemoryStore, State, FailureInv, BeforeMitigation, BeforeRca, BeforeDetection
    <2>4. incidents' \in 0..MaxRetryAttempts /\ incidents' <= attempt
      <3>1. node \in BeforeStore
        BY <1>5 DEF MemoryStore, BeforeStore
      <3>2. incidents < attempt
        BY <3>1 DEF LoopInv
      <3>3. incidents \in 0..MaxRetryAttempts /\ attempt \in 0..MaxRetryAttempts
        BY DEF TypeOK
      <3>4. incidents' \in {incidents, incidents + 1}
        BY <1>5 DEF MemoryStore
      <3>5. QED
        BY <3>2, <3>3, <3>4, RetryAssumption
    <2>5. executed = {} /\ phase = "pipeline" /\ phase' = "pipeline" /\ node' = "report_generation"
      BY <1>5 DEF MemoryStore, RunNode, LoopInv
    <2>6. TypeOK'
      BY <1>5, <2>1, <2>4, <2>5 DEF MemoryStore, RunNode, TypeOK, Phases, NodeNames
    <2>7. LoopInv'
      BY <1>5, <2>4, <2>5
         DEF RunNode, LoopInv, SubmitEarned, BeforeStore, BeforeMitigation, BeforeRca, BeforeDetection
    <2>8. QED
      BY <2>2, <2>3, <2>6, <2>7 DEF MitigationInv
  <1>6. CASE ReportGeneration
    <2>1. node = "report_generation" /\ node' = "END" /\ UNCHANGED <<evidence, incidents>>
      BY <1>6 DEF ReportGeneration, Step
    <2>2. s' \in State /\ HealthInv' /\ FailureInv'
      <3>1. CASE s' = [s EXCEPT !.status = "complete"]
        <4>1. /\ s' \in State /\ s'.status = "complete" /\ SameHealth /\ s'.error = s.error
              /\ s'.failures = s.failures /\ s'.spans = s.spans /\ s'.graph = s.graph
              /\ s'.ranked = s.ranked /\ s'.actions = s.actions
          BY <3>1 DEF State, SameHealth
        <4>2. HealthInv'
          BY <2>1, <4>1, SameHealthKeepsInv DEF BeforeDetection
        <4>3. FailureInv'
          BY <2>1, <3>1, <4>1
             DEF FailureInv, BeforeMitigation, BeforeRca, BeforeDetection
        <4>4. QED
          BY <4>1, <4>2, <4>3
      <3>2. QED
        BY <1>6, <3>1 DEF ReportGeneration, Step
    <2>3. QED
      BY <2>1, <2>2, StepKeepsRest
         DEF NodeNames, BeforeStore, BeforeMitigation, BeforeRca, BeforeDetection, MitigationInv
  <1>7. CASE ReportCrashes
    <2>1. node' = "END" /\ s' = FinalStateOfCrash /\ UNCHANGED <<evidence, incidents>>
      BY <1>7 DEF ReportCrashes, Step
    <2>2. /\ s' \in State /\ s'.error = TRUE /\ s'.failures = {}
          /\ s'.spans = FALSE /\ s'.graph = FALSE /\ s'.ranked = FALSE /\ s'.actions = {}
          /\ s'.alerts = 0 /\ s'.before = 0 /\ s'.triggered = FALSE /\ s'.rollbacks = 0
      <3>1. s' \in State
        BY <2>1, InitialStateType DEF FinalStateOfCrash, State
      <3>2. QED
        BY <2>1, <3>1 DEF FinalStateOfCrash, InitialState
    <2>3. HealthInv'
      BY <2>1, <2>2 DEF HealthInv, Health, BeforeDetection
    <2>4. FailureInv'
      BY <2>1, <2>2 DEF FailureInv, BeforeMitigation, BeforeRca, BeforeDetection
    <2>5. QED
      BY <2>1, <2>2, <2>3, <2>4, StepKeepsRest
         DEF NodeNames, BeforeStore, BeforeMitigation, BeforeRca, BeforeDetection, MitigationInv
  <1>8. QED
    BY <1>1, <1>2, <1>3, <1>4, <1>5, <1>6, <1>7

\* The steps of the retry loop keep the invariant.
LEMMA LoopKeepsInv ==
    MitigationInv /\ (InvokePipeline \/ PipelineRaises \/ ExecutePlan \/ Validate \/ UNCHANGED vars)
        => MitigationInv'
  <1> SUFFICES ASSUME MitigationInv,
                      InvokePipeline \/ PipelineRaises \/ ExecutePlan \/ Validate \/ UNCHANGED vars
               PROVE  MitigationInv'
    OBVIOUS
  <1> USE PipelineAssumption, RetryAssumption
      DEF MitigationInv, TypeOK, HealthInv, FailureInv, LoopInv, SubmitEarned, pipelineVars,
          NodeNames, Phases, Clusters,
          BeforeStore, BeforeMitigation, BeforeRca, BeforeDetection
  <1>1. CASE InvokePipeline
    BY <1>1 DEF InvokePipeline, InitialState, State, Health, MaxHealth, MaxRollbackCycles
  <1>2. CASE PipelineRaises
    BY <1>2 DEF PipelineRaises
  <1>3. CASE ExecutePlan
    <2>1. executed' \subseteq Remedies
      BY <1>3 DEF ExecutePlan, State
    <2>2. cluster' \in Clusters
      BY <1>3 DEF ExecutePlan
    <2>3. QED
      BY <1>3, <2>1, <2>2 DEF ExecutePlan
  <1>4. CASE Validate
    <2>1. validated' \in BOOLEAN /\ phase' \in {"start", "done"}
      BY <1>4 DEF Validate, Validations, AfterValidation
    <2>2. phase' = "start" => attempt < MaxRetryAttempts
      BY <1>4 DEF Validate, AfterValidation
    <2>3. phase' = "done" => validated' \/ attempt = MaxRetryAttempts
      BY <1>4 DEF Validate, AfterValidation
    <2>4. QED
      BY <1>4, <2>1, <2>2, <2>3 DEF Validate
  <1>5. CASE UNCHANGED vars
    BY <1>5 DEF vars, loopVars
  <1>6. QED
    BY <1>1, <1>2, <1>3, <1>4, <1>5

\* MitigationInv holds in every reachable state.
THEOREM MitigationInvariant == Spec => []MitigationInv
  <1>1. MitigationInv /\ [Next]_vars => MitigationInv'
    BY DiagnosisKeepsInv, ActionKeepsInv, LoopKeepsInv
       DEF Next, Work, RunNode, PipelineStep, Submitted
  <1>2. QED
    BY InitInv, <1>1, PTL DEF Spec

\* The state of the run has its type; attempts and incidents stay within bounds.
THEOREM MitigationType == Spec => []TypeOK
  <1>1. MitigationInv => TypeOK
    BY DEF MitigationInv
  <1>2. QED
    BY <1>1, MitigationInvariant, PTL

\* The safety check never sees a regression: the rollback loop is never entered.
THEOREM RollbackIsNeverEntered == Spec => []NoRegressionSeen
  <1>1. MitigationInv => NoRegressionSeen
    <2> SUFFICES ASSUME MitigationInv PROVE NoRegressionSeen
      OBVIOUS
    <2>1. s.before = After /\ After \in Nat
      BY HealthType, PipelineAssumption
         DEF MitigationInv, HealthInv, TypeOK, State, After, MaxHealth
    <2>2. QED
      BY <2>1 DEF NoRegressionSeen, Regressed, MitigationInv, HealthInv
  <1>2. QED
    BY <1>1, MitigationInvariant, PTL

\* A remedy is executed only on the diagnosis of its own attempt.
THEOREM NoBlindRemedy == Spec => []RemediesNeedDiagnosis
  <1>1. MitigationInv => RemediesNeedDiagnosis
    <2> SUFFICES ASSUME MitigationInv, executed # {}
                 PROVE  /\ s.failures \subseteq {"detection"}
                        /\ s.spans /\ s.graph /\ s.ranked
                        /\ s.status = "complete"
      BY DEF RemediesNeedDiagnosis
    <2>1. s.actions # {} /\ node = "END"
      BY DEF MitigationInv, LoopInv
    <2>2. QED
      BY <2>1 DEF MitigationInv, FailureInv
  <1>2. QED
    BY <1>1, MitigationInvariant, PTL

\* The report is submitted on a passed validation, on the last attempt, or on an
\* exception.
THEOREM ReportIsEarned == Spec => []SubmitEarned
  <1>1. MitigationInv => SubmitEarned
    BY DEF MitigationInv, LoopInv
  <1>2. QED
    BY <1>1, MitigationInvariant, PTL

\* The error of a failed node is in the report, whatever the nodes behind it did.
THEOREM ErrorIsReported == Spec => []ErrorSurvives
  <1>1. MitigationInv => ErrorSurvives
    BY DEF MitigationInv, FailureInv, ErrorSurvives
  <1>2. QED
    BY <1>1, MitigationInvariant, PTL
===============================================================================
