-------------------------------- MODULE Pipeline --------------------------------
(***************************************************************************)
(* The deterministic LangGraph pipeline (graph.py and nodes/): eleven      *)
(* nodes that each read the shared state and return a partial update, the  *)
(* conditional edge after the safety check, and the state run_pipeline     *)
(* hands to its caller.  The edges are taken whether a node failed or not. *)
(*                                                                         *)
(* Health scores are counted in hundredths.  Spans, the graph and the      *)
(* ranking are there or not; a plan is a set of remediation commands.      *)
(***************************************************************************)
EXTENDS Naturals

CONSTANTS
    Remedies,     \* the remediation commands a plan may hold
    MaxAlerts     \* the most alerts a detection raises

ASSUME PipelineAssumption == MaxAlerts \in Nat

VARIABLES
    evidence,   \* the traces: do they parse, their alerts, the remedies they suggest
    node,       \* the next node, or END
    s,          \* the shared PipelineState
    incidents   \* how many incidents the memory store holds

pipelineVars == <<evidence, node, s, incidents>>

NodeNames == {"trace_ingest", "graph_builder", "detection", "memory_search", "rca",
              "causal_ranker", "log_analysis", "mitigation", "safety_check",
              "memory_store", "report_generation", "END"}

Evidence == [parses : BOOLEAN, alerts : 0..MaxAlerts, remedies : SUBSET Remedies]

MaxRollbackCycles == 3
MaxHealth == 40 * MaxAlerts

\* failures is history: the nodes that returned status "failed".
State == [status : {"running", "complete", "failed"}, error : BOOLEAN,
          spans : BOOLEAN, graph : BOOLEAN, alerts : 0..MaxAlerts, ranked : BOOLEAN,
          actions : SUBSET Remedies, undo : SUBSET Remedies,
          before : 0..MaxHealth, after : 0..MaxHealth,
          triggered : BOOLEAN, rollbacks : 0..MaxRollbackCycles,
          stored : BOOLEAN, failures : SUBSET NodeNames]

\* initial_state; the fields it lacks have the defaults the nodes read them with.
InitialState == [status |-> "running", error |-> FALSE,
                 spans |-> FALSE, graph |-> FALSE, alerts |-> 0, ranked |-> FALSE,
                 actions |-> {}, undo |-> {},
                 before |-> 0, after |-> 0,
                 triggered |-> FALSE, rollbacks |-> 0,
                 stored |-> FALSE, failures |-> {}]
-------------------------------------------------------------------------------
\* compute_health_score and health_regressed, tolerance 0.05.
Health(alerts, sla_violations, unhealthy_nodes) ==
    40 * alerts + 35 * sla_violations + 25 * unhealthy_nodes

Regressed(before, after) == after > before + 5

Failed(n) == [s EXCEPT !.status = "failed", !.error = TRUE, !.failures = @ \cup {n}]

\* Mutated: a node that succeeds clears what an earlier one reported.
RunningAfresh(t) == [t EXCEPT !.status = "running", !.error = FALSE]

Running(t) == [t EXCEPT !.status = "running"]

\* One node: its update, and the edge that leaves it.
Step(n, updates, next) ==
    /\ node = n
    /\ s' \in updates
    /\ node' = next
    /\ UNCHANGED <<evidence, incidents>>

TraceIngest ==
    Step("trace_ingest",
         {Failed("trace_ingest")}
            \cup (IF evidence.parses THEN {Running([s EXCEPT !.spans = TRUE])} ELSE {}),
         "graph_builder")

GraphBuilder ==
    Step("graph_builder",
         {Failed("graph_builder")}
            \cup (IF s.spans THEN {Running([s EXCEPT !.graph = TRUE])} ELSE {}),
         "detection")

\* Mutated: the score before the mitigation is not recorded.
DetectedUnscored == Running([s EXCEPT !.alerts = evidence.alerts])

Detected ==
    Running([s EXCEPT !.alerts = evidence.alerts, !.before = Health(evidence.alerts, 0, 0)])

\* Without spans, or when the detector raises, there is no alert and no score.
Detection ==
    Step("detection",
         IF s.spans THEN {Detected, [Failed("detection") EXCEPT !.alerts = 0]}
                    ELSE {[s EXCEPT !.alerts = 0]},
         "memory_search")

\* Its failure is not fatal.
MemorySearch == Step("memory_search", {Running(s), s}, "rca")

\* Mutated: without a graph the spans are ranked as they are.
RcaOfSpans ==
    Step("rca",
         {Failed("rca")} \cup (IF s.spans THEN {Running([s EXCEPT !.ranked = TRUE])} ELSE {}),
         "causal_ranker")

Rca ==
    Step("rca",
         {Failed("rca")}
            \cup (IF s.graph /\ s.spans THEN {Running([s EXCEPT !.ranked = TRUE])} ELSE {}),
         "causal_ranker")

\* Both pass over an empty ranking, and neither's failure is fatal.
CausalRanker ==
    Step("causal_ranker", {s} \cup (IF s.ranked /\ s.spans THEN {Running(s)} ELSE {}),
         "log_analysis")

LogAnalysis ==
    Step("log_analysis", {s} \cup (IF s.ranked THEN {Running(s)} ELSE {}), "mitigation")

\* Every action is approved, and gets an entry on a new undo stack.
Mitigation ==
    Step("mitigation",
         IF ~s.ranked
         THEN {[s EXCEPT !.actions = {}, !.undo = {}]}
         ELSE {[Failed("mitigation") EXCEPT !.actions = {}, !.undo = {}],
               Running([s EXCEPT !.actions = evidence.remedies, !.undo = evidence.remedies])},
         "safety_check")
-------------------------------------------------------------------------------
(* undo_agent_node.  It scores the alerts of the shared state, which only  *)
(* the detection writes; sla_violations and unhealthy_nodes stay empty.    *)

After == Health(s.alerts, 0, 0)

Passed == Running([s EXCEPT !.after = After, !.triggered = FALSE])

GivenUp == [s EXCEPT !.after = After, !.triggered = FALSE, !.status = "complete"]

\* The whole stack is reverted and cleared, whatever the reverts come to.
RolledBack == Running([s EXCEPT !.after = After, !.triggered = TRUE,
                                !.rollbacks = @ + 1, !.undo = {}])

Errored == [s EXCEPT !.after = s.before, !.triggered = FALSE, !.status = "complete"]

Judgements ==
    IF ~Regressed(s.before, After) THEN {Passed}
    ELSE IF s.rollbacks >= MaxRollbackCycles THEN {GivenUp}
    ELSE {RolledBack, Errored}

\* route_after_safety_check
SafetyCheck ==
    /\ node = "safety_check"
    /\ s' \in Judgements
    /\ node' = IF s'.triggered THEN "rca" ELSE "memory_store"
    /\ UNCHANGED <<evidence, incidents>>
-------------------------------------------------------------------------------
\* The row may be written or not, whatever the node says of it: store_incident
\* swallows its own errors, and the graph store may fail after it.
MemoryStore ==
    /\ node = "memory_store"
    /\ \E written, stored \in BOOLEAN :
          /\ incidents' = IF written THEN incidents + 1 ELSE incidents
          /\ s' = [s EXCEPT !.stored = stored, !.status = "complete"]
    /\ node' = "report_generation"
    /\ UNCHANGED evidence

ReportGeneration ==
    Step("report_generation", {[s EXCEPT !.status = "complete"]}, "END")

\* Mutated: the crash is noted in what the nodes had left so far.
CrashedState == [s EXCEPT !.status = "failed", !.error = TRUE]

\* final_state = {**initial_state, "status": "failed", "error": ...}
FinalStateOfCrash == [InitialState EXCEPT !.status = "failed", !.error = TRUE]

\* The one node that may raise: a report directory or file that cannot be
\* written ends the invocation, and the caller keeps nothing of its state.
ReportCrashes ==
    Step("report_generation", {FinalStateOfCrash}, "END")

PipelineStep ==
    \/ TraceIngest \/ GraphBuilder \/ Detection \/ MemorySearch \/ Rca \/ CausalRanker
    \/ LogAnalysis \/ Mitigation \/ SafetyCheck \/ MemoryStore
    \/ ReportGeneration \/ ReportCrashes
===============================================================================
