-------------------------------- MODULE Analysis --------------------------------
(***************************************************************************)
(* Runs of run_pipeline in a process that may be replaced between two of   *)
(* them: the pipeline's nodes with the data they compute, the incident     *)
(* memory they share, and, in multi-agent mode, the nodes around them:     *)
(* triage, planner, parallel workers and aggregation before, the synthesis *)
(* after.                                                                  *)
(*                                                                         *)
(* Pipeline says which node runs next and what its outcomes are; here each *)
(* node gets its data.  The telemetry, the replies of the model and the    *)
(* calls of the workers are external.                                      *)
(***************************************************************************)
EXTENDS Pipeline, RootCause, IncidentMemory

CONSTANTS
    Traces,        \* the trace files: the rows of each
    Given,         \* the trace files each run may be given, a sequence of sets
    Dirs,          \* the output directories a run may be given
    Orders,        \* the orders in which a process may list its services
    Strategies,    \* the assignments triage may be told: "valid", "invalid", "malformed"
    Replies,       \* what the synthesis may be told
    MaxQueries     \* GRAPHRCA_MAX_PARALLEL_QUERIES

\* The services a process may list.
Listed == UNION {Range(order) : order \in Orders}

Rows == [trace : Nat, id : Nat, parent : Nat, svc : Listed, start : Int, dur : Int,
         err : BOOLEAN, code : {"ok", "unknown", "5xx"}, request : BOOLEAN]

Assignments == {"valid", "invalid", "malformed"}

\* A service has a name, a set lists each once, and a plan may hold the commands for it.
ASSUME AnalysisAssumption ==
    /\ Dirs \subseteq Paths /\ MaxQueries \in Nat \ {0}
    /\ Given \in Seq(SUBSET DOMAIN Traces)
    /\ \A t \in DOMAIN Traces : Traces[t] \in Seq(Rows)
    /\ NoPart \notin Listed
    /\ \A order \in Orders : order \in Seq(Listed) /\ Range(order) = Listed /\ IsInjective(order)
    /\ {"restart", "scale"} \X Listed \subseteq Remedies
    /\ Strategies \subseteq Seq(Assignments)
    /\ \A reply \in Replies : \A svc \in DOMAIN reply.deltas : reply.deltas[svc] \in Int

\* Bound: the number of runs.
MaxRuns == Len(Given)

VARIABLES
    run,          \* the number of the run
    phase,        \* where it stands around the pipeline
    input,        \* what it was given: mode, dir, and the order of its process
    trace,        \* its trace file
    data,         \* the part of the shared state that nodes compute
    tasks,        \* investigation_strategy["worker_assignments"]
    dispatched,   \* history: the assignments the router sent out
    updates,      \* what the workers of this superstep returned
    results       \* worker_results

agentVars == <<tasks, dispatched, updates, results>>
runVars == <<run, input, trace>>
vars == <<pipelineVars, memoryVars, runVars, agentVars, phase, data>>

NoTrace == "none"
Phases == {"triage", "planner", "workers", "aggregate", "pipeline", "synthesis", "done"}
Modes == {"pipeline", "multi_agent"}

\* The fields initial_state lacks, as they read.
NoData == [alerts |-> <<>>, baselines |-> FALSE, primary |-> NoPart, similar |-> {}, ranked |-> <<>>,
           incident |-> UnknownIncident, override |-> NoPart]

Init ==
    /\ MemoryInit
    /\ evidence = [parses |-> FALSE, alerts |-> 0, remedies |-> {}]
    /\ node = "END" /\ s = InitialState /\ incidents = 0
    /\ run = 0 /\ phase = "done" /\ trace = NoTrace /\ data = NoData
    /\ input \in [mode : {"pipeline"}, dir : Dirs, order : Orders]
    /\ tasks = <<>> /\ dispatched = {} /\ updates = {} /\ results = {}

Ingested == [t \in DOMAIN Traces |-> Deduplicated(Traces[t])]

Detections == [t \in DOMAIN Traces |-> AlertsOf(Ingested[t])]

ASSUME DetectionsAssumption == \A t \in DOMAIN Traces : Len(Detections[t]) <= MaxAlerts

spans == Ingested[trace]

\* anomaly_type: the kinds of the first three alerts.
TypesOf(alerts) == {alerts[i].types : i \in 1..Min({3, Len(alerts)})}

TopCause(ranked) == IF ranked = <<>> THEN NoPart ELSE ranked[1].svc
-------------------------------------------------------------------------------
\* Mutated: the list of the first state is one for all runs.
SharedResults == results

\* initial_state
NoResults == {}

\* run_pipeline in this process, or in a new one, whose store is not open.
Invoke ==
    /\ phase = "done" /\ run < MaxRuns
    /\ run' = run + 1
    /\ trace' \in Given[run']
    /\ evidence' = [parses |-> Ingestible(Traces[trace']), remedies |-> {},
                    alerts |-> Len(Detections[trace'])]
    /\ input' \in [mode : Modes, dir : Dirs, order : Orders]
    /\ \/ input'.order = input.order /\ UNCHANGED handle
       \/ handle' = NoPath
    /\ phase' = IF input'.mode = "multi_agent" THEN "triage" ELSE "pipeline"
    /\ node' = "trace_ingest" /\ s' = InitialState /\ data' = NoData
    /\ tasks' = <<>> /\ dispatched' = {} /\ updates' = {} /\ results' = NoResults
    /\ UNCHANGED <<db, env, incidents>>

\* An exception that no node catches: the caller is left with the initial state.
InvocationCrashes ==
    /\ phase' = "done" /\ node' = "END"
    /\ s' = FinalStateOfCrash /\ data' = NoData /\ results' = {}

\* triage_agent_node: the default strategy when the model fails.
DefaultStrategy == <<"valid", "valid">>

Triage ==
    /\ phase = "triage"
    /\ \/ \E told \in Strategies : tasks' = SubSeq(told, 1, Min({MaxQueries, Len(told)}))
       \/ tasks' = DefaultStrategy
    /\ s' = Running(s)
    /\ phase' = "planner"
    /\ UNCHANGED <<evidence, node, incidents, memoryVars, runVars, data,
                   dispatched, updates, results>>

ValidTasks == {i \in DOMAIN tasks : tasks[i] = "valid"}

\* Mutated: without a valid assignment nothing is sent, and nothing follows.
OnlyWorkers == "workers"

AfterPlanner == IF ValidTasks = {} THEN "aggregate" ELSE "workers"

\* planner_agent_node and dispatch_workers_router.  An assignment that is not a
\* dictionary raises.
Planner ==
    /\ phase = "planner"
    /\ \/ /\ \A i \in DOMAIN tasks : tasks[i] # "malformed"
          /\ dispatched' = ValidTasks
          /\ phase' = AfterPlanner
          /\ UNCHANGED <<node, s, data, results>>
       \/ /\ \E i \in DOMAIN tasks : tasks[i] = "malformed"
          /\ InvocationCrashes
          /\ UNCHANGED dispatched
    /\ UNCHANGED <<evidence, incidents, memoryVars, runVars, tasks, updates>>

\* mcp_worker_node: it returns the results it was sent with its own appended,
\* which says whether the call raised.
Worker(i) ==
    /\ phase = "workers"
    /\ i \in dispatched \ {u.worker : u \in updates}
    /\ \E raised \in BOOLEAN :
          updates' = updates \cup
              {[worker |-> i, results |-> results \cup {[task |-> i, raised |-> raised]}]}
    /\ UNCHANGED <<pipelineVars, memoryVars, runVars, phase, data, tasks, dispatched, results>>

\* Mutated: two updates of one key are no conflict.
NeverConflicting(us) == us # us

Conflicting(us) == Cardinality(us) > 1

\* The end of the superstep: a key without a reducer takes one value in a step.
EndSuperstep ==
    /\ phase = "workers"
    /\ dispatched = {u.worker : u \in updates}
    /\ \/ /\ ~Conflicting(updates)
          /\ \E u \in updates : results' = u.results
          /\ phase' = "aggregate"
          /\ UNCHANGED <<node, s, data>>
       \/ Conflicting(updates) /\ InvocationCrashes
    /\ updates' = {}
    /\ UNCHANGED <<evidence, incidents, memoryVars, runVars, tasks, dispatched>>

\* aggregate_workers_node: it counts.
Aggregate ==
    /\ phase = "aggregate"
    /\ phase' = "pipeline"
    /\ UNCHANGED <<pipelineVars, memoryVars, runVars, agentVars, data>>
-------------------------------------------------------------------------------
\* Nodes whose data nothing here depends on.
PlainNode ==
    /\ phase = "pipeline"
    /\ TraceIngest \/ GraphBuilder \/ LogAnalysis \/ SafetyCheck
    /\ UNCHANGED <<memoryVars, runVars, agentVars, phase, data>>

RunDetection ==
    /\ phase = "pipeline"
    /\ Detection
    /\ \/ ~s.spans /\ data' = [data EXCEPT !.primary = Unknown]
       \/ s.spans /\ "detection" \in s'.failures /\ UNCHANGED data
       \/ /\ s.spans /\ "detection" \notin s'.failures
          /\ \E alerts \in {Detections[trace]} :
                data' = [data EXCEPT !.alerts = alerts, !.baselines = TRUE,
                                     !.primary = PrimaryOf(alerts, spans)]
    /\ UNCHANGED <<memoryVars, runVars, agentVars, phase>>

\* find_similar answers a failed query with no rows.
RunMemorySearch ==
    /\ phase = "pipeline"
    /\ MemorySearch
    /\ \/ /\ handle' = Opened(input.dir)
          /\ s' = Running(s)
          /\ \E found \in {{}, Similar(db[handle'], data.primary, TypesOf(data.alerts))} :
                data' = [data EXCEPT !.similar = found]
       \/ OpenFails /\ s' = s /\ UNCHANGED data
    /\ UNCHANGED <<db, env, runVars, agentVars, phase>>

\* Mutated: the incidents of a process share one.
IncidentIdOfProcess == 1

\* state.get("incident_id") or a new one, which the number of the run stands for.
IncidentId == IF data.incident # UnknownIncident THEN data.incident ELSE run

\* The service the search starts from: the detection's, or else found anew.
Start == IF data.primary = NoPart THEN PrimaryOf(data.alerts, spans) ELSE data.primary

RunRca ==
    /\ phase = "pipeline"
    /\ Rca
    /\ \/ "rca" \in s'.failures /\ UNCHANGED data
       \/ /\ "rca" \notin s'.failures
          /\ \E ranked \in {Ranking(spans, data.alerts, data.baselines, Start, input.order)} :
                data' = [data EXCEPT !.ranked = ranked, !.incident = IncidentId]
    /\ UNCHANGED <<memoryVars, runVars, agentVars, phase>>

RunCausalRanker ==
    /\ phase = "pipeline"
    /\ CausalRanker
    /\ \/ s' = s /\ UNCHANGED data
       \/ /\ s.ranked /\ s' = Running(s)
          /\ \E causes \in Correlated(spans, data.ranked) :
                data' = [data EXCEPT !.ranked =
                             CausalRanking(@, TemporalOrder(spans, data.alerts), causes)]
    /\ UNCHANGED <<memoryVars, runVars, agentVars, phase>>

\* mitigation_node: past cases are not handed to the plan.
RunMitigation ==
    /\ phase = "pipeline"
    /\ Step("mitigation",
            IF ~s.ranked
            THEN {[s EXCEPT !.actions = {}, !.undo = {}]}
            ELSE {[Failed("mitigation") EXCEPT !.actions = {}, !.undo = {}],
                  Running([s EXCEPT !.actions = Plan(spans, data.ranked),
                                    !.undo = Plan(spans, data.ranked)])},
            "safety_check")
    /\ UNCHANGED <<memoryVars, runVars, agentVars, phase, data>>

\* Mutated: the row names the service with the alert.
StoredServiceOf(d) == d.primary

StoredCauseOf(d) == TopCause(d.ranked)

\* memory_store_node: what becomes of the row is not asked.
StoreIncident ==
    /\ phase = "pipeline" /\ node = "memory_store"
    /\ \/ /\ handle' = Opened(input.dir)
          /\ \/ UNCHANGED db
             \/ db' = [db EXCEPT ![handle'] = Inserted(@,
                          Incident(data.incident, run, data.primary,
                                   TypesOf(data.alerts), StoredCauseOf(data)))]
          /\ s' = [s EXCEPT !.stored = TRUE, !.status = "complete"]
          /\ incidents' = Cardinality(db'[handle'])
       \/ /\ OpenFails
          /\ s' = [s EXCEPT !.stored = FALSE, !.status = "complete"]
          /\ UNCHANGED <<db, incidents>>
    /\ node' = "report_generation"
    /\ phase' = IF input.mode = "multi_agent" THEN "synthesis" ELSE "pipeline"
    /\ UNCHANGED <<evidence, env, runVars, agentVars, data>>

\* synthesis_agent_node: nothing to merge, a model that fails, or a new ranking.
Synthesis ==
    /\ phase = "synthesis"
    /\ \/ UNCHANGED data
       \/ /\ results # {} /\ data.ranked # <<>>
          /\ \E reply \in Replies :
                data' = [data EXCEPT !.ranked = SynthesizedRanking(@, reply),
                                     !.override = reply.override]
    /\ phase' = "pipeline"
    /\ UNCHANGED <<pipelineVars, memoryVars, runVars, agentVars>>

Report ==
    /\ phase = "pipeline"
    /\ \/ ReportGeneration /\ UNCHANGED <<data, results>>
       \/ ReportCrashes /\ data' = NoData /\ results' = {}
    /\ phase' = "done"
    /\ UNCHANGED <<memoryVars, runVars, tasks, dispatched, updates>>

Work ==
    \/ Triage \/ Planner \/ (\E i \in dispatched : Worker(i)) \/ EndSuperstep \/ Aggregate
    \/ PlainNode \/ RunDetection \/ RunMemorySearch \/ RunRca \/ RunCausalRanker
    \/ RunMitigation \/ StoreIncident \/ Synthesis \/ Report

\* The last run has ended.
Idle == phase = "done" /\ run = MaxRuns /\ UNCHANGED vars

Next == Work \/ Invoke \/ Idle

Spec == Init /\ [][Next]_vars

\* The process is scheduled, and each call it makes returns.
FairSpec == Spec /\ WF_vars(Work)
-------------------------------------------------------------------------------
(* What the runs promise.                                                  *)

Ids == 0..MaxRuns

Row(r) ==
    /\ DOMAIN r = {"id", "timestamp", "root_cause", "signature"}
    /\ r.id \in Ids /\ r.timestamp \in Ids
    /\ DOMAIN r.signature = {"service", "types", "cause"}

\* Types: the store and the shared state are tables of their own shapes, and no incident
\* is newer than the run.
TypeOK ==
    /\ evidence \in Evidence /\ s \in State /\ node \in NodeNames /\ incidents \in Nat
    /\ run \in 0..MaxRuns /\ phase \in Phases
    /\ input \in [mode : Modes, dir : Dirs, order : Orders]
    /\ DOMAIN db = Paths /\ \A p \in Paths : \A r \in db[p] : Row(r) /\ r.timestamp <= run
    /\ handle \in Paths \cup {NoPath} /\ env \in Paths \cup {NoPath}
    /\ DOMAIN data = DOMAIN NoData /\ data.incident \in Ids
    /\ \A i \in DOMAIN tasks : tasks[i] \in Assignments
    /\ dispatched \subseteq DOMAIN tasks
    /\ \A u \in updates : u.worker \in dispatched
    /\ \A e \in results : e.task \in dispatched

\* The services of which one span in twenty failed, as the rate is rounded: to 0.0001.
FailingServices ==
    [t \in DOMAIN Traces |-> {svc \in Range(ServicesOf(Ingested[t])) :
        20000 * Cardinality({i \in SpansOf(Ingested[t], svc) : IsError(Ingested[t][i])})
            >= 999 * Cardinality(SpansOf(Ingested[t], svc))}]

Graphs == [t \in DOMAIN Traces |-> CallEdges(Ingested[t])]

\* A service alerts exactly if one span in twenty of its own failed: the baseline is made
\* of the very spans it judges, so that being slow, however slow, is never an alert.
AlertsAreErrors ==
    data.baselines => CausesOf(data.alerts) = FailingServices[trace]

\* The searches that are not cut: the trace file and the service each starts from.
Uncut == {search \in (DOMAIN Traces) \X Listed :
             Len(CompletePaths(Ingested[search[1]], search[2])) <= MaxPaths}

\* The services from which a chain of at most k calls leads to a service.
Reaching(svc, k) ==
    LET graph == Graphs[trace]
        within[n \in 0..k] ==
            IF n = 0 THEN {svc}
            ELSE within[n - 1] \cup {e[1] : e \in {f \in graph : f[2] \in within[n - 1]}}
    IN  within[k]

\* The ranked services have a chain of calls to the service the search started from, no longer
\* than the search follows, and unless the search was cut they are all that have one.
CausesReachPrimary ==
    data.ranked # <<>> =>
        \E start \in {Start} :
            LET reaching == Reaching(start, MaxDepth)
            IN  /\ CausesOf(data.ranked) \subseteq reaching
                /\ <<trace, start>> \in Uncut => reaching \subseteq CausesOf(data.ranked)

\* Once a run has ranked its causes no step loses, doubles or adds one: not the causal
\* re-ranking, not the synthesis, whose override takes the list apart, and no node that fails.
CausesStay ==
    [][data.ranked # <<>> /\ data' # NoData =>
          /\ CausesOf(data'.ranked) = CausesOf(data.ranked)
          /\ Len(data'.ranked) = Cardinality(CausesOf(data.ranked))]_vars

\* What a search recalls are the incidents whose root cause was the service that now has
\* the alert: the signature of a search equals none that names a cause.
RecallIsByCause == \A r \in data.similar : r.root_cause = data.primary

\* Whenever the pipeline behind the workers runs, the calls of all of them are there.
NoWorkerLost ==
    phase \in {"aggregate", "pipeline", "synthesis"} => {e.task : e \in results} = dispatched

\* The incident of this run in the database its process has open.
OwnRows == {r \in db[handle] : r.timestamp = run}

\* At the end the incident in memory names the cause that is reported, or the live evidence
\* put one before it that it trusts no less.
StoredIsReported ==
    phase = "done" /\ s.stored /\ data.ranked # <<>> =>
        \A r \in OwnRows :
            \E i \in DOMAIN data.ranked :
                /\ data.ranked[i].svc = r.root_cause
                /\ i = 1 \/ (results # {} /\ data.ranked[1].conf >= data.ranked[i].conf)

\* The memory of a process is one database, however many directories its runs write to.
MemoryIsOne ==
    /\ handle \notin {NoPath, handle'} => phase = "done" /\ handle' = NoPath
    /\ \A p \in Paths : db'[p] # db[p] => p = handle'

\* The memory of a process stays the one it opened first, and no step changes an incident
\* in it that has an id.
MemoryIsAppended ==
    [][/\ MemoryIsOne
       /\ \A p \in Paths : \A r \in db[p] : r.id # UnknownIncident => r \in db'[p]]_vars

\* A run of the pipeline ends, in both modes and whatever fails.
AnalysisEnds == phase # "done" ~> phase = "done"

\* Said of the workers: their results "are already accumulated in
\* state["worker_results"] by the mcp_worker nodes".  When a superstep of workers is over,
\* every call that was dispatched is among the results.
EveryWorkerCollected ==
    [][phase = "workers" /\ phase' # "workers" => {e.task : e \in results'} = dispatched]_vars

\* Said of the synthesis: "move overridden service to rank #1".  The service the model
\* names is the first cause of the ranking that is reported.
OverrideIsFirst ==
    data.override \in CausesOf(data.ranked) => data.ranked[1].svc = data.override
===============================================================================
