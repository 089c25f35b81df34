----------------------------- MODULE AnalysisProofs -----------------------------
(***************************************************************************)
(* The workers, the incident memory and the types of Analysis, for every   *)
(* set of traces, directories, strategies, replies and any number of runs. *)
(* Of what is computed from the spans it uses what RootCauseProofs shows:  *)
(* which lists the alerts and the rankings are.                            *)
(***************************************************************************)
EXTENDS Analysis, RootCauseProofs

\* The workers of a superstep were all sent no result, and return one each.
WorkersInv ==
    /\ IsFiniteSet(updates)
    /\ phase \in {"triage", "planner", "workers"} => results = {}
    /\ phase # "workers" => updates = {}
    /\ \A u \in updates : \E raised \in BOOLEAN :
          u.results = {[task |-> u.worker, raised |-> raised]}
    /\ NoWorkerLost

\* The tables have their shape, and the store is closed or at one of the paths.
ShapeInv ==
    /\ data = [alerts |-> data.alerts, baselines |-> data.baselines, primary |-> data.primary,
               similar |-> data.similar, ranked |-> data.ranked, incident |-> data.incident,
               override |-> data.override]
    /\ db = [p \in Paths |-> db[p]]
    /\ handle \in Paths \cup {NoPath} /\ env \in Paths \cup {NoPath}
    /\ input.dir \in Dirs
    /\ run \in Nat

BeforeRecall == {"trace_ingest", "graph_builder", "detection", "memory_search"}

\* A row without a cause in its signature has its service for a cause, and nothing is
\* recalled before the search.
RecallInv ==
    /\ \A p \in Paths : \A r \in db[p] :
          r.signature.cause = NoPart => r.root_cause = r.signature.service
    /\ node \in BeforeRecall => data.similar = {}
    /\ RecallIsByCause

\* The incident of a run has its number, and only behind the store a row has it.
IdInv ==
    /\ data.incident \in {UnknownIncident, run}
    /\ \A p \in Paths : \A r \in db[p] :
          /\ r.id \in 0..run
          /\ node \notin {"report_generation", "END"} => r.id # run \/ r.id = UnknownIncident

-------------------------------------------------------------------------------
\* What leaves the workers alone keeps what is said of them, whichever way it goes on.
LEMMA WorkersKept ==
    ASSUME WorkersInv, UNCHANGED <<dispatched, updates, results>>,
           phase' = phase \/ (/\ phase \in {"aggregate", "pipeline", "synthesis"}
                              /\ phase' \in {"aggregate", "pipeline", "synthesis", "done"})
    PROVE  WorkersInv'
  BY DEF WorkersInv, NoWorkerLost

\* A crash leaves no workers.
LEMMA WorkersCrash ==
    ASSUME IsFiniteSet(updates), phase' = "done", results' = {}, updates' = {}
    PROVE  WorkersInv'
  BY FS_EmptySet DEF WorkersInv, NoWorkerLost

\* A set with two different elements has more than one.
LEMMA OneUpdate ==
    ASSUME NEW us, IsFiniteSet(us), ~Conflicting(us), NEW u \in us
    PROVE  us = {u}
  <1>1. Cardinality(us) \in Nat /\ Cardinality(us) <= 1
    BY FS_CardinalityType DEF Conflicting
  <1>2. Cardinality({u}) = 1
    BY FS_Singleton
  <1>3. /\ Cardinality({u}) <= Cardinality(us)
        /\ Cardinality(us) = Cardinality({u}) => us = {u}
    <2>1. {u} \in SUBSET us
      OBVIOUS
    <2>2. QED
      BY <2>1, FS_Subset
  <1>4. QED
    BY <1>1, <1>2, <1>3

\* Whatever happens to the workers of a superstep, what the aggregation is built on holds.
THEOREM WorkersInvariant == Spec => []WorkersInv
  <1>1. Init => WorkersInv
    BY FS_EmptySet DEF Init, WorkersInv, NoWorkerLost
  <1>2. WorkersInv /\ [Next]_vars => WorkersInv'
    <2> SUFFICES ASSUME WorkersInv, [Next]_vars PROVE WorkersInv'
      OBVIOUS
    <2>1. CASE Invoke
      BY <2>1, FS_EmptySet DEF Invoke, WorkersInv, NoWorkerLost, NoResults
    <2>2. CASE Triage
      BY <2>2 DEF Triage, WorkersInv, NoWorkerLost
    <2>3. CASE Planner
      <3>1. updates' = {} /\ updates = {} /\ results = {}
        BY <2>3 DEF Planner, WorkersInv
      <3>2. CASE phase' = "done" /\ results' = {}
        BY <3>1, <3>2, WorkersCrash DEF WorkersInv
      <3>3. CASE dispatched' = ValidTasks /\ phase' = AfterPlanner /\ results' = results
        BY <3>1, <3>3 DEF AfterPlanner, WorkersInv, NoWorkerLost
      <3>4. QED
        BY <2>3, <3>2, <3>3 DEF Planner, InvocationCrashes
    <2>4. ASSUME NEW i \in dispatched, Worker(i) PROVE WorkersInv'
      <3>1. PICK raised \in BOOLEAN :
                updates' = updates \cup
                    {[worker |-> i, results |-> results \cup {[task |-> i, raised |-> raised]}]}
        BY <2>4 DEF Worker
      <3>2. IsFiniteSet(updates')
        BY <3>1, FS_AddElement DEF WorkersInv
      <3>3. phase = "workers" /\ results = {} /\ UNCHANGED <<phase, dispatched, results>>
        BY <2>4 DEF Worker, WorkersInv
      <3>4. \A u \in updates' : \E r \in BOOLEAN : u.results = {[task |-> u.worker, raised |-> r]}
        BY <3>1, <3>3 DEF WorkersInv
      <3>5. QED
        BY <3>2, <3>3, <3>4 DEF WorkersInv, NoWorkerLost
    <2>5. CASE EndSuperstep
      <3>1. updates' = {} /\ dispatched' = dispatched /\ dispatched = {u.worker : u \in updates}
        BY <2>5 DEF EndSuperstep
      <3>2. CASE phase' = "done" /\ results' = {}
        BY <3>1, <3>2, WorkersCrash DEF WorkersInv
      <3>3. CASE /\ ~Conflicting(updates) /\ phase' = "aggregate"
                 /\ \E u \in updates : results' = u.results
        <4>1. PICK u \in updates : results' = u.results
          BY <3>3
        <4>2. dispatched = {u.worker}
          BY <3>1, <3>3, OneUpdate DEF WorkersInv
        <4>3. PICK raised \in BOOLEAN : results' = {[task |-> u.worker, raised |-> raised]}
          BY <4>1 DEF WorkersInv
        <4>4. {e.task : e \in results'} = dispatched'
          BY <3>1, <4>2, <4>3
        <4>5. QED
          BY <3>1, <3>3, <4>4, FS_EmptySet DEF WorkersInv, NoWorkerLost
      <3>4. QED
        BY <2>5, <3>2, <3>3 DEF EndSuperstep, InvocationCrashes
    <2>6. CASE Aggregate
      BY <2>6, WorkersKept DEF Aggregate, agentVars
    <2>7. CASE PlainNode \/ RunDetection \/ RunMemorySearch \/ RunRca \/ RunCausalRanker
                  \/ RunMitigation
      BY <2>7, WorkersKept DEF PlainNode, RunDetection, RunMemorySearch, RunRca, RunCausalRanker,
                               RunMitigation, agentVars
    <2>8. CASE StoreIncident
      BY <2>8, WorkersKept DEF StoreIncident, agentVars
    <2>9. CASE Synthesis
      BY <2>9, WorkersKept DEF Synthesis, agentVars
    <2>10. CASE Report
      <3>1. CASE results' = results
        BY <2>10, <3>1, WorkersKept DEF Report
      <3>2. CASE results' = {}
        BY <2>10, <3>2, WorkersCrash DEF Report, WorkersInv
      <3>3. QED
        BY <2>10, <3>1, <3>2 DEF Report
    <2>11. CASE Idle \/ UNCHANGED vars
      BY <2>11, WorkersKept DEF Idle, vars, agentVars
    <2>12. QED
      BY <2>1, <2>2, <2>3, <2>4, <2>5, <2>6, <2>7, <2>8, <2>9, <2>10, <2>11 DEF Next, Work
  <1>3. QED
    BY <1>1, <1>2, PTL DEF Spec

\* The calls of all workers are there when the pipeline behind them runs.
THEOREM NoWorkerIsLost == Spec => []NoWorkerLost
  <1>1. WorkersInv => NoWorkerLost
    BY DEF WorkersInv
  <1>2. QED
    BY <1>1, WorkersInvariant, PTL
-------------------------------------------------------------------------------
\* The database a process has open is one of the paths, and stays open.
LEMMA OpenedPath ==
    ASSUME ShapeInv
    PROVE  Opened(input.dir) \in Paths /\ (handle # NoPath => Opened(input.dir) = handle)
  BY AnalysisAssumption DEF ShapeInv, Opened

\* An unused process has its shape.
LEMMA InitShape == Init => ShapeInv
  BY DEF Init, ShapeInv, NoData, MemoryInit

\* Every step keeps the shapes.
LEMMA ShapeKept == ShapeInv /\ [Next]_vars => ShapeInv'
  <1> SUFFICES ASSUME ShapeInv, [Next]_vars PROVE ShapeInv'
    OBVIOUS
  <1> USE DEF ShapeInv
  <1>1. CASE Invoke
    BY <1>1 DEF Invoke, NoData, memoryVars
  <1>2. CASE Triage \/ Aggregate \/ PlainNode \/ RunMitigation \/ (\E i \in dispatched : Worker(i))
    BY <1>2 DEF Triage, Aggregate, PlainNode, RunMitigation, Worker, memoryVars, runVars
  <1>3. CASE Planner \/ EndSuperstep \/ Report
    BY <1>3 DEF Planner, EndSuperstep, Report, InvocationCrashes, NoData, memoryVars, runVars
  <1>4. CASE RunDetection
    BY <1>4 DEF RunDetection, memoryVars, runVars
  <1>5. CASE RunMemorySearch
    BY <1>5, OpenedPath DEF RunMemorySearch, OpenFails, runVars
  <1>6. CASE RunRca \/ RunCausalRanker \/ Synthesis
    BY <1>6 DEF RunRca, RunCausalRanker, Synthesis, memoryVars, runVars
  <1>7. CASE StoreIncident
    BY <1>7, OpenedPath DEF StoreIncident, OpenFails, runVars
  <1>8. CASE Idle \/ UNCHANGED vars
    BY <1>8 DEF Idle, vars, memoryVars, runVars
  <1>9. QED
    BY <1>1, <1>2, <1>3, <1>4, <1>5, <1>6, <1>7, <1>8 DEF Next, Work

-------------------------------------------------------------------------------
\* Nothing was recalled yet.
LEMMA InitRecall == Init /\ ShapeInv => RecallInv
  BY DEF Init, RecallInv, RecallIsByCause, NoData, MemoryInit

\* What the search finds has the service for its root cause.
LEMMA SimilarIsByCause ==
    ASSUME ShapeInv, RecallInv, NEW p \in Paths, NEW primary, NEW types,
           NEW r \in Similar(db[p], primary, types)
    PROVE  r.root_cause = primary
  <1>1. r \in Matches(db[p], primary, types)
    BY DEF Similar
  <1>2. r \in db[p] /\ (r.signature = SearchSignature(primary, types) \/ r.root_cause = primary)
    BY <1>1 DEF Matches
  <1>3. ASSUME r.signature = SearchSignature(primary, types) PROVE r.root_cause = primary
    BY <1>2, <1>3 DEF RecallInv, SearchSignature, Signature
  <1>4. QED
    BY <1>2, <1>3

\* A row without a cause names its service twice.
LEMMA IncidentNamesService ==
    ASSUME NEW id, NEW now, NEW primary, NEW types, NEW cause
    PROVE  LET r == Incident(id, now, primary, types, cause)
           IN  /\ r.signature.cause = NoPart => r.root_cause = r.signature.service
               /\ r.id = id
  BY DEF Incident, StoreSignature, Signature, NoPart

\* Every step keeps what is recalled.
LEMMA RecallKept == ShapeInv /\ RecallInv /\ [Next]_vars => RecallInv'
  <1> SUFFICES ASSUME ShapeInv, RecallInv, [Next]_vars PROVE RecallInv'
    OBVIOUS
  <1> USE DEF RecallInv, RecallIsByCause, BeforeRecall
  <1>1. CASE Invoke
    BY <1>1 DEF Invoke, NoData
  <1>2. CASE Triage \/ Aggregate \/ RunMitigation \/ (\E i \in dispatched : Worker(i))
    BY <1>2 DEF Triage, Aggregate, RunMitigation, Worker, Step, memoryVars, pipelineVars
  <1>3. CASE PlainNode
    BY <1>3 DEF PlainNode, TraceIngest, GraphBuilder, LogAnalysis, SafetyCheck, Step, memoryVars
  <1>4. CASE Planner \/ EndSuperstep \/ Report
    BY <1>4 DEF Planner, EndSuperstep, Report, ReportGeneration, ReportCrashes, Step,
                InvocationCrashes, NoData, memoryVars
  <1>5. CASE RunDetection
    <2>1. data'.similar = {} /\ UNCHANGED db /\ node' = "memory_search"
      BY <1>5 DEF RunDetection, Detection, Step, memoryVars, ShapeInv
    <2>2. QED
      BY <2>1
  <1>6. CASE RunMemorySearch
    <2>1. UNCHANGED db /\ node = "memory_search" /\ node' = "rca"
      BY <1>6 DEF RunMemorySearch, MemorySearch, Step
    <2>2. CASE UNCHANGED data
      BY <2>1, <2>2
    <2>3. CASE /\ handle' = Opened(input.dir)
               /\ \E found \in {{}, Similar(db[handle'], data.primary, TypesOf(data.alerts))} :
                     data' = [data EXCEPT !.similar = found]
      <3>1. PICK found \in {{}, Similar(db[handle'], data.primary, TypesOf(data.alerts))} :
                data' = [data EXCEPT !.similar = found]
        BY <2>3
      <3>2. data'.similar = found /\ data'.primary = data.primary
        BY <3>1 DEF ShapeInv
      <3>3. handle' \in Paths
        BY <2>3, OpenedPath
      <3>4. \A r \in found : r.root_cause = data.primary
        BY <3>1, <3>3, SimilarIsByCause
      <3>5. QED
        BY <2>1, <3>2, <3>4
    <2>4. QED
      BY <1>6, <2>2, <2>3 DEF RunMemorySearch
  <1>7. CASE RunRca \/ RunCausalRanker \/ Synthesis
    <2>1. UNCHANGED db /\ data'.similar = data.similar /\ data'.primary = data.primary
      BY <1>7 DEF RunRca, RunCausalRanker, Synthesis, memoryVars, ShapeInv
    <2>2. node' \notin BeforeRecall \/ node' = node
      BY <1>7 DEF RunRca, Rca, RunCausalRanker, CausalRanker, Synthesis, Step, pipelineVars
    <2>3. QED
      BY <2>1, <2>2
  <1>8. CASE StoreIncident
    <2>1. UNCHANGED data /\ node' = "report_generation"
      BY <1>8 DEF StoreIncident
    <2>2. CASE UNCHANGED db
      BY <2>1, <2>2
    <2>3. CASE \E row : /\ row = Incident(data.incident, run, data.primary,
                                          TypesOf(data.alerts), StoredCauseOf(data))
                        /\ db' = [db EXCEPT ![handle'] = Inserted(@, row)]
      <3>1. PICK row : /\ row = Incident(data.incident, run, data.primary,
                                         TypesOf(data.alerts), StoredCauseOf(data))
                       /\ db' = [db EXCEPT ![handle'] = Inserted(@, row)]
        BY <2>3
      <3>2. row.signature.cause = NoPart => row.root_cause = row.signature.service
        BY <3>1, IncidentNamesService
      <3>3. \A p \in Paths : \A r \in db'[p] : r \in db[p] \/ r = row
        BY <3>1 DEF ShapeInv, Inserted
      <3>4. QED
        BY <2>1, <3>2, <3>3
    <2>4. QED
      BY <1>8, <2>2, <2>3 DEF StoreIncident
  <1>9. CASE Idle \/ UNCHANGED vars
    BY <1>9 DEF Idle, vars, memoryVars, pipelineVars
  <1>10. QED
    BY <1>1, <1>2, <1>3, <1>4, <1>5, <1>6, <1>7, <1>8, <1>9 DEF Next, Work

\* Whatever is recalled had the service with the alert for its root cause.
THEOREM RecallIsExact == Spec => []RecallIsByCause
  <1>1. Init => ShapeInv /\ RecallInv
    BY InitShape, InitRecall
  <1>2. ShapeInv /\ RecallInv /\ [Next]_vars => (ShapeInv /\ RecallInv)'
    BY ShapeKept, RecallKept
  <1>3. ShapeInv /\ RecallInv => RecallIsByCause
    BY DEF RecallInv
  <1>4. QED
    BY <1>1, <1>2, <1>3, PTL DEF Spec

-------------------------------------------------------------------------------
\* No incident has a number yet.
LEMMA InitIds == Init /\ ShapeInv => IdInv
  BY DEF Init, IdInv, NoData, MemoryInit, UnknownIncident

\* A step that leaves the memory and the incident alone, and comes to the store from before it.
LEMMA IdsKept ==
    ASSUME IdInv, UNCHANGED <<db, run>>, data'.incident \in {data.incident, UnknownIncident, run},
           node \in {"report_generation", "END"} => node' \in {"report_generation", "END"}
    PROVE  IdInv'
  BY DEF IdInv

\* Every step keeps the incident ids apart.
LEMMA IdStep == ShapeInv /\ IdInv /\ [Next]_vars => IdInv'
  <1> SUFFICES ASSUME ShapeInv, IdInv, [Next]_vars PROVE IdInv'
    OBVIOUS
  <1>1. CASE Invoke
    BY <1>1 DEF Invoke, NoData, IdInv, ShapeInv, UnknownIncident
  <1>2. CASE Triage \/ Aggregate \/ RunMitigation \/ (\E i \in dispatched : Worker(i))
    BY <1>2, IdsKept DEF Triage, Aggregate, RunMitigation, Worker, Step, memoryVars, pipelineVars,
                         runVars
  <1>3. CASE PlainNode
    BY <1>3, IdsKept DEF PlainNode, TraceIngest, GraphBuilder, LogAnalysis, SafetyCheck, Step,
                         memoryVars, runVars
  <1>4. CASE Planner \/ EndSuperstep \/ Report
    BY <1>4, IdsKept DEF Planner, EndSuperstep, Report, ReportGeneration, ReportCrashes, Step,
                InvocationCrashes, NoData, memoryVars, runVars
  <1>5. CASE RunDetection \/ RunRca \/ RunCausalRanker
    <2>1. node \notin {"report_generation", "END"} /\ UNCHANGED <<db, run>>
      BY <1>5 DEF RunDetection, Detection, RunRca, Rca, RunCausalRanker, CausalRanker, Step,
                  memoryVars, runVars
    <2>2. data'.incident \in {data.incident, run}
      BY <1>5 DEF RunDetection, RunRca, RunCausalRanker, IncidentId, ShapeInv
    <2>3. QED
      BY <2>1, <2>2, IdsKept
  <1>6. CASE RunMemorySearch \/ Synthesis
    BY <1>6, IdsKept DEF RunMemorySearch, MemorySearch, Synthesis, Step, memoryVars, pipelineVars,
                         runVars, ShapeInv
  <1>7. CASE StoreIncident
    <2>1. UNCHANGED <<data, run>> /\ node' = "report_generation"
      BY <1>7 DEF StoreIncident, runVars
    <2>2. CASE UNCHANGED db
      BY <2>1, <2>2, IdsKept
    <2>3. CASE \E row : /\ row = Incident(data.incident, run, data.primary,
                                          TypesOf(data.alerts), StoredCauseOf(data))
                        /\ db' = [db EXCEPT ![handle'] = Inserted(@, row)]
      <3>1. PICK row : /\ row = Incident(data.incident, run, data.primary,
                                         TypesOf(data.alerts), StoredCauseOf(data))
                       /\ db' = [db EXCEPT ![handle'] = Inserted(@, row)]
        BY <2>3
      <3>2. row.id = data.incident
        BY <3>1, IncidentNamesService
      <3>3. \A p \in Paths : \A r \in db'[p] : r \in db[p] \/ r = row
        BY <3>1 DEF ShapeInv, Inserted
      <3>4. row.id \in 0..run
        BY <3>2 DEF IdInv, ShapeInv, UnknownIncident
      <3>5. QED
        BY <2>1, <3>3, <3>4 DEF IdInv
    <2>4. QED
      BY <1>7, <2>2, <2>3 DEF StoreIncident
  <1>8. CASE Idle \/ UNCHANGED vars
    BY <1>8, IdsKept DEF Idle, vars, memoryVars, pipelineVars, runVars
  <1>9. QED
    BY <1>1, <1>2, <1>3, <1>4, <1>5, <1>6, <1>7, <1>8 DEF Next, Work

\* No step closes the store or turns to another, or writes to a database that is not open.
LEMMA MemoryStaysOne == ShapeInv /\ [Next]_vars => MemoryIsOne
  <1> SUFFICES ASSUME ShapeInv, [Next]_vars PROVE MemoryIsOne
    OBVIOUS
  <1> USE DEF MemoryIsOne
  <1>1. CASE UNCHANGED <<db, handle>>
    BY <1>1
  <1>2. CASE Invoke
    BY <1>2 DEF Invoke
  <1>3. CASE RunMemorySearch
    BY <1>3, OpenedPath DEF RunMemorySearch, OpenFails
  <1>4. CASE StoreIncident
    <2>1. \A p \in Paths : db'[p] # db[p] => p = handle'
      BY <1>4 DEF StoreIncident, ShapeInv
    <2>2. handle' = handle \/ handle' = Opened(input.dir)
      BY <1>4 DEF StoreIncident, OpenFails
    <2>3. QED
      BY <2>1, <2>2, OpenedPath
  <1>5. QED
    BY <1>1, <1>2, <1>3, <1>4
       DEF Next, Work, Triage, Planner, Worker, EndSuperstep, Aggregate, PlainNode, RunDetection,
           RunRca, RunCausalRanker, RunMitigation, Synthesis, Report, Idle, vars, memoryVars

\* No step takes an incident with an id from the memory.
LEMMA IncidentsStay ==
    ShapeInv /\ IdInv /\ [Next]_vars =>
        \A p \in Paths : \A r \in db[p] : r.id # UnknownIncident => r \in db'[p]
  <1> SUFFICES ASSUME ShapeInv, IdInv, [Next]_vars,
                      NEW p \in Paths, NEW r \in db[p], r.id # UnknownIncident
               PROVE  r \in db'[p]
    OBVIOUS
  <1>1. CASE UNCHANGED db
    BY <1>1
  <1>2. CASE StoreIncident /\ db' # db
    <2>1. PICK row : /\ row = Incident(data.incident, run, data.primary,
                                       TypesOf(data.alerts), StoredCauseOf(data))
                     /\ db' = [db EXCEPT ![handle'] = Inserted(@, row)]
      BY <1>2 DEF StoreIncident
    <2>2. row.id = data.incident
      BY <2>1, IncidentNamesService
    <2>3. r.id # row.id
      BY <1>2, <2>2 DEF StoreIncident, IdInv
    <2>4. QED
      BY <2>1, <2>3 DEF ShapeInv, Inserted
  <1>3. QED
    BY <1>1, <1>2
       DEF Next, Work, Triage, Planner, Worker, EndSuperstep, Aggregate, PlainNode, RunDetection,
           RunMemorySearch, RunRca, RunCausalRanker, RunMitigation, Synthesis, Report, Idle, vars,
           memoryVars, Invoke

\* The memory of a process is one database, and only grows but for the incidents without an id.
THEOREM MemoryOnlyGrows == Spec => MemoryIsAppended
  <1>1. Init => ShapeInv /\ IdInv
    BY InitShape, InitIds
  <1>2. ShapeInv /\ IdInv /\ [Next]_vars => (ShapeInv /\ IdInv)'
    BY ShapeKept, IdStep
  <1>3. ShapeInv /\ IdInv /\ [Next]_vars =>
            [/\ MemoryIsOne
             /\ \A p \in Paths : \A r \in db[p] : r.id # UnknownIncident => r \in db'[p]]_vars
    BY MemoryStaysOne, IncidentsStay
  <1>4. QED
    BY <1>1, <1>2, <1>3, PTL DEF Spec, MemoryIsAppended
-------------------------------------------------------------------------------
\* The phases around the pipeline go with the node they wait at, and a run has a trace file.
FlowInv ==
    /\ phase \in {"triage", "planner", "workers", "aggregate"} => node = "trace_ingest"
    /\ phase = "synthesis" => node = "report_generation"
    /\ phase = "done" => node = "END"
    /\ phase # "done" => trace \in DOMAIN Traces
    /\ phase \in Phases /\ node \in NodeNames
    /\ run \in 0..MaxRuns /\ input \in [mode : Modes, dir : Dirs, order : Orders]

\* The rankings are made of services of the process and whole-number confidences, the
\* alerts of services and scores.
DataInv == data.ranked \in Seq(Causes(Listed)) /\ data.alerts \in Seq(Alerts(Listed))

StateInv == evidence \in Evidence /\ s \in State

\* A database holds finitely many rows of one shape, none newer than the run.
TableInv ==
    /\ incidents \in Nat
    /\ \A p \in Paths :
          IsFiniteSet(db[p]) /\ \A r \in db[p] : Row(r) /\ r.timestamp <= run

\* What was sent out is of the tasks, what came back of what was sent.
AgentInv ==
    /\ tasks \in Seq(Assignments) /\ dispatched \subseteq DOMAIN tasks
    /\ phase = "triage" => dispatched = {}
    /\ \A u \in updates : u.worker \in dispatched
    /\ \A e \in results : e.task \in dispatched

\* Any trace file gives spans and alerts of services of the process.
LEMMA TracesAreTyped ==
    ASSUME NEW t \in DOMAIN Traces
    PROVE  /\ Ingested[t] \in Seq(Rows) /\ Detections[t] \in Seq(Alerts(Listed))
           /\ Len(Detections[t]) \in 0..MaxAlerts
  <1> DEFINE rows == Traces[t]
             S == {i \in DOMAIN rows : \A j \in 1..(i - 1) : Key(rows[j]) # Key(rows[i])}
  <1>1. rows \in Seq(Rows)
    BY AnalysisAssumption
  <1>2. Ingested[t] = Pick(rows, S)
    BY DEF Ingested, Deduplicated
  <1>3. S \in SUBSET DOMAIN rows
    OBVIOUS
  <1> HIDE DEF rows, S
  <1>4. Ingested[t] \in Seq(Rows)
    BY <1>1, <1>2, <1>3, PickKeeps
  <1>5. \A e \in Rows : e.svc \in Listed
    BY DEF Rows
  <1>6. AlertsOf(Ingested[t]) \in Seq(Alerts(Listed))
    BY <1>4, <1>5, AlertsAreOf
  <1>7. Detections[t] = AlertsOf(Ingested[t])
    BY DEF Detections
  <1>8. Len(Detections[t]) \in 0..MaxAlerts
    BY <1>6, <1>7, DetectionsAssumption, PipelineAssumption
  <1>9. QED
    BY <1>4, <1>6, <1>7, <1>8

\* Every step keeps the flow.
LEMMA FlowKept == FlowInv /\ [Next]_vars => FlowInv'
  <1> SUFFICES ASSUME FlowInv, [Next]_vars PROVE FlowInv'
    OBVIOUS
  <1> USE DEF FlowInv, Phases, NodeNames
  <1>1. CASE Invoke
    <2>1. run' \in 1..MaxRuns /\ trace' \in Given[run']
      BY <1>1 DEF Invoke, MaxRuns
    <2>2. trace' \in DOMAIN Traces
      BY <2>1, AnalysisAssumption DEF MaxRuns
    <2>3. input' \in [mode : Modes, dir : Dirs, order : Orders] /\ node' = "trace_ingest"
          /\ phase' \in {"triage", "pipeline"}
      BY <1>1 DEF Invoke
    <2>4. QED
      BY <2>1, <2>2, <2>3
  <1>2. CASE Triage \/ Aggregate \/ (\E i \in dispatched : Worker(i))
    BY <1>2 DEF Triage, Aggregate, Worker, pipelineVars, runVars
  <1>3. CASE Planner \/ EndSuperstep \/ Report
    BY <1>3 DEF Planner, AfterPlanner, EndSuperstep, Report, ReportGeneration, ReportCrashes, Step,
                InvocationCrashes, runVars
  <1>4. CASE PlainNode
    BY <1>4 DEF PlainNode, TraceIngest, GraphBuilder, LogAnalysis, SafetyCheck, Step, runVars
  <1>5. CASE RunDetection \/ RunMemorySearch \/ RunRca
    BY <1>5 DEF RunDetection, Detection, RunMemorySearch, MemorySearch, RunRca, Rca, Step, runVars
  <1>6. CASE RunCausalRanker \/ RunMitigation
    BY <1>6 DEF RunCausalRanker, CausalRanker, RunMitigation, Step, runVars
  <1>7. CASE StoreIncident \/ Synthesis
    BY <1>7 DEF StoreIncident, Synthesis, pipelineVars, runVars
  <1>8. CASE Idle \/ UNCHANGED vars
    BY <1>8 DEF Idle, vars, pipelineVars, runVars
  <1>9. QED
    BY <1>1, <1>2, <1>3, <1>4, <1>5, <1>6, <1>7, <1>8 DEF Next, Work

\* Every step keeps the data typed: whatever the trace, the ranking is of the process's
\* services, and neither the causal signals nor the synthesis bring anything else into it.
LEMMA DataKept == ShapeInv /\ FlowInv /\ DataInv /\ [Next]_vars => DataInv'
  <1> SUFFICES ASSUME ShapeInv, FlowInv, DataInv, [Next]_vars PROVE DataInv'
    OBVIOUS
  <1>1. CASE UNCHANGED data
    BY <1>1 DEF DataInv
  <1>2. CASE data' = NoData
    BY <1>2 DEF DataInv, NoData
  <1>3. CASE RunDetection
    <2>1. CASE UNCHANGED <<data.alerts, data.ranked>>
      BY <2>1 DEF DataInv
    <2>2. CASE data'.alerts = Detections[trace] /\ data'.ranked = data.ranked
      <3>1. trace \in DOMAIN Traces
        BY <1>3 DEF RunDetection, FlowInv
      <3>2. QED
        BY <2>2, <3>1, TracesAreTyped DEF DataInv
    <2>3. QED
      BY <1>3, <2>1, <2>2 DEF RunDetection, ShapeInv
  <1>4. CASE RunMemorySearch
    <2>1. data'.alerts = data.alerts /\ data'.ranked = data.ranked
      BY <1>4 DEF RunMemorySearch, ShapeInv
    <2>2. QED
      BY <2>1 DEF DataInv
  <1>5. CASE RunRca /\ data' # data
    <2>1. PICK ranked \in {Ranking(spans, data.alerts, data.baselines, Start, input.order)} :
              data' = [data EXCEPT !.ranked = ranked, !.incident = IncidentId]
      BY <1>5 DEF RunRca
    <2>2. data'.alerts = data.alerts /\ data'.ranked = ranked
      BY <2>1 DEF ShapeInv
    <2>3. spans \in Seq(Rows)
      BY <1>5, TracesAreTyped DEF RunRca, FlowInv, spans
    <2>4. input.order \in Seq(Listed)
      BY AnalysisAssumption DEF FlowInv
    <2>5. ranked \in Seq(Causes(Listed))
      BY <2>1, <2>3, <2>4, RankingIsOf DEF DataInv
    <2>6. QED
      BY <2>2, <2>5 DEF DataInv
  <1>6. CASE RunCausalRanker /\ data' # data
    <2>1. PICK causes :
              data' = [data EXCEPT !.ranked =
                           CausalRanking(@, TemporalOrder(spans, data.alerts), causes)]
      BY <1>6 DEF RunCausalRanker
    <2>2. /\ data'.alerts = data.alerts
          /\ data'.ranked = CausalRanking(data.ranked, TemporalOrder(spans, data.alerts), causes)
      BY <2>1 DEF ShapeInv
    <2>3. spans \in Seq(Rows)
      BY <1>6, TracesAreTyped DEF RunCausalRanker, FlowInv, spans
    <2>4. ServicesOf(spans) \in Seq(Listed)
      <3>1. \A e \in Rows : e.svc \in Listed
        BY DEF Rows
      <3>2. QED
        BY <2>3, <3>1, ServicesAreOf
    <2>5. data'.ranked \in Seq(Causes(Listed))
      BY <2>2, <2>4, CausalRankingIsOf DEF DataInv
    <2>6. QED
      BY <2>2, <2>5 DEF DataInv
  <1>7. CASE Synthesis /\ data' # data
    <2>1. PICK reply \in Replies :
              data' = [data EXCEPT !.ranked = SynthesizedRanking(@, reply),
                                   !.override = reply.override]
      BY <1>7 DEF Synthesis
    <2>2. data'.alerts = data.alerts /\ data'.ranked = SynthesizedRanking(data.ranked, reply)
      BY <2>1 DEF ShapeInv
    <2>3. data'.ranked \in Seq(Causes(Listed))
      BY <2>2, AnalysisAssumption, SynthesisKeeps DEF DataInv
    <2>4. QED
      BY <2>2, <2>3 DEF DataInv
  <1>8. QED
    BY <1>1, <1>2, <1>3, <1>4, <1>5, <1>6, <1>7
       DEF Next, Work, Triage, Planner, Worker, EndSuperstep, Aggregate, PlainNode, RunRca,
           RunCausalRanker, RunMitigation, StoreIncident, Synthesis, Report, InvocationCrashes,
           Invoke, Idle, vars

\* What a node makes of a state is a state again.
LEMMA OutcomesAreStates ==
    ASSUME NEW t \in State
    PROVE  /\ [t EXCEPT !.status = "running"] \in State
           /\ [t EXCEPT !.status = "failed", !.error = TRUE] \in State
           /\ \A n \in NodeNames :
                 [t EXCEPT !.status = "failed", !.error = TRUE, !.failures = @ \cup {n}] \in State
           /\ [t EXCEPT !.spans = TRUE] \in State /\ [t EXCEPT !.graph = TRUE] \in State
           /\ [t EXCEPT !.ranked = TRUE] \in State /\ [t EXCEPT !.alerts = 0] \in State
           /\ [t EXCEPT !.status = "complete"] \in State
           /\ \A stored \in BOOLEAN : [t EXCEPT !.stored = stored, !.status = "complete"] \in State
           /\ \A plan \in SUBSET Remedies : [t EXCEPT !.actions = plan, !.undo = plan] \in State
  <1>1. /\ [t EXCEPT !.status = "running"] \in State
        /\ [t EXCEPT !.status = "failed", !.error = TRUE] \in State
        /\ [t EXCEPT !.status = "complete"] \in State
    BY DEF State
  <1>2. /\ [t EXCEPT !.spans = TRUE] \in State /\ [t EXCEPT !.graph = TRUE] \in State
        /\ [t EXCEPT !.ranked = TRUE] \in State
    BY DEF State
  <1>3. [t EXCEPT !.alerts = 0] \in State
    BY PipelineAssumption DEF State
  <1>4. ASSUME NEW n \in NodeNames
        PROVE  [t EXCEPT !.status = "failed", !.error = TRUE, !.failures = @ \cup {n}] \in State
    <2>1. t.failures \cup {n} \in SUBSET NodeNames
      BY DEF State
    <2>2. QED
      BY <2>1 DEF State
  <1>5. ASSUME NEW stored \in BOOLEAN
        PROVE  [t EXCEPT !.stored = stored, !.status = "complete"] \in State
    BY DEF State
  <1>6. ASSUME NEW plan \in SUBSET Remedies
        PROVE  [t EXCEPT !.actions = plan, !.undo = plan] \in State
    BY DEF State
  <1>7. QED
    BY <1>1, <1>2, <1>3, <1>4, <1>5, <1>6

\* The first state of a run, and what a crash leaves, are states.
LEMMA InitialStates == InitialState \in State /\ FinalStateOfCrash \in State
  <1>1. 0 \in 0..MaxAlerts /\ 0 \in 0..MaxHealth
    BY PipelineAssumption DEF MaxHealth
  <1>2. InitialState \in State
    BY <1>1 DEF InitialState, State, MaxRollbackCycles
  <1>3. QED
    BY <1>2, OutcomesAreStates DEF FinalStateOfCrash

\* The nodes that Pipeline alone describes keep the state a state.
LEMMA NodesKeepState ==
    ASSUME StateInv,
           \/ TraceIngest \/ GraphBuilder \/ Detection \/ MemorySearch \/ Rca \/ CausalRanker
           \/ LogAnalysis \/ ReportGeneration \/ ReportCrashes
    PROVE  StateInv'
  <1> USE DEF StateInv, Step, Running, Failed, NodeNames
  <1>1. CASE TraceIngest \/ GraphBuilder \/ Rca
    BY <1>1, OutcomesAreStates DEF TraceIngest, GraphBuilder, Rca
  <1>2. CASE Detection
    <2> DEFINE found == [s EXCEPT !.alerts = evidence.alerts,
                                  !.before = Health(evidence.alerts, 0, 0)]
    <2>1. evidence.alerts \in 0..MaxAlerts /\ Health(evidence.alerts, 0, 0) \in 0..MaxHealth
      BY PipelineAssumption DEF Evidence, Health, MaxHealth
    <2>2. found \in State
      BY <2>1 DEF State
    <2>3. s' \in {[found EXCEPT !.status = "running"], [Failed("detection") EXCEPT !.alerts = 0],
                  [s EXCEPT !.alerts = 0]}
      BY <1>2 DEF Detection, Detected
    <2>4. Failed("detection") \in State
      BY OutcomesAreStates
    <2> HIDE DEF found, Failed
    <2>5. UNCHANGED evidence
      BY <1>2 DEF Detection
    <2>6. QED
      BY <2>2, <2>3, <2>4, <2>5, OutcomesAreStates
  <1>3. CASE MemorySearch \/ CausalRanker \/ LogAnalysis
    BY <1>3, OutcomesAreStates DEF MemorySearch, CausalRanker, LogAnalysis
  <1>4. CASE ReportGeneration \/ ReportCrashes
    BY <1>4, OutcomesAreStates, InitialStates DEF ReportGeneration, ReportCrashes
  <1>5. QED
    BY <1>1, <1>2, <1>3, <1>4

\* So does the safety check, which counts its rollbacks up to the bound.
LEMMA SafetyCheckKeepsState == StateInv /\ SafetyCheck => StateInv'
  <1> SUFFICES ASSUME StateInv, SafetyCheck PROVE StateInv'
    OBVIOUS
  <1>1. UNCHANGED evidence /\ s' \in Judgements
    BY DEF SafetyCheck
  <1>2. s \in State /\ After \in 0..MaxHealth
    BY PipelineAssumption DEF StateInv, State, After, Health, MaxHealth
  <1>3. GivenUp \in State /\ Errored \in State
    BY <1>2 DEF GivenUp, Errored, State
  <1>4. Passed \in State
    <2>1. [s EXCEPT !.after = After, !.triggered = FALSE] \in State
      BY <1>2 DEF State
    <2>2. QED
      BY <2>1, OutcomesAreStates DEF Passed, Running
  <1>5. ASSUME s.rollbacks < MaxRollbackCycles PROVE RolledBack \in State
    <2> DEFINE t == [s EXCEPT !.after = After, !.triggered = TRUE,
                              !.rollbacks = @ + 1, !.undo = {}]
    <2>1. s.rollbacks + 1 \in 0..MaxRollbackCycles
      BY <1>2, <1>5 DEF State, MaxRollbackCycles
    <2>2. t \in State
      BY <1>2, <2>1 DEF State
    <2>3. RolledBack = [t EXCEPT !.status = "running"]
      BY DEF RolledBack, Running
    <2> HIDE DEF t
    <2>4. QED
      BY <2>2, <2>3, OutcomesAreStates
  <1>6. s.rollbacks \in 0..MaxRollbackCycles
    BY <1>2 DEF State
  <1>7. s' \in State
    <2>1. CASE s.rollbacks >= MaxRollbackCycles
      BY <1>1, <1>3, <1>4, <2>1 DEF Judgements
    <2>2. CASE ~(s.rollbacks >= MaxRollbackCycles)
      <3>1. s.rollbacks < MaxRollbackCycles
        BY <1>6, <2>2 DEF MaxRollbackCycles
      <3>2. QED
        BY <1>1, <1>3, <1>4, <1>5, <2>2, <3>1 DEF Judgements
    <2>3. QED
      BY <2>1, <2>2
  <1>8. QED
    BY <1>1, <1>2, <1>7 DEF StateInv

\* The plan of a ranking is of the commands for the services of the process.
LEMMA PlanIsOfRemedies == DataInv => Plan(spans, data.ranked) \in SUBSET Remedies
  <1> SUFFICES ASSUME DataInv PROVE Plan(spans, data.ranked) \subseteq Remedies
    OBVIOUS
  <1>1. \A svc \in Listed : RemediesFor(spans, svc) \subseteq Remedies
    BY AnalysisAssumption DEF RemediesFor
  <1>2. data.ranked \in Seq(Causes(Listed)) /\ Len(data.ranked) \in Int
    BY DEF DataInv
  <1>3. \A i \in 1..Min({3, Len(data.ranked)}) : data.ranked[i].svc \in Listed
    <2>1. Min({3, Len(data.ranked)}) <= Len(data.ranked) /\ Min({3, Len(data.ranked)}) \in Int
      <3> DEFINE n == Len(data.ranked)
      <3>1. n \in Int
        BY <1>2
      <3> HIDE DEF n
      <3>2. Min({3, n}) <= n
        BY <3>1, LesserOf
      <3>3. Min({3, n}) \in Int
        BY <3>1, LeastIsInt
      <3>4. QED
        BY <3>2, <3>3 DEF n
    <2>2. \A i \in DOMAIN data.ranked : data.ranked[i] \in Causes(Listed)
      BY <1>2
    <2>3. \A c \in Causes(Listed) : c.svc \in Listed
      BY DEF Causes
    <2>4. QED
      BY <1>2, <2>1, <2>2, <2>3
  <1>4. QED
    BY <1>1, <1>3 DEF Plan

\* Every step keeps the shared state a state.
LEMMA StateKept == ShapeInv /\ FlowInv /\ DataInv /\ StateInv /\ [Next]_vars => StateInv'
  <1> SUFFICES ASSUME ShapeInv, FlowInv, DataInv, StateInv, [Next]_vars PROVE StateInv'
    OBVIOUS
  <1>1. CASE UNCHANGED pipelineVars
    BY <1>1 DEF StateInv, pipelineVars
  <1>2. CASE UNCHANGED evidence /\ s' \in {s, Running(s), InitialState, FinalStateOfCrash}
    BY <1>2, OutcomesAreStates, InitialStates DEF StateInv, Running
  <1>3. CASE Invoke
    <2>1. trace' \in DOMAIN Traces
      BY <1>3, FlowKept DEF FlowInv, Invoke
    <2>2. Len(Detections[trace']) \in 0..MaxAlerts
      BY <2>1, TracesAreTyped
    <2>3. Ingestible(Traces[trace']) \in BOOLEAN
      BY DEF Ingestible
    <2>4. evidence' \in Evidence
      BY <1>3, <2>2, <2>3 DEF Invoke, Evidence
    <2>5. s' = InitialState
      BY <1>3 DEF Invoke
    <2>6. QED
      BY <2>4, <2>5, InitialStates DEF StateInv
  <1>4. CASE Planner \/ EndSuperstep
    BY <1>1, <1>2, <1>4 DEF Planner, EndSuperstep, InvocationCrashes, pipelineVars
  <1>5. CASE PlainNode \/ RunDetection \/ RunMemorySearch \/ RunRca \/ RunCausalRanker \/ Report
    BY <1>5, NodesKeepState, SafetyCheckKeepsState
       DEF PlainNode, RunDetection, RunMemorySearch, RunRca, RunCausalRanker, Report
  <1>6. CASE RunMitigation
    <2> DEFINE plan == Plan(spans, data.ranked)
               planned == [s EXCEPT !.actions = plan, !.undo = plan]
               failed == Failed("mitigation")
    <2>1. plan \in SUBSET Remedies
      BY PlanIsOfRemedies
    <2>2. /\ UNCHANGED evidence
          /\ s' \in {[s EXCEPT !.actions = {}, !.undo = {}],
                     [failed EXCEPT !.actions = {}, !.undo = {}], Running(planned)}
      BY <1>6 DEF RunMitigation, Step
    <2>3. failed \in State
      BY OutcomesAreStates DEF StateInv, Failed, NodeNames
    <2> HIDE DEF plan, failed
    <2>4. planned \in State
      BY <2>1, OutcomesAreStates DEF StateInv
    <2> HIDE DEF planned
    <2>5. Running(planned) \in State
      BY <2>4, OutcomesAreStates DEF Running
    <2>6. \A t \in State : [t EXCEPT !.actions = {}, !.undo = {}] \in State
      BY OutcomesAreStates
    <2>7. QED
      BY <2>2, <2>3, <2>5, <2>6 DEF StateInv
  <1>7. CASE StoreIncident
    <2>1. UNCHANGED evidence /\ \E stored \in BOOLEAN :
              s' = [s EXCEPT !.stored = stored, !.status = "complete"]
      BY <1>7 DEF StoreIncident
    <2>2. QED
      BY <2>1, OutcomesAreStates DEF StateInv
  <1>8. CASE Triage
    BY <1>2, <1>8 DEF Triage
  <1>9. QED
    BY <1>1, <1>3, <1>4, <1>5, <1>6, <1>7, <1>8
       DEF Next, Work, Worker, Aggregate, Synthesis, Idle, vars

\* There are so and so many runs.
LEMMA RunsAreCounted == MaxRuns \in Nat
  BY AnalysisAssumption DEF MaxRuns

\* The row of a run has the shape of the rows of the table.
LEMMA IncidentIsARow ==
    ASSUME ShapeInv, FlowInv, IdInv, NEW row,
           row = Incident(data.incident, run, data.primary, TypesOf(data.alerts),
                          StoredCauseOf(data))
    PROVE  Row(row) /\ row.timestamp = run
  <1>1. data.incident \in Ids /\ run \in Ids
    BY RunsAreCounted DEF FlowInv, IdInv, Ids, UnknownIncident
  <1>2. DOMAIN row = {"id", "timestamp", "root_cause", "signature"}
        /\ row.id = data.incident /\ row.timestamp = run
    BY DEF Incident
  <1>3. DOMAIN row.signature = {"service", "types", "cause"}
    BY DEF Incident, StoreSignature, Signature
  <1>4. QED
    BY <1>1, <1>2, <1>3 DEF Row

\* Every step keeps the tables: it adds at most the one row of its run.
LEMMA TablesKept ==
    ShapeInv /\ FlowInv /\ IdInv /\ TableInv /\ [Next]_vars => TableInv'
  <1> SUFFICES ASSUME ShapeInv, FlowInv, IdInv, TableInv, [Next]_vars PROVE TableInv'
    OBVIOUS
  <1>1. CASE UNCHANGED <<db, incidents>> /\ run' = run
    BY <1>1 DEF TableInv, Row, Ids
  <1>2. CASE Invoke
    <2>1. UNCHANGED <<db, incidents>> /\ run' = run + 1 /\ run \in Int
      BY <1>2 DEF Invoke, FlowInv
    <2>2. \A p \in Paths : \A r \in db[p] : r.timestamp \in Int
      BY DEF TableInv, Row, Ids
    <2>3. QED
      BY <2>1, <2>2 DEF TableInv, Row, Ids
  <1>3. CASE StoreIncident
    <2>1. CASE UNCHANGED <<db, incidents>>
      BY <1>1, <1>3, <2>1 DEF StoreIncident, runVars
    <2>2. CASE handle' = Opened(input.dir) /\ incidents' = Cardinality(db'[handle'])
      <3>1. run' = run /\ handle' \in Paths
        BY <1>3, <2>2, OpenedPath DEF StoreIncident, runVars
      <3>2. \A p \in Paths :
                IsFiniteSet(db'[p]) /\ \A r \in db'[p] : Row(r) /\ r.timestamp <= run
        <4>1. CASE UNCHANGED db
          BY <4>1 DEF TableInv
        <4>2. CASE db' # db
          <5>1. PICK row : /\ row = Incident(data.incident, run, data.primary,
                                             TypesOf(data.alerts), StoredCauseOf(data))
                           /\ db' = [db EXCEPT ![handle'] = Inserted(@, row)]
            BY <1>3, <4>2 DEF StoreIncident
          <5>2. Row(row) /\ row.timestamp = run /\ run \in Int
            BY <5>1, IncidentIsARow DEF FlowInv
          <5>3. \A p \in Paths : db'[p] = db[p] \/ db'[p] = Inserted(db[p], row)
            BY <5>1 DEF ShapeInv
          <5>4. \A p \in Paths : IsFiniteSet(Inserted(db[p], row))
            <6> TAKE p \in Paths
            <6> DEFINE kept == {r \in db[p] : r.id # row.id}
            <6>1. kept \in SUBSET db[p] /\ IsFiniteSet(db[p])
              BY DEF TableInv
            <6> HIDE DEF kept
            <6>2. IsFiniteSet(kept \cup {row})
              BY <6>1, FS_Subset, FS_AddElement
            <6>3. QED
              BY <6>2 DEF Inserted, kept
          <5>5. \A p \in Paths : \A r \in Inserted(db[p], row) : Row(r) /\ r.timestamp <= run
            BY <5>2 DEF Inserted, TableInv
          <5>6. QED
            BY <5>3, <5>4, <5>5 DEF TableInv
        <4>3. QED
          BY <4>1, <4>2
      <3>3. incidents' \in Nat
        BY <2>2, <3>1, <3>2, FS_CardinalityType
      <3>4. QED
        BY <3>1, <3>2, <3>3 DEF TableInv, Row, Ids
    <2>3. QED
      BY <1>3, <2>1, <2>2 DEF StoreIncident
  <1>4. CASE Report
    BY <1>1, <1>4 DEF Report, ReportGeneration, ReportCrashes, Step, memoryVars, runVars
  <1>5. CASE RunMemorySearch
    BY <1>1, <1>5 DEF RunMemorySearch, MemorySearch, Step, memoryVars, runVars
  <1>6. CASE PlainNode
    BY <1>1, <1>6 DEF PlainNode, TraceIngest, GraphBuilder, LogAnalysis, SafetyCheck, Step,
                      memoryVars, runVars
  <1>7. CASE RunDetection \/ RunRca \/ RunCausalRanker \/ RunMitigation
    BY <1>1, <1>7 DEF RunDetection, Detection, RunRca, Rca, RunCausalRanker, CausalRanker,
                      RunMitigation, Step, memoryVars, runVars
  <1>8. CASE Triage \/ Planner \/ EndSuperstep \/ Aggregate \/ Synthesis
             \/ (\E i \in dispatched : Worker(i)) \/ Idle \/ UNCHANGED vars
    BY <1>1, <1>8 DEF Triage, Planner, EndSuperstep, Aggregate, Synthesis, Worker, Idle, vars,
                      memoryVars, runVars, pipelineVars
  <1>9. QED
    BY <1>2, <1>3, <1>4, <1>5, <1>6, <1>7, <1>8 DEF Next, Work

\* The assignments of the triage are a part of what it was told.
LEMMA ToldTasks ==
    ASSUME NEW told \in Strategies
    PROVE  SubSeq(told, 1, Min({MaxQueries, Len(told)})) \in Seq(Assignments)
  <1>1. told \in Seq(Assignments) /\ Len(told) \in Nat
    BY AnalysisAssumption
  <1>2. MaxQueries \in Nat
    BY AnalysisAssumption
  <1> DEFINE most == Len(told)
             n == Min({MaxQueries, most})
  <1>3. most \in Int /\ MaxQueries \in Int
    BY <1>1, <1>2
  <1> HIDE DEF most
  <1>4. n \in {MaxQueries, most} /\ n <= most
    BY <1>3, LesserOf
  <1> HIDE DEF n
  <1>5. n \in Nat /\ n <= Len(told)
    BY <1>1, <1>2, <1>4 DEF most
  <1>6. SubSeq(told, 1, n) \in Seq(Assignments)
    BY <1>1, <1>5
  <1>7. QED
    BY <1>6 DEF n, most

\* Every step keeps the workers' tasks and results to what was sent out.
LEMMA AgentsKept == WorkersInv /\ AgentInv /\ [Next]_vars => AgentInv'
  <1> SUFFICES ASSUME WorkersInv, AgentInv, [Next]_vars PROVE AgentInv'
    OBVIOUS
  <1>1. CASE UNCHANGED agentVars /\ phase' # "triage"
    BY <1>1 DEF AgentInv, agentVars
  <1>2. CASE Invoke
    BY <1>2 DEF Invoke, AgentInv, NoResults
  <1>3. CASE Triage
    <2>1. tasks' \in Seq(Assignments)
      <3>1. DefaultStrategy \in Seq(Assignments)
        BY DEF DefaultStrategy, Assignments
      <3>2. QED
        BY <1>3, <3>1, ToldTasks DEF Triage
    <2>2. dispatched' = {} /\ phase' = "planner" /\ UNCHANGED <<updates, results>>
      BY <1>3 DEF Triage, AgentInv
    <2>3. QED
      BY <1>3, <2>1, <2>2 DEF AgentInv, Triage
  <1>4. CASE Planner
    <2>1. updates' = {} /\ results' = {} /\ tasks' = tasks /\ phase' # "triage"
      BY <1>4 DEF Planner, WorkersInv, InvocationCrashes, AfterPlanner
    <2>2. dispatched' \subseteq DOMAIN tasks
      BY <1>4 DEF Planner, ValidTasks, AgentInv
    <2>3. QED
      BY <2>1, <2>2 DEF AgentInv
  <1>5. ASSUME NEW i \in dispatched, Worker(i) PROVE AgentInv'
    BY <1>5 DEF Worker, AgentInv, pipelineVars
  <1>6. CASE EndSuperstep
    <2>1. updates' = {} /\ UNCHANGED <<tasks, dispatched>> /\ phase' # "triage"
      BY <1>6 DEF EndSuperstep, InvocationCrashes
    <2>2. \A e \in results' : e.task \in dispatched
      <3>1. CASE results' = {}
        BY <3>1
      <3>2. CASE \E u \in updates : results' = u.results
        BY <3>2 DEF WorkersInv, AgentInv
      <3>3. QED
        BY <1>6, <3>1, <3>2 DEF EndSuperstep, InvocationCrashes
    <2>3. QED
      BY <2>1, <2>2 DEF AgentInv
  <1>7. CASE Report
    BY <1>7 DEF Report, AgentInv
  <1>8. CASE PlainNode \/ RunDetection \/ RunMemorySearch \/ RunRca \/ RunCausalRanker
                \/ RunMitigation
    BY <1>1, <1>8 DEF PlainNode, RunDetection, RunMemorySearch, RunRca, RunCausalRanker,
                      RunMitigation
  <1>9. CASE Aggregate \/ StoreIncident \/ Synthesis
    BY <1>1, <1>9 DEF Aggregate, StoreIncident, Synthesis
  <1>10. CASE Idle \/ UNCHANGED vars
    BY <1>10 DEF Idle, vars, agentVars, AgentInv
  <1>11. QED
    BY <1>2, <1>3, <1>4, <1>5, <1>6, <1>7, <1>8, <1>9, <1>10 DEF Next, Work

\* Everything the types rest on.
TypesInv ==
    /\ ShapeInv /\ IdInv /\ WorkersInv
    /\ FlowInv /\ DataInv /\ StateInv /\ TableInv /\ AgentInv

\* It holds of an unused process.
LEMMA InitTypes == Init => FlowInv /\ DataInv /\ StateInv /\ TableInv /\ AgentInv
  <1> SUFFICES ASSUME Init PROVE FlowInv /\ DataInv /\ StateInv /\ TableInv /\ AgentInv
    OBVIOUS
  <1>1. FlowInv
    BY RunsAreCounted DEF Init, FlowInv, Phases, NodeNames, Modes
  <1>2. DataInv
    BY DEF Init, DataInv, NoData
  <1>3. StateInv
    BY InitialStates, PipelineAssumption DEF Init, StateInv, Evidence
  <1>4. TableInv
    BY FS_EmptySet DEF Init, TableInv, MemoryInit
  <1>5. AgentInv
    BY DEF Init, AgentInv
  <1>6. QED
    BY <1>1, <1>2, <1>3, <1>4, <1>5

\* Whatever the traces, the model's replies and the failures, the shared state and the
\* memory stay tables of their own shapes, and no incident is newer than the run.
THEOREM TypesInvariant == Spec => []TypesInv
  <1>1. Spec => []WorkersInv
    BY WorkersInvariant
  <1>2. Init => ShapeInv /\ IdInv /\ FlowInv /\ DataInv /\ StateInv /\ TableInv /\ AgentInv
    BY InitShape, InitIds, InitTypes
  <1>3. TypesInv /\ [Next]_vars =>
            (ShapeInv /\ IdInv /\ FlowInv /\ DataInv /\ StateInv /\ TableInv /\ AgentInv)'
    BY ShapeKept, IdStep, FlowKept, DataKept, StateKept, TablesKept, AgentsKept DEF TypesInv
  <1>4. TypesInv <=> /\ ShapeInv /\ IdInv /\ WorkersInv
                     /\ FlowInv /\ DataInv /\ StateInv /\ TableInv /\ AgentInv
    BY DEF TypesInv
  <1>5. QED
    BY <1>1, <1>2, <1>3, <1>4, PTL DEF Spec

\* The types, as the runs check them.
THEOREM TypesHold == Spec => []TypeOK
  <1>1. TypesInv => TypeOK
    <2> SUFFICES ASSUME TypesInv PROVE TypeOK
      OBVIOUS
    <2> USE DEF TypesInv
    <2>1. /\ evidence \in Evidence /\ s \in State /\ node \in NodeNames /\ incidents \in Nat
          /\ run \in 0..MaxRuns /\ phase \in Phases
          /\ input \in [mode : Modes, dir : Dirs, order : Orders]
      BY DEF StateInv, FlowInv, TableInv
    <2>2. /\ DOMAIN db = Paths /\ \A p \in Paths : \A r \in db[p] : Row(r) /\ r.timestamp <= run
          /\ handle \in Paths \cup {NoPath} /\ env \in Paths \cup {NoPath}
      BY DEF ShapeInv, TableInv
    <2>3. DOMAIN data = DOMAIN NoData
      BY DEF ShapeInv, NoData
    <2>4. data.incident \in Ids
      BY <2>1, RunsAreCounted DEF IdInv, Ids, UnknownIncident
    <2>5. /\ \A i \in DOMAIN tasks : tasks[i] \in Assignments
          /\ dispatched \subseteq DOMAIN tasks
          /\ \A u \in updates : u.worker \in dispatched
          /\ \A e \in results : e.task \in dispatched
      BY DEF AgentInv
    <2>6. QED
      BY <2>1, <2>2, <2>3, <2>4, <2>5 DEF TypeOK
  <1>2. QED
    BY <1>1, TypesInvariant, PTL
-------------------------------------------------------------------------------
\* A cause of the ranking accounts for a row: it is the first, but for a synthesis that,
\* with results of workers, put one before it with no less confidence.
Accounts(r, k) ==
    /\ data.ranked[k].svc = r.root_cause
    /\ k # 1 => /\ phase # "synthesis" /\ results # {}
                /\ data.ranked[1].conf >= data.ranked[k].conf

\* A row is of this run only behind the store, and then some cause accounts for it.
ReportInv ==
    /\ s.stored => handle \in Paths
    /\ node \notin {"report_generation", "END"} =>
          \A p \in Paths : \A r \in db[p] : r.timestamp # run
    /\ data.ranked # <<>> =>
          \A p \in Paths : \A r \in db[p] :
              r.timestamp = run => \E k \in DOMAIN data.ranked : Accounts(r, k)

\* No node but the store says that an incident was stored.
LEMMA StoredOnlyByStore ==
    ASSUME StateInv, [Next]_vars
    PROVE  s'.stored \in {s.stored, FALSE} \/ StoreIncident
  <1> USE DEF StateInv
  <1>1. s.stored = s.stored /\ \A t \in State : Running(t).stored = t.stored
    BY DEF State, Running
  <1>2. \A n : Failed(n).stored = s.stored
    BY DEF State, Failed
  <1>3. InitialState.stored = FALSE /\ FinalStateOfCrash.stored = FALSE
    BY DEF InitialState, FinalStateOfCrash
  <1>4. CASE Invoke
    BY <1>3, <1>4 DEF Invoke
  <1>5. CASE Triage
    BY <1>1, <1>5 DEF Triage
  <1>6. CASE Planner \/ EndSuperstep
    BY <1>3, <1>6 DEF Planner, EndSuperstep, InvocationCrashes
  <1>7. CASE PlainNode
    <2>1. CASE TraceIngest \/ GraphBuilder \/ LogAnalysis
      <3>1. s' = s \/ (\E n : s' = Failed(n)) \/ s' = Running([s EXCEPT !.spans = TRUE])
            \/ s' = Running([s EXCEPT !.graph = TRUE]) \/ s' = Running(s)
        BY <2>1 DEF TraceIngest, GraphBuilder, LogAnalysis, Step
      <3>2. /\ Running([s EXCEPT !.spans = TRUE]).stored = s.stored
            /\ Running([s EXCEPT !.graph = TRUE]).stored = s.stored
        BY DEF Running, State
      <3>3. QED
        BY <1>1, <1>2, <3>1, <3>2
    <2>2. CASE SafetyCheck
      <3>1. s' \in {Passed, GivenUp, RolledBack, Errored}
        BY <2>2 DEF SafetyCheck, Judgements
      <3>2. /\ Passed.stored = s.stored /\ GivenUp.stored = s.stored
            /\ RolledBack.stored = s.stored /\ Errored.stored = s.stored
        BY DEF Passed, GivenUp, RolledBack, Errored, Running, State
      <3>3. QED
        BY <3>1, <3>2
    <2>3. QED
      BY <1>7, <2>1, <2>2 DEF PlainNode
  <1>8. CASE RunDetection
    <2>1. s' \in {Detected, [Failed("detection") EXCEPT !.alerts = 0], [s EXCEPT !.alerts = 0]}
      BY <1>8 DEF RunDetection, Detection, Step
    <2>2. /\ Detected.stored = s.stored /\ [s EXCEPT !.alerts = 0].stored = s.stored
          /\ [Failed("detection") EXCEPT !.alerts = 0].stored = s.stored
      BY DEF Detected, Running, Failed, State
    <2>3. QED
      BY <2>1, <2>2
  <1>9. CASE RunMemorySearch \/ RunCausalRanker
    BY <1>1, <1>9 DEF RunMemorySearch, MemorySearch, RunCausalRanker, CausalRanker, Step
  <1>10. CASE RunRca
    <2>1. s' \in {Failed("rca"), Running([s EXCEPT !.ranked = TRUE])}
      BY <1>10 DEF RunRca, Rca, Step
    <2>2. Running([s EXCEPT !.ranked = TRUE]).stored = s.stored
      BY DEF Running, State
    <2>3. QED
      BY <1>2, <2>1, <2>2
  <1>11. CASE RunMitigation
    <2> DEFINE plan == Plan(spans, data.ranked)
               planned == Running([s EXCEPT !.actions = plan, !.undo = plan])
    <2>1. s' \in {[s EXCEPT !.actions = {}, !.undo = {}],
                  [Failed("mitigation") EXCEPT !.actions = {}, !.undo = {}], planned}
      BY <1>11 DEF RunMitigation, Step
    <2> HIDE DEF plan
    <2>2. /\ [s EXCEPT !.actions = {}, !.undo = {}].stored = s.stored
          /\ [Failed("mitigation") EXCEPT !.actions = {}, !.undo = {}].stored = s.stored
          /\ planned.stored = s.stored
      BY DEF Running, Failed, State
    <2>3. QED
      BY <2>1, <2>2
  <1>12. CASE Report
    <2>1. s' \in {[s EXCEPT !.status = "complete"], FinalStateOfCrash}
      BY <1>12 DEF Report, ReportGeneration, ReportCrashes, Step
    <2>2. [s EXCEPT !.status = "complete"].stored = s.stored
      BY DEF State
    <2>3. QED
      BY <1>3, <2>1, <2>2
  <1>13. CASE Aggregate \/ Synthesis \/ (\E i \in dispatched : Worker(i)) \/ Idle \/ UNCHANGED vars
    BY <1>13 DEF Aggregate, Synthesis, Worker, Idle, vars, pipelineVars
  <1>14. QED
    BY <1>4, <1>5, <1>6, <1>7, <1>8, <1>9, <1>10, <1>11, <1>12, <1>13 DEF Next, Work

\* The row of a run names the first cause of its ranking.
LEMMA RowNamesFirst ==
    ASSUME DataInv, data.ranked # <<>>, NEW row,
           row = Incident(data.incident, run, data.primary, TypesOf(data.alerts),
                          StoredCauseOf(data))
    PROVE  1 \in DOMAIN data.ranked /\ row.root_cause = data.ranked[1].svc /\ row.timestamp = run
  <1>1. 1 \in DOMAIN data.ranked /\ data.ranked[1] \in Causes(Listed)
    BY DEF DataInv
  <1>2. data.ranked[1].svc \in Listed
    BY <1>1 DEF Causes
  <1>3. data.ranked[1].svc # NoPart
    BY <1>2, AnalysisAssumption
  <1>4. QED
    BY <1>1, <1>3 DEF Incident, StoredCauseOf, TopCause

\* Every step keeps the report and the memory together.
LEMMA ReportKept == TypesInv /\ ReportInv /\ [Next]_vars => ReportInv'
  <1> SUFFICES ASSUME TypesInv, ReportInv, [Next]_vars PROVE ReportInv'
    OBVIOUS
  <1> USE DEF TypesInv
  <1> DEFINE
      Stored  == s.stored => handle \in Paths
      Fresh   == node \notin {"report_generation", "END"} =>
                     \A p \in Paths : \A r \in db[p] : r.timestamp # run
      Covered == data.ranked # <<>> =>
                     \A p \in Paths : \A r \in db[p] :
                         r.timestamp = run => \E k \in DOMAIN data.ranked : Accounts(r, k)
  <1>1. Stored'
    <2>1. CASE StoreIncident
      <3>1. CASE handle' = Opened(input.dir)
        BY <3>1, OpenedPath
      <3>2. CASE s' = [s EXCEPT !.stored = FALSE, !.status = "complete"]
        BY <3>2 DEF StateInv, State
      <3>3. QED
        BY <2>1, <3>1, <3>2 DEF StoreIncident
    <2>2. CASE Invoke
      BY <2>2 DEF Invoke, InitialState
    <2>3. CASE ~Invoke /\ s'.stored \in {s.stored, FALSE}
      <3>1. handle' = handle \/ handle' \in Paths
        BY <2>3, OpenedPath
           DEF Next, Work, Triage, Planner, Worker, EndSuperstep, Aggregate, PlainNode,
               RunDetection, RunMemorySearch, OpenFails, RunRca, RunCausalRanker, RunMitigation,
               StoreIncident, Synthesis, Report, Idle, vars, memoryVars
      <3>2. QED
        BY <2>3, <3>1 DEF ReportInv
    <2>4. QED
      BY <2>1, <2>2, <2>3, StoredOnlyByStore
  <1>2. CASE UNCHANGED <<db, run, data, phase, results>>
             /\ (node \in {"report_generation", "END"} => node' \in {"report_generation", "END"})
    BY <1>1, <1>2 DEF ReportInv, Accounts
  <1>3. CASE /\ UNCHANGED <<db, run>>
             /\ node \notin {"report_generation", "END"} \/ (node' = "END" /\ data' = NoData)
    BY <1>1, <1>3 DEF ReportInv, NoData
  <1>4. CASE Invoke
    <2>1. \A p \in Paths : \A r \in db[p] : r.timestamp # run'
      BY <1>4 DEF Invoke, TableInv, FlowInv, Row, Ids
    <2>2. UNCHANGED db
      BY <1>4 DEF Invoke
    <2>3. QED
      BY <1>1, <2>1, <2>2 DEF ReportInv
  <1>5. CASE StoreIncident
    <2>1. /\ node' = "report_generation" /\ UNCHANGED <<data, run, results>>
          /\ \A p \in Paths : \A r \in db[p] : r.timestamp # run
      BY <1>5 DEF StoreIncident, ReportInv, runVars, agentVars
    <2>2. CASE UNCHANGED db
      BY <1>1, <2>1, <2>2 DEF ReportInv
    <2>3. CASE \E row : /\ row = Incident(data.incident, run, data.primary,
                                          TypesOf(data.alerts), StoredCauseOf(data))
                        /\ db' = [db EXCEPT ![handle'] = Inserted(@, row)]
      <3>1. PICK row : /\ row = Incident(data.incident, run, data.primary,
                                         TypesOf(data.alerts), StoredCauseOf(data))
                       /\ db' = [db EXCEPT ![handle'] = Inserted(@, row)]
        BY <2>3
      <3>2. \A p \in Paths : \A r \in db'[p] : r \in db[p] \/ r = row
        BY <3>1 DEF ShapeInv, Inserted
      <3>3. data.ranked # <<>> =>
                1 \in DOMAIN data.ranked /\ row.root_cause = data.ranked[1].svc
        BY <3>1, RowNamesFirst
      <3>4. Covered'
        BY <2>1, <3>2, <3>3 DEF Accounts
      <3>5. QED
        BY <1>1, <2>1, <3>4 DEF ReportInv
    <2>4. QED
      BY <1>5, <2>2, <2>3 DEF StoreIncident
  <1>6. CASE Synthesis
    <2>1. /\ phase = "synthesis" /\ phase' = "pipeline" /\ node = "report_generation"
          /\ UNCHANGED <<db, run, results, node>>
      BY <1>6 DEF Synthesis, FlowInv, pipelineVars, memoryVars, runVars, agentVars
    <2>2. CASE UNCHANGED data
      BY <1>1, <2>1, <2>2 DEF ReportInv, Accounts
    <2>3. CASE /\ results # {} /\ data.ranked # <<>>
               /\ \E reply \in Replies :
                     data' = [data EXCEPT !.ranked = SynthesizedRanking(@, reply),
                                          !.override = reply.override]
      <3>1. PICK reply \in Replies :
                data' = [data EXCEPT !.ranked = SynthesizedRanking(@, reply),
                                     !.override = reply.override]
        BY <2>3
      <3>2. data'.ranked = SynthesizedRanking(data.ranked, reply)
        BY <3>1 DEF ShapeInv
      <3>3. /\ \A k \in DOMAIN data'.ranked : data'.ranked[1].conf >= data'.ranked[k].conf
            /\ \A i \in DOMAIN data.ranked :
                  \E k \in DOMAIN data'.ranked : data'.ranked[k].svc = data.ranked[i].svc
        <4>1. /\ data.ranked \in Seq(Causes(Listed))
              /\ \A svc \in DOMAIN reply.deltas : reply.deltas[svc] \in Int
          BY AnalysisAssumption DEF DataInv
        <4>2. Outranks(data'.ranked, data.ranked)
          BY <3>2, <4>1, SynthesisKeeps
        <4>3. QED
          BY <4>2 DEF Outranks
      <3>4. ASSUME NEW p \in Paths, NEW r \in db[p], r.timestamp = run
            PROVE  \E k \in DOMAIN data'.ranked : Accounts(r, k)'
        <4>1. PICK i \in DOMAIN data.ranked : Accounts(r, i)
          BY <2>3, <3>4 DEF ReportInv
        <4>2. PICK k \in DOMAIN data'.ranked : data'.ranked[k].svc = data.ranked[i].svc
          BY <3>3
        <4>3. data'.ranked[k].svc = r.root_cause /\ data'.ranked[1].conf >= data'.ranked[k].conf
          BY <3>3, <4>1, <4>2 DEF Accounts
        <4>4. phase' # "synthesis" /\ results' # {}
          BY <2>1, <2>3
        <4>5. QED
          BY <4>3, <4>4 DEF Accounts
      <3>5. Covered'
        BY <2>1, <3>4
      <3>6. QED
        BY <1>1, <2>1, <3>5 DEF ReportInv
    <2>4. QED
      BY <1>6, <2>2, <2>3 DEF Synthesis
  <1>7. CASE Report
    <2>1. UNCHANGED <<db, run>> /\ node' = "END" /\ phase' = "done"
      BY <1>7 DEF Report, ReportGeneration, ReportCrashes, Step, memoryVars, runVars
    <2>2. UNCHANGED <<data, results>> \/ data' = NoData
      BY <1>7 DEF Report
    <2>3. Covered'
      <3>1. CASE UNCHANGED <<data, results>>
        BY <2>1, <3>1 DEF ReportInv, Accounts
      <3>2. CASE data' = NoData
        BY <3>2 DEF NoData
      <3>3. QED
        BY <2>2, <3>1, <3>2
    <2>4. QED
      BY <1>1, <2>1, <2>3 DEF ReportInv
  <1>8. CASE Triage \/ Aggregate \/ (\E i \in dispatched : Worker(i))
    BY <1>3, <1>8 DEF Triage, Aggregate, Worker, FlowInv, pipelineVars, memoryVars, runVars
  <1>9. CASE Planner \/ EndSuperstep
    BY <1>3, <1>9 DEF Planner, EndSuperstep, FlowInv, memoryVars, runVars
  <1>10. CASE PlainNode
    BY <1>3, <1>10 DEF PlainNode, TraceIngest, GraphBuilder, LogAnalysis, SafetyCheck, Step,
                       memoryVars, runVars
  <1>11. CASE RunDetection \/ RunMemorySearch \/ RunRca \/ RunCausalRanker \/ RunMitigation
    BY <1>3, <1>11 DEF RunDetection, Detection, RunMemorySearch, MemorySearch, RunRca, Rca,
                       RunCausalRanker, CausalRanker, RunMitigation, Step, memoryVars, runVars
  <1>12. CASE Idle \/ UNCHANGED vars
    BY <1>2, <1>12 DEF Idle, vars, pipelineVars, memoryVars, runVars, agentVars
  <1>13. QED
    BY <1>4, <1>5, <1>6, <1>7, <1>8, <1>9, <1>10, <1>11, <1>12 DEF Next, Work

\* The incident of a run in memory names the cause that is reported, or one that live
\* evidence no less trusted was put before: whatever the traces, the replies and the number
\* of runs that share the memory.
THEOREM ReportMatchesMemory == Spec => []StoredIsReported
  <1>1. Init => ReportInv
    BY DEF Init, ReportInv, InitialState, NoData, MemoryInit
  <1>2. TypesInv /\ ReportInv /\ [Next]_vars => ReportInv'
    BY ReportKept
  <1>3. ReportInv => StoredIsReported
    BY DEF ReportInv, StoredIsReported, OwnRows, Accounts
  <1>4. QED
    BY <1>1, <1>2, <1>3, TypesInvariant, PTL DEF Spec
-------------------------------------------------------------------------------
\* The causes a search finds: the services it visits, as far as the process lists them.
Found == Range(input.order) \cap Visited(spans, Start)

\* The ranking is of what the search found, and names nothing twice.  Before its search a run
\* has none: only then does the detection settle where the search starts.
CausesInv ==
    /\ node \in BeforeRecall => data.ranked = <<>>
    /\ data.ranked # <<>> =>
          /\ trace \in DOMAIN Traces
          /\ CausesOf(data.ranked) = Found /\ NamesOnce(data.ranked)

\* The search finds the causes it found, if it runs again.
LEMMA SearchIsOfFound ==
    ASSUME FlowInv, DataInv, phase = "pipeline"
    PROVE  LET ranked == Ranking(spans, data.alerts, data.baselines, Start, input.order)
           IN  CausesOf(ranked) = Found /\ NamesOnce(ranked)
  <1>1. spans \in Seq(Rows)
    BY TracesAreTyped DEF FlowInv, spans
  <1>2. input.order \in Seq(Listed) /\ IsInjective(input.order)
    BY AnalysisAssumption DEF FlowInv
  <1>3. QED
    BY <1>1, <1>2, RankingIsOf DEF DataInv, Found

\* What the search finds depends on the input, the trace, and where it starts.
LEMMA FoundStays ==
    ASSUME UNCHANGED <<input, trace>>, data'.primary = data.primary, data'.alerts = data.alerts
    PROVE  Found' = Found
  BY DEF Found, Start, spans

\* Behind the search, another ranking of the same causes is still one of what it found.
LEMMA CausesCarry ==
    ASSUME CausesInv, UNCHANGED <<input, trace>>, node' \notin BeforeRecall,
           data'.primary = data.primary, data'.alerts = data.alerts,
           data'.ranked \in Seq(Causes(Listed)), SameCauses(data'.ranked, data.ranked)
    PROVE  CausesInv'
  <1>1. Found' = Found
    BY FoundStays
  <1>2. data'.ranked # <<>> => data.ranked # <<>>
    <2>1. SUFFICES ASSUME data.ranked = <<>>, data'.ranked # <<>> PROVE FALSE
      OBVIOUS
    <2>2. 1 \in DOMAIN data'.ranked
      BY <2>1
    <2>3. data'.ranked[1].svc \in CausesOf(data'.ranked) /\ CausesOf(data.ranked) = {}
      BY <2>1, <2>2 DEF CausesOf
    <2>4. QED
      BY <2>3 DEF SameCauses
  <1>3. QED
    BY <1>1, <1>2 DEF CausesInv, SameCauses

\* What a step makes of a ranking.
LEMMA CausesKept ==
    ASSUME TypesInv, CausesInv, [Next]_vars
    PROVE  /\ CausesInv'
           /\ data.ranked # <<>> /\ data' # NoData => SameCauses(data'.ranked, data.ranked)
  <1> USE DEF TypesInv
  <1>1. CASE data' = NoData
    BY <1>1 DEF CausesInv, NoData
  <1>2. CASE /\ UNCHANGED <<data, input, trace>>
             /\ node \notin BeforeRecall => node' \notin BeforeRecall
    <2>1. Found' = Found
      BY <1>2, FoundStays
    <2>2. QED
      BY <1>2, <2>1 DEF CausesInv, SameCauses
  <1>3. CASE RunDetection \/ RunMemorySearch
    <2>1. node \in BeforeRecall /\ data'.ranked = data.ranked
      BY <1>3 DEF RunDetection, Detection, RunMemorySearch, MemorySearch, Step, BeforeRecall,
                  ShapeInv
    <2>2. QED
      BY <2>1 DEF CausesInv
  <1>4. CASE RunRca /\ data' # data
    <2>1. /\ node = "rca" /\ node' = "causal_ranker" /\ phase = "pipeline"
          /\ trace \in DOMAIN Traces /\ UNCHANGED <<input, trace>>
      BY <1>4 DEF RunRca, Rca, Step, runVars, FlowInv
    <2>2. PICK ranked \in {Ranking(spans, data.alerts, data.baselines, Start, input.order)} :
              data' = [data EXCEPT !.ranked = ranked, !.incident = IncidentId]
      BY <1>4 DEF RunRca
    <2>3. data'.ranked = ranked /\ data'.primary = data.primary /\ data'.alerts = data.alerts
      BY <2>2 DEF ShapeInv
    <2>4. CausesOf(ranked) = Found /\ NamesOnce(ranked)
      BY <2>1, <2>2, SearchIsOfFound
    <2>5. Found' = Found
      BY <2>1, <2>3, FoundStays
    <2>6. QED
      BY <2>1, <2>3, <2>4, <2>5 DEF CausesInv, SameCauses, BeforeRecall
  <1>5. CASE RunCausalRanker /\ data' # data
    <2>1. /\ node = "causal_ranker" /\ node' = "log_analysis" /\ phase = "pipeline"
          /\ UNCHANGED <<input, trace>>
      BY <1>5 DEF RunCausalRanker, CausalRanker, Step, runVars
    <2>2. PICK causes :
              data' = [data EXCEPT !.ranked =
                           CausalRanking(@, TemporalOrder(spans, data.alerts), causes)]
      BY <1>5 DEF RunCausalRanker
    <2>3. /\ data'.ranked = CausalRanking(data.ranked, TemporalOrder(spans, data.alerts), causes)
          /\ data'.primary = data.primary /\ data'.alerts = data.alerts
      BY <2>2 DEF ShapeInv
    <2>4. ServicesOf(spans) \in Seq(Listed)
      <3>1. spans \in Seq(Rows)
        BY <2>1, TracesAreTyped DEF FlowInv, spans
      <3>2. \A e \in Rows : e.svc \in Listed
        BY DEF Rows
      <3>3. QED
        BY <3>1, <3>2, ServicesAreOf
    <2>5. SameCauses(data'.ranked, data.ranked)
      BY <2>3, <2>4, CausalRankingIsOf DEF DataInv
    <2>6. data'.ranked \in Seq(Causes(Listed)) /\ node' \notin BeforeRecall
      BY <2>1, DataKept DEF DataInv, BeforeRecall
    <2>7. data'.primary = data.primary /\ data'.alerts = data.alerts
      BY <2>3
    <2> HIDE DEF CausesInv
    <2>8. CausesInv'
      BY <2>1, <2>5, <2>6, <2>7, CausesCarry
    <2>9. QED
      BY <2>5, <2>8
  <1>6. CASE Synthesis /\ data' # data
    <2>1. /\ node' = node /\ node = "report_generation" /\ UNCHANGED <<input, trace>>
          /\ data.ranked # <<>>
      BY <1>6 DEF Synthesis, FlowInv, pipelineVars, runVars
    <2>2. PICK reply \in Replies :
              data' = [data EXCEPT !.ranked = SynthesizedRanking(@, reply),
                                   !.override = reply.override]
      BY <1>6 DEF Synthesis
    <2>3. /\ data'.ranked = SynthesizedRanking(data.ranked, reply)
          /\ data'.primary = data.primary /\ data'.alerts = data.alerts
      BY <2>2 DEF ShapeInv
    <2>4. SameCauses(data'.ranked, data.ranked)
      BY <2>3, AnalysisAssumption, SynthesisKeeps DEF DataInv
    <2>5. data'.ranked \in Seq(Causes(Listed)) /\ node' \notin BeforeRecall
      BY <2>1, DataKept DEF DataInv, BeforeRecall
    <2>6. data'.primary = data.primary /\ data'.alerts = data.alerts
      BY <2>3
    <2> HIDE DEF CausesInv
    <2>7. CausesInv'
      BY <2>1, <2>4, <2>5, <2>6, CausesCarry
    <2>8. QED
      BY <2>4, <2>7
  <1>7. CASE RunRca \/ RunCausalRanker \/ RunMitigation \/ StoreIncident
    <2>1. UNCHANGED <<input, trace>> /\ node' \notin BeforeRecall
      BY <1>7 DEF RunRca, Rca, RunCausalRanker, CausalRanker, RunMitigation, StoreIncident, Step,
                  runVars, BeforeRecall
    <2>2. CASE data' = data
      BY <1>2, <2>1, <2>2
    <2>3. CASE data' # data
      BY <1>4, <1>5, <1>7, <2>3 DEF RunMitigation, StoreIncident
    <2>4. QED
      BY <2>2, <2>3
  <1>8. CASE Synthesis \/ Report
    <2>1. data' = NoData \/ (data' = data /\ UNCHANGED <<input, trace>>) \/ Synthesis
      BY <1>8 DEF Report, runVars
    <2>2. node' = node \/ node' = "END"
      BY <1>8 DEF Synthesis, Report, ReportGeneration, ReportCrashes, Step, pipelineVars
    <2>3. CASE Synthesis /\ data' = data
      BY <1>2, <2>2, <2>3 DEF Synthesis, runVars, BeforeRecall
    <2>4. QED
      BY <1>1, <1>2, <1>6, <2>1, <2>2, <2>3 DEF BeforeRecall
  <1>9. CASE Invoke
    BY <1>1, <1>9 DEF Invoke
  <1>10. CASE Planner \/ EndSuperstep
    BY <1>1, <1>2, <1>10 DEF Planner, EndSuperstep, InvocationCrashes, runVars
  <1>11. CASE PlainNode
    BY <1>2, <1>11 DEF PlainNode, TraceIngest, GraphBuilder, LogAnalysis, SafetyCheck, Step,
                       runVars, BeforeRecall
  <1>12. CASE Triage \/ Aggregate \/ (\E i \in dispatched : Worker(i)) \/ Idle \/ UNCHANGED vars
    BY <1>2, <1>12 DEF Triage, Aggregate, Worker, Idle, vars, runVars, pipelineVars
  <1>13. QED
    BY <1>3, <1>7, <1>8, <1>9, <1>10, <1>11, <1>12 DEF Next, Work

\* Once ranked, the causes of a run stay, each once, whatever the replies of the model, the
\* correlations and the failures.
THEOREM CausesAreKept == Spec => CausesStay
  <1>1. Init => CausesInv
    BY DEF Init, CausesInv, NoData
  <1>2. TypesInv /\ CausesInv /\ [Next]_vars => CausesInv'
    BY CausesKept
  <1>3. TypesInv /\ TypesInv' /\ CausesInv /\ [Next]_vars =>
            [data.ranked # <<>> /\ data' # NoData =>
                /\ CausesOf(data'.ranked) = CausesOf(data.ranked)
                /\ Len(data'.ranked) = Cardinality(CausesOf(data.ranked))]_vars
    <2> SUFFICES ASSUME TypesInv, TypesInv', CausesInv, [Next]_vars,
                        data.ranked # <<>>, data' # NoData
                 PROVE  /\ CausesOf(data'.ranked) = CausesOf(data.ranked)
                        /\ Len(data'.ranked) = Cardinality(CausesOf(data.ranked))
      OBVIOUS
    <2>1. SameCauses(data'.ranked, data.ranked) /\ NamesOnce(data.ranked)
      BY CausesKept DEF CausesInv
    <2>2. data'.ranked \in Seq(Causes(Listed))
      BY DEF TypesInv, DataInv
    <2>3. CausesOf(data'.ranked) = CausesOf(data.ranked) /\ NamesOnce(data'.ranked)
      BY <2>1 DEF SameCauses
    <2>4. QED
      BY <2>2, <2>3, OnceIsCounted
  <1>4. QED
    BY <1>1, <1>2, <1>3, TypesInvariant, PTL DEF Spec, CausesStay
-------------------------------------------------------------------------------
\* The alerts of a run that has baselines are those of its trace file, and no others.
AlertInv == data.baselines => trace \in DOMAIN Traces /\ data.alerts = Detections[trace]

\* The alerts of any trace file are of the services that fail.
LEMMA DetectionsAreFailing ==
    ASSUME NEW t \in DOMAIN Traces
    PROVE  CausesOf(Detections[t]) = FailingServices[t]
  <1> DEFINE rows == Ingested[t]
  <1>1. rows \in Seq(Rows)
    BY TracesAreTyped
  <1>2. (\A e \in Rows : e.svc \in Listed) /\ \A e \in Rows : e.dur \in Int /\ e.start \in Int
    BY DEF Rows
  <1>3. Detections[t] = AlertsOf(rows)
    BY DEF Detections
  <1>4. FailingServices[t] = {svc \in Range(ServicesOf(rows)) : Fails(rows, svc)}
    BY DEF FailingServices, Fails
  <1> HIDE DEF rows
  <1>5. CausesOf(AlertsOf(rows)) = {svc \in Range(ServicesOf(rows)) : Fails(rows, svc)}
    BY <1>1, <1>2, AlertsAreOfFailing
  <1>6. QED
    BY <1>3, <1>4, <1>5

\* Only the detection makes baselines, and nothing else touches the alerts of a run.
LEMMA AlertsKept == ShapeInv /\ FlowInv /\ AlertInv /\ [Next]_vars => AlertInv'
  <1> SUFFICES ASSUME ShapeInv, FlowInv, AlertInv, [Next]_vars PROVE AlertInv'
    OBVIOUS
  <1>1. CASE data' = NoData
    BY <1>1 DEF AlertInv, NoData
  <1>2. CASE UNCHANGED <<data, trace>>
    BY <1>2 DEF AlertInv
  <1>3. CASE /\ trace' = trace
             /\ data'.alerts = data.alerts /\ data'.baselines = data.baselines
    BY <1>3 DEF AlertInv
  <1>4. CASE RunDetection
    <2>1. trace' = trace /\ trace \in DOMAIN Traces
      BY <1>4 DEF RunDetection, FlowInv, runVars
    <2>2. \/ data'.alerts = data.alerts /\ data'.baselines = data.baselines
          \/ data'.alerts = Detections[trace]
      BY <1>4 DEF RunDetection, ShapeInv
    <2>3. QED
      BY <1>3, <2>1, <2>2 DEF AlertInv
  <1>5. CASE RunMemorySearch \/ RunRca \/ RunCausalRanker \/ Synthesis
    <2>1. trace' = trace
      BY <1>5 DEF RunMemorySearch, RunRca, RunCausalRanker, Synthesis, runVars
    <2>2. data'.alerts = data.alerts /\ data'.baselines = data.baselines
      BY <1>5 DEF RunMemorySearch, RunRca, RunCausalRanker, Synthesis, ShapeInv
    <2>3. QED
      BY <1>3, <2>1, <2>2
  <1>6. CASE Invoke
    BY <1>1, <1>6 DEF Invoke
  <1>7. CASE Planner \/ EndSuperstep \/ Report
    BY <1>1, <1>2, <1>7 DEF Planner, EndSuperstep, Report, InvocationCrashes, runVars
  <1>8. CASE PlainNode \/ RunMitigation \/ StoreIncident
    BY <1>2, <1>8 DEF PlainNode, RunMitigation, StoreIncident, runVars
  <1>9. CASE Triage \/ Aggregate \/ (\E i \in dispatched : Worker(i)) \/ Idle \/ UNCHANGED vars
    BY <1>2, <1>9 DEF Triage, Aggregate, Worker, Idle, vars, runVars
  <1>10. QED
    BY <1>4, <1>5, <1>6, <1>7, <1>8, <1>9 DEF Next, Work

\* Whatever the trace file, the services with an alert are those that fail: no service alerts
\* for being slow.
THEOREM AlertsAreOfErrors == Spec => []AlertsAreErrors
  <1>1. Init => AlertInv
    BY DEF Init, AlertInv, NoData
  <1>2. TypesInv /\ AlertInv /\ [Next]_vars => AlertInv'
    BY AlertsKept DEF TypesInv
  <1>3. AlertInv => AlertsAreErrors
    BY DetectionsAreFailing DEF AlertInv, AlertsAreErrors
  <1>4. QED
    BY <1>1, <1>2, <1>3, TypesInvariant, PTL DEF Spec
-------------------------------------------------------------------------------
\* The services with a chain of calls to another are what its search can reach.
LEMMA ReachingSpreads ==
    ASSUME trace \in DOMAIN Traces, NEW svc
    PROVE  \E within : /\ Spreads(within, CallEdges(spans), svc, MaxDepth)
                       /\ Reaching(svc, MaxDepth) = within[MaxDepth]
  <1> DEFINE within == CHOOSE w : Spreads(w, Graphs[trace], svc, MaxDepth)
  <1>1. MaxDepth \in Nat
    BY RootCauseAssumption
  <1>2. Spreads(within, Graphs[trace], svc, MaxDepth)
    BY <1>1, SomethingSpreads
  <1>3. Reaching(svc, MaxDepth) = within[MaxDepth]
    BY DEF Reaching, Spreads
  <1>4. Graphs[trace] = CallEdges(spans)
    BY DEF Graphs, spans
  <1> HIDE DEF within
  <1>5. QED
    BY <1>2, <1>3, <1>4

\* What a search found is what reaches the service it started from.
LEMMA FoundIsReached ==
    ASSUME FlowInv, trace \in DOMAIN Traces
    PROVE  /\ Found \subseteq Reaching(Start, MaxDepth)
           /\ <<trace, Start>> \in Uncut => Reaching(Start, MaxDepth) \subseteq Found
  <1> DEFINE start == Start
             order == input.order
  <1>1. spans \in Seq(Rows) /\ spans = Ingested[trace]
    BY TracesAreTyped DEF spans
  <1>2. \A e \in Rows : e.svc \in Listed
    BY DEF Rows
  <1>3. Range(order) = Listed
    BY AnalysisAssumption DEF FlowInv
  <1>4. Found = Listed \cap Visited(spans, start)
    BY <1>3 DEF Found
  <1> HIDE DEF start, order
  <1>5. PICK within : /\ Spreads(within, CallEdges(spans), start, MaxDepth)
                      /\ Reaching(start, MaxDepth) = within[MaxDepth]
    BY ReachingSpreads
  <1>6. Visited(spans, start) \subseteq within[MaxDepth]
    <2> DEFINE Svc == Listed \cup {start}
    <2>1. start \in Svc /\ \A e \in Rows : e.svc \in Svc
      BY <1>2
    <2> HIDE DEF Svc
    <2>2. QED
      BY <1>1, <1>5, <2>1, SearchIsExact
  <1>7. ASSUME <<trace, start>> \in Uncut
        PROVE  within[MaxDepth] \subseteq Listed \cap Visited(spans, start)
    <2>1. start \in Listed /\ Len(CompletePaths(spans, start)) <= MaxPaths
      BY <1>1, <1>7 DEF Uncut
    <2>2. QED
      BY <1>1, <1>2, <1>5, <2>1, SearchIsExact
  <1>8. QED
    BY <1>4, <1>5, <1>6, <1>7 DEF start

\* Whatever the trace files and however long the search, the causes of a run reach the service
\* it started from; and they are all that do, unless the search was cut.
THEOREM CausesAreReaching == Spec => []CausesReachPrimary
  <1>1. Init => CausesInv
    BY DEF Init, CausesInv, NoData
  <1>2. TypesInv /\ CausesInv /\ [Next]_vars => CausesInv'
    BY CausesKept
  <1>3. TypesInv /\ CausesInv => CausesReachPrimary
    <2> SUFFICES ASSUME TypesInv, CausesInv, data.ranked # <<>>
                 PROVE  /\ CausesOf(data.ranked) \subseteq Reaching(Start, MaxDepth)
                        /\ <<trace, Start>> \in Uncut =>
                              Reaching(Start, MaxDepth) \subseteq CausesOf(data.ranked)
      BY DEF CausesReachPrimary
    <2>1. trace \in DOMAIN Traces /\ CausesOf(data.ranked) = Found
      BY DEF CausesInv
    <2>2. QED
      BY <2>1, FoundIsReached DEF TypesInv
  <1>4. QED
    BY <1>1, <1>2, <1>3, TypesInvariant, PTL DEF Spec
===============================================================================
