# GraphRCA in TLA+

A verification development for GraphRCA, a root-cause-analysis agent for the
AIOpsLab benchmark. The modules model the control of the program: which step may
follow which, what each one reads and leaves behind, and what happens when a step
fails. TLC checks them on small instances; TLAPS proves the central results for
every value of the constants.

    tlc -workers 2 -config MCBridge.cfg MCBridge
    tlapm AgentBridgeProofs.tla

## The system

| part | source | state it keeps | talks to |
|---|---|---|---|
| Orchestrator bridge | `agent_aiopslab.py` (`GraphRCAAgent`), `swarm_agent_aiopslab.py` | two semaphores, two message slots, a stop event, a generator | the orchestrator (`get_action`, in the main thread), the pipeline (in a daemon thread) |
| v5 agent | `agent_aiopslab.py` (`GraphRCAAgentV5`), `planner/router.py`, `planner/context.py`, `graphrca/scratchpad_io.py` | `AgentContext`: paths, consumed flags, last text, pending action | the orchestrator (a coroutine, no thread), the ScratchPad server, a small language model |
| Deterministic pipeline | `graph.py`, `state.py`, `nodes/` | `PipelineState`, one dictionary through eleven nodes | tools, the incident memory |
| Mitigation retry loop | `agent_aiopslab.py:738-792` | attempt, report, reflection | the pipeline, kubectl |
| Swarm pipeline | `nodes/observer_agent.py`, `topological_diagnoser.py`, `rca_analyst_agent.py`, `guardrail_actuator.py` | `AIOpsIncidentState`, a ScratchPad session | the ScratchPad client, the bridge |
| Multi-agent fan-out | `nodes/triage_agent.py`, `planner_agent.py`, `mcp_worker.py`, `synthesis_agent.py` | `worker_results` in `PipelineState` | MCP servers, the pipeline (before and behind it) |
| ScratchPad clients | `tools/scratchpad_client.py`, `scratchpad_interceptor.py`, `mcp_client.py` | SQLite tables of sessions, logs and edges | the agents |
| Incident memory | `tools/pipeline/memory_tools.py`, `nodes/memory_rag.py` | SQLite incidents, embeddings, a process-wide singleton | the pipeline |
| Undo stack | `tools/safety_tools.py` | a stack of (command, revert) pairs | the safety check |
| Algorithms | `tools/pipeline/*_tools.py`, `tools/causal_tools.py` | none, or baselines | the nodes |
| Drivers | `run_pipeline.py`, `run_all_tasks*.`, `eval/` | none | the agents, the orchestrator |

The legacy and the swarm agent run their work in a daemon thread and hand commands
to the orchestrator's `get_action` through a generator and two semaphores. The v5
agent has no thread: every `get_action` commits the environment's last answer,
scans a table of variables in dependency order and returns the first action a
resolver asks for, or submits. The pipeline is a LangGraph graph whose nodes catch
their own exceptions, set `status: failed` and let the next node run.

### What is hard

* *Interleaving.* `get_action` and `_run` share semaphores, slots and an event;
  `finalize` stops a thread that may be anywhere (`agent_aiopslab.py:274-382`, `647`).
* *Stale texts.* The v5 resolvers consume "the last response", whatever action it
  answered (`context.py:191`), and tell the first metrics read from the second by
  two flags (`context.py:201`, `router.py:336-342`).
* *Failures that look like success.* A failed read of the ScratchPad gives the same
  empty dictionary as a finished task (`context.py:359`); kubectl's failure is a
  text (`kube_tools.py:62`); a failed node does not stop the pipeline
  (`graph.py:90-117`).
* *Retries.* The mitigation loop runs again on a cluster it has already changed.
* *Parallel writes.* The workers of a superstep write the same keys of a state
  without reducers (`mcp_worker.py:66`, `state.py:83`).
* *Memory across runs.* One process keeps one incident store, whatever directory its
  runs are given (`memory_rag.py:32`), and swallows its errors (`memory_tools.py:145`).
* *Rankings of rankings.* The causes are sorted by three nodes in turn, each on what
  the last one left, and stored before the last of them.
* *Transactions.* The rollback promised for every mitigation is decided by a score
  computed before anything was executed (`undo_agent.py:38-52`).

`PROJECT.json` lists each of these at its line, with the properties about it.

## The modules

### `Exchange`, `AgentBridge`, `AgentBridgeProofs`

`Exchange` is what the orchestrator is promised: it asks, one command comes back
that was computed from that very observation, and nothing follows a submission.

`AgentBridge` is the code. `thread` and `generator` are the places where `_run` and
`_communicator` stand in the daemon thread (a generator runs on the thread that
calls `send`), `main` is where the orchestrator's thread stands in `get_action` or
`finalize`. Every access to a semaphore, slot or event is a step of its own:
`PostObservation`, `ReleasePrompt`, `AcquireCommand`, `ReturnCommand` are the four
statements of `get_action`; `CheckStop`, `AcquirePrompt`, `PromptTimeout`,
`YieldPrompt`, `ReleaseCommand` the generator's loop; `Query`, `SubmitResults`,
`SubmitDefault`, `SetStop` the sends of `_run`. `main` never reads the command slot
before its permit, and `finalize` only starts after `start_problem` returned. An
observation is its number; a command carries the observation its sender held.
`Environment` is external: a submission may be accepted, rejected with another
observation, or raise.

### `V5Resolvers`, `V5Router`, `RouterProofs`

`V5Resolvers` has each resolver of `planner/router.py` as a set of outcomes: the
action asked for, the context and the ScratchPad board it leaves, whether it raised.
`V5Router` is an episode: `Observe` is `commit_environment_response`, `Plan` and
`ScanStep` are `plan_next_step`, `SubmitResolved`, `TryAgain`, `SubmitBestEffort`
the loop of `get_action`. The board (rows still missing, variables a fact names) is
external. A text is where it came from and whether it is *marked* as log data.
`faults` is fixed per episode: reads may fail, calls may raise, citations may be
rejected (422), the small model may fail or say something else, and may call a variable
missing again; each may happen any number of times. `answered`, `basis` and `verdict` are history variables.

### `Pipeline`, `MitigationRun`, `MitigationProofs`

`Pipeline` has one action per node of the graph, with every outcome of the node
(what it needs is missing, it raises and reports, it succeeds), the conditional
edge after the safety check, and the one exception a node lets out
(`ReportCrashes`, `run_pipeline.py:250-254`). Health scores are in hundredths, so
that the tolerance 0.05 is 5. `MitigationRun` extends it with the retry loop:
`InvokePipeline`, `RunNode`, `ExecutePlan`, `Validate`. The cluster is external.

The rollback branch of the safety check is in the model although no state reaches
it; that it is unreachable is a theorem. Left out there: the effect of reverts on
the cluster (they happen only in that branch), the cut to `max_cmds` commands (the
default of 4 is not below the number of remedies), the HotelReservation image fix
(off by default), Neo4j, and the optional LLM steps.

### `Observer`, `Diagnosis`, `Swarm`, `SignalProofs`, `SwarmProofs`

`Observer` has the four parsers as operators on rows and lines: `ParseTraces` (error
spans, calls, a service at twice the median duration), `ParseKubectl`, `ParseMetrics`
(the stronger of `CrossSectionalOutliers` and `TemporalOutliers`) and `ParseLogs`
(a refusal is the callee's). Every comparison of means, medians and deviations is
multiplied out, so that it is one of integers. A row is a record; names are values,
and `Canonical` says what `_canonical_svc` makes of one: the name of a pod becomes its
service's, and a bare name of three parts loses two of them. Relevances are in
hundredths; the code's logarithms are tables over counts (up to `MaxCount`) and
doublings of ratios. A service has one pod with metrics.

`Diagnosis` is the rest of the half that no model takes part in: `Anomalous` is the
observer's flag, `Score`, `Candidates` and `Nominations` the diagnoser's ranking,
`Reranked` what labels of the model may do to it. Priors are in hundredths, weights in
tenths, so that scores compare as the code's products do. PageRank only breaks ties
between equal scores: `Nominations` is the set of all rankings that agree with them.

`Swarm` is the agent. `phase` is where its thread stands (`_run`, the retry loop,
`_submit_results`), `node` the place in the graph of four; there is one action per
node and outcome: `ObserverAgent`, `TopologicalDiagnoser`, `RcaAnalyst` (the choice
of mode), `DrillFinal`, `DrillDown`, `DrillGivenUp`, `SingleShot`,
`GuardrailActuator`, and `GraphCrashes` where a node lets an exception out. `board`
is the session in the ScratchPad: what the observer committed and the cause the
analyst did. The store behind it has the full schema, the minimal one of the
fall-back (`scratchpad_client.py:81-127`, which lacks a column that `get_triplets`
selects, so that every read is empty), or is flaky and may refuse any access.
`Collect` fetches pods, traces and metrics, any of which may be missing, and the logs of
the names those gave. External: the telemetry, the replies of the model (`Replies` are
the names it may give), the pods. `origin`, `observed` and `fix` (whether the repair
command was run, which happens in the submission, behind every validation) are history. Left
out: the columns of the CSV files, the limit of six services whose logs are read
(the instance has four), the prompts, the patch of the fall-back without telemetry,
and the sends and the stop event, which are `AgentBridge`'s.

### `Ordering`, `Spans`, `RootCause`, `IncidentMemory`, `Analysis` and their proofs

`Pipeline` says which node runs next and what becomes of it; `Analysis` extends it with
what the nodes compute, and with the multi-agent mode around them.

`Ordering` is how the code makes lists of lists: `Pick` keeps the elements at some indices
(a list comprehension), `SortedDown` is `sorted` with `reverse=True`, `Distinct` drops the
repetitions. All three give every index they keep its place. The diagnoser of the swarm
uses them too.
`Spans` is what is read off a trace file: deduplication (`Deduplicated`; a row without
an id is keyed by its other fields, and raises if it has a numeric start time),
statistics per service, `CallEdges`, the EWMA baselines. `RootCause` is what is
concluded: `AlertsOf`, `BackwardPaths` (the breadth-first search as the levels of its
queue), `Score`, `SilentServices`, `Ranking`, and the re-rankings: `CausalRanking`,
`SynthesizedRanking`; `Plan` the remedies. Everything is in integers: rates in 0.0001,
alert scores in 0.001, confidences in 0.000001, an EWMA with its `unit`, a power of ten
that grows with each value (`Window` is the last hundred of them, `Recent` the last ten),
a z-score rounded down to an integer, at most 10. The code's thresholds are kept: a spike
is a z-score of 3 or more, and a latency counts when it is more than two deviations off
(`Deviates`, on the exact quotient). The code rounds mean, deviation and z-score to 0.001;
the model is exact, and the two can disagree on a spike only where the deviation is below
0.002 ms. A reply of the synthesis adjusts any number of services. A sort is stable, as Python's is. The visited services are a Python set of strings, whose order
is the process's: `input.order`. The scores of the lagged correlations
(`causal_tools.py:83-160`) are left open: 0 or 1 for every service with enough spans.

`IncidentMemory` is the SQLite table per path, the signatures, the search, and `handle`,
the store object of the process. `Analysis` puts runs of `run_pipeline` in sequence over
that memory, in one process or in a new one (`Invoke`): `Triage`, `Planner`, `Worker`,
`EndSuperstep`, `Aggregate`; then the nodes of `Pipeline` with their data
(`RunDetection`, `RunMemorySearch`, `RunRca`, `RunCausalRanker`, `RunMitigation`,
`StoreIncident`), `Synthesis` and `Report`. Each conjoins the action of `Pipeline` with
the data of every outcome. `EndSuperstep` is langgraph's, and external: a key without a
reducer takes one value in a superstep, and two raise. Left out: the parsers of the
trace formats, the isolation forest and log detectors, the optional scorer and
re-ranker of a language model, the infrastructure layer and Neo4j, reports.

## The runs

| run | instance | what it shows |
|---|---|---|
| `bridge` | 5 calls of `get_action`, 5 queries, all answers of the environment | every interleaving of the two threads: the turn is never duplicated or lost, the refinement of `Exchange`, the liveness of `get_action` |
| `router` | the four task types, 8 iterations, five fault sets | evidence before submission, fetch order, what detection and localization compute from, no wasted fetch, the guard, no rollback in any case, termination of detection and localization |
| `mitigation` | 2 alerts, 2 remedies, 3 attempts | no remedy without its diagnosis, errors survive, the loop ends, the rollback is never entered |
| `router_loop` | `asyncio.run` not reentrant | **violated**: `get_action` raises |
| `router_read` | reads may fail | **violated**: an unfinished task is submitted as resolved |
| `router_health` | mitigation, no faults | **violated**: the post-mitigation metrics never arrive |
| `mitigation_regression` | a remedy may make things worse | **violated**: no rollback before the report |
| `swarm` | 4 services, 36 incidents, 4 settings, 2 attempts | the flag follows the evidence, residue of old faults is none, causes rank before their callers, the board agrees with the blame, no blame without a signal, termination |
| `swarm_names` | as `swarm` | **violated**: a service goes by a name it does not have |
| `analysis` | 2 runs on 7 trace files, 2 directories, 2 processes, 5 strategies of up to 3 workers | alerts are errors, the ranked causes lead to the service that failed, no re-ranking loses or doubles one, recall is by cause, no worker is lost, what is stored is what is reported, the memory only grows, every run ends |
| `workers` | as `analysis` | **violated**: two parallel workers end the invocation |
| `override` | as `analysis` | **violated**: the overridden cause is sorted away again |

*Bounds.* Five calls and five queries leave room for a full query sequence of the
legacy agent (get, read, submit) and of the swarm, an early stop, a rejected
submission and a late thread; the thread's behaviour depends on no larger count, and
the proofs hold for all. Eight iterations is the code's own value. The fault sets
are no fault, each kind that can be alone, and the pairs that interact. Three
attempts is the code's `MAX_RETRY_ATTEMPTS`; one alert more than none distinguishes
the scores, two let one score lie between others; two remedies let one fail after
the other. `Stray` is one variable a small model may touch out of its phase.
The swarm's incidents are a chain or a cycle of requests with no fault, one or two of
them, or one that shows on every service: residue of an old fault, a pod that is down,
a jump of CPU or memory on one service or two, a slow one, one that is always bigger, an
error, a refusal. The relevances lie on either side of the floor of 0.30, and the
widespread fault on either side of the ceiling of 0.3. Six points are the shortest
series the temporal detector judges. The system has a service whose name has three
parts, a data store and an infrastructure pod.
`TopK` is 3 where the code has 8, so that four candidates and the
token are cut; two attempts show a retry after a fresh session, and each attempt
starts from the same state; the three rounds of the drill-down are the code's. The
settings switch drill-down, re-ranking and the store, each against the others once.

The trace files of `analysis` are one per case of the code: a failing chain, a call back
with a span that came twice, two traces with the same ids, a service that becomes slow,
rows without ids (with and without start times), and one failure among twenty spans,
on and just below the threshold of alerts. The first run may be given any of them, the
second the chain, which recalls what the first stored, or the file that cannot be
ingested. `MaxDepth` is 2 where the code has 5, so that a chain of four is cut;
`CausalSpans` is the code's 7; `RecallLimit` 2 (5 in the code) and `MaxQueries` 2 (8)
let more rows and more assignments than the limit exist. A baseline is made of at most
three durations below ten, so that its exact variance fits TLC's integers: `Many` has
two requests per service among its twenty spans for that reason. What the runs cannot
show of longer series, the theorem does (`AlertsAreOfErrors`).

*Reentrancy.* Inside the orchestrator's event loop `asyncio.run` raises at the first
ScratchPad call (`router_loop`). The other runs of the router take `Reentrant = TRUE`,
which is the program with an event loop that permits it (or a driver that calls `get_action` from its own thread): they check the
planner's logic, which is otherwise never reached.

*Deadlock.* It is checked in all runs but `bridge`. There a rejected submission
leaves `get_action` on `command_semaphore.acquire()` for ever, since the thread has
ended; `NoOrphanedCaller` says that this is the only way.

*Fairness.* `bridge`: weak fairness of either thread as a whole, which is the
operating system's scheduling, plus that the work between two sends ends. `router`:
weak fairness of `get_action`'s own steps and of the orchestrator calling again, and
strong fairness of non-blank responses: the environment answers in the end.
`mitigation`, `swarm` and `analysis`: weak fairness of the agent's or the driver's
thread, each of whose calls returns; a new run is never forced. The 30 steps of the orchestrator
are not used as a reason for termination. `EpisodeEnds` is claimed for detection and
localization only: an analysis whose logs stay unmarked repeats `get_logs`, and a
mitigation repeats `exec_shell` or the metrics of its health check, until the step budget
ends the episode.

## What is proved

*`AgentBridgeProofs`*, for every step and query budget and every set of
environment outcomes (`BridgeAssumption`). The properties are not inductive: that a
command answers the observation of its call rests on who holds the turn. `BridgeInv`
says it: outside `get_action` no permit exists and the generator is in its wait
loop; inside, the turn is the prompt permit, the thread, or the command permit
(`TurnInv`); the places of thread and generator determine each other (`PlaceInv`);
the slots hold what the holder of the turn is about to read (`SlotInv`); a
submission under way is the last thing sent (`SubmitInv`). From it:
`BridgeType`, `ExchangeIsSynchronous`, `OneSubmission`, `TurnIsNeverLost`,
`NoCommandIsLost`, `NoCallerIsOrphaned`, and `BridgeImplementsExchange`, where `asked` is the number of prompt permits
released and `log` the commands returned: `ReleasePrompt` asks, `ReturnCommand`
answers, all other steps stutter.

*`MitigationProofs`*, for every set of remedies, every bound on alerts and every
number of attempts. `MitigationInv` says, per place in the graph, what the nodes
passed so far have left: the recorded score is the score of the recorded alerts
(`HealthInv`), a failed node left nothing and what builds on it has nothing either
(`FailureInv`), and the loop's bookkeeping (`LoopInv`). From it: `MitigationType`,
`RollbackIsNeverEntered`, `NoBlindRemedy`, `ReportIsEarned`, `ErrorIsReported`.

*`RouterProofs`*, for every set of faults, every reach of the small model and every
number of iterations (`ResolverAssumption`, `StrayAssumption`, `RouterAssumption`). One
lemma per resolver says what its outcomes may do to the context and the board; the
inductive invariants use these and nothing else. `TypeInv` adds to the types that the
scan looks at open rows, and that there is never a health text, nor a rollback, which only
a health text can cause: without it the count of rollbacks is not in its range
(`RouterType`). From it also `RollbackNeverHappens`: asking for the metrics of the health
check clears the flag by which their answer would be filed as health text.
`OrderInv` ties four pieces of state together: a consumed flag means that the read was
answered; and, while reads do not fail, a closed row, a place in the table that is
behind the scan, and the end of the scan each mean that the telemetry of that row was
read. From it, `EvidenceComesFirst` and `FetchesInOrder`, both under the hypothesis
that the small model does not touch ROOT_CAUSE_SERVICE out of its phase: one that does
closes the row before the traces are read, and nothing in the code asks for them then.

The second half of `RouterProofs` is about what the router computes from, under the same
assumptions. `ScanInv` says that a scan works on all rows that are missing, or on none, as a read that
failed reads. `DetectionInv` says why the detection runs on metrics when the small model
answers well: while its row is open nothing but metrics is asked for, and once they are
read theirs is the last text, so that the next scan starts at the row and closes it. From
it `DetectionRunsOnMetrics`, reads that fail included. `LocalizationInv` says the same of
the traces, through attempts that are rejected (they name no service, so that no logs are
asked for in between); `LocalizationRunsOnTraces` needs that the
small model does not touch ROOT_CAUSE_SERVICE out of its phase. `FetchInv` ties what was
answered to the paths and the flags of the context; from it `FetchesOnce`, and by the
cases of the guard `GuardBlocks`, two properties of steps.

*`CountingProofs`*, for every sequence and every key: `PickKeeps` and `SortedDownIsStable`
say that what comes out has exactly the elements that were kept, each once, and in the order
that was promised; the sort leaves equal keys in the order they came in, as Python's does. Both rest on one fact about counting (`PlacesAreExact`): if the place of
an element is the number of those that come no later in a total order of a finite set, the
places are 1 to the size of the set without a gap. From it follow the greatest and the
least element of a finite set, and an induction over its subsets that needs no operator for
a parameter (`ByRemoval`); an induction over an interval of the same kind (`Onwards`) shows
that a recursive function there is what its equation says (`RecursionIsSound`). The sums of
the community modules are a choice among functions of subsets: there is one that fits, the
number of units (`SumIsCount`), and from that they split, compare and agree (`SumSplits`,
`SumsCompare`, `SumsAgree`). What `Pick`, `Distinct` and `FlattenSeq` hold is what they were
given (`PickedRange`, `DistinctRange`, `FlattenRange`).

*`RootCauseProofs`*, for every trace: the alerts, the ranking and the two re-rankings are
lists of records on services that were given, with integer scores (`AlertsAreOf`). The
ranking names exactly the visited services the process lists, each once (`RankingIsOf`), and
either re-ranking the same ones again (`CausalRankingIsOf`, `SynthesisKeeps`, which also
puts none first that is trusted less than another).

`LatencyNeverSpikes` is about the baseline: the mean of the last w durations of a series, w
up to ten, is never three of its EWMA deviations off its EWMA mean, whatever the series.
Let y be how far a new duration is from the mean, E the sum of the last w differences from
the mean, V ten times the variance, in units that grow tenfold with each value. A value
turns E into 10 E + (7 - 3 w) y and V into 147 y^2 + 70 V. The invariant is
10 E^2 <= Bounds[w] V for each w (`Near`): it carries over from w to w + 1 because a
quadratic form in E and y is never negative, which is an inequality of the numbers in
`Bounds` (`BoundCarries`, `BoundGrows`), and each of them is below 9 w^2
(`NearIsNoSpike`). `TotalIsASum` and `EwmaIsUpdated` make the recursive functions of `Spans`
into sums and steps. With it, the alerts are of the services that fail, and of all of them
(`AlertsAreOfFailing`): what latency and unknown codes add to a score stays below 0.3.

`SearchIsExact` is about the backward search, whose paths are simple: a caller that is on a
path is not followed again, and only complete paths count. A service within k calls still
ends a path of at most k calls, by induction over k (`AllWithinEnd`): if the caller is on the
path already, a shorter path ended there. Every path is part of a complete one, by induction
from the longest down (`PathsAreCovered`), and none leaves what is within as many calls as it
has (`PathsStayWithin`). So the search misses nothing, unless it stops at `MaxPaths`
complete paths; then what it finds is still within reach.

*`AnalysisProofs`*, for every set of traces, directories, strategies and replies, every
limit and any number of runs. `AnalysisAssumption` says that rows are rows, that a name
is not the value that stands for none, that an order of the services has all of them, each once,
and that `Remedies`, a parameter of `Pipeline`,
has the commands for every service; `DetectionsAssumption` that `MaxAlerts`, the bound of
`Pipeline`, is not below the alerts of any file (in the code a list has no bound);
`MemoryAssumption` is that of the memory.
`NoWorkerIsLost` rests on `WorkersInv`: every worker of a superstep was sent no result
and returns one, its own, so that the one update that does not conflict is all there
is. `RecallIsExact` rests on `RecallInv`: a row whose signature names no cause has its
service for a cause. `MemoryOnlyGrows` rests on `IdInv`: up to the store no row has the
number of the run, so that REPLACE replaces nothing but the incidents without an id.
`TypesHold` rests on `TypesInv`: what the nodes passed so far have left (`FlowInv`),
since a node that finds no data of an earlier one takes another path than one that does,
and the shapes of the data, the tables and the agents' fields. `ReportMatchesMemory` rests
on `ReportInv`, that from the store on some cause of the ranking accounts for the row of
this run, the first one unless a synthesis put another before it, and on
`SynthesisKeeps`, that the one accounted for is still there. `CausesAreKept` rests on
`CausesInv`: a ranking has the causes that the search of this run finds (`Found`), each
once, and there is none before the search. So a search that is repeated (the graph would
return to it after a rollback, which no run reaches) finds the same ones, since nothing
behind the detection moves its start. With it, `CausesAreReaching` is `SearchIsExact` of the
trace file. `AlertsAreOfErrors` rests on `AlertInv`, that a run
with baselines has the alerts of its own trace file, and on `AlertsAreOfFailing`.

*`SignalProofs`*, for any telemetry: what the parsers find are signals
(`ParsedIsEvidence`), and where there is no fault they find none (`NoneIsSlow`,
`NoneIsOutlying`, `NoneHasShifted`): twice the median is a sum of two durations that
exist, the peak of one series is held against the sum of all of its metric, and the gap
between the means of a series of one number is 0. A score is positive exactly for the
services with a signal (`ScoreIsPositive`), so that they come first with or without labels
of the model (`FirstIsFlagged`), and services of one role with the same signals have the
same score but for the factor of a caller (`CallerIsBehind`). It asks that the services are
finitely many, that none goes by the name of an error, and that every one has a role.

*`SwarmProofs`*, for every set of incidents, services, replies and settings and any
number of attempts and rounds. `SwarmAssumption` says that rows are rows and finitely many,
that a series has a point, that no service has the name that stands for none or that of
an error; `DiagnosisAssumption` that every service has a role. `EvidenceInv` is the chain
the properties rest on, true at every node and over every crash: a root comes from
suspects, suspects from signals, and the session never shows a signal that the observer
did not find. `CauseInv` says that nothing but the end of an analyst writes root and
cause; `ReportInv` that the report of a graph is founded on that chain and that no repair
runs before the submission, unless the agent had no telemetry. From them
`BoardAgreesWithBlame`, `DetectionIsTheEvidence` and `BlameRestsOnEvidence`. `TypeInv` adds
to the types that the telemetry stays what may be collected, and that an attempt is left
at the start of one (`SwarmTypes`). `FirstSuspectHasSignal` and `CalleesComeFirst` rest on
`RankingEffect`: whatever changes the evidence on the board clears the suspects, so that
they always are a ranking of what it shows. `QuietIsAnsweredNo` rests on `QuietInv`:
without a fault no signal is found, no report but that of the cluster raises an alert, and
a report without a graph holds no submission; a default report, which answers Yes, is the
one exception `NoFaultIsNo` makes.

Model-checked only: the liveness properties (`GetActionReturns`, `StoppedThreadEnds`,
`EpisodeEnds`, `MitigationEnds`, `SwarmEnds`, `AnalysisEnds`: fairness and ENABLED are
out of the prover's reach). Every safety property of a passing run is a theorem. In the
small instances no search has more than `MaxPaths` paths (`Uncut` holds every search), so that
a search which is cut is covered by the proof alone.

## Divergences between documents and code

Seven have a run (see `PROJECT.json`, "findings"). Others, read in the code and
visible in the models, without a run:

* When the small model fails, anomaly detection runs again on whatever text arrived
  last (`AnomalyFromMetrics` excludes it), and its "no anomaly" commit never names the
  variable, so that `build_submit_call` finds no value and answers "Yes".
* The deterministic fault-type commit does not name its variable either: an analysis
  that takes that path submits "Unknown".
* `_need_logs` looks for the words of an error in the last response, which may be the
  traces: the fault type is then classified from traces.
* A guard verdict FAIL whose commit raises is executed (`router.py:301-318`;
  `GuardFailBlocks` excludes it), where the comment takes every exception there for a
  guard that gave no answer.
* `_need_execution` says that it "Returns None only if we have already executed"
  (`router.py:224-225`). Resolving MITIGATION_ACTION deletes its row and leaves no fact
  that names it, so that without a fault nothing is ever executed; and when the small
  model names it, nothing resolves MITIGATION_EXECUTED, so that the same command is sent
  again in every turn.
* A pipeline with failed nodes ends with status "complete"; only `error` tells.
* `additional_context` is read by the multi-agent triage only: in the pipeline a
  retry plans the same remedies on the same traces.
* `route_on_failure` (`graph.py:58`) is not wired to any edge.
* `finalize` says it waits for the thread; it waits 10 seconds.
* Without a cluster, kubectl's error text (`kube_tools.py:62`) holds the word the pod
  check looks for (`agent_aiopslab.py:1085`), so that the attempt is repeated where the
  comment (`agent_aiopslab.py:1095`) would "treat as success".
* One refusal (weight 8, relevance 0.18) does not outweigh stacked resource metrics,
  which the comment on the weight (`topological_diagnoser.py:126-128`) says.
* A graph that crashes after its observer found an anomaly answers a detection with
  "No", from an empty report (`GraphCrashes`; `DetectionFollowsEvidence` excludes it),
  where the actuator calls detection a binary decision driven by the observer's flag.
* On the minimal schema `get_triplets` always answers with an empty list, so that no
  suspect is ever named (`Triplets`).
* The citation match the README draws (README.md:82, 131) is not
  checked in the swarm: a root cause the model names need not be a suspect (`SingleShot`).
* A retry of the swarm neither collects telemetry again nor reads the reflection
  (`InvokeGraph`).
* The prefixes that keep error names from being nominated
  (`topological_diagnoser.py:11-18`) fit no CONNECTION_REFUSED, which
  `observer_agent.py:817` emits and line 174 nominates.
* The concentration of magnitudes is a share of the services with any signal
  (`observer_agent.py:890`): one strong service alone is 1.0, above the ceiling, and so
  "systemic noise", where the comment has chosen this denominator "so a small deployment
  isn't unfairly penalized" (884-887).
* The swarm's repair is run in its submission (`swarm_agent_aiopslab.py:341`): the loop
  that "validates pod health after executing fixes" (`agent_aiopslab.py:741-743`) has
  nothing of it to validate.
* The memory is one per process, by the first output directory, where the comment has a
  "per-run DB under output_dir" (`memory_rag.py:35`).
* An incident whose INSERT fails is reported as stored: nobody looks at the result of
  `store_incident` (`memory_tools.py:145`, 385; `memory_rag.py:182`).
* A row without an id whose start time is a number raises (`ingest_tools.py:325`), and
  the whole file is lost, where the comment (318-319) promises a fall-back key.
* Parents are looked up by span id alone (`graph_tools.py:47`, `ingest_tools.py:390`):
  two traces that use the same ids get edges between their services.
* The signature of a search never has a root cause (`memory_tools.py:319-326`), that of
  a stored incident always has one (371-380): the equality of signatures finds nothing.
* The temporal order is that of the first spans, of whatever kind
  (`causal_tools.py:37-46`), where its docstring says errors.
* The graph builder reads the alerts before the detection has made them
  (`graph_builder.py:98`): no infrastructure edge is ever built from one.
* A latency that is judged against a baseline of the same spans stays below a z of 3
  (`AlertsAreErrors`): README.md:157 speaks of z-score alerts.
* The causal re-ranking leaves the `rank` of the candidates, the root of the fault tree
  and the suspect services of the ranking before it.

## Not modelled, and why

* Parsers of trace files, kubectl tables beyond the rules above, Jaeger and CSV formats:
  data conversion without state; the models start at rows.
* Floating point beyond what integers hold: PageRank, lagged correlations, isolation
  forest, the language model's scorer. Their results are free choices.
* The drill-down of the ScratchPad (`mcp_client.py`, `scratchpad_interceptor.py`): reads
  of one session, by one agent at a time. An edge that replaces another needs two
  writers of one relation, which the swarm does not have.
* Reverts (`rollback_all`): they happen in the rollback branch only, which
  `RollbackIsNeverEntered` shows to be dead.
* `agents/guard.py`, `agents/archivist.py`: not called by the turn loop.
* Prompts, reports, trace logs, the batch drivers, the scoring of answers, Neo4j, eBPF
  and Grafana access, shell scripts: input and output around one call each.
