--------------------------------- MODULE Swarm ---------------------------------
(***************************************************************************)
(* SwarmGraphRCAAgent: the telemetry it collects, the graph of four agents *)
(* over a ScratchPad session (observer, diagnoser, analyst, actuator), the *)
(* retry loop it inherits for mitigation, and the answer it submits.       *)
(*                                                                         *)
(* External: the telemetry that arrives, every reply of the language       *)
(* model, what kubectl says of the pods.  The bridge that carries the      *)
(* answer is AgentBridge.                                                  *)
(***************************************************************************)
EXTENDS Diagnosis

CONSTANTS
    Incidents,         \* the telemetry there may be to collect
    Deployed,          \* the services of the application
    Replies,           \* the names the model may give in a reply
    Settings,          \* how the agent may be set up
    MaxRetryAttempts,
    MaxRounds          \* GRAPHRCA_SP_MAX_ROUNDS

\* The store has the full schema, the minimal one of the fall-back (which lacks a
\* column get_triplets reads), or may refuse any access.
Stores == {"full", "minimal", "flaky"}

ASSUME SwarmAssumption ==
    /\ MaxRetryAttempts \in Nat \ {0}
    /\ MaxRounds \in Nat
    /\ Deployed \subseteq Services
    /\ Replies \subseteq Services \cup {Token}
    /\ IsFiniteSet(Services) /\ {Nobody, Token} \cap Services = {}
    /\ Settings \subseteq [drill : BOOLEAN, rerank : BOOLEAN, store : Stores]
    /\ \A t \in Incidents : Typed(t) /\ \A source \in Telemetry : IsFiniteSet(t[source])

VARIABLES
    task,       \* task_type
    setting,    \* drill-down, re-ranking, the store behind the ScratchPad
    seen,       \* the telemetry: of the cluster, then on disk
    phase,      \* where the agent's thread stands
    attempt,
    node,       \* the next node of the graph, or END
    round,      \* the rounds of the drill-down so far
    state,      \* AIOpsIncidentState
    board,      \* the session of this attempt in the ScratchPad
    report,     \* what _run_pipeline, or a fall-back, returned
    answer,     \* the submission
    fix         \* history: whether a repair was run

graphVars == <<node, round, state, board>>
vars == <<task, setting, seen, phase, attempt, graphVars, report, answer, fix>>

Tasks == {"detection", "localization", "analysis", "mitigation"}

NoName == Nobody
Unknown == "unknown"
Names == Services \cup {Token}

NodeNames == {"observer_agent", "topological_diagnoser", "rca_analyst", "drill",
              "single_shot", "guardrail_actuator", "END"}
Phases == {"collect", "start", "graph", "validate", "submit", "done"}

\* exec holds a command, list a name; blank is submit().
Answer == [form : {"nothing", "Yes", "No", "list", "class", "exec", "blank"},
           name : Names \cup {NoName, Unknown, "fix", "forbidden"}]
Plain(form) == [form |-> form, name |-> NoName]
Nothing == Plain("nothing")
Blank == Plain("blank")
ListOf(n) == [form |-> "list", name |-> n]

\* observed is history: the evidence the observer parsed, committed or not.
State == [anomaly : BOOLEAN, observed : Evidence, suspects : Seq(Names),
          root : Names \cup {NoName}, submission : Answer]
FreshState == [anomaly |-> FALSE, observed |-> NoEvidence, suspects |-> <<>>,
               root |-> NoName, submission |-> Nothing]

Board == [evidence : Evidence, cause : Names \cup {NoName}]
FreshBoard == [evidence |-> NoEvidence, cause |-> NoName]

\* origin is history: which path made the report.
Report == [origin : {"nobody", "unavailable", "graph", "crash", "cluster", "default"},
           alert : BOOLEAN, root : Names \cup {Unknown}, submission : Answer]
NoReport == [origin |-> "nobody", alert |-> FALSE, root |-> Unknown, submission |-> Nothing]

Init == /\ task \in Tasks
        /\ setting \in Settings
        /\ seen \in Incidents
        /\ phase = "collect"
        /\ attempt = 0
        /\ node = "END"
        /\ round = 0
        /\ state = FreshState
        /\ board = FreshBoard
        /\ report = NoReport
        /\ answer = Nothing
        /\ fix = "none"
-------------------------------------------------------------------------------
(* The agent before the graph.                                             *)

\* _discover_services, from the pods and the traces there are.
Discovered(t) == {x.service : x \in t["pods"]} \cup {SpanOwner(x) : x \in t["traces"]}

\* Logs are fetched by the names discovered, and there are none for a name that is not
\* a service's own.
Collected(sources) ==
    LET got == Only(seen, sources)
    IN  [got EXCEPT !["logs"] = {x \in @ : x.section \in Discovered(got) \ Infra}]

\* _collect_all_telemetry: each of the four sources may be missing.
Collect ==
    /\ phase = "collect"
    /\ \E sources \in SUBSET Telemetry : seen' = Collected(sources)
    /\ seen' # NoTelemetry
    /\ phase' = "start"
    /\ UNCHANGED <<task, setting, attempt, graphVars, report, answer, fix>>

\* Without any, _fallback_no_traces: a misconfigured port of some service, which a
\* mitigation patches and reads back, or pods that are not healthy, or nothing.
CollectNothing ==
    /\ phase = "collect"
    /\ \E primary \in Deployed \cup {Unknown}, unhealthy \in BOOLEAN :
          /\ report' = [NoReport EXCEPT !.origin = "cluster", !.root = primary,
                                        !.alert = primary # Unknown \/ unhealthy]
          /\ fix' = IF task = "mitigation" /\ primary # Unknown THEN "run" ELSE fix
    /\ seen' = NoTelemetry
    /\ phase' = "submit"
    /\ UNCHANGED <<task, setting, attempt, graphVars, answer>>

\* _empty_report_template
CrashReport == [NoReport EXCEPT !.origin = "crash"]

AfterGraph == IF task = "mitigation" THEN "validate" ELSE "submit"

\* A new session for every attempt; the telemetry is not collected again, and neither
\* the last report nor the reflection on it is used.
InvokeGraph ==
    /\ phase = "start"
    /\ phase' = "graph"
    /\ attempt' = attempt + 1
    /\ node' = "observer_agent"
    /\ round' = 0
    /\ state' = FreshState
    /\ board' = FreshBoard
    /\ report' = [NoReport EXCEPT !.origin = "graph"]
    /\ UNCHANGED <<task, setting, seen, answer, fix>>

\* get_graph builds the ScratchPad client, which opens the store; once it has, the
\* compiled graph is kept.
GraphUnavailable ==
    /\ phase = "start"
    /\ setting.store = "flaky"
    /\ report.origin \in {"nobody", "unavailable"}
    /\ phase' = AfterGraph
    /\ attempt' = attempt + 1
    /\ state' = FreshState
    /\ board' = FreshBoard
    /\ report' = [CrashReport EXCEPT !.origin = "unavailable"]
    /\ UNCHANGED <<task, setting, seen, node, round, answer, fix>>

\* _submit_default: the log file of an attempt cannot be opened.
DefaultReport == [NoReport EXCEPT !.origin = "default"]

PipelineRaises ==
    /\ phase = "start"
    /\ phase' = "submit"
    /\ report' = DefaultReport
    /\ UNCHANGED <<task, setting, seen, attempt, graphVars, answer, fix>>
-------------------------------------------------------------------------------
(* The graph.                                                              *)

\* A node that ends normally; at the end of the graph the report is made.
Goto(next) ==
    /\ node' = next
    /\ phase' = IF next = "END" THEN AfterGraph ELSE phase
    /\ report' = IF next = "END"
                 THEN [origin |-> "graph", alert |-> state'.anomaly,
                       root |-> IF state'.root = NoName THEN Unknown ELSE state'.root,
                       submission |-> state'.submission]
                 ELSE report
    /\ UNCHANGED <<task, setting, seen, attempt, answer, fix>>

\* The observer's commit fails as a whole and is logged; a parser that fails leaves
\* nothing of its telemetry.
ObserverAgent ==
    /\ node = "observer_agent"
    /\ \E found \in {Found(seen)}, sources \in SUBSET {x \in Telemetry : seen[x] # {}} :
       \E parsed \in {Parsed(seen, found, sources)} :
          /\ state' = [state EXCEPT !.observed = parsed, !.anomaly = Anomalous(parsed.signals)]
          /\ \/ board' = [board EXCEPT !.evidence = parsed]
             \/ setting.store = "flaky" /\ UNCHANGED board
    /\ round' = round
    /\ Goto("topological_diagnoser")

\* get_triplets answers with nothing when its query fails.
Triplets == CASE setting.store = "full" -> {board.evidence}
              [] setting.store = "minimal" -> {NoEvidence}
              [] OTHER -> {board.evidence, NoEvidence}

\* Without a signal nobody is a candidate, which the code answers early.
TopologicalDiagnoser ==
    /\ node = "topological_diagnoser"
    /\ \E e \in Triplets : \E scored \in {Scored(e)} : \E q \in Nominations(scored) :
          IF setting.rerank /\ task # "detection"
          THEN \E labels \in [DOMAIN q -> DOMAIN Multiplier] :
                  state' = [state EXCEPT !.suspects = NamesOf(Reranked(q, labels))]
          ELSE state' = [state EXCEPT !.suspects = NamesOf(q)]
    /\ UNCHANGED <<round, board>>
    /\ Goto("rca_analyst")

RcaAnalyst ==
    /\ node = "rca_analyst"
    /\ UNCHANGED <<round, state, board>>
    /\ Goto(IF state.suspects = <<>> THEN "guardrail_actuator"
            ELSE IF setting.drill /\ task # "detection" THEN "drill"
            ELSE "single_shot")

\* The cause an analyst commits, with the fields the model gave: a blank one is
\* skipped without a word, and a store that refuses raises.
CommitOutcomes == {"done", "skipped"} \cup {o \in {"raised"} : setting.store = "flaky"}

\* Mutated: the final answer of a drill-down falls through to the single shot.
DrillNextThrough == "single_shot"

\* Mutated: after it the analyst starts afresh.
DrillNextAfresh == "rca_analyst"

DrillNext == "guardrail_actuator"

\* A final answer that names a service.
DrillFinal ==
    /\ node = "drill" /\ round < MaxRounds
    /\ \E root \in Replies, commit \in CommitOutcomes \ {"raised"} :
          /\ state' = [state EXCEPT !.root = root]
          /\ board' = IF commit = "done" THEN [board EXCEPT !.cause = root] ELSE board
    /\ round' = round
    /\ Goto(DrillNext)

\* The neighbourhood of a suspect is added to the prompt.
DrillDown ==
    /\ node = "drill" /\ round < MaxRounds
    /\ round' = round + 1
    /\ UNCHANGED <<state, board>>
    /\ Goto("drill")

\* A reply that cannot be used twice over, a final answer without a name, an access
\* or a call that raises, or the last round passed.
DrillGivenUp ==
    /\ node = "drill"
    /\ UNCHANGED <<round, state, board>>
    /\ Goto("single_shot")

\* The service the reply names, or the first suspect when it names none or the
\* commit fails.
RootOf(named, commit) ==
    IF named = NoName \/ commit = "raised" THEN state.suspects[1] ELSE named

SingleShot ==
    /\ node = "single_shot"
    /\ \E named \in Replies \cup {NoName}, commit \in CommitOutcomes :
          /\ state' = [state EXCEPT !.root = RootOf(named, commit)]
          /\ board' = IF named # NoName /\ commit = "done"
                      THEN [board EXCEPT !.cause = named] ELSE board
    /\ round' = round
    /\ Goto("guardrail_actuator")

\* _set_default_submission; without a root it lists None.
DefaultSubmission(root) ==
    CASE task = "localization" -> ListOf(root)
      [] task = "analysis" -> Plain("class")
      [] OTHER -> Blank

\* _is_safe
Proposed(command) == IF command = "fix" THEN [form |-> "exec", name |-> command] ELSE Blank

\* What the replies of the model come to; one without JSON is the default.
Submissions(root) ==
    {DefaultSubmission(root)} \cup
    CASE task = "localization" -> {ListOf(n) : n \in Replies} \cup {Blank}
      [] task = "analysis" -> {Plain("class"), Blank}
      [] OTHER -> {Proposed(c) : c \in {"fix", "forbidden"}} \cup {Blank}

GuardrailActuator ==
    /\ node = "guardrail_actuator"
    /\ \E submission \in
            IF task = "detection" THEN {Plain(IF state.anomaly THEN "Yes" ELSE "No")}
            ELSE IF state.root = NoName THEN {DefaultSubmission(NoName)}
            ELSE Submissions(state.root) :
          state' = [state EXCEPT !.submission = submission]
    /\ UNCHANGED <<round, board>>
    /\ Goto("END")

\* The diagnoser opens the store outside a try; the single shot reads a view and
\* asks the model, and the actuator asks it, outside one: what they raise ends the
\* graph, and nothing of its state is kept.
GraphCrashes ==
    /\ \/ node = "topological_diagnoser" /\ setting.store = "flaky"
       \/ node = "single_shot"
       \/ node = "guardrail_actuator" /\ task # "detection" /\ state.root # NoName
    /\ node' = "END"
    /\ phase' = AfterGraph
    /\ report' = CrashReport
    /\ UNCHANGED <<task, setting, seen, attempt, round, state, board, answer, fix>>
-------------------------------------------------------------------------------
(* The agent after the graph.                                              *)

\* Mutated: no bound on the attempts.
AfterValidationUnbounded(ok) == IF ok THEN "submit" ELSE "start"

AfterValidation(ok) == IF ok \/ attempt = MaxRetryAttempts THEN "submit" ELSE "start"

\* _execute_mitigation_plan finds no plan in the report of the swarm and only looks
\* at the pods; then they are validated.
Validate ==
    /\ phase = "validate"
    /\ \E ok \in BOOLEAN : phase' = AfterValidation(ok)
    /\ UNCHANGED <<task, setting, seen, attempt, graphVars, report, answer, fix>>

\* GraphRCAAgent._submit_results: the answer from a report without a submission.
ReportAnswer ==
    CASE task = "detection" -> Plain(IF report.alert THEN "Yes" ELSE "No")
      [] task = "localization" -> ListOf(report.root)
      [] task = "analysis" -> Plain("class")
      [] OTHER -> Blank

DefaultAnswer ==
    CASE task = "detection" -> Plain("Yes")
      [] task = "localization" -> ListOf(Unknown)
      [] task = "analysis" -> Plain("class")
      [] OTHER -> Blank

\* The command is run here, once.
SubmitResults ==
    /\ phase = "submit"
    /\ phase' = "done"
    /\ answer' = CASE report.origin = "default" -> DefaultAnswer
                   [] report.submission.form = "nothing" -> ReportAnswer
                   [] report.submission.form = "exec" -> Blank
                   [] OTHER -> report.submission
    /\ fix' = IF report.submission.form = "exec" THEN "run" ELSE fix
    /\ UNCHANGED <<task, setting, seen, attempt, graphVars, report>>

Submitted == /\ phase = "done"
             /\ UNCHANGED vars

GraphStep ==
    \/ ObserverAgent \/ TopologicalDiagnoser \/ RcaAnalyst
    \/ DrillFinal \/ DrillDown \/ DrillGivenUp \/ SingleShot
    \/ GuardrailActuator \/ GraphCrashes

Work ==
    \/ Collect \/ CollectNothing
    \/ InvokeGraph \/ GraphUnavailable \/ PipelineRaises
    \/ GraphStep
    \/ Validate \/ SubmitResults

Next == Work \/ Submitted

Spec == Init /\ [][Next]_vars

\* The agent's thread is scheduled, and each of its calls returns.
FairSpec == Spec /\ WF_vars(Work)
-------------------------------------------------------------------------------
TypeOK ==
    /\ task \in Tasks
    /\ setting \in [drill : BOOLEAN, rerank : BOOLEAN, store : Stores]
    /\ Typed(seen)
    /\ phase \in Phases
    /\ attempt \in 0..MaxRetryAttempts
    /\ node \in NodeNames
    /\ round \in 0..MaxRounds
    /\ state \in State
    /\ board \in Board
    /\ report \in Report
    /\ answer \in Answer
    /\ fix \in {"none", "run"}

\* A detection answered by the graph says what the telemetry of the observer says:
\* one decisive signal is enough for Yes, and there is no Yes without a decisive
\* signal or a magnitude over the floor.  Neither the store nor the analysts in
\* between can change it, short of a crash.
DetectionFollowsEvidence ==
    phase = "done" /\ task = "detection" /\ report.origin = "graph" =>
        LET signals == state.observed.signals
        IN  /\ DecisiveSignals(signals) # {} => answer.form = "Yes"
            /\ answer.form = "Yes" => DecisiveSignals(signals) \cup OverFloor(signals) # {}

\* What an earlier fault left (restarts of pods that are up) and ordinary architecture
\* (a service slower or bigger than another, short of twice the usual) is no anomaly:
\* without an error, a refusal or a change a detection answers No.
NoFault(t) ==
    /\ \A x \in t["pods"] : x.status = "healthy" /\ x.up > 0 /\ x.restarts < RestartActiveFloor
    /\ \A x, y \in t["traces"] : ~x.error /\ x.duration < 2 * y.duration
    /\ \A x, y \in t["metrics"] : \A i \in DOMAIN x.values, j \in DOMAIN y.values :
          /\ x.metric = y.metric => x.values[i] < 2 * y.values[j]
          /\ x = y => x.values[i] = y.values[j]
    /\ \A x \in t["logs"] : x.words = {} /\ x.refused = Nobody

NoFaultIsNo ==
    phase = "done" /\ task = "detection" /\ report.origin # "default" /\ NoFault(seen)
        /\ seen # NoTelemetry => answer.form = "No"

\* The first suspect, which every fall-back of the analyst blames, is a service with
\* a signal of its own on the board: never a quiet neighbour, nor an error name,
\* whatever labels the model gave in a re-ranking.
FirstSuspectIsAnomalous ==
    state.suspects # <<>> => state.suspects[1] \in Flagged(board.evidence.signals)

\* Of two services of one role with the same signals, the one that calls the other
\* ranks behind it, unless that one calls an anomalous service as well.
CalleeBeforeCaller ==
    ~setting.rerank =>
        LET e == board.evidence
            Shown(svc) == {<<g.target, g.relevance>> : g \in {h \in e.signals : h.source = svc}}
        IN  \A i, j \in DOMAIN state.suspects :
                LET caller == state.suspects[i]
                    callee == state.suspects[j]
                IN  /\ <<caller, callee>> \in e.calls
                    /\ callee \in Flagged(e.signals) /\ ~CallsAnomalous(e, callee)
                    /\ Role[caller] = Role[callee] /\ Shown(caller) = Shown(callee)
                    => j < i

\* The cause the analyst left in the ScratchPad is the root cause the actuator acts
\* on, over both modes of the analyst and every failed commit.
CauseOnBoardIsRoot ==
    board.cause # NoName /\ node \in {"guardrail_actuator", "END"} => board.cause = state.root

\* The swarm blames a service, or runs a repair, only in an attempt whose observer
\* found a signal and whose diagnoser read it back; a repair has a root cause and
\* has passed the pattern check.
BlameHasEvidence ==
    phase = "done" /\ report.origin = "graph" =>
        /\ answer.form = "list" /\ answer.name \in Names =>
              state.observed.signals # {} /\ state.suspects # <<>>
        /\ fix # "none" => /\ report.submission.name = "fix"
                           /\ state.root # NoName /\ state.observed.signals # {}

\* The agent submits in the end.
SwarmEnds == <>(phase = "done")
-------------------------------------------------------------------------------
(* What the comments of the code say, and the code does not do.            *)

\* "Service names are preserved in their ORIGINAL case/format": a signal is about a
\* service of the application.
NamesArePreserved == Flagged(state.observed.signals) \subseteq Deployed
===============================================================================
